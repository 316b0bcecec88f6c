-------------------------------- MODULE Cards --------------------------------
(***************************************************************************)
(* The stream of agents' A2A cards between hubs (internal/aghub:            *)
(* a2acard.go, a2acard_withdraw.go, fed_a2acard.go, fedstream.go;           *)
(* internal/federation: a2acards.go, federation.go).                        *)
(*                                                                         *)
(* A hub admits the card an agent signs, lists it while it verifies under   *)
(* the agent's key history, and publishes it to peers when the agent's      *)
(* visibility federates.  Cards and withdrawals of cards share one          *)
(* sequence; a reading hub pulls pages after its cursor, from the beginning *)
(* every so often, and admits them entry by entry.                          *)
(*                                                                         *)
(* Peers publish; one hub, which has no name here, reads them all.  A key   *)
(* history is the number of key states it has: an agent has one history and *)
(* hubs hold prefixes of it.  A card is what was signed (seq and body) and  *)
(* the key state that signed it.                                            *)
(***************************************************************************)
EXTENDS Integers, FiniteSets, FiniteSetsExt

CONSTANTS
  None, Null,
  Peers, AIDs, Requests,
  Bodies,            \* what a card may say beside its seq
  MaxPage,           \* entries a page has room for, whichever limit it meets
  MaxSeq, MaxKey,    \* bounds of the model: a card's seq, an agent's key states,
  MaxHead, MaxStay   \* positions of a stream, arrivals and departures at the reader

Seqs == 1..MaxSeq
Keys == 1..MaxKey
Card == [seq: Seqs, body: Bodies, key: Keys]

\* What stands for "none" is not a row of a table, a change or a page under way; a store
\* holds finitely many agents.
ASSUME CardsAssumption ==
  /\ None \notin [seq: Seqs, body: Bodies, key: Keys, kel: Keys, peer: Peers, listed: BOOLEAN]
  /\ None \notin [seq: Seqs, body: Bodies, key: Keys, listed: BOOLEAN, fs: Nat]
  /\ None \notin Card /\ None \notin [kel: Keys, federates: BOOLEAN]
  /\ None \notin [aid: AIDs, to: BOOLEAN, pc: {"count", "put", "clear"}, fs: Nat]
  /\ None \notin [peer: Peers, from: Nat, next: Nat,
                 rest: SUBSET [fs: Nat, aid: AIDs, kel: 0..MaxKey, card: Card \cup {None}]]
  /\ IsFiniteSet(AIDs) /\ MaxKey \in Nat \ {0}

VARIABLES
  own,     \* each agent's key states so far
  agent,   \* agent[p][a]: registered at p, the history and whether it federates, or None
  known,   \* known[p][a]: the longest history p accepted, kept when the agent leaves
  card,    \* agent_a2a_card: the card, whether it is listed (verified_at), its position
  gone,    \* a2a_card_withdrawal: the position of the withdrawal, or 0
  head,    \* a2a_fed_seq
  vis,     \* vis[p]: SetVisibility under way, which holds the store's mutex, or None
  req,     \* a registration or pushed history under way after it was stored, or None
  cur,     \* the reader's fed_cursor_v3
  fed,     \* its fed_a2a_card: the card, the history and the peer that taught it
  stay,    \* how often an agent registered or left at the reader; odd while it is registered
  page,    \* the page the reader is admitting, or None
  cut,     \* history: agents whose SetVisibility at p was interrupted or overtaken
  taught,  \* history: the cards the reader admitted
  crossed  \* history: agents whose card the reader dropped for a withdrawal while the
           \* peer published it, until the reader comes to the card

publisher == <<own, agent, known, card, gone, head, vis, req, cut>>
reader == <<cur, fed, stay, page, taught, crossed>>
vars == <<publisher, reader>>

-----------------------------------------------------------------------------
(* The publishing hub. *)

Federates(p, a) == agent[p][a] # None /\ agent[p][a].federates

\* verifyA2ACardFor: only the current key state of a history vouches for a card.
Verifies(c, kel) == c.key = kel

Signed(row) == [seq |-> row.seq, body |-> row.body, key |-> row.key]

\* What the stream serves as a card, listed and of an agent that federates.
Published(p, a) == card[p][a] # None /\ card[p][a].listed /\ Federates(p, a)

\* markUnlessRetired, CheckHighWater: what a stored card says of one offered.
\* A higher seq under a retired key is no floor.
Mark(row, c, kel) == row # None /\ ~(row.seq > c.seq /\ row.key < kel)

Judged(row, c, kel) ==
  IF ~Mark(row, c, kel) \/ c.seq > row.seq THEN "replace"
  ELSE IF c.seq = row.seq /\ c.body = row.body THEN "same" ELSE "refused"

Free(p) == vis[p] = None

\* nextA2AFedSeq: no position is given out twice.
Next1(p) == head[p] + 1
TakeSeq(p) == head' = [head EXCEPT ![p] = Next1(p)]

\* The bound on a stream: nothing new begins at its end.
Room(p) == head[p] < MaxHead

\* Mutant: looks for the card after it was deleted.
Withdraw_AfterDelete(p, a) == UNCHANGED <<head, gone>>

\* withdrawA2ACard in a transaction, of an agent that federates; rows is what
\* the transaction leaves of the cards.
Withdraw(p, a) ==
  IF Federates(p, a) /\ card[p][a] # None
  THEN TakeSeq(p) /\ gone' = [gone EXCEPT ![p][a] = Next1(p)]
  ELSE UNCHANGED <<head, gone>>

\* clearA2AWithdrawal: only once the card is published again, after it.
Clear(p, a, row) ==
  gone' = [gone EXCEPT ![p][a] =
             IF Federates(p, a) /\ row.listed /\ row.fs > gone[p][a] THEN 0 ELSE gone[p][a]]

Shown(row, fs) == [row EXCEPT !.listed = TRUE, !.fs = fs]

\* Another process moved the stream while SetVisibility was between two statements.
Overtaken(p) == IF Free(p) THEN cut ELSE [cut EXCEPT ![p] = @ \cup {vis[p].aid}]

CardsInit ==
  /\ own = [a \in AIDs |-> 1]
  /\ agent = [p \in Peers |-> [a \in AIDs |-> None]]
  /\ known = [p \in Peers |-> [a \in AIDs |-> 0]]
  /\ card = [p \in Peers |-> [a \in AIDs |-> None]]
  /\ gone = [p \in Peers |-> [a \in AIDs |-> 0]]
  /\ head = [p \in Peers |-> 0]
  /\ vis = [p \in Peers |-> None]
  /\ req = [r \in Requests |-> None]
  /\ cur = [p \in Peers |-> 0]
  /\ fed = [a \in AIDs |-> None]
  /\ stay \in [AIDs -> {0, 1}]
  /\ page = None
  /\ cut = [p \in Peers |-> {}]
  /\ taught = [a \in AIDs |-> {}]
  /\ crossed = [p \in Peers |-> {}]

\* The agent rotates its key.
Rotate(a) ==
  /\ own[a] < MaxKey /\ own' = [own EXCEPT ![a] = @ + 1]
  /\ UNCHANGED <<agent, known, card, gone, head, vis, req, cut, reader>>

\* hRegister: the history is stored, and the card the registration carries
\* (None when it carries none, Null when it withdraws the card) settled after it.
Register(r, p, a, kel, c) ==
  /\ req[r] = None /\ Free(p) /\ Room(p)
  /\ kel \in known[p][a]..own[a] /\ kel > 0
  /\ c \in Card => c.key <= own[a]
  /\ agent' = [agent EXCEPT ![p][a] =
                 [kel |-> kel, federates |-> Federates(p, a)]]
  /\ known' = [known EXCEPT ![p][a] = kel]
  /\ req' = [req EXCEPT ![r] =
               [hub |-> p, aid |-> a, kel |-> kel, card |-> c, raw |-> None,
                pc |-> IF c = None THEN "recheck" ELSE "card"]]
  /\ UNCHANGED <<own, card, gone, head, vis, cut, reader>>

\* PushKEL of a registered agent; the card is looked at again after it.
Push(r, p, a, kel) ==
  /\ req[r] = None /\ Free(p) /\ Room(p) /\ agent[p][a] # None
  /\ kel \in (known[p][a] + 1)..own[a]
  /\ agent' = [agent EXCEPT ![p][a].kel = kel]
  /\ known' = [known EXCEPT ![p][a] = kel]
  /\ req' = [req EXCEPT ![r] =
               [hub |-> p, aid |-> a, kel |-> kel, card |-> None, raw |-> None, pc |-> "recheck"]]
  /\ UNCHANGED <<own, card, gone, head, vis, cut, reader>>

\* RegisterA2ACard of null, WithdrawA2ACard.
WithdrawCard(r) ==
  LET q == req[r] IN
  /\ q # None /\ q.pc = "card" /\ q.card = Null /\ Free(q.hub)
  /\ Withdraw(q.hub, q.aid)
  /\ card' = [card EXCEPT ![q.hub][q.aid] = None]
  /\ req' = [req EXCEPT ![r] = None]
  /\ UNCHANGED <<own, agent, known, vis, cut, reader>>

\* AdmitA2ACard of a card that verifies under the history the request brought
\* and follows the one on file.  The same bytes move on the stream only when
\* they were delisted.
AdmitCard(r) ==
  LET q == req[r]
      row == card[q.hub][q.aid]
      again == row # None /\ Signed(row) = q.card
      \* Taken in either case, used when the row moves.
      next == [seq |-> q.card.seq, body |-> q.card.body, key |-> q.card.key, listed |-> TRUE,
               fs |-> IF again /\ row.listed THEN row.fs ELSE Next1(q.hub)] IN
  /\ q # None /\ q.pc = "card" /\ q.card \in Card /\ Free(q.hub)
  /\ Verifies(q.card, q.kel) /\ Judged(row, q.card, q.kel) # "refused"
  /\ TakeSeq(q.hub)
  /\ card' = [card EXCEPT ![q.hub][q.aid] = next]
  /\ Clear(q.hub, q.aid, next)
  /\ req' = [req EXCEPT ![r] = None]
  /\ UNCHANGED <<own, agent, known, vis, cut, reader>>

\* A card refused leaves the stored one, which is looked at again.
RefuseCard(r) ==
  LET q == req[r] IN
  /\ q # None /\ q.pc = "card" /\ q.card \in Card /\ Free(q.hub)
  /\ Verifies(q.card, q.kel) => Judged(card[q.hub][q.aid], q.card, q.kel) = "refused"
  /\ req' = [req EXCEPT ![r].pc = "recheck"]
  /\ UNCHANGED <<own, agent, known, card, gone, head, vis, cut, reader>>

\* recheckA2ACard reads the listed card without the mutex ...
Recheck(r) ==
  LET q == req[r]
      row == card[q.hub][q.aid] IN
  /\ q # None /\ q.pc = "recheck"
  /\ req' = [req EXCEPT ![r] =
               IF row # None /\ row.listed THEN [q EXCEPT !.raw = Signed(row), !.pc = "write"] ELSE None]
  /\ UNCHANGED <<own, agent, known, card, gone, head, vis, cut, reader>>

\* ... and delists it, with a withdrawal, if it is still the listed one and
\* verifies no more.
StillListed(q) ==
  LET row == card[q.hub][q.aid] IN row # None /\ row.listed /\ Signed(row) = q.raw

Delist(r) ==
  LET q == req[r] IN
  /\ q # None /\ q.pc = "write" /\ Free(q.hub)
  /\ IF StillListed(q) /\ ~Verifies(q.raw, q.kel)
     THEN /\ card' = [card EXCEPT ![q.hub][q.aid].listed = FALSE, ![q.hub][q.aid].fs = Next1(q.hub)]
          /\ IF Federates(q.hub, q.aid)
             THEN /\ head' = [head EXCEPT ![q.hub] = @ + 2]
                  /\ gone' = [gone EXCEPT ![q.hub][q.aid] = head[q.hub] + 2]
             ELSE TakeSeq(q.hub) /\ gone' = gone
     ELSE UNCHANGED <<card, gone, head>>
  /\ req' = [req EXCEPT ![r] = None]
  /\ UNCHANGED <<own, agent, known, vis, cut, reader>>

\* PublishKeys moves the card, since the entry carries the key set.
PublishKeys(p, a) ==
  /\ Free(p) /\ Room(p) /\ Published(p, a)
  /\ TakeSeq(p)
  /\ LET row == Shown(card[p][a], Next1(p)) IN
     /\ card' = [card EXCEPT ![p][a] = row] /\ Clear(p, a, row)
  /\ UNCHANGED <<own, agent, known, vis, req, cut, reader>>

\* DeregisterTx, by the hub or by an operator's command beside it, which does
\* not wait for the hub's mutex.
Deregister(p, a) ==
  /\ Room(p) /\ agent[p][a] # None
  /\ Withdraw(p, a)
  /\ card' = [card EXCEPT ![p][a] = None]
  /\ agent' = [agent EXCEPT ![p][a] = None]
  /\ cut' = Overtaken(p)
  /\ UNCHANGED <<own, known, vis, req, reader>>

-----------------------------------------------------------------------------
(* SetVisibility: statements of their own, under the mutex but in no        *)
(* transaction.                                                             *)

SetVisibility(p, a, to) ==
  /\ Free(p) /\ Room(p) /\ agent[p][a] # None
  /\ agent' = [agent EXCEPT ![p][a].federates = to]
  \* A visibility asserted again owes peers nothing.
  /\ vis' = [vis EXCEPT ![p] = IF to = agent[p][a].federates THEN None
                               ELSE [aid |-> a, to |-> to, pc |-> "count", fs |-> 0]]
  /\ UNCHANGED <<own, known, card, gone, head, req, cut, reader>>

\* withdrawA2ACard, bumpA2ACard: is there a card to speak of, and its position.
VisTake(p) ==
  LET v == vis[p] IN
  /\ v # None /\ v.pc = "count"
  /\ IF card[p][v.aid] # None /\ (v.to => card[p][v.aid].listed)
     THEN TakeSeq(p) /\ vis' = [vis EXCEPT ![p] = [v EXCEPT !.pc = "put", !.fs = Next1(p)]]
     ELSE head' = head /\ vis' = [vis EXCEPT ![p] = None]
  /\ UNCHANGED <<own, agent, known, card, gone, req, cut, reader>>

VisPut(p) ==
  LET v == vis[p]
      row == card[p][v.aid] IN
  /\ v # None /\ v.pc = "put"
  /\ IF v.to
     THEN /\ card' = IF row = None THEN card ELSE [card EXCEPT ![p][v.aid].fs = v.fs]
          /\ vis' = [vis EXCEPT ![p].pc = "clear"] /\ gone' = gone
     ELSE /\ gone' = [gone EXCEPT ![p][v.aid] = v.fs]
          /\ vis' = [vis EXCEPT ![p] = None] /\ card' = card
  /\ UNCHANGED <<own, agent, known, head, req, cut, reader>>

VisClear(p) ==
  LET v == vis[p] IN
  /\ v # None /\ v.pc = "clear"
  /\ IF card[p][v.aid] = None THEN gone' = gone ELSE Clear(p, v.aid, card[p][v.aid])
  /\ vis' = [vis EXCEPT ![p] = None]
  /\ UNCHANGED <<own, agent, known, card, head, req, cut, reader>>

\* The hub process stops: a call under way ends where it is.
Stop(p) ==
  /\ cut' = Overtaken(p)
  /\ vis' = [vis EXCEPT ![p] = None]
  /\ req' = [r \in Requests |-> IF req[r] # None /\ req[r].hub = p THEN None ELSE req[r]]
  /\ UNCHANGED <<own, agent, known, card, gone, head, reader>>

-----------------------------------------------------------------------------
(* The reading hub. *)

Here(a) == stay[a] % 2 = 1

\* Mutant: withdrawals are joined with the agents that are there.
Served_Joined(p) ==
  {[fs |-> card[p][a].fs, aid |-> a, kel |-> agent[p][a].kel, card |-> Signed(card[p][a])] :
      a \in {b \in AIDs : Published(p, b)}}
  \cup {[fs |-> gone[p][a], aid |-> a, kel |-> 0, card |-> None] :
      a \in {b \in AIDs : gone[p][b] > 0 /\ agent[p][b] # None}}

\* A2ACardsSince: what p serves, cards with their agents' histories.
Served(p) ==
  {[fs |-> card[p][a].fs, aid |-> a, kel |-> agent[p][a].kel, card |-> Signed(card[p][a])] :
      a \in {b \in AIDs : Published(p, b)}}
  \cup {[fs |-> gone[p][a], aid |-> a, kel |-> 0, card |-> None] : a \in {b \in AIDs : gone[p][b] > 0}}

After(p, c) == {e \in Served(p) : e.fs > c}

FirstOf(entries, n) == {e \in entries : Cardinality({f \in entries : f.fs < e.fs}) < n}

LastOf(entries, c) == Max({e.fs : e \in entries} \cup {c})

\* syncA2ACards asks p for the page after its cursor, or on a full pass for
\* the first one.  A page that does not arrive changes nothing.
Fetch(p, full, n) ==
  LET from == IF full THEN 0 ELSE cur[p]
      got == FirstOf(After(p, from), n) IN
  /\ page = None
  /\ page' = [peer |-> p, from |-> from, rest |-> got, next |-> LastOf(got, from)]
  /\ UNCHANGED <<publisher, cur, fed, stay, taught, crossed>>

\* Mutant: the row is deleted.
Retired_Deleted(p, row) == IF row # None /\ row.peer = p THEN None ELSE row

\* retireFedA2ACard: by the peer that taught the card; the row stays.
Retired(p, row) == IF row # None /\ row.peer = p THEN [row EXCEPT !.listed = FALSE] ELSE row

\* AdmitFedA2ACard: for good, a card that does not verify under the entry's
\* history, a history that does not extend the one held, a card the one held
\* outranks.
Refused(row, e) ==
  \/ ~Verifies(e.card, e.kel)
  \/ row # None /\ e.kel < row.kel
  \/ Judged(row, e.card, e.kel) = "refused"

\* The card already held, from a peer that did not teach it.
Known(row, p, e) ==
  row # None /\ row.listed /\ row.peer # p /\ Judged(row, e.card, e.kel) = "same"

Learned(p, e) ==
  [seq |-> e.card.seq, body |-> e.card.body, key |-> e.card.key, kel |-> e.kel, peer |-> p, listed |-> TRUE]

First == CHOOSE e \in page.rest : \A f \in page.rest : e.fs <= f.fs

ListsFrom(p, a) == fed[a] # None /\ fed[a].listed /\ fed[a].peer = p

CameTo(p, a) == [crossed EXCEPT ![p] = @ \ {a}]

\* The entries of a page, one transaction each.  A withdrawal is applied ...
AdmitWithdrawal ==
  /\ page # None /\ page.rest # {} /\ First.card = None
  /\ fed' = [fed EXCEPT ![First.aid] = Retired(page.peer, @)]
  /\ crossed' = IF Published(page.peer, First.aid) /\ ListsFrom(page.peer, First.aid)
                THEN [crossed EXCEPT ![page.peer] = @ \cup {First.aid}] ELSE crossed
  /\ page' = [page EXCEPT !.rest = @ \ {First}]
  /\ UNCHANGED <<publisher, cur, stay, taught>>

\* ... a card refused for good, or known, is passed ...
PassOver ==
  /\ page # None /\ page.rest # {} /\ First.card # None
  /\ \/ ~Verifies(First.card, First.kel)
     \/ ~Here(First.aid) /\ (Refused(fed[First.aid], First) \/ Known(fed[First.aid], page.peer, First))
  /\ crossed' = CameTo(page.peer, First.aid)
  /\ page' = [page EXCEPT !.rest = @ \ {First}]
  /\ UNCHANGED <<publisher, cur, fed, stay, taught>>

\* ... and one admitted is stored.
Learn ==
  /\ page # None /\ page.rest # {} /\ First.card # None
  /\ ~Here(First.aid)
  /\ ~Refused(fed[First.aid], First) /\ ~Known(fed[First.aid], page.peer, First)
  /\ fed' = [fed EXCEPT ![First.aid] = Learned(page.peer, First)]
  /\ taught' = [taught EXCEPT ![First.aid] = @ \cup {First.card}]
  /\ crossed' = CameTo(page.peer, First.aid)
  /\ page' = [page EXCEPT !.rest = @ \ {First}]
  /\ UNCHANGED <<publisher, cur, stay>>

\* Mutant: passed like a card refused for good.
Stall_Passes ==
  /\ page # None /\ page.rest # {} /\ First.card # None
  /\ Verifies(First.card, First.kel) /\ Here(First.aid)
  /\ cur' = [cur EXCEPT ![page.peer] = First.fs]
  /\ page' = None
  /\ UNCHANGED <<publisher, fed, stay, taught, crossed>>

\* ErrRefusedForNow, of an agent registered here: the cursor is put before the
\* entry and the page dropped.
Stall ==
  /\ page # None /\ page.rest # {} /\ First.card # None
  /\ Verifies(First.card, First.kel) /\ Here(First.aid)
  /\ cur' = [cur EXCEPT ![page.peer] = First.fs - 1]
  /\ page' = None
  /\ UNCHANGED <<publisher, fed, stay, taught, crossed>>

Finish ==
  /\ page # None /\ page.rest = {}
  /\ cur' = IF page.next > page.from THEN [cur EXCEPT ![page.peer] = page.next] ELSE cur
  /\ page' = None
  /\ UNCHANGED <<publisher, fed, stay, taught, crossed>>

\* The reader stops between two of its transactions, and forgets the page.
ReaderStops ==
  /\ page # None /\ page' = None
  /\ UNCHANGED <<publisher, cur, fed, stay, taught, crossed>>

\* An agent registers at the reader, or leaves it.
Move(a) ==
  /\ stay[a] < MaxStay /\ stay' = [stay EXCEPT ![a] = @ + 1]
  /\ UNCHANGED <<publisher, cur, fed, page, taught, crossed>>

-----------------------------------------------------------------------------
AtHub(p) ==
  \/ \E a \in AIDs :
       \/ PublishKeys(p, a) \/ Deregister(p, a)
       \/ \E to \in BOOLEAN : SetVisibility(p, a, to)
       \/ \E r \in Requests, kel \in Keys :
            \/ Push(r, p, a, kel)
            \/ \E c \in Card \cup {None, Null} : Register(r, p, a, kel, c)
  \/ VisTake(p) \/ VisPut(p) \/ VisClear(p) \/ Stop(p)

Settle(r) == WithdrawCard(r) \/ AdmitCard(r) \/ RefuseCard(r) \/ Recheck(r) \/ Delist(r)

Pull(p, full) == \E n \in 1..MaxPage : Fetch(p, full, n)

AdmitEntry == AdmitWithdrawal \/ PassOver \/ Learn \/ Stall

CardsNext ==
  \/ \E p \in Peers : AtHub(p) \/ \E full \in BOOLEAN : Pull(p, full)
  \/ \E r \in Requests : Settle(r)
  \/ AdmitEntry \/ Finish \/ ReaderStops
  \/ \E a \in AIDs : Rotate(a) \/ Move(a)

CardsSpec == CardsInit /\ [][CardsNext]_vars

-----------------------------------------------------------------------------
(* Properties.                                                              *)

\* The values the stores hold (tables agent_a2a_card, a2a_card_withdrawal,
\* fed_a2a_card, fed_cursor_v3).
CardsTypeOK ==
  /\ own \in [AIDs -> Keys] /\ known \in [Peers -> [AIDs -> 0..MaxKey]]
  /\ agent \in [Peers -> [AIDs -> [kel : Keys, federates : BOOLEAN] \cup {None}]]
  /\ head \in [Peers -> Nat] /\ gone \in [Peers -> [AIDs -> Nat]] /\ cur \in [Peers -> Nat]
  /\ \A p \in Peers :
       /\ cur[p] <= head[p]
       /\ \A a \in AIDs :
            /\ card[p][a] # None => Signed(card[p][a]) \in Card /\ card[p][a].fs \in 1..head[p]
            /\ agent[p][a] # None => agent[p][a].kel = known[p][a]
            /\ gone[p][a] <= head[p]
  /\ \A a \in AIDs : fed[a] # None =>
       Signed(fed[a]) \in taught[a] /\ Verifies(fed[a], fed[a].kel)

\* "Stopping is an entry of its own": as long as the reader lists a card a
\* peer taught it and publishes no more, the peer's stream has a withdrawal
\* of it, unless SetVisibility is still writing one or was interrupted.
\* Whatever the registrations, withdrawals, rechecks, visibility changes and
\* departures between, and whatever page the reader was admitting.
WithdrawalStands ==
  \A p \in Peers, a \in AIDs :
    ListsFrom(p, a) /\ ~Published(p, a) =>
      gone[p][a] > 0 \/ a \in cut[p] \/ (~Free(p) /\ vis[p].aid = a)

Entry(p, a) == [aid |-> a, kel |-> agent[p][a].kel, card |-> Signed(card[p][a])]

\* The row another peer taught stands for the card, whatever history it has.
Taken(p, a) ==
  \/ ~Verifies(card[p][a], agent[p][a].kel)
  \/ /\ fed[a] # None
     /\ fed[a].peer = p => \/ Refused(fed[a], Entry(p, a))
                           \/ fed[a].listed /\ Judged(fed[a], Signed(card[p][a]), agent[p][a].kel) = "same"

Changing(p, a) == ~Free(p) /\ vis[p].aid = a

\* What the cursor has passed is dealt with: no card listed that the peer
\* withdrew at or before it, and no published card at or before it that the
\* reader would still have to take.  Through pages overtaken by changes, full
\* passes that put the cursor back, stalls and stops between two entries;
\* not while SetVisibility is between its statements, when the peer serves
\* the withdrawal of a card and the card.
CursorCovers ==
  \A p \in Peers, a \in AIDs :
    a \notin cut[p] /\ ~Changing(p, a) /\ (page = None \/ page.peer # p) =>
      /\ gone[p][a] \in 1..cur[p] => ~ListsFrom(p, a)
      /\ Published(p, a) /\ card[p][a].fs <= cur[p] => Taken(p, a) \/ a \in crossed[p]

\* A card once taken from any peer is never followed by an older one: under the
\* same key no lower seq and no other body at its seq, and no card of an
\* earlier key, also after the card was withdrawn and offered by another peer.
DirectoryMovesOn ==
  \A a \in AIDs : fed[a] # None => \A c \in taught[a] :
    /\ c.key <= fed[a].key
    /\ c.key = fed[a].key => c.seq <= fed[a].seq /\ (c.seq = fed[a].seq => c.body = fed[a].body)

\* The published card of a is behind one of an agent registered at the reader.
Behind(p, a) ==
  \E b \in AIDs : Here(b) /\ Published(p, b) /\ card[p][b].fs <= card[p][a].fs

\* The directory settles: once the hubs' cards stay as they are, the reader
\* lists nothing its teacher does not publish, and every published card it may
\* take, except where an agent registered here holds the stream.
DirectorySettles ==
  \A a \in AIDs :
    <>[](\A p \in Peers :
           /\ ListsFrom(p, a) => Published(p, a) \/ a \in cut[p]
           /\ Published(p, a) /\ ~Behind(p, a)
              /\ ~Refused(fed[a], Entry(p, a))
              => fed[a] # None /\ fed[a].listed)

\* The same without the exception: "the move is half of the change" of a
\* visibility (SetVisibility).
NarrowingIsSaid ==
  \A p \in Peers, a \in AIDs :
    ListsFrom(p, a) /\ ~Published(p, a) => gone[p][a] > 0 \/ (~Free(p) /\ vis[p].aid = a)

\* The stores of both ends of the stream, and what the cursor between them says.
CardsSound == CardsTypeOK /\ CursorCovers
==============================================================================
