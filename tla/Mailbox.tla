------------------------------- MODULE Mailbox -------------------------------
(***************************************************************************)
(* The mailboxes of a hub (internal/aghub: relay.go, dack.go, server.go,   *)
(* fed_relay.go): an envelope is sent under a delivery credential or as a  *)
(* first contact, queued, polled, acknowledged or expired, and its sender  *)
(* asks what became of it.                                                 *)
(*                                                                         *)
(* A send is checked first (Revocations), looked up and then queued, each  *)
(* with anything in between; its answer may be lost, on the way from the   *)
(* recipient's home hub or from the hub the sender asked.  A recipient     *)
(* reads its mailbox page by page with a cursor and acknowledges what it   *)
(* has decided on.                                                         *)
(***************************************************************************)
EXTENDS Revocations, Sequences

CONSTANTS
  Envelopes,                  \* the envelopes senders may send
  NoCap,                      \* of a first contact
  MailboxMessages,            \* relayQuota.messages
  Shares,                     \* values the non-contact share may have (QuotaFor)
  MaxStrangerCapRows,
  MaxRedeliveries, RedeliveryWindow,
  DeliveryDeadline,           \* mail is taken this long after its key's not_after
  UndeliveredTTL, MaxLifetime,\* limits.UndeliveredTTL, seal.MaxMessageLifetimeMS
  DAckTTL, DAckFetchedTTL, MaxDAckRows,
  PollLimit,                  \* envelopes on a page
  MaxRows                     \* bound of the model: rows ever queued

\* An envelope; its digest and its handle are its own.  exp is 0 without one.
EnvelopeType == [id: Nat, to: Owners, cap: Caps \cup {NoCap}, kid: Nat, exp: Nat]

ASSUME MailboxAssumption ==
  /\ NoCap \notin Caps /\ Envelopes \subseteq EnvelopeType
  /\ \A m \in Envelopes : m.cap = NoCap \/ m.cap.owner = m.to
  /\ MailboxMessages \in Nat /\ Shares \subseteq Nat /\ Shares # {} /\ MaxStrangerCapRows \in Nat
  /\ MaxRedeliveries \in Nat \ {0} /\ RedeliveryWindow \in Nat \ {0}
  /\ DeliveryDeadline \in Nat /\ UndeliveredTTL \in Nat /\ MaxLifetime \in Nat
  /\ DAckFetchedTTL \in Nat /\ DAckTTL \in Nat /\ MaxDAckRows \in Nat
  /\ PollLimit \in Nat \ {0} /\ MaxRows \in Nat

VARIABLES
  rows,      \* relay_message
  lastId,    \* its AUTOINCREMENT sequence
  redelivery,\* redelivery[m]: relay_redelivery
  stored,    \* stored[m]: when the confirmation of m in relay_dack expires, 0 without one
  dackRows,  \* dackState: the rows of relay_dack as counted, Uncounted when not
  send,      \* send[s]: the send in slot s
  check,     \* a status check
  poll,      \* poll[o]: the pass of o's daemon over its mailbox, cursor and what it read, by rid
  known,     \* ids of rows a daemon was given
  told,      \* the rids senders were told, with their envelope
  log,       \* what was queued, and when
  promised,  \* promised[m]: until when the sender of m can learn of its confirmation
  missed     \* rids a finished pass did not return though they were waiting

queueVars  == <<rows, lastId, redelivery, log>>
dackVars   == <<stored, dackRows, promised>>
readerVars == <<poll, known, missed>>
mailVars   == <<queueVars, dackVars, readerVars, send, told, check>>
vars       == <<credVars, mailVars>>

Uncounted == -1
NoCount == [count |-> 0, start |-> 0]
NoSend  == [phase |-> "idle"]
NoCheck == [phase |-> "idle"]
NewPass == [after |-> 0, read |-> {}]

Ids(R)  == {r.id : r \in R}
RIDs(R) == {r.rid : r \in R}
Box(o)  == {r \in rows : r.msg.to = o}
Kept    == {m \in Envelopes : stored[m] # 0}

Earlier(a, b) == IF a <= b THEN a ELSE b

-----------------------------------------------------------------------------
(* Queueing an envelope (RelayEnqueue). *)

ClassOf(m) == IF m.cap = NoCap THEN "stranger" ELSE m.cap.class

Waiting(m) == \E r \in rows : r.msg = m
RowOf(m)   == CHOOSE r \in rows : r.msg = m

\* The window that m's redelivery count is of.
InWindow(m, t) == redelivery[m] # NoCount /\ t < redelivery[m].start + RedeliveryWindow

\* Mutant: the kid was checked before, with the recipient's key set of then.
kidAcceptable_Before(m, t) == TRUE

\* The key set in force holds the key, and it is not DeliveryDeadline past its end.
kidAcceptable(m, t) ==
  \E k \in keyset[m.to].kids : k.id = m.kid /\ t <= k.notAfter + DeliveryDeadline

Strangers(o) == {r \in Box(o) : ClassOf(r.msg) = "stranger"}

\* Of an envelope that is not waiting.
NewOutcome(m, t, share) ==
  IF InWindow(m, t) /\ redelivery[m].count >= MaxRedeliveries THEN "redelivery_limited"
  ELSE IF ~kidAcceptable(m, t) THEN "kid_stale"
  ELSE IF Cardinality(Box(m.to)) + 1 > MailboxMessages THEN "mailbox_full"
  ELSE IF ClassOf(m) = "stranger" /\
          \/ Cardinality(Strangers(m.to)) + 1 > share
          \/ /\ m.cap # NoCap
             /\ Cardinality({r \in Box(m.to) : r.msg.cap = m.cap}) + 1 > MaxStrangerCapRows
       THEN "strangers_busy"
  ELSE "queued"

EnqueueOutcome(m, t, share) == IF Waiting(m) THEN "duplicate" ELSE NewOutcome(m, t, share)

\* Mutant: ids without AUTOINCREMENT, one more than the largest in the table.
NewId_Reused == IF rows = {} THEN 1 ELSE CHOOSE i \in 1 .. MaxRows + 1 :
                  /\ i - 1 \in Ids(rows) /\ \A j \in Ids(rows) : j < i

NewId == lastId + 1

\* The row and the redelivery count.  A rid is random; here the number drawn.
Enqueued(m, t) ==
  /\ rows' = rows \cup {[id |-> NewId, rid |-> lastId + 1, msg |-> m, at |-> t]}
  /\ lastId' = lastId + 1
  /\ redelivery' = [redelivery EXCEPT ![m] = IF InWindow(m, t) THEN [count |-> @.count + 1, start |-> @.start]
                                             ELSE [count |-> 1, start |-> t]]
  /\ log' = Append(log, [msg |-> m, at |-> t])

-----------------------------------------------------------------------------
(* A send (hRelaySend; ServeForward at the recipient's home hub). *)

Outcomes == {"access_invalid", "recipient_unknown", "duplicate", "redelivery_limited", "kid_stale",
             "mailbox_full", "strangers_busy", "queued"}

SendType == [phase: {"access", "route", "waiting", "enqueue", "answered"}, msg: Envelopes,
             answer: Outcomes \cup {"none"}, rid: Nat]

Sending(s, p) == send[s].phase = p
Reply(s, a, rid) == send' = [send EXCEPT ![s] = [@ EXCEPT !.phase = "answered", !.answer = a, !.rid = rid]]

\* outerExpReason is "".
outerExpOK(m, t) == m.exp = 0 \/ (t < m.exp /\ m.exp <= t + MaxLifetime)

StartSend(s, m) ==
  /\ send[s] = NoSend /\ outerExpOK(m, time)
  /\ send' = [send EXCEPT ![s] = [phase |-> IF m.cap = NoCap THEN "route" ELSE "access",
                                  msg |-> m, answer |-> "none", rid |-> 0]]
  /\ IF m.cap = NoCap THEN UNCHANGED credVars ELSE Present(s, m.cap)
  /\ UNCHANGED <<queueVars, dackVars, readerVars, told, check>>

\* The credential check has its verdict.
Checked(s) ==
  /\ Sending(s, "access") /\ look[s].phase \in {"admitted", "refused"}
  /\ IF Looking(s, "admitted") THEN send' = [send EXCEPT ![s].phase = "waiting"]
     ELSE Reply(s, "access_invalid", 0)
  /\ look' = [look EXCEPT ![s] = NoLook]
  /\ UNCHANGED <<time, agents, served, keyset, revokedAt, cache, work, events, banned>>
  /\ UNCHANGED <<queueVars, dackVars, readerVars, told, check>>

\* A first contact goes to an agent registered here.
Route(s) ==
  /\ Sending(s, "route")
  /\ IF send[s].msg.to \in agents THEN send' = [send EXCEPT ![s].phase = "waiting"]
     ELSE Reply(s, "recipient_unknown", 0)
  /\ UNCHANGED <<credVars, queueVars, dackVars, readerVars, told, check>>

\* RelayQueued: the same envelope already waiting.
LookForDuplicate(s) ==
  /\ Sending(s, "waiting")
  /\ IF Waiting(send[s].msg)
     THEN Reply(s, "duplicate", RowOf(send[s].msg).rid)
     ELSE send' = [send EXCEPT ![s].phase = "enqueue"]
  /\ UNCHANGED <<credVars, queueVars, dackVars, readerVars, told, check>>

\* The transaction of RelayEnqueue; the share is what QuotaFor's copy of
\* quota_override holds, which another process may have changed since.
RelayEnqueue(s, share) ==
  /\ Sending(s, "enqueue") /\ Unlocked
  /\ LET m == send[s].msg
         o == EnqueueOutcome(m, time, share)
     IN CASE o = "queued"    -> lastId < MaxRows /\ Enqueued(m, time) /\ Reply(s, o, lastId + 1)
          [] o = "duplicate" -> Reply(s, o, RowOf(m).rid) /\ UNCHANGED queueVars
          [] OTHER           -> Reply(s, o, 0) /\ UNCHANGED queueVars
  /\ UNCHANGED <<credVars, dackVars, readerVars, told, check>>

\* The answer reaches the sender, or is lost on the way.
Answer(s) ==
  /\ Sending(s, "answered")
  /\ told' \in {told, told \cup (IF send[s].rid = 0 THEN {} ELSE {[msg |-> send[s].msg, rid |-> send[s].rid]})}
  /\ send' = [send EXCEPT ![s] = NoSend]
  /\ UNCHANGED <<credVars, queueVars, dackVars, readerVars, check>>

-----------------------------------------------------------------------------
(* The recipient's daemon reads its mailbox (RelayPoll) and acknowledges    *)
(* what it has decided on (StoreDAcks).                                     *)

\* An envelope past its exp is not returned.
Expired(m, t) == m.exp # 0 /\ m.exp <= t

Returnable(o, after) == {r \in Box(o) : r.id > after /\ ~Expired(r.msg, time)}

\* The first PollLimit of R, oldest first.
FirstOf(R) == {r \in R : Cardinality({q \in R : q.id < r.id}) < PollLimit}

\* Mutant: the cursor is not looked at.
After_Head(o) == 0

\* The cursor of the request.
After(o) == poll[o].after

\* One page, in one snapshot; the pass goes on past it, or is over when the
\* hub says there is no more.
PollPage(o) ==
  /\ o \in agents
  /\ LET all  == Returnable(o, After(o))
         page == FirstOf(all)
         read == poll[o].read \cup RIDs(page)
     IN /\ poll' = [poll EXCEPT ![o] = IF page = all THEN NewPass
                       ELSE [after |-> CHOOSE i \in Ids(page) : \A j \in Ids(page) : j <= i, read |-> read]]
        /\ missed' = IF page = all THEN missed \cup (RIDs(Returnable(o, 0)) \ read) ELSE missed
        /\ known' = known \cup Ids(page)
  /\ UNCHANGED <<credVars, queueVars, dackVars, send, told, check>>

\* Rows of R go; nobody can acknowledge them any more.
Drop(R) == rows' = rows \ R /\ known' = known \ Ids(R)

\* boundDAcksTx: relay_dack holds those of held, n of them by the count; past
\* the bound the earliest to expire go, if counting the table finds it there.
Evicted(held, n) ==
  LET over == Cardinality(DOMAIN held) - MaxDAckRows
  IN IF n <= MaxDAckRows \/ over <= 0 THEN {{}}
     ELSE {E \in SUBSET DOMAIN held : /\ Cardinality(E) = over
                                     /\ \A e \in E, h \in DOMAIN held \ E : held[e] <= held[h]}

\* Mutant: a confirmation is counted for a row only when it was there before.
InsertedOf_Updates(M) == M \cap Kept

\* Of the confirmations written, those that are rows of their own.
InsertedOf(M) == M \ Kept

\* StoreDAcks: the rows of o's mailbox named by ids go, and the confirmation of
\* each of those in confirmed is stored for DAckTTL.
Acknowledge(o, ids, confirmed) ==
  /\ Unlocked /\ o \in agents
  /\ LET gone == {r \in Box(o) : r.id \in ids}
         M    == {r.msg : r \in {q \in gone : q.id \in confirmed}}
         held == [m \in Kept \cup M |-> IF m \in M THEN time + DAckTTL ELSE stored[m]]
         n    == IF dackRows = Uncounted THEN Cardinality(DOMAIN held)
                 ELSE dackRows + Cardinality(InsertedOf(M))
     IN /\ Drop(gone)
        /\ \E E \in Evicted(held, n) :
             /\ stored' = [m \in Envelopes |-> IF m \in DOMAIN held \ E THEN held[m] ELSE 0]
             /\ dackRows' = IF n <= MaxDAckRows THEN n ELSE Cardinality(DOMAIN held \ E)
             /\ promised' = [m \in Envelopes |-> IF m \in E THEN 1
                                                 ELSE IF m \in M THEN time + DAckTTL ELSE promised[m]]
  /\ UNCHANGED <<credVars, lastId, redelivery, log, poll, missed, send, told, check>>

-----------------------------------------------------------------------------
(* A sender asks what became of its envelope (RelayStatus). *)

CheckType == [phase: {"cut", "answered"}, msg: Envelopes, rid: Nat, due: BOOLEAN,
              state: {"queued", "done", "unknown"}, until: Nat]

\* Mutant: the confirmation is looked for first.
StateOf_ConfirmationFirst(m, rid) ==
  IF stored[m] > time THEN "done" ELSE IF rid \in RIDs(rows) THEN "queued" ELSE "unknown"

StateOf(m, rid) ==
  IF rid \in RIDs(rows) THEN "queued" ELSE IF stored[m] > time THEN "done" ELSE "unknown"

\* The read transaction.
ReadStatus(m, rid) ==
  /\ check = NoCheck /\ [msg |-> m, rid |-> rid] \in told
  /\ check' = [phase |-> IF StateOf(m, rid) = "done" /\ stored[m] > time + DAckFetchedTTL
                         THEN "cut" ELSE "answered",
                msg |-> m, rid |-> rid, due |-> promised[m] > time,
                state |-> StateOf(m, rid), until |-> time + DAckFetchedTTL]
  /\ UNCHANGED <<credVars, queueVars, dackVars, readerVars, send, told>>

\* The write transaction after it shortens what is left of the confirmation,
\* whichever is stored by then.
CutTime ==
  /\ check.phase = "cut" /\ Unlocked
  /\ stored' = [stored EXCEPT ![check.msg] = Earlier(@, check.until)]
  /\ promised' = [promised EXCEPT ![check.msg] = Earlier(@, check.until)]
  /\ check' = [check EXCEPT !.phase = "answered"]
  /\ UNCHANGED <<credVars, queueVars, dackRows, readerVars, send, told>>

StatusTold ==
  /\ check.phase = "answered" /\ check' = NoCheck
  /\ UNCHANGED <<credVars, queueVars, dackVars, readerVars, send, told>>

-----------------------------------------------------------------------------
(* The janitors: mail and confirmations whose time is over. *)

Purge(R) ==
  /\ Unlocked /\ R # {}
  /\ Drop(R)
  /\ UNCHANGED <<credVars, lastId, redelivery, log, dackVars, poll, missed, send, told, check>>

\* PurgeExpiredRelay's first statement, and the expiry sweep.
PurgeUndelivered == Purge({r \in rows : r.at < time - UndeliveredTTL})
PurgeByExp       == Purge({r \in rows : Expired(r.msg, time)})

\* A count whose window has closed.
WindowClosed(m) == redelivery[m].start <= time - RedeliveryWindow

\* PurgeExpiredRelay's second statement.
PurgeCounts ==
  /\ Unlocked
  /\ redelivery' = [m \in Envelopes |-> IF WindowClosed(m) THEN NoCount ELSE redelivery[m]]
  /\ redelivery' # redelivery
  /\ UNCHANGED <<credVars, rows, lastId, log, dackVars, readerVars, send, told, check>>

PurgeDAcks ==
  /\ Unlocked
  /\ LET over == {m \in Kept : stored[m] <= time} IN
       /\ over # {}
       /\ stored' = [m \in Envelopes |-> IF m \in over THEN 0 ELSE stored[m]]
       /\ dackRows' = IF dackRows = Uncounted THEN Uncounted
                      ELSE IF dackRows < Cardinality(over) THEN 0 ELSE dackRows - Cardinality(over)
  /\ UNCHANGED <<credVars, queueVars, promised, readerVars, send, told, check>>

-----------------------------------------------------------------------------
(* Leaving takes the mailbox with it; a stop ends what is under way. *)

MailboxLeaves(o) ==
  /\ Leave(o)
  /\ Drop(Box(o))
  /\ poll' = [poll EXCEPT ![o] = NewPass]
  /\ UNCHANGED <<lastId, redelivery, log, dackVars, missed, send, told, check>>

Crash ==
  /\ LoseMemory
  /\ send' = [s \in Slots |-> NoSend] /\ check' = NoCheck /\ dackRows' = Uncounted
  /\ UNCHANGED <<queueVars, stored, promised, readerVars, told>>

\* The steps of Revocations that leave the mailboxes alone.
CredentialStep ==
  /\ \/ \E s \in Slots : CredStep(s)
     \/ \E o \in Owners : Join(o) \/ RotateKey(o) \/ DeregCallback(o) \/ ClearEvent(o)
     \/ \E o \in Owners : \E batch \in SUBSET CapsOf(o) : batch # {} /\ RevokeCaps(o, batch)
     \/ \E o \in Owners, ks \in KeySets : PublishKeys(o, ks)
     \/ RevocationCached \/ ForgetCaps \/ PurgeRevocations
  /\ UNCHANGED mailVars

MailTime ==
  /\ TimePasses
  /\ UNCHANGED <<agents, served, keyset, revokedAt, cache, work, events, look, banned, mailVars>>

MailInit ==
  /\ CredInit
  /\ rows = {} /\ lastId = 0 /\ redelivery = [m \in Envelopes |-> NoCount] /\ log = <<>>
  /\ stored = [m \in Envelopes |-> 0] /\ dackRows = Uncounted
  /\ promised = [m \in Envelopes |-> 0]
  /\ send = [s \in Slots |-> NoSend] /\ told = {} /\ check = NoCheck
  /\ poll = [o \in Owners |-> NewPass] /\ known = {} /\ missed = {}

MailNext ==
  \/ \E s \in Slots : \/ \E m \in Envelopes : StartSend(s, m)
                      \/ \E share \in Shares : RelayEnqueue(s, share)
                      \/ Checked(s) \/ Route(s) \/ LookForDuplicate(s) \/ Answer(s)
  \/ \E o \in Owners : PollPage(o) \/ MailboxLeaves(o)
  \/ \E o \in Owners : \E ids \in SUBSET (known \cap Ids(Box(o))) :
       ids # {} /\ \E confirmed \in SUBSET ids : Acknowledge(o, ids, confirmed)
  \/ \E t \in told : ReadStatus(t.msg, t.rid)
  \/ CutTime \/ StatusTold
  \/ PurgeUndelivered \/ PurgeByExp \/ PurgeCounts \/ PurgeDAcks
  \/ CredentialStep \/ Crash \/ MailTime

\* A daemon goes on polling while it is registered.
MailSpec == MailInit /\ [][MailNext]_vars /\ \A o \in Owners : WF_vars(PollPage(o))

-----------------------------------------------------------------------------
(* Properties. *)

MailTypeOK ==
  /\ CredTypeOK
  /\ rows \subseteq [id: Nat, rid: Nat, msg: Envelopes, at: Nat] /\ lastId \in Nat
  /\ \A r, q \in rows : r # q => r.id # q.id /\ r.rid # q.rid /\ r.msg # q.msg
  /\ redelivery \in [Envelopes -> [count: 0 .. MaxRedeliveries, start: Nat]]
  /\ stored \in [Envelopes -> Nat] /\ promised \in [Envelopes -> Nat]
  /\ dackRows \in Nat \cup {Uncounted}
  /\ send \in [Slots -> SendType \cup {NoSend}] /\ check \in CheckType \cup {NoCheck}
  /\ poll \in [Owners -> [after: Nat, read: SUBSET Nat]]
  /\ known \subseteq Ids(rows) /\ missed \subseteq Nat
  /\ told \subseteq [msg: Envelopes, rid: Nat]

\* Mail waits for an agent that is not registered only where a key set is
\* stored for it, which a publication that overlaps its departure may leave: a
\* send asks whether its recipient is registered long before it is queued, but
\* the key set that kidAcceptable reads in the enqueuing transaction goes with
\* the agent.
MailNeedsKeys == \A r \in rows : r.msg.to \in agents \/ keyset[r.msg.to] # NoKeys

\* What the hub would promise if PublishKeys looked at the agent's row in its
\* transaction; it does not, and this is violated.
MailOnlyForMembers == \A r \in rows : r.msg.to \in agents

\* When the hub says there is no more, the daemon has been given everything
\* that waits for it, whatever was queued, taken or expired between the pages
\* (RelayPoll: more, the cursor, AUTOINCREMENT).
PollerMissesNothing == missed = {}

\* Within any RedeliveryWindow an envelope is queued less than 2 MaxRedeliveries
\* times: the limit counts in windows that begin with a queueing, and a count
\* is deleted only after its window (RelayEnqueue, PurgeExpiredRelay).
RedeliveriesBounded ==
  \A m \in Envelopes, t \in 1 .. time :
    Cardinality({i \in DOMAIN log : /\ log[i].msg = m
                                    /\ t <= log[i].at /\ log[i].at < t + RedeliveryWindow}) < 2 * MaxRedeliveries

\* relay_dack stays within its bound, although the bound is checked against a
\* count kept in memory: the count never falls behind the table (StoreDAcks,
\* boundDAcksTx, PurgeExpiredDAcks).
ConfirmationsBounded ==
  /\ Cardinality(Kept) <= MaxDAckRows
  /\ dackRows # Uncounted => Cardinality(Kept) <= dackRows

\* A sender is told done only of an envelope whose recipient confirmed it and
\* whose own row has left the mailbox, and unknown only when the row has left
\* and no confirmation is due (RelayStatus).
StatusTruthful ==
  check # NoCheck /\ check.phase = "answered" /\ check.state # "queued" =>
    /\ check.rid \notin RIDs(rows)
    /\ IF check.state = "done" THEN promised[check.msg] # 0 ELSE ~check.due

\* Whatever waits for a registered agent is given to its daemon, leaves the
\* mailbox or expires, although the daemon may keep older mail there: the cursor
\* reads on past it (RelayPoll).
Unread(m) == m.to \in agents /\ \E r \in rows : r.msg = m /\ r.id \notin known /\ ~Expired(m, time)
MailGetsRead == \A m \in Envelopes : Unread(m) ~> ~Unread(m)

\* The mailbox's tables and counts stay within what they are for.
MailSound == MailTypeOK /\ RedeliveriesBounded /\ ConfirmationsBounded
=============================================================================
