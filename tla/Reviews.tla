------------------------------- MODULE Reviews -------------------------------
(***************************************************************************)
(* The stream of reviews between hubs, over the agents and the visibility  *)
(* of Cards, and the key histories of the hubs that sign it                *)
(* (internal/aghub: reviews.go, hubobjects.go, fedstream.go;               *)
(* internal/federation: federation.go, peerkel.go).                        *)
(*                                                                         *)
(* A hub stores one review of an interaction, attested under its own key,  *)
(* and serves in row order the reviews whose subject consents.  The        *)
(* reading hub of Cards pulls pages after its cursor and checks each       *)
(* attestation under the key history it pinned for the peer.               *)
(*                                                                         *)
(* An interaction is its provider and a number.  A hub's key history is    *)
(* the number of its key states; an answer to a fetch of it is a number    *)
(* and whether it is of the peer's own history.                            *)
(***************************************************************************)
EXTENDS Cards, Sequences, SequencesExt

CONSTANTS
  MaxHubKey,      \* bounds of the model: key states of a hub,
  MaxDeals        \* interactions of a provider

Deals == AIDs \X (1..MaxDeals)
HubKeys == 1..MaxHubKey

\* What stands for "none" is not a row of fed_review.
ASSUME ReviewsAssumption == None \notin [peer : Peers, key : Nat]

Answers == [len : 0..MaxHubKey, own : BOOLEAN]

VARIABLES
  hubkey,  \* the key states of each peer
  away,    \* away[p]: agents of other hubs whose cards p lists (its fed_a2a_card)
  rev,     \* review at p, in the order of rowid: the interaction and the attesting key
  pin,     \* fed_peer_kel at the reader, 0 for none
  asked,   \* whether a use had the pin fetched again in the last minute
  upload,  \* an upload at the reader after its first look, or None
  local,   \* review at the reader
  fedrev,  \* fed_review: the peer and the key it attested with, or None
  rcur,    \* fed_review_cursor
  rpage,   \* the page of reviews being admitted, or None
  sent     \* history: the rows p served before the cursor, and in the last page

reviewVars == <<hubkey, away, rev, pin, asked, upload, local, fedrev, rcur, rpage, sent>>
allVars == <<vars, reviewVars>>

-----------------------------------------------------------------------------
\* The subject's consent: its visibility where it is registered, elsewhere the
\* card its home hub federates.
Consents(p, a) == IF agent[p][a] # None THEN agent[p][a].federates ELSE a \in away[p]

HoldsHistory(p, a) == known[p][a] > 0 \/ a \in away[p]

Rows(p) == 1..Len(rev[p])
Deal(p, i) == rev[p][i].deal
ServedRows(p) == {i \in Rows(p) : Consents(p, Deal(p, i)[1])}

\* reviewExists, in one transaction with the insert that follows.
Reviewed(d) == d \in local \/ fedrev[d] # None

\* Mutants: the pin is what was served last; the pin is what was served first.
Pinned_Latest(old, got) == IF got.own /\ got.len > 0 THEN got.len ELSE old
Pinned_First(old, got) == IF got.own /\ old = 0 THEN got.len ELSE old

\* pinPeerKEL: a history that extends the pin replaces it; a prefix of it, or one
\* that contradicts it, does not.
Pinned(old, got) == IF got.own /\ got.len > old THEN got.len ELSE old

ReviewsInit ==
  /\ CardsInit
  /\ hubkey = [p \in Peers |-> 1] /\ away = [p \in Peers |-> {}]
  /\ rev = [p \in Peers |-> <<>>]
  /\ pin = [p \in Peers |-> 0] /\ asked = [p \in Peers |-> FALSE]
  /\ upload = None /\ local = {} /\ fedrev = [d \in Deals |-> None]
  /\ rcur = [p \in Peers |-> 0] /\ rpage = None
  /\ sent = [p \in Peers |-> {}]

\* A peer starts with a rotated key.
RotateHub(p) ==
  /\ hubkey[p] < MaxHubKey /\ hubkey' = [hubkey EXCEPT ![p] = @ + 1]
  /\ UNCHANGED <<away, rev, pin, asked, upload, local, fedrev, rcur, rpage, sent>>

\* A peer learns the card of an agent of another hub, or drops it.
CardElsewhere(p, a) ==
  /\ away' = [away EXCEPT ![p] = IF a \in @ THEN @ \ {a} ELSE @ \cup {a}]
  /\ UNCHANGED <<hubkey, rev, pin, asked, upload, local, fedrev, rcur, rpage, sent>>

\* hUploadReview at a peer that holds the provider's history.
UploadThere(p, d) ==
  /\ HoldsHistory(p, d[1]) /\ \A i \in Rows(p) : Deal(p, i) # d
  /\ rev' = [rev EXCEPT ![p] = Append(@, [deal |-> d, key |-> hubkey[p]])]
  /\ UNCHANGED <<hubkey, away, pin, asked, upload, local, fedrev, rcur, rpage, sent>>

\* hUploadReview at the reader: a look at what it holds before the attestation ...
UploadHere(d) ==
  /\ upload = None /\ ~Reviewed(d)
  /\ upload' = d
  /\ UNCHANGED <<hubkey, away, rev, pin, asked, local, fedrev, rcur, rpage, sent>>

\* Mutant: the look before the attestation is the only one.
StoreReview_Unlooked ==
  /\ upload # None
  /\ local' = local \cup {upload} /\ upload' = None
  /\ UNCHANGED <<hubkey, away, rev, pin, asked, fedrev, rcur, rpage, sent>>

\* ... and StoreReview, which looks again.
StoreReview ==
  /\ upload # None
  /\ local' = IF Reviewed(upload) THEN local ELSE local \cup {upload}
  /\ upload' = None
  /\ UNCHANGED <<hubkey, away, rev, pin, asked, fedrev, rcur, rpage, sent>>

-----------------------------------------------------------------------------
(* The pins of the reader.                                                  *)

\* What a peer's address may answer: a history of its own so far, or one that is
\* not; the first answer is taken to be its own (pin on first fetch).
MayAnswer(p, got) == IF got.own THEN got.len <= hubkey[p] ELSE pin[p] > 0

\* SyncPeerKELs every ten minutes, and peerKEL while nothing is pinned.
SyncPin(p, got) ==
  /\ MayAnswer(p, got)
  /\ pin' = [pin EXCEPT ![p] = Pinned(@, got)]
  /\ UNCHANGED <<hubkey, away, rev, asked, upload, local, fedrev, rcur, rpage, sent>>

\* RefreshPeerKEL, for whatever use, once a minute.
RefreshPin(p, got) ==
  /\ ~asked[p] /\ MayAnswer(p, got)
  /\ asked' = [asked EXCEPT ![p] = TRUE]
  /\ pin' = [pin EXCEPT ![p] = Pinned(@, got)]
  /\ UNCHANGED <<hubkey, away, rev, upload, local, fedrev, rcur, rpage, sent>>

Minute(p) ==
  /\ asked[p] /\ asked' = [asked EXCEPT ![p] = FALSE]
  /\ UNCHANGED <<hubkey, away, rev, pin, upload, local, fedrev, rcur, rpage, sent>>

-----------------------------------------------------------------------------
(* syncReviews, in the same round as the cards and after them.              *)

FetchReviews(p, n) ==
  LET after == {i \in ServedRows(p) : i > rcur[p]}
      got == {i \in after : Cardinality({j \in after : j < i}) < n} IN
  /\ page = None /\ rpage = None
  /\ rpage' = [peer |-> p, from |-> rcur[p], rest |-> got, next |-> Max(got \cup {rcur[p]})]
  /\ sent' = [sent EXCEPT ![p] = {i \in @ : i <= rcur[p]} \cup got]
  /\ UNCHANGED <<hubkey, away, rev, pin, asked, upload, local, fedrev, rcur>>

Row == Min(rpage.rest)
Due == rev[rpage.peer][Row]
Reaches == Due.key <= pin[rpage.peer]

\* AdmitFedReview, storeFedReview: of an interaction reviewed nowhere here.
\* The same again changes nothing, another's is refused for good.
AdmitReview ==
  /\ rpage # None /\ rpage.rest # {} /\ Reaches
  /\ fedrev' = IF Reviewed(Due.deal) THEN fedrev
               ELSE [fedrev EXCEPT ![Due.deal] = [peer |-> rpage.peer, key |-> Due.key]]
  /\ rpage' = [rpage EXCEPT !.rest = @ \ {Row}]
  /\ UNCHANGED <<hubkey, away, rev, pin, asked, upload, local, rcur, sent>>

\* Mutant: passed like one refused for good.
StallReviews_Passes ==
  /\ rpage # None /\ rpage.rest # {} /\ ~Reaches
  /\ asked[rpage.peer] \/ pin[rpage.peer] = 0
  /\ rcur' = [rcur EXCEPT ![rpage.peer] = Row] /\ rpage' = None
  /\ UNCHANGED <<hubkey, away, rev, pin, asked, upload, local, fedrev, sent>>

\* ErrRefusedForNow: signed past the pin, and the fetch made or not due, or no pin.
StallReviews ==
  /\ rpage # None /\ rpage.rest # {} /\ ~Reaches
  /\ asked[rpage.peer] \/ pin[rpage.peer] = 0
  /\ rcur' = IF Row > rpage.from THEN [rcur EXCEPT ![rpage.peer] = Row - 1] ELSE rcur
  /\ rpage' = None
  /\ UNCHANGED <<hubkey, away, rev, pin, asked, upload, local, fedrev, sent>>

FinishReviews ==
  /\ rpage # None /\ rpage.rest = {}
  /\ rcur' = IF rpage.next > rpage.from THEN [rcur EXCEPT ![rpage.peer] = rpage.next] ELSE rcur
  /\ rpage' = None
  /\ UNCHANGED <<hubkey, away, rev, pin, asked, upload, local, fedrev, sent>>

\* The reader's process ends and starts again.
RestartReader ==
  /\ page = None
  /\ rpage' = None /\ upload' = None /\ asked' = [p \in Peers |-> FALSE]
  /\ UNCHANGED <<hubkey, away, rev, pin, local, fedrev, rcur, sent>>

-----------------------------------------------------------------------------
PullReviews(p) == \E n \in 1..MaxPage : FetchReviews(p, n)

AdmitReviews == AdmitReview \/ StallReviews \/ FinishReviews

ReviewStep ==
  \/ \E p \in Peers :
       \/ RotateHub(p) \/ Minute(p) \/ PullReviews(p)
       \/ \E a \in AIDs : CardElsewhere(p, a)
       \/ \E d \in Deals : UploadThere(p, d)
       \/ \E got \in Answers : SyncPin(p, got) \/ RefreshPin(p, got)
  \/ \E d \in Deals : UploadHere(d)
  \/ StoreReview \/ AdmitReviews \/ RestartReader

\* One round at a time: the reader asks for cards when it has no page of reviews.
CardStep == CardsNext /\ (page' # page => rpage = None)

ReviewsNext == (ReviewStep /\ UNCHANGED vars) \/ (CardStep /\ UNCHANGED reviewVars)

ReviewsSpec == ReviewsInit /\ [][ReviewsNext]_allVars

-----------------------------------------------------------------------------
(* Properties.                                                              *)

\* An interaction is reviewed here once: an upload and the same interaction
\* learned from a peer never both stand, whichever came between the upload's
\* look and its insert (StoreReview, storeFedReview).
OnceHere == \A d \in local : fedrev[d] = None

\* What the review cursor has passed of the rows the peer served is reviewed
\* here, through stalls in the middle of a page, restarts, and pages that ended
\* after a rotation of the peer (syncReviews).
ReviewCursorCovers ==
  \A p \in Peers : \A i \in sent[p] :
    i <= rcur[p] => Reviewed(Deal(p, i))

\* The pin of a peer reaches the key of every review taken from it and is never
\* beyond the peer's own history, whatever the peer's address answered since
\* (pinPeerKEL: "a prefix is never used", a fork is not taken).
PinReaches ==
  /\ \A p \in Peers : pin[p] <= hubkey[p]
  /\ \A d \in Deals : fedrev[d] # None => fedrev[d].key <= pin[fedrev[d].peer]

\* No review waits for ever: not the one a peer attested under a key the reader
\* has not seen, while its subject consents and the cursor is before it.
ReviewsArrive ==
  \A p \in Peers, i \in 1..Cardinality(Deals) :
    []<>~(i \in ServedRows(p) /\ i > rcur[p])

\* Reviews follow consent: "pulling one without the other gives a directory full
\* of strangers with no standing" (SyncOnce, which re-reads cards from the
\* beginning "every so often").
StandingFollows ==
  \A p \in Peers, i \in 1..Cardinality(Deals) :
    []<>~(i \in ServedRows(p) /\ ~Reviewed(Deal(p, i)))

==============================================================================
