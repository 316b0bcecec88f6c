---------------------------- MODULE StreamsProofs ----------------------------
(***************************************************************************)
(* Proofs about the streams of cards and reviews (Cards, Reviews): an       *)
(* interaction is reviewed once at the reader, the pinned key histories     *)
(* reach what was taken under them and no further than their peers' own,    *)
(* the directory never goes back to an older card, a card that is no longer *)
(* published has its withdrawal, and what a cursor passed is dealt with.    *)
(***************************************************************************)
EXTENDS Reviews, FiniteSetTheorems, WellFoundedInduction, TLAPS

-----------------------------------------------------------------------------
(* Reviews once.                                                            *)

OnceInv ==
  /\ local \subseteq Deals /\ upload \in Deals \cup {None}
  /\ fedrev = [d \in Deals |-> fedrev[d]]
  /\ OnceHere

LEMMA OnceKept ==
  ASSUME OnceInv, ReviewStep
  PROVE  OnceInv'
<1> USE DEF OnceInv, OnceHere
<1>1. CASE \E d \in Deals : UploadHere(d)
  BY <1>1 DEF UploadHere
<1>2. CASE StoreReview
  BY <1>2 DEF StoreReview, Reviewed
<1>3. CASE AdmitReview
  <2>1. UNCHANGED <<upload, local>>
    BY <1>3 DEF AdmitReview
  <2>2. fedrev' = fedrev
        \/ \E e : ~Reviewed(Due.deal) /\ fedrev' = [fedrev EXCEPT ![Due.deal] = e]
    BY <1>3, Zenon DEF AdmitReview
  <2> QED BY <2>1, <2>2 DEF Reviewed
<1>4. CASE UNCHANGED <<local, fedrev>> /\ upload' \in {upload, None}
  BY <1>4
<1>5. ReviewStep => \/ \E d \in Deals : UploadHere(d)
                    \/ StoreReview \/ AdmitReview
                    \/ UNCHANGED <<local, fedrev>> /\ upload' \in {upload, None}
  BY DEF ReviewStep, RotateHub, Minute, PullReviews, FetchReviews, CardElsewhere, UploadThere,
         SyncPin, RefreshPin, AdmitReviews, StallReviews, FinishReviews, RestartReader
<1> QED BY <1>1, <1>2, <1>3, <1>4, <1>5

\* An interaction is reviewed at the reader once, for any peers, interactions and
\* page sizes: the look inside the inserting transaction suffices, since the two
\* inserts are serial (StoreReview, storeFedReview).
THEOREM ReviewedOnceHere == ReviewsSpec => []OnceHere
<1>1. ReviewsInit => OnceInv
  BY DEF ReviewsInit, OnceInv, OnceHere
<1>2. OnceInv /\ [ReviewsNext]_allVars => OnceInv'
  <2>1. OnceInv /\ UNCHANGED reviewVars => OnceInv'
    BY DEF OnceInv, OnceHere, reviewVars
  <2> QED BY <2>1, OnceKept DEF ReviewsNext, allVars
<1>3. OnceInv => OnceHere
  BY DEF OnceInv
<1> QED BY <1>1, <1>2, <1>3, PTL DEF ReviewsSpec

-----------------------------------------------------------------------------
(* The pins.                                                                *)

\* A nonempty set of natural numbers has a least one.
LEMMA NatMin ==
  ASSUME NEW T, T \subseteq Nat, T # {}
  PROVE  \E m \in T : \A k \in T : m <= k
<1>1. \E m \in T : \A k \in T : ~(<<k, m>> \in OpToRel(<, Nat))
  BY WFMin, NatLessThanWellFounded, Zenon
<1>2. PICK m \in T : \A k \in T : ~(<<k, m>> \in OpToRel(<, Nat))
  BY <1>1
<1>3. ASSUME NEW k \in T PROVE m <= k
  <2>1. ~(<<k, m>> \in OpToRel(<, Nat))
    BY <1>2
  <2>2. ~(k < m)
    BY <2>1, Zenon DEF OpToRel
  <2> QED BY <2>2
<1> QED BY <1>2, <1>3

ReviewRow == [deal : Deals, key : Nat]

\* A page names a peer and rows of it.
PageOK ==
  /\ rpage = [peer |-> rpage.peer, from |-> rpage.from, rest |-> rpage.rest, next |-> rpage.next]
  /\ rpage.peer \in Peers /\ rpage.rest \subseteq 1..Len(rev[rpage.peer])

PinTypes ==
  /\ hubkey \in [Peers -> Nat] /\ pin \in [Peers -> Nat] /\ rev \in [Peers -> Seq(ReviewRow)]
  /\ rpage # None => PageOK
  /\ fedrev = [d \in Deals |-> fedrev[d]]
  /\ \A d \in Deals : fedrev[d] # None => fedrev[d].peer \in Peers /\ fedrev[d].key \in Nat

PinInv == PinTypes /\ PinReaches

\* The row that is due is a row of the page's peer.
LEMMA DueIsRow ==
  ASSUME PinTypes, rpage # None, rpage.rest # {}
  PROVE  Row \in rpage.rest /\ Due \in ReviewRow
<1>1. rpage.rest \subseteq Nat /\ rpage.rest # {}
  BY DEF PinTypes, PageOK
<1>2. \E m \in rpage.rest : \A k \in rpage.rest : m <= k
  BY <1>1, NatMin
<1>3. Row \in rpage.rest
  BY <1>2, Zenon DEF Row, Min
<1>4. Row \in 1..Len(rev[rpage.peer]) /\ rev[rpage.peer] \in Seq(ReviewRow)
  BY <1>3 DEF PinTypes, PageOK
<1>5. rev[rpage.peer][Row] \in ReviewRow
  BY <1>4
<1> QED BY <1>3, <1>5 DEF Due

\* Only a longer history of the peer's own replaces a pin.
LEMMA PinnedKept ==
  ASSUME PinInv, NEW p \in Peers, NEW got \in Answers, MayAnswer(p, got),
         pin' = [pin EXCEPT ![p] = Pinned(@, got)],
         UNCHANGED <<hubkey, rev, rpage, fedrev>>
  PROVE  PinInv'
<1>1. got.len \in Nat
  BY DEF Answers
<1>2. /\ Pinned(pin[p], got) \in Nat /\ pin[p] <= Pinned(pin[p], got)
      /\ Pinned(pin[p], got) <= hubkey[p]
  BY <1>1 DEF Pinned, MayAnswer, PinInv, PinTypes, PinReaches
<1>3. pin' \in [Peers -> Nat] /\ \A q \in Peers : pin[q] <= pin'[q] /\ pin'[q] <= hubkey[q]
  BY <1>2 DEF PinInv, PinTypes, PinReaches
<1>4. PinTypes'
  BY <1>3 DEF PinInv, PinTypes, PageOK
<1>5. ASSUME NEW d \in Deals, fedrev'[d] # None
      PROVE  fedrev'[d].key <= pin'[fedrev'[d].peer]
  <2>1. fedrev[d].key \in Nat /\ fedrev[d].peer \in Peers /\ fedrev[d].key <= pin[fedrev[d].peer]
    BY <1>5 DEF PinInv, PinTypes, PinReaches
  <2>2. pin[fedrev[d].peer] \in Nat /\ pin'[fedrev[d].peer] \in Nat
    BY <2>1, <1>3 DEF PinInv, PinTypes
  <2>3. fedrev[d].key <= pin'[fedrev[d].peer]
    BY <2>1, <2>2, <1>3
  <2> QED BY <2>3
<1> QED BY <1>3, <1>4, <1>5 DEF PinInv, PinReaches

LEMMA PinKept ==
  ASSUME PinInv, ReviewStep
  PROVE  PinInv'
<1>1. ASSUME NEW p \in Peers, RotateHub(p) PROVE PinInv'
  <2>1. hubkey' \in [Peers -> Nat] /\ \A q \in Peers : hubkey[q] <= hubkey'[q]
    BY <1>1 DEF RotateHub, PinInv, PinTypes
  <2>2. PinTypes'
    BY <1>1, <2>1 DEF RotateHub, PinInv, PinTypes, PageOK
  <2>3. ASSUME NEW q \in Peers PROVE pin[q] <= hubkey'[q]
    BY <2>1 DEF PinInv, PinTypes, PinReaches
  <2> QED BY <1>1, <2>2, <2>3 DEF RotateHub, PinInv, PinReaches
<1>2. ASSUME NEW p \in Peers, NEW d \in Deals, UploadThere(p, d) PROVE PinInv'
  <2> DEFINE x == [deal |-> d, key |-> hubkey[p]]
  <2>1. x \in ReviewRow /\ rev[p] \in Seq(ReviewRow)
    BY DEF ReviewRow, PinInv, PinTypes
  <2> HIDE DEF x
  <2>2. Append(rev[p], x) \in Seq(ReviewRow) /\ Len(Append(rev[p], x)) = Len(rev[p]) + 1
    BY <2>1
  <2>3. rev' = [rev EXCEPT ![p] = Append(rev[p], x)]
    BY <1>2 DEF UploadThere, x
  <2>4. rev' \in [Peers -> Seq(ReviewRow)] /\ \A q \in Peers : Len(rev[q]) <= Len(rev'[q])
    BY <2>2, <2>3 DEF PinInv, PinTypes
  <2>5. rpage # None => PageOK'
    <3> SUFFICES ASSUME rpage # None PROVE PageOK'
      OBVIOUS
    <3>1. rpage' = rpage /\ rpage.peer \in Peers /\ rpage.rest \subseteq 1..Len(rev[rpage.peer])
      BY <1>2 DEF UploadThere, PinInv, PinTypes, PageOK
    <3>2. Len(rev[rpage.peer]) \in Nat /\ Len(rev'[rpage.peer]) \in Nat
      BY <3>1, <2>4 DEF PinInv, PinTypes
    <3>3. rpage.rest \subseteq 1..Len(rev'[rpage.peer])
      BY <3>1, <3>2, <2>4
    <3> QED BY <3>1, <3>3 DEF PinInv, PinTypes, PageOK
  <2> QED BY <1>2, <2>4, <2>5 DEF UploadThere, PinInv, PinTypes, PinReaches
<1>3. ASSUME NEW p \in Peers, NEW got \in Answers, SyncPin(p, got) \/ RefreshPin(p, got) PROVE PinInv'
  BY <1>3, PinnedKept DEF SyncPin, RefreshPin
<1>4. ASSUME NEW p \in Peers, NEW n \in 1..MaxPage, FetchReviews(p, n) PROVE PinInv'
  <2>1. ServedRows(p) \subseteq 1..Len(rev[p])
    BY DEF ServedRows, Rows
  <2>2. PageOK'
    BY <1>4, <2>1 DEF FetchReviews, PageOK
  <2> QED BY <1>4, <2>2 DEF FetchReviews, PinInv, PinTypes, PinReaches
<1>5. CASE AdmitReview
  <2>1. /\ rpage # None /\ rpage.rest # {} /\ Reaches /\ PageOK
        /\ UNCHANGED <<hubkey, rev, pin>>
        /\ rpage' = [rpage EXCEPT !.rest = rpage.rest \ {Row}]
    BY <1>5 DEF AdmitReview, PinInv, PinTypes
  <2>2. PageOK'
    BY <2>1 DEF PageOK
  <2>3. Due \in ReviewRow
    BY <2>1, DueIsRow DEF PinInv
  <2> DEFINE x == [peer |-> rpage.peer, key |-> Due.key]
  <2>4. x.peer \in Peers /\ x.key \in Nat /\ x.key <= pin[x.peer] /\ Due.deal \in Deals
    BY <2>1, <2>3 DEF ReviewRow, Reaches, PageOK
  <2>5. fedrev' = fedrev \/ fedrev' = [fedrev EXCEPT ![Due.deal] = x]
    BY <1>5, Zenon DEF AdmitReview
  <2> HIDE DEF x
  <2>6. /\ fedrev' = [d \in Deals |-> fedrev'[d]]
        /\ \A d \in Deals : fedrev'[d] = fedrev[d] \/ fedrev'[d] = x
    BY <2>5, <2>4 DEF PinInv, PinTypes
  <2> QED BY <2>1, <2>2, <2>4, <2>6 DEF PinInv, PinTypes, PinReaches
<1>6. CASE UNCHANGED <<hubkey, pin, rev, fedrev>> /\ rpage' \in {rpage, None}
  <2>1. PinTypes' /\ PinReaches'
    BY <1>6 DEF PinInv, PinTypes, PinReaches, PageOK
  <2> QED BY <2>1 DEF PinInv
<1>7. \/ \E p \in Peers :
           \/ RotateHub(p) \/ \E d \in Deals : UploadThere(p, d)
           \/ \E got \in Answers : SyncPin(p, got) \/ RefreshPin(p, got)
           \/ \E n \in 1..MaxPage : FetchReviews(p, n)
      \/ AdmitReview
      \/ UNCHANGED <<hubkey, pin, rev, fedrev>> /\ rpage' \in {rpage, None}
  BY DEF ReviewStep, Minute, PullReviews, CardElsewhere, UploadHere, StoreReview,
         AdmitReviews, StallReviews, FinishReviews, RestartReader
<1> QED BY <1>1, <1>2, <1>3, <1>4, <1>5, <1>6, <1>7

\* The pinned key history of a peer is one the peer had, and reaches every review
\* taken from it, whatever its address answers and whenever it rotates
\* (pinPeerKEL, AdmitFedReview).
THEOREM PinsReach == ReviewsSpec => []PinReaches
<1>1. ReviewsInit => PinInv
  BY DEF ReviewsInit, PinInv, PinTypes, PinReaches
<1>2. PinInv /\ [ReviewsNext]_allVars => PinInv'
  <2>1. PinInv /\ UNCHANGED reviewVars => PinInv'
    BY DEF PinInv, PinTypes, PinReaches, PageOK, reviewVars
  <2> QED BY <2>1, PinKept DEF ReviewsNext, allVars
<1>3. PinInv => PinReaches
  BY DEF PinInv
<1> QED BY <1>1, <1>2, <1>3, PTL DEF ReviewsSpec

-----------------------------------------------------------------------------
(* The cursor of the reviews.                                               *)

\* A nonempty set of natural numbers with a bound has a greatest one.
LEMMA NatMax ==
  ASSUME NEW n \in Nat, NEW T, T \subseteq 0..n, T # {}
  PROVE  Max(T) \in Nat /\ Max(T) \in T /\ \A u \in T : Max(T) >= u
<1> DEFINE D == {n - t : t \in T}
<1>1. D \subseteq Nat /\ D # {}
  <2>1. ASSUME NEW t \in T PROVE n - t \in Nat
    OBVIOUS
  <2> QED BY <2>1
<1> HIDE DEF D
<1>2. PICK m \in D : \A k \in D : m <= k
  BY <1>1, NatMin
<1>3. PICK t \in T : m = n - t
  BY <1>2 DEF D
<1>4. ASSUME NEW u \in T PROVE t >= u
  <2>1. n - u \in D
    BY DEF D
  <2>2. n - t <= n - u
    BY <2>1, <1>2, <1>3
  <2> QED BY <2>2
<1>5. \E x \in T : \A y \in T : x >= y
  BY <1>4
<1>6. Max(T) \in T /\ \A u \in T : Max(T) >= u
  BY <1>5, Zenon DEF Max
<1>7. \A u \in T : u \in Nat
  OBVIOUS
<1> QED BY <1>6, <1>7, Zenon

\* Every row of the last page lies before the cursor and is reviewed, is reviewed, or
\* is still to be admitted.
PageCovers ==
  rpage # None =>
    /\ rpage.next \in Nat /\ rpage.from = rcur[rpage.peer]
    /\ \A i \in sent[rpage.peer] :
         i > rcur[rpage.peer] => i \in rpage.rest \/ Reviewed(Deal(rpage.peer, i))

CursorInv ==
  /\ PinInv
  /\ rcur \in [Peers -> Nat] /\ sent = [p \in Peers |-> sent[p]]
  /\ \A p \in Peers : sent[p] \subseteq 1..Len(rev[p])
  /\ PageCovers /\ ReviewCursorCovers

Stays == \A d \in Deals : Reviewed(d) => Reviewed(d)'

\* What is reviewed stays reviewed: no step deletes a review.
LEMMA ReviewsStay ==
  ASSUME PinInv, ReviewStep
  PROVE  Stays
<1>1. CASE AdmitReview
  <2>1. rpage # None /\ rpage.rest # {} /\ PageOK /\ Reaches
    BY <1>1 DEF AdmitReview, PinInv, PinTypes
  <2>2. Due \in ReviewRow
    BY <2>1, DueIsRow DEF PinInv
  <2> DEFINE x == [peer |-> rpage.peer, key |-> Due.key]
  <2>3. x \in [peer : Peers, key : Nat]
    BY <2>1, <2>2 DEF ReviewRow, PageOK
  <2>4. (fedrev' = fedrev \/ fedrev' = [fedrev EXCEPT ![Due.deal] = x]) /\ local' = local
    BY <1>1, Zenon DEF AdmitReview
  <2> HIDE DEF x
  <2>5. x # None
    BY <2>3, ReviewsAssumption
  <2> QED BY <2>4, <2>5 DEF PinInv, PinTypes, Reviewed, Stays
<1>2. CASE StoreReview
  BY <1>2 DEF StoreReview, Reviewed, Stays
<1>3. ReviewStep => AdmitReview \/ StoreReview \/ UNCHANGED <<local, fedrev>>
  BY DEF ReviewStep, RotateHub, Minute, PullReviews, FetchReviews, CardElsewhere, UploadHere, UploadThere,
         SyncPin, RefreshPin, AdmitReviews, StallReviews, FinishReviews, RestartReader
<1>4. CASE UNCHANGED <<local, fedrev>>
  BY <1>4 DEF Reviewed, Stays
<1> QED BY <1>1, <1>2, <1>3, <1>4

\* A row keeps its interaction: the peers' tables only grow.
LEMMA RowsStay ==
  ASSUME CursorInv, ReviewStep
  PROVE  \A p \in Peers : \A i \in sent[p] :
           i \in 1..Len(rev[p]) /\ Deal(p, i) \in Deals /\ i \in 1..Len(rev'[p]) /\ Deal(p, i)' = Deal(p, i)
<1> SUFFICES ASSUME NEW q \in Peers, NEW i \in sent[q]
             PROVE  /\ i \in 1..Len(rev[q]) /\ Deal(q, i) \in Deals
                    /\ i \in 1..Len(rev'[q]) /\ Deal(q, i)' = Deal(q, i)
  OBVIOUS
<1>1. i \in 1..Len(rev[q]) /\ rev[q] \in Seq(ReviewRow)
  BY DEF CursorInv, PinInv, PinTypes
<1>2. rev[q][i] \in ReviewRow
  BY <1>1
<1>3. Deal(q, i) \in Deals
  BY <1>2 DEF Deal, ReviewRow
<1>4. ASSUME NEW p \in Peers, NEW d \in Deals, UploadThere(p, d)
      PROVE  i \in 1..Len(rev'[q]) /\ rev'[q][i] = rev[q][i]
  <2> DEFINE x == [deal |-> d, key |-> hubkey[p]]
  <2>1. x \in ReviewRow
    BY DEF ReviewRow, CursorInv, PinInv, PinTypes
  <2>2. rev' = [rev EXCEPT ![p] = Append(rev[p], x)] /\ rev \in [Peers -> Seq(ReviewRow)]
    BY <1>4 DEF UploadThere, CursorInv, PinInv, PinTypes
  <2> HIDE DEF x
  <2>3. CASE p = q
    <3>1. rev'[q] = Append(rev[q], x)
      BY <2>2, <2>3
    <3> QED BY <3>1, <1>1, <2>1
  <2>4. CASE p # q
    BY <2>2, <2>4, <1>1
  <2> QED BY <2>3, <2>4
<1>5. (\E p \in Peers, d \in Deals : UploadThere(p, d)) \/ UNCHANGED rev
  BY DEF ReviewStep, RotateHub, Minute, PullReviews, FetchReviews, CardElsewhere, UploadHere, StoreReview,
         SyncPin, RefreshPin, AdmitReviews, AdmitReview, StallReviews, FinishReviews, RestartReader
<1>6. i \in 1..Len(rev'[q]) /\ rev'[q][i] = rev[q][i]
  BY <1>1, <1>4, <1>5
<1> QED BY <1>1, <1>3, <1>6 DEF Deal

LEMMA CursorKept ==
  ASSUME CursorInv, ReviewStep
  PROVE  CursorInv'
<1>0. PinInv /\ PinInv' /\ Stays
  BY PinKept, ReviewsStay DEF CursorInv
<1>a. \A p \in Peers : \A i \in sent[p] :
        /\ i \in 1..Len(rev[p]) /\ i \in 1..Len(rev'[p]) /\ Deal(p, i)' = Deal(p, i)
        /\ Reviewed(Deal(p, i)) => Reviewed(Deal(p, i))'
  BY <1>0, RowsStay DEF Stays, Reviewed
<1>1. CASE \E p \in Peers, n \in 1..MaxPage : FetchReviews(p, n)
  <2>1. PICK p \in Peers, n \in 1..MaxPage : FetchReviews(p, n)
    BY <1>1
  <2> DEFINE got == {i \in {j \in ServedRows(p) : j > rcur[p]} :
                       Cardinality({j \in {k \in ServedRows(p) : k > rcur[p]} : j < i}) < n}
  <2>2. /\ rpage = None
        /\ rpage' = [peer |-> p, from |-> rcur[p], rest |-> got, next |-> Max(got \cup {rcur[p]})]
        /\ sent' = [sent EXCEPT ![p] = {i \in sent[p] : i <= rcur[p]} \cup got]
        /\ UNCHANGED <<rev, local, fedrev, rcur>>
    BY <2>1 DEF FetchReviews
  <2>3. got \subseteq 1..Len(rev[p]) /\ \A i \in got : i > rcur[p]
    BY DEF ServedRows, Rows
  <2> HIDE DEF got
  <2>4. rcur[p] \in Nat /\ Len(rev[p]) \in Nat
    BY DEF CursorInv, PinInv, PinTypes
  <2>5. Max(got \cup {rcur[p]}) \in Nat
    <3>1. PICK n2 \in Nat : rcur[p] <= n2 /\ Len(rev[p]) <= n2
      BY <2>4
    <3>2. ASSUME NEW i \in got PROVE i \in 0..n2
      <4>1. i \in 1..Len(rev[p])
        BY <2>3
      <4> QED BY <4>1, <2>4, <3>1
    <3>3. rcur[p] \in 0..n2
      BY <2>4, <3>1
    <3>4. got \cup {rcur[p]} \subseteq 0..n2 /\ got \cup {rcur[p]} # {}
      BY <3>2, <3>3
    <3> QED BY <3>4, NatMax
  <2>6. \A q \in Peers : sent'[q] = IF q = p THEN {i \in sent[p] : i <= rcur[p]} \cup got ELSE sent[q]
    BY <2>2 DEF CursorInv
  <2>7. PageCovers'
    <3>1. ASSUME NEW i \in sent'[p], i > rcur[p] PROVE i \in got
      <4>1. i \in {j \in sent[p] : j <= rcur[p]} \cup got
        BY <2>6
      <4>2. CASE i \in {j \in sent[p] : j <= rcur[p]}
        <5>1. i \in sent[p] /\ i <= rcur[p]
          BY <4>2
        <5>2. i \in 1..Len(rev[p])
          BY <5>1, <1>a
        <5> QED BY <5>1, <5>2, <3>1, <2>4
      <4> QED BY <4>1, <4>2
    <3> QED BY <2>2, <2>5, <3>1 DEF PageCovers
  <2>8. ReviewCursorCovers'
    <3>1. ASSUME NEW q \in Peers, NEW i \in sent'[q], i <= rcur[q] PROVE i \in sent[q]
      <4>1. CASE q # p
        BY <4>1, <2>6
      <4>2. CASE q = p
        <5>1. i \in {j \in sent[p] : j <= rcur[p]} \/ i \in got
          BY <4>2, <2>6
        <5>2. i \notin got
          <6> SUFFICES ASSUME i \in got PROVE FALSE
            OBVIOUS
          <6>1. i > rcur[p] /\ i \in 1..Len(rev[p])
            BY <2>3
          <6> QED BY <6>1, <3>1, <4>2, <2>4
        <5> QED BY <5>1, <5>2, <4>2
      <4> QED BY <4>1, <4>2
    <3> QED BY <2>2, <3>1, <1>a DEF ReviewCursorCovers, CursorInv
  <2>9. \A q \in Peers : sent'[q] \subseteq 1..Len(rev'[q])
    BY <2>2, <2>3, <2>6 DEF CursorInv
  <2>10. sent' = [q \in Peers |-> sent'[q]]
    BY <2>2 DEF CursorInv
  <2> QED BY <1>0, <2>2, <2>7, <2>8, <2>9, <2>10 DEF CursorInv
<1>2. CASE AdmitReview
  <2>1. /\ rpage # None /\ rpage.rest # {} /\ PageOK
        /\ UNCHANGED <<rev, rcur, sent>>
        /\ rpage' = [rpage EXCEPT !.rest = rpage.rest \ {Row}]
    BY <1>2 DEF AdmitReview, PinInv, PinTypes, CursorInv
  <2>2. /\ rpage'.peer = rpage.peer /\ rpage'.rest = rpage.rest \ {Row}
        /\ rpage'.next = rpage.next /\ rpage'.from = rpage.from /\ rpage.peer \in Peers
    BY <2>1 DEF PageOK
  <2>3. Row \in rpage.rest /\ Due \in ReviewRow
    BY <2>1, <1>0, DueIsRow DEF PinInv
  <2>4. PICK d \in Deals : d = Due.deal
    BY <2>3 DEF ReviewRow
  <2>5. PICK q \in Peers : q = rpage.peer
    BY <2>2
  <2>6. Reviewed(d)'
    <3> DEFINE x == [peer |-> rpage.peer, key |-> Due.key]
    <3>1. x \in [peer : Peers, key : Nat]
      BY <2>2, <2>3 DEF ReviewRow
    <3>2. \/ fedrev' = fedrev /\ local' = local /\ Reviewed(d)
          \/ fedrev' = [fedrev EXCEPT ![d] = x]
      BY <1>2, <2>4, Zenon DEF AdmitReview
    <3> HIDE DEF x
    <3>3. x # None
      BY <3>1, ReviewsAssumption
    <3> QED BY <3>2, <3>3, <1>0 DEF PinInv, PinTypes, Reviewed, Stays
  <2>7. PageCovers'
    <3>1. ASSUME NEW i \in sent[q], i > rcur[q]
          PROVE  i \in rpage.rest \ {Row} \/ Reviewed(Deal(q, i))'
      <4>1. i \in rpage.rest \/ Reviewed(Deal(q, i))
        BY <3>1, <2>1, <2>5 DEF CursorInv, PageCovers
      <4>2. CASE i = Row
        <5>1. Deal(q, i)' = d
          BY <4>2, <2>4, <2>5, <1>a DEF Due, Deal
        <5> QED BY <5>1, <2>6 DEF Reviewed
      <4>3. CASE i # Row
        BY <4>1, <4>3, <1>a
      <4> QED BY <4>2, <4>3
    <3>2. rpage.next \in Nat /\ rpage.from = rcur[rpage.peer]
      BY <2>1 DEF CursorInv, PageCovers
    <3> QED BY <2>1, <2>2, <2>5, <3>1, <3>2 DEF PageCovers
  <2>8. ReviewCursorCovers'
    BY <2>1, <1>a DEF CursorInv, ReviewCursorCovers
  <2> QED BY <1>0, <2>1, <2>7, <2>8 DEF CursorInv
<1>3. CASE StallReviews \/ FinishReviews
  <2>1. /\ rpage # None /\ PageOK /\ rpage' = None
        /\ UNCHANGED <<rev, sent, local, fedrev>>
    BY <1>3 DEF StallReviews, FinishReviews, PinInv, PinTypes, CursorInv
  <2>2. rpage.peer \in Peers /\ rpage.rest \subseteq 1..Len(rev[rpage.peer]) /\ rpage.next \in Nat
    BY <2>1 DEF PageOK, CursorInv, PageCovers
  <2>3. /\ rcur' \in [Peers -> Nat]
        /\ \A p \in Peers : p # rpage.peer => rcur'[p] = rcur[p]
        /\ \A i \in rpage.rest : i <= rcur'[rpage.peer] => i <= rcur[rpage.peer]
    <3>1. CASE StallReviews
      <4>1. rpage.rest # {}
        BY <3>1 DEF StallReviews
      <4>2. Row \in rpage.rest
        BY <4>1, <2>1, <1>0, DueIsRow DEF PinInv
      <4>3. \A k \in rpage.rest : Row <= k
        <5>1. rpage.rest \subseteq Nat
          BY <2>2
        <5>2. \E m \in rpage.rest : \A k \in rpage.rest : m <= k
          BY <5>1, <4>1, NatMin
        <5> QED BY <5>2, Zenon DEF Row, Min
      <4>4. rcur' = [rcur EXCEPT ![rpage.peer] = Row - 1] \/ rcur' = rcur
        BY <3>1 DEF StallReviews
      <4>5. Row \in Nat \ {0}
        BY <4>2, <2>2
      <4> HIDE DEF Row
      <4>6. rcur' \in [Peers -> Nat]
        BY <4>4, <4>5 DEF CursorInv
      <4>7. CASE rcur' = [rcur EXCEPT ![rpage.peer] = Row - 1]
        <5>1. rcur'[rpage.peer] = Row - 1
          BY <4>7, <2>2 DEF CursorInv
        <5>2. ASSUME NEW i \in rpage.rest PROVE ~(i <= Row - 1)
          <6>1. Row <= i /\ i \in Nat
            BY <4>3, <2>2
          <6> QED BY <6>1, <4>5
        <5> QED BY <4>6, <4>7, <5>1, <5>2 DEF CursorInv
      <4> QED BY <4>4, <4>6, <4>7
    <3>2. CASE FinishReviews
      <4>1. rpage.rest = {} /\ (rcur' = [rcur EXCEPT ![rpage.peer] = rpage.next] \/ rcur' = rcur)
        BY <3>2 DEF FinishReviews
      <4> QED BY <4>1, <2>2 DEF CursorInv
    <3> QED BY <1>3, <3>1, <3>2
  <2>4. ReviewCursorCovers'
    <3> SUFFICES ASSUME NEW p \in Peers, NEW i \in sent[p], i <= rcur'[p]
                 PROVE  Reviewed(Deal(p, i))
      BY <2>1 DEF ReviewCursorCovers, Reviewed, Deal
    <3>1. CASE i <= rcur[p]
      BY <3>1 DEF CursorInv, ReviewCursorCovers
    <3>2. CASE ~(i <= rcur[p])
      <4>1. p = rpage.peer
        BY <3>2, <2>3
      <4>2. i \in Nat /\ rcur[p] \in Nat
        BY <1>a DEF CursorInv
      <4>3. i > rcur[p] /\ i \notin rpage.rest
        BY <3>2, <4>1, <4>2, <2>3
      <4> QED BY <4>1, <4>3, <2>1 DEF CursorInv, PageCovers
    <3> QED BY <3>1, <3>2
  <2> QED BY <1>0, <2>1, <2>3, <2>4 DEF CursorInv, PageCovers
<1>4. CASE /\ UNCHANGED <<rcur, sent>> /\ rpage' \in {rpage, None}
  <2>1. PageCovers'
    <3> SUFFICES ASSUME rpage' = rpage, rpage # None PROVE PageCovers'
      BY <1>4 DEF PageCovers
    <3>1. rpage.peer \in Peers
      BY <1>0 DEF PinInv, PinTypes, PageOK
    <3>2. ASSUME NEW i \in sent[rpage.peer], i > rcur[rpage.peer]
          PROVE  i \in rpage.rest \/ Reviewed(Deal(rpage.peer, i))'
      BY <3>1, <3>2, <1>a DEF CursorInv, PageCovers
    <3>3. ASSUME NEW i \in sent[rpage.peer] PROVE Deal(rpage.peer, i)' = Deal(rpage.peer, i)
      BY <3>1, <1>a
    <3> QED BY <1>4, <3>2, <3>3 DEF CursorInv, PageCovers, Reviewed, Deal
  <2>2. ReviewCursorCovers'
    BY <1>4, <1>a DEF CursorInv, ReviewCursorCovers
  <2>3. \A p \in Peers : sent'[p] \subseteq 1..Len(rev'[p])
    BY <1>4, <1>a
  <2> QED BY <1>0, <1>4, <2>1, <2>2, <2>3 DEF CursorInv
<1>5. \/ \E p \in Peers, n \in 1..MaxPage : FetchReviews(p, n)
      \/ AdmitReview \/ StallReviews \/ FinishReviews
      \/ UNCHANGED <<rcur, sent>> /\ rpage' \in {rpage, None}
  BY DEF ReviewStep, RotateHub, Minute, PullReviews, CardElsewhere, UploadThere, UploadHere, StoreReview,
         SyncPin, RefreshPin, AdmitReviews, RestartReader
<1> QED BY <1>1, <1>2, <1>3, <1>4, <1>5

\* Whatever rows a peer served, the cursor passes none that is not reviewed here, for
\* any page sizes, stalls, rotations and restarts (syncReviews).
THEOREM ReviewCursorHolds == ReviewsSpec => []ReviewCursorCovers
<1>1. ReviewsInit => CursorInv
  BY DEF ReviewsInit, CursorInv, PinInv, PinTypes, PinReaches, PageCovers, ReviewCursorCovers
<1>2. CursorInv /\ [ReviewsNext]_allVars => CursorInv'
  <2>1. CursorInv /\ UNCHANGED reviewVars => CursorInv'
    BY DEF CursorInv, PinInv, PinTypes, PinReaches, PageOK, PageCovers, ReviewCursorCovers,
           Reviewed, Deal, reviewVars
  <2> QED BY <2>1, CursorKept DEF ReviewsNext, allVars
<1>3. CursorInv => ReviewCursorCovers
  BY DEF CursorInv
<1> QED BY <1>1, <1>2, <1>3, PTL DEF ReviewsSpec

-----------------------------------------------------------------------------
(* The directory.                                                           *)

StoredCard == [seq : Seqs, body : Bodies, key : Keys, listed : BOOLEAN, fs : Nat]
CardRequest == [hub : Peers, aid : AIDs, kel : Keys, card : Card \cup {None, Null},
                raw : Card \cup {None}, pc : {"card", "recheck", "write"}]
Change == [aid : AIDs, to : BOOLEAN, pc : {"count", "put", "clear"}, fs : Nat]

\* What a peer stores is well formed: the positions it serves are numbers and the cards cards.
PublisherOK ==
  /\ head \in [Peers -> Nat] /\ gone \in [Peers -> [AIDs -> Nat]]
  /\ card \in [Peers -> [AIDs -> StoredCard \cup {None}]]
  /\ vis \in [Peers -> Change \cup {None}]
  /\ req \in [Requests -> CardRequest \cup {None}]

LEMMA SignedIsCard ==
  ASSUME NEW row \in StoredCard
  PROVE  Signed(row) \in Card
BY DEF StoredCard, Signed, Card

\* One step at a peer, or of a request there, keeps what it stores well formed.
LEMMA PublisherKept ==
  ASSUME PublisherOK, CardsNext
  PROVE  PublisherOK'
<1> USE DEF PublisherOK
<1>0. /\ \A p \in Peers : head[p] \in Nat /\ head[p] + 1 \in Nat /\ head[p] + 2 \in Nat
      /\ \A p \in Peers, a \in AIDs : gone[p][a] \in Nat
  OBVIOUS
<1>c. ASSUME NEW p \in Peers, NEW a \in AIDs,
             gone' = gone \/ gone' = [gone EXCEPT ![p][a] = 0] \/ gone' = [gone EXCEPT ![p][a] = gone[p][a]]
      PROVE  gone' \in [Peers -> [AIDs -> Nat]]
  <2>1. CASE gone' = gone
    BY <2>1
  <2>2. CASE gone' = [gone EXCEPT ![p][a] = 0]
    BY <2>2
  <2>3. CASE gone' = [gone EXCEPT ![p][a] = gone[p][a]]
    BY <2>3
  <2> QED BY <1>c, <2>1, <2>2, <2>3
<1>1. ASSUME NEW p \in Peers, NEW a \in AIDs, PublishKeys(p, a) PROVE PublisherOK'
  <2>1. card[p][a] \in StoredCard
    BY <1>1 DEF PublishKeys, Published
  <2>a. PICK old \in StoredCard, n \in Nat : old = card[p][a] /\ n = head[p] + 1
    BY <1>0, <2>1
  <2> DEFINE row == [old EXCEPT !.listed = TRUE, !.fs = n]
  <2>2. row \in StoredCard
    BY DEF StoredCard
  <2>3. /\ head' = [head EXCEPT ![p] = head[p] + 1]
        /\ card' = [card EXCEPT ![p][a] = row]
        /\ gone' = [gone EXCEPT ![p][a] = 0] \/ gone' = [gone EXCEPT ![p][a] = gone[p][a]]
        /\ UNCHANGED <<vis, req>>
    BY <1>1, <2>a DEF PublishKeys, TakeSeq, Next1, Shown, Clear
  <2> HIDE DEF row
  <2>4. card' \in [Peers -> [AIDs -> StoredCard \cup {None}]]
    BY <2>2, <2>3
  <2>5. gone' \in [Peers -> [AIDs -> Nat]]
    BY <2>3, <1>c
  <2> QED BY <2>3, <2>4, <2>5
<1>2. ASSUME NEW p \in Peers, NEW a \in AIDs, Withdraw(p, a)
      PROVE  head' \in [Peers -> Nat] /\ gone' \in [Peers -> [AIDs -> Nat]]
  <2>1. \/ UNCHANGED <<head, gone>>
        \/ head' = [head EXCEPT ![p] = head[p] + 1] /\ gone' = [gone EXCEPT ![p][a] = head[p] + 1]
    BY <1>2 DEF Withdraw, TakeSeq, Next1
  <2>2. PICK n \in Nat : n = head[p] + 1
    BY <1>0
  <2>3. gone' = [gone EXCEPT ![p][a] = n] => gone' \in [Peers -> [AIDs -> Nat]]
    OBVIOUS
  <2>4. head' = [head EXCEPT ![p] = n] => head' \in [Peers -> Nat]
    OBVIOUS
  <2> QED BY <2>1, <2>2, <2>3, <2>4
<1>3. ASSUME NEW p \in Peers, NEW a \in AIDs, Deregister(p, a) PROVE PublisherOK'
  BY <1>3, <1>2 DEF Deregister
<1>4. ASSUME NEW p \in Peers, NEW a \in AIDs, NEW to \in BOOLEAN, SetVisibility(p, a, to) PROVE PublisherOK'
  BY <1>4 DEF SetVisibility, Change
<1>5. ASSUME NEW p \in Peers, NEW a \in AIDs, NEW r \in Requests, NEW kel \in Keys,
             NEW c \in Card \cup {None, Null}, Push(r, p, a, kel) \/ Register(r, p, a, kel, c)
      PROVE  PublisherOK'
  BY <1>5 DEF Push, Register, CardRequest
<1>6. ASSUME NEW p \in Peers, VisTake(p) PROVE PublisherOK'
  <2>1. vis[p] \in Change
    BY <1>6 DEF VisTake
  <2>2. PICK v \in Change : v = vis[p]
    BY <2>1
  <2>a. PICK n \in Nat : n = head[p] + 1
    BY <1>0
  <2> DEFINE w == [v EXCEPT !.pc = "put", !.fs = n]
  <2>3. \/ head' = [head EXCEPT ![p] = n] /\ vis' = [vis EXCEPT ![p] = w]
        \/ head' = head /\ vis' = [vis EXCEPT ![p] = None]
    BY <1>6, <2>2, <2>a DEF VisTake, TakeSeq, Next1
  <2>4. w \in Change
    BY DEF Change
  <2> HIDE DEF w
  <2> QED BY <1>6, <2>3, <2>4 DEF VisTake
<1>7. ASSUME NEW p \in Peers, VisPut(p) PROVE PublisherOK'
  <2>1. vis[p] \in Change
    BY <1>7 DEF VisPut
  <2>2. PICK v \in Change : v = vis[p]
    BY <2>1
  <2>3. PICK a \in AIDs : a = v.aid
    BY DEF Change
  <2>4. v.fs \in Nat /\ [v EXCEPT !.pc = "clear"] \in Change
    BY DEF Change
  <2>5. UNCHANGED <<head, req>>
    BY <1>7 DEF VisPut
  <2>6. vis' = [vis EXCEPT ![p] = [v EXCEPT !.pc = "clear"]] \/ vis' = [vis EXCEPT ![p] = None]
    BY <1>7, <2>2 DEF VisPut
  <2>7. vis' \in [Peers -> Change \cup {None}]
    BY <2>4, <2>6
  <2>8. gone' = gone \/ gone' = [gone EXCEPT ![p][a] = v.fs]
    BY <1>7, <2>2, <2>3 DEF VisPut
  <2>9. PICK n \in Nat : n = v.fs
    BY <2>4
  <2>10. gone' = [gone EXCEPT ![p][a] = n] => gone' \in [Peers -> [AIDs -> Nat]]
    OBVIOUS
  <2>11. card' \in [Peers -> [AIDs -> StoredCard \cup {None}]]
    <3>1. \/ card' = card
          \/ card[p][vis[p].aid] # None /\ card' = [card EXCEPT ![p][vis[p].aid].fs = vis[p].fs]
      BY <1>7, Zenon DEF VisPut
    <3>2. ASSUME card[p][vis[p].aid] # None, card' = [card EXCEPT ![p][vis[p].aid].fs = vis[p].fs]
          PROVE  card' \in [Peers -> [AIDs -> StoredCard \cup {None}]]
      <4>1. PICK row \in StoredCard : row = card[p][a]
        BY <3>2, <2>2, <2>3
      <4> DEFINE moved == [row EXCEPT !.fs = n]
      <4>2. moved \in StoredCard
        BY DEF StoredCard
      <4>3. card' = [card EXCEPT ![p][vis[p].aid] = [card[p][vis[p].aid] EXCEPT !.fs = vis[p].fs]]
        BY <3>2
      <4>4. [card[p][vis[p].aid] EXCEPT !.fs = vis[p].fs] = moved
        BY <2>2, <2>3, <2>9, <4>1, Zenon
      <4> HIDE DEF moved
      <4>5. card' = [card EXCEPT ![p][a] = moved]
        BY <4>3, <4>4, <2>2, <2>3
      <4> QED BY <4>2, <4>5
    <3> QED BY <3>1, <3>2
  <2> QED BY <2>5, <2>7, <2>8, <2>9, <2>10, <2>11
<1>8. ASSUME NEW p \in Peers, VisClear(p) PROVE PublisherOK'
  <2>1. vis[p] \in Change
    BY <1>8 DEF VisClear
  <2>2. PICK a \in AIDs : a = vis[p].aid
    BY <2>1 DEF Change
  <2>3. \/ gone' = gone \/ gone' = [gone EXCEPT ![p][a] = 0]
        \/ gone' = [gone EXCEPT ![p][a] = gone[p][a]]
    BY <1>8, <2>2 DEF VisClear, Clear
  <2>4. gone' \in [Peers -> [AIDs -> Nat]]
    BY <2>3, <1>c
  <2> QED BY <1>8, <2>4 DEF VisClear
<1>9. ASSUME NEW p \in Peers, Stop(p) PROVE PublisherOK'
  BY <1>9 DEF Stop
<1>10. ASSUME NEW r \in Requests, WithdrawCard(r) PROVE PublisherOK'
  <2>1. req[r] \in CardRequest /\ req[r].hub \in Peers /\ req[r].aid \in AIDs
    BY <1>10 DEF WithdrawCard, CardRequest
  <2>2. PICK p \in Peers, a \in AIDs : p = req[r].hub /\ a = req[r].aid
    BY <2>1
  <2>3. Withdraw(p, a) /\ card' = [card EXCEPT ![p][a] = None] /\ req' = [req EXCEPT ![r] = None] /\ vis' = vis
    BY <1>10, <2>2 DEF WithdrawCard
  <2> QED BY <2>3, <1>2
<1>11. ASSUME NEW r \in Requests, AdmitCard(r) PROVE PublisherOK'
  <2>1. req[r] \in CardRequest /\ req[r].hub \in Peers /\ req[r].aid \in AIDs /\ req[r].card \in Card
    BY <1>11 DEF AdmitCard, CardRequest
  <2>2. PICK p \in Peers, a \in AIDs : p = req[r].hub /\ a = req[r].aid
    BY <2>1
  <2> DEFINE again == card[p][a] # None /\ Signed(card[p][a]) = req[r].card
             pos == IF again /\ card[p][a].listed THEN card[p][a].fs ELSE head[p] + 1
             row == [seq |-> req[r].card.seq, body |-> req[r].card.body, key |-> req[r].card.key,
                     listed |-> TRUE, fs |-> pos]
  <2>3. pos \in Nat
    BY DEF StoredCard
  <2>4. /\ head' = [head EXCEPT ![p] = head[p] + 1] /\ card' = [card EXCEPT ![p][a] = row]
        /\ gone' = [gone EXCEPT ![p][a] = 0] \/ gone' = [gone EXCEPT ![p][a] = gone[p][a]]
        /\ req' = [req EXCEPT ![r] = None] /\ vis' = vis
    BY <1>11, <2>2 DEF AdmitCard, TakeSeq, Next1, Clear
  <2> HIDE DEF pos
  <2>5. row \in StoredCard
    BY <2>1, <2>3 DEF StoredCard, Card
  <2> HIDE DEF row
  <2>6. card' \in [Peers -> [AIDs -> StoredCard \cup {None}]]
    BY <2>4, <2>5
  <2>7. gone' \in [Peers -> [AIDs -> Nat]]
    BY <2>4, <1>c
  <2> QED BY <2>4, <2>6, <2>7
<1>12. ASSUME NEW r \in Requests, RefuseCard(r) PROVE PublisherOK'
  BY <1>12 DEF RefuseCard, CardRequest
<1>13. ASSUME NEW r \in Requests, Recheck(r) PROVE PublisherOK'
  <2>1. req[r] \in CardRequest /\ req[r].hub \in Peers /\ req[r].aid \in AIDs
    BY <1>13 DEF Recheck, CardRequest
  <2>2. PICK p \in Peers, a \in AIDs : p = req[r].hub /\ a = req[r].aid
    BY <2>1
  <2> DEFINE c == Signed(card[p][a])
  <2>3. \/ req' = [req EXCEPT ![r] = None]
        \/ card[p][a] # None /\ req' = [req EXCEPT ![r] = [req[r] EXCEPT !.raw = c, !.pc = "write"]]
    BY <1>13, <2>2, Zenon DEF Recheck
  <2>4. card[p][a] # None => c \in Card
    BY SignedIsCard
  <2> HIDE DEF c
  <2>5. req' \in [Requests -> CardRequest \cup {None}]
    <3>1. PICK q \in CardRequest : q = req[r]
      BY <2>1
    <3>2. ASSUME c \in Card PROVE [q EXCEPT !.raw = c, !.pc = "write"] \in CardRequest
      BY <3>2 DEF CardRequest
    <3> QED BY <2>3, <2>4, <3>1, <3>2
  <2> QED BY <1>13, <2>5 DEF Recheck
<1>14. ASSUME NEW r \in Requests, Delist(r) PROVE PublisherOK'
  <2>1. req[r] \in CardRequest /\ req[r].hub \in Peers /\ req[r].aid \in AIDs
    BY <1>14 DEF Delist, CardRequest
  <2>2. PICK p \in Peers, a \in AIDs : p = req[r].hub /\ a = req[r].aid
    BY <2>1
  <2>3. /\ head' = [head EXCEPT ![p] = head[p] + 2] \/ head' = [head EXCEPT ![p] = head[p] + 1] \/ head' = head
        /\ gone' = [gone EXCEPT ![p][a] = head[p] + 2] \/ gone' = gone
        /\ \/ card[p][a] # None /\ card' = [card EXCEPT ![p][a].listed = FALSE, ![p][a].fs = head[p] + 1]
           \/ card' = card
        /\ req' = [req EXCEPT ![r] = None] /\ vis' = vis
    BY <1>14, <2>2 DEF Delist, StillListed, TakeSeq, Next1
  <2>4. card' \in [Peers -> [AIDs -> StoredCard \cup {None}]]
    <3>1. CASE card' = card
      BY <3>1
    <3>2. ASSUME card[p][a] # None, card' = [card EXCEPT ![p][a].listed = FALSE, ![p][a].fs = head[p] + 1]
          PROVE  card' \in [Peers -> [AIDs -> StoredCard \cup {None}]]
      <4>1. PICK row \in StoredCard, n \in Nat : row = card[p][a] /\ n = head[p] + 1
        BY <1>0, <3>2
      <4> DEFINE moved == [row EXCEPT !.listed = FALSE, !.fs = n]
      <4>2. moved \in StoredCard
        BY DEF StoredCard
      <4>3. card' = [card EXCEPT ![p][a] = moved]
        BY <3>2, <4>1
      <4> HIDE DEF moved
      <4> QED BY <4>2, <4>3
    <3> QED BY <2>3, <3>1, <3>2
  <2>5. PICK n \in Nat : n = head[p] + 2
    BY <1>0
  <2>6. gone' = [gone EXCEPT ![p][a] = n] => gone' \in [Peers -> [AIDs -> Nat]]
    OBVIOUS
  <2>7. head' \in [Peers -> Nat]
    BY <2>3, <1>0
  <2> QED BY <2>3, <2>4, <2>5, <2>6, <2>7
<1>15. CASE UNCHANGED <<head, gone, card, vis, req>>
  BY <1>15
<1>16. CardsNext =>
         \/ \E p \in Peers : AtHub(p)
         \/ \E r \in Requests : Settle(r)
         \/ UNCHANGED <<head, gone, card, vis, req>>
  BY DEF CardsNext, Pull, Fetch, AdmitEntry, AdmitWithdrawal, PassOver, Learn, Stall, Finish,
         ReaderStops, Rotate, Move, publisher
<1>17. ASSUME NEW p \in Peers, AtHub(p) PROVE PublisherOK'
  BY <1>17, <1>1, <1>3, <1>4, <1>5, <1>6, <1>7, <1>8, <1>9 DEF AtHub
<1>18. ASSUME NEW r \in Requests, Settle(r) PROVE PublisherOK'
  BY <1>18, <1>10, <1>11, <1>12, <1>13, <1>14 DEF Settle
<1> QED BY <1>15, <1>16, <1>17, <1>18

\* An entry of the stream; a withdrawal has None for its card.
EntryOK(e) == e.fs \in Nat /\ (e.card # None => e.card \in Card)

PageFormed ==
  /\ page = [peer |-> page.peer, from |-> page.from, rest |-> page.rest, next |-> page.next]
  /\ page.peer \in Peers /\ \A e \in page.rest : EntryOK(e)

FedFormed(a) ==
  /\ fed[a] \in [seq : Seqs, body : Bodies, key : Keys, kel : Keys, peer : Peers, listed : BOOLEAN]
  /\ fed[a].kel = fed[a].key

MovesOn(a) ==
  /\ Signed(fed[a]) \in taught[a]
  /\ \A c \in taught[a] :
       /\ c.key <= fed[a].key
       /\ c.key = fed[a].key => c.seq <= fed[a].seq /\ (c.seq = fed[a].seq => c.body = fed[a].body)

\* What the reader holds of an agent: nothing when it took nothing, else the card that
\* outranks what it took, which its history vouches for.
MovesInv ==
  /\ PublisherOK
  /\ page # None => PageFormed
  /\ fed = [a \in AIDs |-> fed[a]] /\ taught \in [AIDs -> SUBSET Card]
  /\ \A a \in AIDs : IF fed[a] = None THEN taught[a] = {} ELSE FedFormed(a) /\ MovesOn(a)

LEMMA ServedFormed ==
  ASSUME PublisherOK, NEW p \in Peers, NEW e \in Served(p)
  PROVE  EntryOK(e)
<1>1. CASE e \in {[fs |-> card[p][a].fs, aid |-> a, kel |-> agent[p][a].kel, card |-> Signed(card[p][a])] :
                    a \in {b \in AIDs : Published(p, b)}}
  <2>1. PICK a \in AIDs : Published(p, a) /\ e.fs = card[p][a].fs /\ e.card = Signed(card[p][a])
    BY <1>1
  <2>2. card[p][a] \in StoredCard
    BY <2>1 DEF Published, PublisherOK
  <2>3. card[p][a].fs \in Nat
    BY <2>2 DEF StoredCard
  <2> QED BY <2>1, <2>2, <2>3, SignedIsCard DEF EntryOK
<1>2. CASE e \in {[fs |-> gone[p][a], aid |-> a, kel |-> 0, card |-> None] : a \in {b \in AIDs : gone[p][b] > 0}}
  <2>1. PICK a \in AIDs : e.fs = gone[p][a] /\ e.card = None
    BY <1>2
  <2>2. gone[p][a] \in Nat
    BY DEF PublisherOK
  <2> QED BY <2>1, <2>2 DEF EntryOK
<1> QED BY <1>1, <1>2 DEF Served

LEMMA FirstIsEntry ==
  ASSUME MovesInv, page # None, page.rest # {}
  PROVE  First \in page.rest /\ EntryOK(First) /\ \A f \in page.rest : First.fs <= f.fs
<1> DEFINE T == {e.fs : e \in page.rest}
<1>1. T \subseteq Nat /\ T # {}
  BY DEF MovesInv, PageFormed, EntryOK
<1> HIDE DEF T
<1>2. PICK m \in T : \A k \in T : m <= k
  BY <1>1, NatMin
<1>3. PICK e \in page.rest : e.fs = m
  BY <1>2 DEF T
<1>4. \A f \in page.rest : e.fs <= f.fs
  BY <1>2, <1>3 DEF T
<1>5. First \in page.rest /\ \A f \in page.rest : First.fs <= f.fs
  BY <1>4, Zenon DEF First
<1> QED BY <1>5 DEF MovesInv, PageFormed

\* A card that is not refused outranks what was taken before.
LEMMA LearnedOutranks ==
  ASSUME MovesInv, page # None, NEW a \in AIDs, NEW e, e.card \in Card, ~Refused(fed[a], e), fed[a] # None,
         NEW c \in taught[a]
  PROVE  /\ c.key <= e.card.key
         /\ c.key = e.card.key => c.seq <= e.card.seq /\ (c.seq = e.card.seq => c.body = e.card.body)
<1>1. FedFormed(a) /\ MovesOn(a) /\ c \in Card
  BY DEF MovesInv
<1>2. /\ fed[a].key \in Int /\ fed[a].seq \in Int /\ c.key \in Int /\ c.seq \in Int
      /\ e.card.key \in Int /\ e.card.seq \in Int
  BY <1>1 DEF FedFormed, Card, Seqs, Keys
<1>3. e.kel = e.card.key /\ e.kel >= fed[a].kel /\ fed[a].kel = fed[a].key
  BY <1>1, <1>2 DEF Refused, Verifies, FedFormed
<1>4. \/ fed[a].seq > e.card.seq /\ fed[a].key < e.card.key
      \/ e.card.seq > fed[a].seq
      \/ e.card.seq = fed[a].seq /\ e.card.body = fed[a].body
  BY <1>2, <1>3 DEF Refused, Judged, Mark
<1>5. c.key <= fed[a].key /\ (c.key = fed[a].key =>
        c.seq <= fed[a].seq /\ (c.seq = fed[a].seq => c.body = fed[a].body))
  BY <1>1 DEF MovesOn
<1> QED BY <1>2, <1>3, <1>4, <1>5

LEMMA MovesKept ==
  ASSUME MovesInv, CardsNext
  PROVE  MovesInv'
<1>0. PublisherOK'
  BY PublisherKept DEF MovesInv
<1>1. CASE Learn
  <2>1. /\ page # None /\ page.rest # {} /\ First.card # None /\ ~Refused(fed[First.aid], First)
        /\ fed' = [fed EXCEPT ![First.aid] = Learned(page.peer, First)]
        /\ taught' = [taught EXCEPT ![First.aid] = taught[First.aid] \cup {First.card}]
        /\ page' = [page EXCEPT !.rest = page.rest \ {First}]
    BY <1>1 DEF Learn
  <2>2. PICK e : e = First
    OBVIOUS
  <2>3. e.card \in Card
    BY <2>1, <2>2, FirstIsEntry DEF EntryOK
  <2>4. PICK q \in Peers : q = page.peer
    BY <2>1 DEF MovesInv, PageFormed
  <2> DEFINE x == Learned(q, e)
  <2>5. fed' = [fed EXCEPT ![e.aid] = x] /\ taught' = [taught EXCEPT ![e.aid] = taught[e.aid] \cup {e.card}]
    BY <2>1, <2>2, <2>4
  <2>6. PageFormed'
    BY <2>1 DEF MovesInv, PageFormed
  <2>7. e.kel = e.card.key
    BY <2>1, <2>2 DEF Refused, Verifies
  <2>8. /\ x \in [seq : Seqs, body : Bodies, key : Keys, kel : Keys, peer : Peers, listed : BOOLEAN]
        /\ x.kel = x.key
        /\ x.seq = e.card.seq /\ x.body = e.card.body /\ x.key = e.card.key
        /\ Signed(x) = e.card
    BY <2>3, <2>7 DEF Learned, Card, Signed
  <2> HIDE DEF x
  <2>9. ASSUME NEW a \in AIDs
        PROVE  IF fed'[a] = None THEN taught'[a] = {} ELSE FedFormed(a)' /\ MovesOn(a)'
    <3>1. CASE a = e.aid
      <4>1. fed'[a] = x /\ taught'[a] = taught[a] \cup {e.card}
        BY <3>1, <2>5 DEF MovesInv
      <4>2. FedFormed(a)'
        BY <4>1, <2>8 DEF FedFormed
      <4>3. ASSUME NEW c \in taught'[a]
            PROVE  /\ c.key <= x.key
                   /\ c.key = x.key => c.seq <= x.seq /\ (c.seq = x.seq => c.body = x.body)
        <5>1. CASE c = e.card
          BY <5>1, <2>3, <2>8 DEF Card, Seqs, Keys
        <5>2. CASE c \in taught[a]
          <6>1. fed[a] # None
            BY <5>2 DEF MovesInv
          <6>2. ~Refused(fed[a], e)
            BY <2>1, <2>2, <3>1
          <6> QED BY <5>2, <6>1, <6>2, <2>1, <2>3, <2>8, LearnedOutranks
        <5> QED BY <4>1, <5>1, <5>2
      <4>4. MovesOn(a)'
        BY <2>8, <4>1, <4>3 DEF MovesOn
      <4>5. x # None
        BY <2>8, CardsAssumption
      <4> QED BY <4>1, <4>2, <4>4, <4>5
    <3>2. CASE a # e.aid
      <4>1. fed'[a] = fed[a] /\ taught'[a] = taught[a]
        BY <3>2, <2>5 DEF MovesInv
      <4> QED BY <4>1 DEF MovesInv, FedFormed, MovesOn
    <3> QED BY <3>1, <3>2
  <2>10. fed' = [a \in AIDs |-> fed'[a]] /\ taught' \in [AIDs -> SUBSET Card]
    BY <2>3, <2>5 DEF MovesInv
  <2> QED BY <1>0, <2>6, <2>9, <2>10 DEF MovesInv
<1>2. CASE AdmitWithdrawal
  <2>1. /\ page # None /\ taught' = taught
        /\ fed' = [fed EXCEPT ![First.aid] = Retired(page.peer, fed[First.aid])]
        /\ page' = [page EXCEPT !.rest = page.rest \ {First}]
    BY <1>2 DEF AdmitWithdrawal
  <2>2. PageFormed'
    BY <2>1 DEF MovesInv, PageFormed
  <2>3. ASSUME NEW a \in AIDs
        PROVE  IF fed'[a] = None THEN taught'[a] = {} ELSE FedFormed(a)' /\ MovesOn(a)'
    <3>1. CASE fed'[a] = fed[a]
      BY <3>1, <2>1 DEF MovesInv, FedFormed, MovesOn
    <3>2. CASE fed'[a] # fed[a]
      <4>1. fed[a] # None /\ fed'[a] = [fed[a] EXCEPT !.listed = FALSE]
        BY <2>1, <3>2 DEF MovesInv, Retired
      <4>2. FedFormed(a) /\ MovesOn(a)
        BY <4>1 DEF MovesInv
      <4>3. /\ fed'[a].seq = fed[a].seq /\ fed'[a].body = fed[a].body /\ fed'[a].key = fed[a].key
            /\ FedFormed(a)'
        BY <4>1, <4>2 DEF FedFormed
      <4>4. MovesOn(a)'
        <5>1. Signed(fed'[a]) = Signed(fed[a])
          BY <4>3 DEF Signed
        <5> QED BY <2>1, <4>2, <4>3, <5>1 DEF MovesOn
      <4>5. fed'[a] # None
        BY <4>3, CardsAssumption DEF FedFormed
      <4> QED BY <4>3, <4>4, <4>5
    <3> QED BY <3>1, <3>2
  <2>4. fed' = [a \in AIDs |-> fed'[a]]
    BY <2>1 DEF MovesInv
  <2> QED BY <1>0, <2>1, <2>2, <2>3, <2>4 DEF MovesInv
<1>3. ASSUME NEW p \in Peers, NEW full \in BOOLEAN, NEW n \in 1..MaxPage, Fetch(p, full, n) PROVE MovesInv'
  <2> DEFINE from == IF full THEN 0 ELSE cur[p]
             got == FirstOf(After(p, from), n)
  <2>1. page' = [peer |-> p, from |-> from, rest |-> got, next |-> LastOf(got, from)] /\ UNCHANGED <<fed, taught>>
    BY <1>3 DEF Fetch
  <2>2. \A e \in got : e \in Served(p)
    BY DEF FirstOf, After
  <2>3. \A e \in got : EntryOK(e)
    BY <2>2, ServedFormed DEF MovesInv
  <2> HIDE DEF got, from
  <2>4. PageFormed'
    BY <2>1, <2>3 DEF PageFormed
  <2> QED BY <1>0, <2>1, <2>4 DEF MovesInv, FedFormed, MovesOn
<1>4. CASE UNCHANGED <<fed, taught>> /\ page' = [page EXCEPT !.rest = page.rest \ {First}] /\ page # None
  <2>1. PageFormed'
    BY <1>4 DEF MovesInv, PageFormed
  <2> QED BY <1>0, <1>4, <2>1 DEF MovesInv, FedFormed, MovesOn
<1>5. CASE UNCHANGED <<fed, taught>> /\ page' \in {page, None}
  BY <1>0, <1>5 DEF MovesInv, PageFormed, FedFormed, MovesOn
<1>6. PassOver => UNCHANGED <<fed, taught>> /\ page' = [page EXCEPT !.rest = page.rest \ {First}] /\ page # None
  BY DEF PassOver
<1>7. ASSUME NEW p \in Peers, AtHub(p) PROVE UNCHANGED <<fed, taught, page>>
  BY <1>7 DEF AtHub, PublishKeys, Deregister, SetVisibility, Push, Register, VisTake, VisPut, VisClear, Stop, reader
<1>8. ASSUME NEW r \in Requests, Settle(r) PROVE UNCHANGED <<fed, taught, page>>
  BY <1>8 DEF Settle, WithdrawCard, AdmitCard, RefuseCard, Recheck, Delist, reader
<1>9. \/ Stall \/ Finish \/ ReaderStops \/ \E a \in AIDs : Rotate(a) \/ Move(a)
      => UNCHANGED <<fed, taught>> /\ page' \in {page, None}
  BY DEF Stall, Finish, ReaderStops, Rotate, Move, reader
<1> QED BY <1>1, <1>2, <1>3, <1>4, <1>5, <1>6, <1>7, <1>8, <1>9 DEF CardsNext, Pull, AdmitEntry

\* The directory never goes back to an older card, whichever peers offer which cards in
\* which order, withdraw them and restart (AdmitFedA2ACard, markUnlessRetired).
THEOREM DirectoryOutranks == CardsSpec => []DirectoryMovesOn
<1>1. CardsInit => MovesInv
  BY DEF CardsInit, MovesInv, PublisherOK
<1>2. MovesInv /\ [CardsNext]_vars => MovesInv'
  <2>1. MovesInv /\ UNCHANGED vars => MovesInv'
    BY DEF MovesInv, PublisherOK, PageFormed, FedFormed, MovesOn, vars, publisher, reader
  <2> QED BY <2>1, MovesKept
<1>3. MovesInv => DirectoryMovesOn
  BY DEF MovesInv, MovesOn, DirectoryMovesOn
<1> QED BY <1>1, <1>2, <1>3, PTL DEF CardsSpec

-----------------------------------------------------------------------------
(* The cursor of the cards: what the peer holds.                            *)

AgentRow == [kel : Keys, federates : BOOLEAN]

HubTypes ==
  /\ own \in [AIDs -> Keys] /\ known \in [Peers -> [AIDs -> 0..MaxKey]]
  /\ cut \in [Peers -> SUBSET AIDs]
  /\ agent \in [Peers -> [AIDs -> AgentRow \cup {None}]]

\* What a peer holds of an agent: the history is the longest it knows, the card's key
\* is of it, and the positions are among those given out.
RowOK(p, a) ==
  /\ gone[p][a] <= head[p]
  /\ agent[p][a] # None => agent[p][a].kel = known[p][a]
  /\ card[p][a] # None => card[p][a].fs \in 1..head[p] /\ card[p][a].key <= known[p][a]

\* The peer serves a card and a withdrawal of it only while a change is under way.
BothOK(p, a) == a \notin cut[p] /\ Published(p, a) /\ gone[p][a] > 0 => Changing(p, a) /\ vis[p].to

PositionOK(p) == vis[p] # None /\ vis[p].pc = "put" => vis[p].fs \in 1..head[p]

\* A visibility change under way that nothing interrupted or overtook: the agent is
\* there, and its card is where the statements so far have put it.
ChangeOK(p) ==
  LET v == vis[p]
      a == v.aid
  IN  v # None /\ a \notin cut[p] =>
        /\ agent[p][a] # None /\ agent[p][a].federates = v.to
        /\ v.pc = "clear" => v.to /\ card[p][a] # None /\ card[p][a].fs > gone[p][a]
        /\ v.to /\ v.pc \in {"put", "clear"} => card[p][a] # None /\ card[p][a].listed

RequestOK(r) == req[r] # None => req[r].kel <= known[req[r].hub][req[r].aid]

HubInv ==
  /\ HubTypes
  /\ \A p \in Peers : PositionOK(p) /\ ChangeOK(p) /\ \A a \in AIDs : RowOK(p, a) /\ BothOK(p, a)
  /\ \A r \in Requests : RequestOK(r)

-----------------------------------------------------------------------------
(* The cursor of the cards: what the reader holds.                          *)

OnPage(p) == page # None /\ page.peer = p

\* A position neither the cursor nor the page under way has reached.
Ahead(p, n) == n > cur[p] /\ (OnPage(p) => n > page.next)

\* An entry the reader was given.
GivenOK(p, e) ==
  /\ e.aid \in AIDs /\ e.fs \in 1..page.next
  /\ e.card # None => e.card \in Card /\ e.kel \in Keys /\ e.card.key <= e.kel /\ e.kel <= known[p][e.aid]

GivenPage == [peer : Peers, from : Nat, next : Nat,
              rest : SUBSET [fs : Nat, aid : AIDs, kel : 0..MaxKey, card : Card \cup {None}]]

CardPageOK ==
  page # None =>
    /\ page \in GivenPage
    /\ page.peer \in Peers /\ page.from \in {0, cur[page.peer]}
    /\ page.next \in Nat /\ page.from <= page.next /\ page.next <= head[page.peer]
    /\ \A e \in page.rest : GivenOK(page.peer, e)

\* A position set aside for a visibility change is above all that is served so far.
SetAside(p) ==
  vis[p] # None /\ vis[p].pc = "put" /\ vis[p].aid \notin cut[p] =>
    /\ Ahead(p, vis[p].fs)
    /\ \A a \in AIDs : gone[p][a] < vis[p].fs /\ (card[p][a] # None => card[p][a].fs < vis[p].fs)

PlaceInv ==
  /\ cur \in [Peers -> Nat] /\ \A p \in Peers : cur[p] <= head[p] /\ SetAside(p)
  /\ CardPageOK

\* The reader lists the peer's card, or is about to.
CardAwaited(p, a) == OnPage(p) /\ \E e \in page.rest : e.aid = a /\ e.card # None
Believed(p, a) == ListsFrom(p, a) \/ CardAwaited(p, a)
WithdrawalAwaited(p, a) == OnPage(p) /\ \E e \in page.rest : e.aid = a /\ e.card = None /\ e.fs = gone[p][a]

\* A visibility change between its first statement and the card's new position, and one
\* that will write the withdrawal.
Between(p, a) == Changing(p, a) /\ vis[p].pc \in {"count", "put"}
Narrowing(p, a) == Changing(p, a) /\ ~vis[p].to /\ (vis[p].pc = "put" \/ (vis[p].pc = "count" /\ card[p][a] # None))

Dealt(p, a) == Taken(p, a) \/ a \in crossed[p]

\* A card the reader may list and the peer no longer publishes has its withdrawal.
StandsIn(p, a) == Believed(p, a) /\ ~Published(p, a) => gone[p][a] > 0 \/ Narrowing(p, a)

\* A withdrawal behind the cursor, or on the page, was applied or is about to be.
WithdrawnIn(p, a) ==
  ~Published(p, a) /\ gone[p][a] > 0 =>
    /\ gone[p][a] <= cur[p] => ~Believed(p, a)
    /\ OnPage(p) /\ gone[p][a] <= page.next => ~CardAwaited(p, a) /\ (ListsFrom(p, a) => WithdrawalAwaited(p, a))

\* A card behind the cursor, or on the page, is dealt with or is about to be.
DealtIn(p, a) ==
  Published(p, a) /\ ~Between(p, a) =>
    /\ card[p][a].fs <= cur[p] => Dealt(p, a)
    /\ OnPage(p) /\ card[p][a].fs <= page.next => Dealt(p, a) \/ CardAwaited(p, a)

\* A card on the page that did not move since is the one the peer has.
SameIn(p, a) ==
  OnPage(p) /\ card[p][a] # None /\ ~Ahead(p, card[p][a].fs) =>
    \A e \in page.rest : e.aid = a /\ e.card # None => e.fs = card[p][a].fs /\ e.card = Signed(card[p][a])

DirectoryIn(p, a) == StandsIn(p, a) /\ WithdrawnIn(p, a) /\ DealtIn(p, a) /\ SameIn(p, a)

ReaderInv ==
  /\ crossed \in [Peers -> SUBSET AIDs]
  /\ \A p \in Peers : \A a \in AIDs \ cut[p] : DirectoryIn(p, a)

-----------------------------------------------------------------------------
(* A step of a peer, seen from the reader: what it serves of an agent moves  *)
(* only to positions ahead of the reader.                                    *)

Effect(p, a) ==
  /\ gone'[p][a] = gone[p][a] \/ Ahead(p, gone'[p][a]) \/ (gone'[p][a] = 0 /\ Published(p, a)')
  /\ card'[p][a] = card[p][a] \/ card'[p][a] = None \/ Ahead(p, card'[p][a].fs)
  /\ Published(p, a)' /\ ~Between(p, a)' => Ahead(p, card'[p][a].fs) \/ (Published(p, a) /\ ~Between(p, a))
  /\ Published(p, a) /\ ~Published(p, a)' => Ahead(p, gone'[p][a]) \/ (gone'[p][a] = 0 /\ Narrowing(p, a)')
  /\ ~Published(p, a) /\ ~Published(p, a)' =>
       /\ gone'[p][a] = gone[p][a] \/ Ahead(p, gone'[p][a])
       /\ Narrowing(p, a) => Narrowing(p, a)' \/ Ahead(p, gone'[p][a])

RowKept(p, a) ==
  /\ gone'[p][a] = gone[p][a] /\ card'[p][a] = card[p][a]
  /\ agent'[p][a] = agent[p][a] /\ known'[p][a] = known[p][a]

\* A step that concerns one agent at one peer.
OnlyRow(p, a) ==
  /\ UNCHANGED reader
  /\ \A q \in Peers, b \in AIDs : q # p \/ b # a => RowKept(q, b)
  /\ \A q \in Peers : q # p => head'[q] = head[q] /\ vis'[q] = vis[q] /\ cut'[q] = cut[q]
  /\ head'[p] >= head[p] /\ known'[p][a] >= known[p][a] /\ cut[p] \subseteq cut'[p]

RowStep(p, a) ==
  /\ OnlyRow(p, a)
  /\ \A b \in AIDs : b # a /\ b \notin cut'[p] => ~Changing(p, b) /\ ~Changing(p, b)'
  /\ RowOK(p, a)' /\ BothOK(p, a)' /\ PositionOK(p)' /\ ChangeOK(p)' /\ SetAside(p)'
  /\ a \notin cut'[p] => Effect(p, a)

LEMMA AheadOfHead ==
  ASSUME PublisherOK, PlaceInv, NEW p \in Peers, NEW n \in Nat, n > head[p]
  PROVE  Ahead(p, n)
<1>1. cur[p] \in Nat /\ head[p] \in Nat /\ cur[p] <= head[p]
  BY DEF PublisherOK, PlaceInv
<1>2. OnPage(p) => page.next \in Nat /\ page.next <= head[p]
  BY DEF OnPage, PlaceInv, CardPageOK
<1> QED BY <1>1, <1>2 DEF Ahead

\* A step that leaves what a peer holds of an agent, and the changes under way, has no
\* effect the reader could miss.
LEMMA KeptEffect ==
  ASSUME NEW p, NEW a, RowKept(p, a), Published(p, a)' = Published(p, a),
         (Changing(p, a)' /\ Changing(p, a) /\ vis'[p] = vis[p]) \/ (~Changing(p, a)' /\ ~Changing(p, a))
  PROVE  Effect(p, a)
<1>1. Between(p, a)' = Between(p, a)
  BY DEF Between
<1>2. Narrowing(p, a)' = Narrowing(p, a)
  BY DEF Narrowing, RowKept
<1> QED BY <1>1, <1>2, Zenon DEF Effect, RowKept

LEMMA RowStepKeeps ==
  ASSUME PublisherOK, PublisherOK', HubInv, PlaceInv, HubTypes', \A r \in Requests : RequestOK(r)',
         NEW p \in Peers, NEW a \in AIDs, RowStep(p, a)
  PROVE  HubInv' /\ PlaceInv' /\ \A q \in Peers : \A b \in AIDs \ cut'[q] : Effect(q, b)
<1> USE DEF RowStep
<1>0. ASSUME NEW q \in Peers
      PROVE  head[q] \in Nat /\ head'[q] \in Nat /\ head'[q] >= head[q] /\ cut[q] \subseteq cut'[q]
  <2>1. head[q] \in Nat /\ head'[q] \in Nat
    BY DEF PublisherOK
  <2>2. CASE q = p
    BY <2>1, <2>2 DEF OnlyRow
  <2>3. q # p => head'[q] = head[q] /\ cut'[q] = cut[q]
    BY DEF OnlyRow
  <2> QED BY <2>1, <2>2, <2>3
<1>1. ASSUME NEW q \in Peers, NEW b \in AIDs, q # p \/ b # a
      PROVE  /\ RowKept(q, b) /\ Published(q, b)' = Published(q, b) /\ head[q] \in Nat /\ head'[q] \in Nat
             /\ head'[q] >= head[q] /\ RowOK(q, b) /\ BothOK(q, b) /\ cut[q] \subseteq cut'[q]
  <2>1. RowKept(q, b)
    BY <1>1 DEF OnlyRow
  <2>2. head[q] \in Nat /\ head'[q] \in Nat /\ head'[q] >= head[q] /\ cut[q] \subseteq cut'[q]
    BY <1>0
  <2>3. Published(q, b)' = Published(q, b)
    BY <2>1 DEF RowKept, Published, Federates
  <2> QED BY <2>1, <2>2, <2>3 DEF HubInv
<1>2. ASSUME NEW q \in Peers, NEW b \in AIDs, q # p \/ b # a, b \notin cut'[q]
      PROVE  (Changing(q, b)' /\ Changing(q, b) /\ vis'[q] = vis[q]) \/ (~Changing(q, b)' /\ ~Changing(q, b))
  <2>1. CASE q = p
    BY <1>2, <2>1 DEF OnlyRow
  <2>2. CASE q # p
    BY <2>2 DEF OnlyRow, Changing, Free
  <2> QED BY <2>1, <2>2
<1>3. ASSUME NEW q \in Peers, NEW b \in AIDs PROVE RowOK(q, b)'
  <2>1. CASE q = p /\ b = a
    BY <2>1
  <2>2. CASE q # p \/ b # a
    <3>1. gone[q][b] \in Nat
      BY DEF PublisherOK
    <3>2. card[q][b] # None => card[q][b].fs \in Nat
      BY DEF PublisherOK, StoredCard
    <3> QED BY <2>2, <1>1, <3>1, <3>2 DEF RowOK, RowKept
  <2> QED BY <2>1, <2>2
<1>4. ASSUME NEW q \in Peers, NEW b \in AIDs PROVE BothOK(q, b)'
  <2>1. CASE q = p /\ b = a
    BY <2>1
  <2>2. ASSUME q # p \/ b # a, b \notin cut'[q], Published(q, b)', gone'[q][b] > 0
        PROVE  Changing(q, b)' /\ vis'[q].to
    <3>1. b \notin cut[q] /\ Published(q, b) /\ gone[q][b] > 0 /\ BothOK(q, b)
      BY <2>2, <1>1 DEF RowKept
    <3>2. Changing(q, b) /\ vis[q].to
      BY <3>1 DEF BothOK
    <3> QED BY <3>2, <2>2, <1>2
  <2> QED BY <2>1, <2>2 DEF BothOK
<1>5. ASSUME NEW q \in Peers PROVE PositionOK(q)' /\ ChangeOK(q)' /\ SetAside(q)' /\ cur'[q] <= head'[q]
  <2>0. cur'[q] <= head'[q]
    <3>1. cur[q] \in Nat /\ cur'[q] = cur[q] /\ cur[q] <= head[q]
      BY DEF PlaceInv, OnlyRow, reader
    <3> QED BY <1>0, <3>1
  <2>1. CASE q = p
    BY <2>0, <2>1
  <2>2. CASE q # p
    <3>1. PositionOK(q) /\ ChangeOK(q) /\ SetAside(q)
      BY DEF HubInv, PlaceInv
    <3>2. /\ head'[q] = head[q] /\ vis'[q] = vis[q] /\ cut'[q] = cut[q] /\ cur' = cur /\ page' = page
          /\ \A b \in AIDs : RowKept(q, b)
      BY <2>2 DEF OnlyRow, reader
    <3>3. PositionOK(q)'
      BY <3>1, <3>2 DEF PositionOK
    <3>4. vis[q] # None => vis[q].aid \in AIDs
      BY DEF PublisherOK, Change
    <3>5. ChangeOK(q)'
      BY <3>1, <3>2, <3>4, Zenon DEF ChangeOK, RowKept
    <3>6. SetAside(q)'
      BY <3>1, <3>2 DEF SetAside, Ahead, OnPage, RowKept
    <3> QED BY <2>0, <3>3, <3>5, <3>6
  <2> QED BY <2>1, <2>2
<1>6. CardPageOK'
  <2> SUFFICES ASSUME page # None PROVE CardPageOK'
    BY DEF CardPageOK, OnlyRow, reader
  <2>1. /\ page' = page /\ cur' = cur /\ page \in GivenPage /\ page.peer \in Peers /\ page.from \in {0, cur[page.peer]}
        /\ page.next \in Nat /\ page.from <= page.next /\ page.next <= head[page.peer]
        /\ \A e \in page.rest : GivenOK(page.peer, e)
    BY DEF PlaceInv, CardPageOK, OnlyRow, reader
  <2>2. head[page.peer] \in Nat /\ head'[page.peer] \in Nat /\ head'[page.peer] >= head[page.peer]
    BY <1>0, <2>1
  <2>3. ASSUME NEW e \in page.rest PROVE GivenOK(page.peer, e)'
    <3>1. GivenOK(page.peer, e)
      BY <2>1
    <3>2. known[page.peer][e.aid] \in Int /\ known'[page.peer][e.aid] \in Int
      BY <2>1, <3>1 DEF GivenOK, HubInv, HubTypes
    <3>3. known[page.peer][e.aid] <= known'[page.peer][e.aid]
      BY <2>1, <3>1, <3>2 DEF GivenOK, OnlyRow, RowKept
    <3> QED BY <2>1, <3>1, <3>2, <3>3 DEF GivenOK, Keys
  <2> QED BY <2>1, <2>2, <2>3 DEF CardPageOK
<1>7. ASSUME NEW q \in Peers, NEW b \in AIDs \ cut'[q] PROVE Effect(q, b)
  <2>1. CASE q = p /\ b = a
    BY <2>1
  <2>2. CASE q # p \/ b # a
    BY <2>2, <1>1, <1>2, KeptEffect
  <2> QED BY <2>1, <2>2
<1>8. cur' \in [Peers -> Nat]
  BY DEF PlaceInv, OnlyRow, reader
<1> QED BY <1>3, <1>4, <1>5, <1>6, <1>7, <1>8 DEF HubInv, PlaceInv

\* Histories only grow, and the hubs' rows stay rows.
LEMMA HubTypesKept ==
  ASSUME PublisherOK, HubTypes, CardsNext
  PROVE  HubTypes' /\ \A p \in Peers, a \in AIDs : known[p][a] <= known'[p][a]
<1> USE DEF HubTypes
<1>0. \A p \in Peers, a \in AIDs : known[p][a] \in Int
  OBVIOUS
<1>1. ASSUME NEW p \in Peers, NEW a \in AIDs, NEW kel \in Keys, known[p][a] <= kel,
             agent' = [agent EXCEPT ![p][a] = [kel |-> kel, federates |-> Federates(p, a)]],
             known' = [known EXCEPT ![p][a] = kel], UNCHANGED <<own, cut>>
      PROVE  HubTypes' /\ \A q \in Peers, b \in AIDs : known[q][b] <= known'[q][b]
  <2>1. Federates(p, a) \in BOOLEAN
    BY Zenon DEF Federates, AgentRow
  <2> DEFINE x == [kel |-> kel, federates |-> Federates(p, a)]
  <2>2. x \in AgentRow
    BY <2>1 DEF AgentRow
  <2> HIDE DEF x
  <2>3. agent' \in [Peers -> [AIDs -> AgentRow \cup {None}]]
    BY <1>1, <2>2 DEF x
  <2>4. kel \in 0..MaxKey
    BY DEF Keys
  <2>5. known' \in [Peers -> [AIDs -> 0..MaxKey]]
    BY <1>1, <2>4
  <2>6. \A q \in Peers, b \in AIDs : known[q][b] <= known'[q][b]
    BY <1>0, <1>1
  <2> QED BY <1>1, <2>3, <2>5, <2>6
<1> DEFINE Still == known' = known /\ own' = own
<1>2. ASSUME NEW p \in Peers, NEW a \in AIDs, Deregister(p, a) PROVE HubTypes' /\ Still
  <2>1. cut' \in [Peers -> SUBSET AIDs]
    <3>1. vis[p] # None => vis[p].aid \in AIDs
      BY DEF PublisherOK, Change
    <3> QED BY <1>2, <3>1 DEF Deregister, Overtaken, Free
  <2>2. agent' = [agent EXCEPT ![p][a] = None]
    BY <1>2 DEF Deregister
  <2>3. agent' \in [Peers -> [AIDs -> AgentRow \cup {None}]]
    BY <2>2
  <2>4. known' = known /\ own' = own
    BY <1>2 DEF Deregister
  <2> QED BY <2>1, <2>3, <2>4
<1>3. ASSUME NEW p \in Peers, Stop(p) PROVE HubTypes' /\ Still
  <2>1. vis[p] # None => vis[p].aid \in AIDs
    BY DEF PublisherOK, Change
  <2> QED BY <1>3, <2>1 DEF Stop, Overtaken, Free
<1>4. ASSUME NEW p \in Peers, NEW a \in AIDs, NEW to \in BOOLEAN, SetVisibility(p, a, to) PROVE HubTypes' /\ Still
  <2>1. PICK row \in AgentRow : row = agent[p][a]
    BY <1>4 DEF SetVisibility
  <2> DEFINE x == [row EXCEPT !.federates = to]
  <2>2. x \in AgentRow
    BY DEF AgentRow
  <2>3. agent' = [agent EXCEPT ![p][a] = x]
    BY <1>4, <2>1 DEF SetVisibility
  <2> HIDE DEF x
  <2>4. agent' \in [Peers -> [AIDs -> AgentRow \cup {None}]]
    BY <2>2, <2>3
  <2>5. known' = known /\ own' = own /\ cut' = cut
    BY <1>4 DEF SetVisibility
  <2> QED BY <2>4, <2>5
<1>5. ASSUME NEW a \in AIDs, Rotate(a) PROVE HubTypes' /\ known' = known
  <2>1. own[a] + 1 \in Keys
    BY <1>5, CardsAssumption DEF Rotate, Keys
  <2> QED BY <1>5, <2>1 DEF Rotate
<1>6. CASE UNCHANGED <<own, agent, known, cut>>
  BY <1>0, <1>6
<1>7. ASSUME NEW p \in Peers, NEW a \in AIDs, NEW r \in Requests, NEW kel \in Keys, NEW c,
             Register(r, p, a, kel, c)
      PROVE  HubTypes' /\ \A q \in Peers, b \in AIDs : known[q][b] <= known'[q][b]
  <2>1. known[p][a] <= kel
    BY <1>0, <1>7 DEF Register, Keys
  <2>2. /\ agent' = [agent EXCEPT ![p][a] = [kel |-> kel, federates |-> Federates(p, a)]]
        /\ known' = [known EXCEPT ![p][a] = kel] /\ UNCHANGED <<own, cut>>
    BY <1>7 DEF Register
  <2> QED BY <1>1, <2>1, <2>2
<1>8. ASSUME NEW p \in Peers, NEW a \in AIDs, NEW r \in Requests, NEW kel \in Keys, Push(r, p, a, kel)
      PROVE  HubTypes' /\ \A q \in Peers, b \in AIDs : known[q][b] <= known'[q][b]
  <2>1. PICK row \in AgentRow : row = agent[p][a]
    BY <1>8 DEF Push
  <2>2. Federates(p, a) = row.federates
    BY <1>8, <2>1, Zenon DEF Push, Federates, AgentRow
  <2>3. [row EXCEPT !.kel = kel] = [kel |-> kel, federates |-> row.federates]
    BY DEF AgentRow
  <2>4. agent' = [agent EXCEPT ![p][a] = [row EXCEPT !.kel = kel]]
    BY <1>8, <2>1 DEF Push
  <2>5. agent' = [agent EXCEPT ![p][a] = [kel |-> kel, federates |-> Federates(p, a)]]
    BY <2>2, <2>3, <2>4
  <2>6. known[p][a] <= kel
    BY <1>0, <1>8 DEF Push, Keys
  <2> QED BY <1>1, <1>8, <2>5, <2>6 DEF Push
<1>9. Still => \A p \in Peers, a \in AIDs : known[p][a] <= known'[p][a]
  BY <1>0
<1>10. \/ \E p \in Peers, a \in AIDs, r \in Requests, kel \in Keys :
            Push(r, p, a, kel) \/ \E c \in Card \cup {None, Null} : Register(r, p, a, kel, c)
       \/ \E p \in Peers : Stop(p)
       \/ \E p \in Peers, a \in AIDs : Deregister(p, a) \/ \E to \in BOOLEAN : SetVisibility(p, a, to)
       \/ \E a \in AIDs : Rotate(a)
       \/ UNCHANGED <<own, agent, known, cut>>
  BY DEF CardsNext, AtHub, Settle, PublishKeys, VisTake, VisPut, VisClear, WithdrawCard, AdmitCard, RefuseCard,
         Recheck, Delist, Pull, Fetch, AdmitEntry, AdmitWithdrawal, PassOver, Learn, Stall, Finish,
         ReaderStops, Move, publisher
<1>11. known' = known => \A p \in Peers, a \in AIDs : known[p][a] <= known'[p][a]
  BY <1>0
<1> QED BY <1>2, <1>3, <1>4, <1>5, <1>6, <1>7, <1>8, <1>9, <1>10, <1>11

\* A request under way brought no more key states than the hub knows.
LEMMA RequestsKept ==
  ASSUME PublisherOK, HubInv, HubTypes', CardsNext
  PROVE  \A r \in Requests : RequestOK(r)'
<1>0. \A p \in Peers, a \in AIDs :
        known[p][a] \in Int /\ known'[p][a] \in Int /\ known[p][a] <= known'[p][a]
  BY HubTypesKept DEF HubInv, HubTypes
<1> SUFFICES ASSUME NEW s \in Requests, req'[s] # None PROVE RequestOK(s)'
  BY DEF RequestOK
<1>a. ASSUME req[s] # None, req'[s].hub = req[s].hub, req'[s].aid = req[s].aid, req'[s].kel = req[s].kel
      PROVE  RequestOK(s)'
  <2>1. PICK q \in CardRequest : q = req[s]
    BY <1>a DEF PublisherOK
  <2>2. q.hub \in Peers /\ q.aid \in AIDs /\ q.kel \in Int
    BY DEF CardRequest, Keys
  <2>3. q.kel <= known[q.hub][q.aid]
    BY <1>a, <2>1 DEF HubInv, RequestOK
  <2>4. q.kel <= known'[q.hub][q.aid]
    BY <1>0, <2>2, <2>3
  <2> QED BY <1>a, <2>1, <2>4 DEF RequestOK
<1>b. ASSUME NEW p \in Peers, NEW a \in AIDs, NEW r \in Requests, NEW kel \in Keys, NEW c,
             Push(r, p, a, kel) \/ Register(r, p, a, kel, c)
      PROVE  RequestOK(s)'
  <2>1. CASE s = r
    <3>1. req'[s].hub = p /\ req'[s].aid = a /\ req'[s].kel = kel
      BY <1>b, <2>1 DEF Push, Register, PublisherOK
    <3>2. known'[p][a] = kel
      BY <1>b DEF Push, Register, HubInv, HubTypes
    <3>3. kel <= kel
      BY DEF Keys
    <3> QED BY <3>1, <3>2, <3>3 DEF RequestOK
  <2>2. CASE s # r
    <3>1. req'[s] = req[s]
      BY <1>b, <2>2 DEF Push, Register, PublisherOK
    <3> QED BY <3>1, <1>a
  <2> QED BY <2>1, <2>2
<1>c. ASSUME NEW r \in Requests,
             \/ req' = [req EXCEPT ![r] = None]
             \/ \E x : req' = [req EXCEPT ![r].pc = x]
             \/ \E c : req' = [req EXCEPT ![r] = [req[r] EXCEPT !.raw = c, !.pc = "write"]],
             req[r] # None
      PROVE  RequestOK(s)'
  <2>1. CASE s # r
    <3>1. req'[s] = req[s]
      BY <1>c, <2>1 DEF PublisherOK
    <3> QED BY <3>1, <1>a
  <2>2. CASE s = r
    <3>1. req[r] \in CardRequest
      BY <1>c DEF PublisherOK
    <3>2. req'[s].hub = req[s].hub /\ req'[s].aid = req[s].aid /\ req'[s].kel = req[s].kel
      BY <1>c, <2>2, <3>1 DEF PublisherOK, CardRequest
    <3> QED BY <1>a, <1>c, <2>2, <3>2
  <2> QED BY <2>1, <2>2
<1>d. ASSUME NEW r \in Requests, Settle(r) PROVE RequestOK(s)'
  <2>1. \/ req' = [req EXCEPT ![r] = None]
        \/ \E x : req' = [req EXCEPT ![r].pc = x]
        \/ \E c : req' = [req EXCEPT ![r] = [req[r] EXCEPT !.raw = c, !.pc = "write"]]
    <3>1. Recheck(r) => \/ req' = [req EXCEPT ![r] = None]
                        \/ \E c : req' = [req EXCEPT ![r] = [req[r] EXCEPT !.raw = c, !.pc = "write"]]
      BY Zenon DEF Recheck
    <3>2. WithdrawCard(r) \/ AdmitCard(r) \/ Delist(r) => req' = [req EXCEPT ![r] = None]
      BY Zenon DEF WithdrawCard, AdmitCard, Delist
    <3>3. RefuseCard(r) => req' = [req EXCEPT ![r].pc = "recheck"]
      BY DEF RefuseCard
    <3> QED BY <1>d, <3>1, <3>2, <3>3 DEF Settle
  <2>2. req[r] # None
    BY <1>d DEF Settle, WithdrawCard, AdmitCard, RefuseCard, Recheck, Delist
  <2> QED BY <1>c, <2>1, <2>2
<1>e. ASSUME NEW p \in Peers, Stop(p) PROVE RequestOK(s)'
  <2>1. req'[s] = req[s]
    BY <1>e DEF Stop
  <2> QED BY <2>1, <1>a
<1>f. CASE req' = req
  BY <1>a, <1>f
<1>g. \/ \E p \in Peers, a \in AIDs, r \in Requests, kel \in Keys :
           Push(r, p, a, kel) \/ \E c \in Card \cup {None, Null} : Register(r, p, a, kel, c)
      \/ \E p \in Peers : Stop(p)
      \/ \E r \in Requests : Settle(r)
      \/ req' = req
  BY DEF CardsNext, AtHub, PublishKeys, Deregister, SetVisibility, VisTake, VisPut, VisClear,
         Pull, Fetch, AdmitEntry, AdmitWithdrawal, PassOver, Learn, Stall, Finish,
         ReaderStops, Rotate, Move, publisher
<1> QED BY <1>b, <1>d, <1>e, <1>f, <1>g

\* A step while no visibility changes, or that overtakes the change.
QuietEffect(p, a) ==
  /\ gone'[p][a] = gone[p][a] \/ Ahead(p, gone'[p][a]) \/ (gone'[p][a] = 0 /\ Published(p, a)')
  /\ card'[p][a] = card[p][a] \/ card'[p][a] = None \/ Ahead(p, card'[p][a].fs)
  /\ Published(p, a)' => Ahead(p, card'[p][a].fs) \/ Published(p, a)
  /\ Published(p, a) /\ ~Published(p, a)' => Ahead(p, gone'[p][a])

LEMMA QuietStep ==
  ASSUME PublisherOK, PublisherOK', HubInv, NEW p \in Peers, NEW a \in AIDs, OnlyRow(p, a),
         vis'[p] = vis[p], Free(p) \/ vis[p].aid \in cut'[p], RowOK(p, a)',
         a \notin cut'[p] => QuietEffect(p, a) /\ (Published(p, a)' => gone'[p][a] = 0)
  PROVE  RowStep(p, a)
<1>1. \A b \in AIDs : b \notin cut'[p] => ~Changing(p, b) /\ ~Changing(p, b)'
  BY DEF Changing, Free
<1>2. BothOK(p, a)'
  BY DEF BothOK
<1>3. PositionOK(p)'
  <2>1. PositionOK(p) /\ head[p] \in Nat /\ head'[p] \in Nat /\ head'[p] >= head[p]
    BY DEF HubInv, PublisherOK, OnlyRow
  <2>2. CASE Free(p)
    BY <2>2 DEF Free, PositionOK
  <2>3. ASSUME ~Free(p), vis[p].pc = "put" PROVE vis[p].fs \in 1..head'[p]
    <3>1. vis[p].fs \in 1..head[p]
      BY <2>1, <2>3 DEF PositionOK, Free
    <3> QED BY <3>1, <2>1
  <2> QED BY <2>2, <2>3 DEF PositionOK, Free
<1>4. ChangeOK(p)' /\ SetAside(p)'
  BY Zenon DEF ChangeOK, SetAside, Free
<1>5. ASSUME a \notin cut'[p] PROVE Effect(p, a)
  <2>1. ~Changing(p, a) /\ ~Changing(p, a)'
    BY <1>1, <1>5
  <2>2. ~Between(p, a) /\ ~Between(p, a)' /\ ~Narrowing(p, a)
    BY <2>1, Zenon DEF Between, Narrowing
  <2> QED BY <1>5, <2>2, Zenon DEF Effect, QuietEffect
<1> QED BY <1>1, <1>2, <1>3, <1>4, <1>5 DEF RowStep

\* A registration or a pushed history changes nothing that is served, but the history.
LEMMA HistoryStored ==
  ASSUME PublisherOK, PublisherOK', HubInv, HubTypes', NEW p \in Peers, NEW a \in AIDs, NEW kel \in Keys,
         Free(p), known[p][a] <= kel,
         agent' = [agent EXCEPT ![p][a] = [kel |-> kel, federates |-> Federates(p, a)]],
         known' = [known EXCEPT ![p][a] = kel], UNCHANGED <<card, gone, head, vis, cut, reader>>
  PROVE  RowStep(p, a)
<1>0. known[p][a] \in Int /\ kel \in Int /\ head[p] \in Nat
  BY DEF HubInv, HubTypes, Keys, PublisherOK
<1>1. Federates(p, a) \in BOOLEAN
  BY Zenon DEF Federates, HubInv, HubTypes, AgentRow
<1> DEFINE x == [kel |-> kel, federates |-> Federates(p, a)]
<1>2. x \in AgentRow /\ x.kel = kel /\ x.federates = Federates(p, a)
  BY <1>1 DEF AgentRow
<1> HIDE DEF x
<1>3. agent' = [agent EXCEPT ![p][a] = x] /\ agent \in [Peers -> [AIDs -> AgentRow \cup {None}]]
  BY DEF x, HubInv, HubTypes
<1>4. agent'[p][a] = x /\ known'[p][a] = kel
  BY <1>3 DEF HubInv, HubTypes
<1>5. x # None
  BY <1>2, CardsAssumption DEF AgentRow
<1>6. Federates(p, a)' = Federates(p, a)
  BY <1>2, <1>4, <1>5, Zenon DEF Federates
<1>7. Published(p, a)' = Published(p, a)
  BY <1>6 DEF Published
<1>8. OnlyRow(p, a)
  <2>1. \A q \in Peers, b \in AIDs : q # p \/ b # a => agent'[q][b] = agent[q][b] /\ known'[q][b] = known[q][b]
    BY <1>3 DEF HubInv, HubTypes
  <2> QED BY <1>0, <1>4, <2>1 DEF OnlyRow, RowKept
<1>9. RowOK(p, a)'
  <2>1. RowOK(p, a)
    BY DEF HubInv
  <2>2. card[p][a] # None => card[p][a].key \in Int
    BY DEF PublisherOK, StoredCard, Keys
  <2> QED BY <1>0, <1>2, <1>4, <2>1, <2>2 DEF RowOK
<1>10. a \notin cut'[p] /\ Published(p, a)' => gone'[p][a] = 0
  <2>1. BothOK(p, a) /\ gone[p][a] \in Nat
    BY DEF HubInv, PublisherOK
  <2> QED BY <1>7, <2>1 DEF BothOK, Changing
<1>11. QuietEffect(p, a)
  BY <1>7 DEF QuietEffect
<1> QED BY <1>8, <1>9, <1>10, <1>11, QuietStep

\* A card that goes, with its withdrawal when the agent federates.
LEMMA CardGone ==
  ASSUME PublisherOK, PublisherOK', HubInv, HubTypes', PlaceInv, NEW p \in Peers, NEW a \in AIDs,
         Withdraw(p, a), card' = [card EXCEPT ![p][a] = None],
         agent' = agent \/ agent' = [agent EXCEPT ![p][a] = None],
         cut' = Overtaken(p) \/ (Free(p) /\ cut' = cut), UNCHANGED <<known, vis, reader>>
  PROVE  RowStep(p, a)
<1>0. /\ head[p] \in Nat /\ gone[p][a] \in Nat /\ gone[p][a] <= head[p] /\ known[p][a] \in Int
      /\ agent \in [Peers -> [AIDs -> AgentRow \cup {None}]]
  BY DEF HubInv, HubTypes, RowOK, PublisherOK
<1>1. \/ Federates(p, a) /\ card[p][a] # None /\ head' = [head EXCEPT ![p] = head[p] + 1]
         /\ gone' = [gone EXCEPT ![p][a] = head[p] + 1]
      \/ ~(Federates(p, a) /\ card[p][a] # None) /\ head' = head /\ gone' = gone
  BY DEF Withdraw, TakeSeq, Next1
<1>2. \/ Federates(p, a) /\ card[p][a] # None /\ head'[p] = head[p] + 1 /\ gone'[p][a] = head[p] + 1
      \/ ~(Federates(p, a) /\ card[p][a] # None) /\ head'[p] = head[p] /\ gone'[p][a] = gone[p][a]
  BY <1>1 DEF PublisherOK
<1>3. card'[p][a] = None /\ ~Published(p, a)'
  BY DEF PublisherOK, Published
<1>4. agent'[p][a] = agent[p][a] \/ agent'[p][a] = None
  BY <1>0
<1>5. OnlyRow(p, a)
  <2>a. \A q \in Peers, b \in AIDs : q # p \/ b # a => card'[q][b] = card[q][b]
    BY DEF PublisherOK
  <2>b. \A q \in Peers, b \in AIDs : q # p \/ b # a => agent'[q][b] = agent[q][b]
    BY <1>0
  <2>c. \A q \in Peers, b \in AIDs : q # p \/ b # a => gone'[q][b] = gone[q][b]
    BY <1>1 DEF PublisherOK
  <2>1. \A q \in Peers, b \in AIDs : q # p \/ b # a =>
          card'[q][b] = card[q][b] /\ agent'[q][b] = agent[q][b] /\ gone'[q][b] = gone[q][b]
    BY <2>a, <2>b, <2>c
  <2>2. \A q \in Peers : q # p => head'[q] = head[q] /\ cut'[q] = cut[q]
    BY <1>1 DEF Overtaken, PublisherOK, HubInv, HubTypes
  <2>3. cut[p] \subseteq cut'[p]
    BY DEF Overtaken, HubInv, HubTypes
  <2> QED BY <1>0, <1>2, <2>1, <2>2, <2>3 DEF OnlyRow, RowKept
<1>6. RowOK(p, a)'
  <2>1. RowOK(p, a)
    BY DEF HubInv
  <2>2. head'[p] \in Nat /\ gone'[p][a] <= head'[p]
    BY <1>0, <1>2
  <2> QED BY <1>3, <1>4, <2>1, <2>2 DEF RowOK
<1>7. vis'[p] = vis[p] /\ (Free(p) \/ vis[p].aid \in cut'[p])
  BY DEF Overtaken, HubInv, HubTypes
<1>8. QuietEffect(p, a)
  <2>1. gone'[p][a] = gone[p][a] \/ Ahead(p, gone'[p][a])
    BY <1>0, <1>2, AheadOfHead
  <2>2. Published(p, a) => Ahead(p, gone'[p][a])
    BY <1>0, <1>2, AheadOfHead DEF Published
  <2> QED BY <1>3, <2>1, <2>2 DEF QuietEffect
<1> QED BY <1>3, <1>5, <1>6, <1>7, <1>8, QuietStep

\* A card that is published at a new position, or admitted again where it is.
LEMMA CardShown ==
  ASSUME PublisherOK, PublisherOK', HubInv, HubTypes', PlaceInv, NEW p \in Peers, NEW a \in AIDs, NEW row \in StoredCard,
         Free(p), row.listed, row = card[p][a] \/ row.fs = head[p] + 1, row.key <= known[p][a],
         head' = [head EXCEPT ![p] = head[p] + 1], card' = [card EXCEPT ![p][a] = row],
         Clear(p, a, row), UNCHANGED <<agent, known, vis, cut, reader>>
  PROVE  RowStep(p, a)
<1>0. /\ head[p] \in Nat /\ head'[p] = head[p] + 1 /\ gone[p][a] \in Nat /\ row.fs \in Nat
      /\ row # None /\ known[p][a] \in Int /\ RowOK(p, a) /\ BothOK(p, a)
  BY CardsAssumption DEF HubInv, HubTypes, PublisherOK, StoredCard
<1>1. gone'[p][a] = IF Federates(p, a) /\ row.fs > gone[p][a] THEN 0 ELSE gone[p][a]
  BY DEF Clear, PublisherOK
<1>2. card'[p][a] = row
  BY DEF PublisherOK
<1>3. Published(p, a)' = Federates(p, a)
  BY <1>0, <1>2, Zenon DEF Published, Federates
<1>4. OnlyRow(p, a)
  <2>1. \A q \in Peers, b \in AIDs : q # p \/ b # a => card'[q][b] = card[q][b]
    BY DEF PublisherOK
  <2>2. \A q \in Peers, b \in AIDs : q # p \/ b # a => gone'[q][b] = gone[q][b]
    BY DEF PublisherOK, Clear
  <2>3. \A q \in Peers : q # p => head'[q] = head[q]
    BY DEF PublisherOK
  <2> QED BY <1>0, <2>1, <2>2, <2>3 DEF OnlyRow, RowKept
<1>5. RowOK(p, a)'
  <2>1. gone'[p][a] \in Nat /\ gone'[p][a] <= head'[p]
    BY <1>0, <1>1 DEF RowOK
  <2>2. row.fs \in 1..head'[p]
    BY <1>0 DEF RowOK
  <2>3. agent'[p][a] # None => agent'[p][a].kel = known'[p][a]
    BY <1>0 DEF RowOK
  <2> QED BY <1>2, <2>1, <2>2, <2>3 DEF RowOK
<1>6. a \notin cut'[p] /\ Published(p, a)' => gone'[p][a] = 0
  <2> SUFFICES ASSUME a \notin cut[p], Federates(p, a), ~(row.fs > gone[p][a]) PROVE gone[p][a] = 0
    BY <1>1, <1>3
  <2>1. row = card[p][a]
    BY <1>0 DEF RowOK
  <2>2. Published(p, a) /\ ~Changing(p, a)
    BY <1>0, <2>1, Zenon DEF Published, Changing
  <2> QED BY <1>0, <2>2 DEF BothOK
<1>7. QuietEffect(p, a)
  <2>1. row = card[p][a] \/ Ahead(p, row.fs)
    BY <1>0, AheadOfHead
  <2>2. gone'[p][a] = gone[p][a] \/ (gone'[p][a] = 0 /\ Published(p, a)')
    BY <1>1, <1>3
  <2>3. Published(p, a) => Published(p, a)'
    BY <1>3 DEF Published
  <2>4. Published(p, a)' => Ahead(p, row.fs) \/ Published(p, a)
    BY <1>0, <1>3, <2>1 DEF Published
  <2> QED BY <1>2, <2>1, <2>2, <2>3, <2>4 DEF QuietEffect
<1> QED BY <1>4, <1>5, <1>6, <1>7, QuietStep

\* A listed card that verifies no more is delisted, with its withdrawal.
LEMMA CardDelisted ==
  ASSUME PublisherOK, PublisherOK', HubInv, HubTypes', PlaceInv, NEW p \in Peers, NEW a \in AIDs,
         NEW row \in StoredCard, Free(p), card[p][a] # None,
         ~row.listed, row.fs = head[p] + 1, row.key = card[p][a].key, card' = [card EXCEPT ![p][a] = row],
         IF Federates(p, a)
         THEN head' = [head EXCEPT ![p] = head[p] + 2] /\ gone' = [gone EXCEPT ![p][a] = head[p] + 2]
         ELSE head' = [head EXCEPT ![p] = head[p] + 1] /\ gone' = gone,
         UNCHANGED <<agent, known, vis, cut, reader>>
  PROVE  RowStep(p, a)
<1>1. PICK n \in Nat : n = head[p]
  BY DEF PublisherOK
<1>4. card'[p][a] = row
  BY DEF PublisherOK
<1>5. ~Published(p, a)'
  BY <1>4 DEF Published
<1>6. /\ known[p][a] \in Int /\ RowOK(p, a) /\ gone[p][a] \in Nat /\ head'[p] \in {n + 1, n + 2}
      /\ \/ Federates(p, a) /\ head'[p] = n + 2 /\ gone'[p][a] = n + 2
         \/ ~Federates(p, a) /\ gone'[p][a] = gone[p][a]
  BY <1>1 DEF HubInv, HubTypes, PublisherOK
<1>7. OnlyRow(p, a)
  <2>1. \A q \in Peers, b \in AIDs : q # p \/ b # a => card'[q][b] = card[q][b]
    BY DEF PublisherOK
  <2>2. \A q \in Peers, b \in AIDs : q # p \/ b # a => gone'[q][b] = gone[q][b]
    BY DEF PublisherOK
  <2>3. \A q \in Peers : q # p => head'[q] = head[q]
    BY DEF PublisherOK
  <2>4. head'[p] >= head[p]
    BY <1>1, <1>6
  <2> QED BY <1>6, <2>1, <2>2, <2>3, <2>4 DEF OnlyRow, RowKept
<1>8. RowOK(p, a)'
  <2>1. gone'[p][a] <= head'[p] /\ n + 1 \in 1..head'[p]
    BY <1>1, <1>6 DEF RowOK
  <2>2. row.key <= known[p][a]
    BY <1>6 DEF RowOK
  <2>3. agent'[p][a] # None => agent'[p][a].kel = known'[p][a]
    BY <1>6 DEF RowOK
  <2> QED BY <1>1, <1>4, <2>1, <2>2, <2>3 DEF RowOK
<1>9. QuietEffect(p, a)
  <2>1. Ahead(p, n + 1) /\ Ahead(p, n + 2)
    BY <1>1, AheadOfHead
  <2>2. gone'[p][a] = gone[p][a] \/ Ahead(p, gone'[p][a])
    BY <1>6, <2>1
  <2>3. Published(p, a) => Ahead(p, gone'[p][a])
    BY <1>6, <2>1 DEF Published
  <2> QED BY <1>1, <1>4, <1>5, <2>1, <2>2, <2>3 DEF QuietEffect
<1> QED BY <1>5, <1>7, <1>8, <1>9, QuietStep

LEMMA VisibilityBegins ==
  ASSUME PublisherOK, PublisherOK', HubInv, HubTypes', NEW p \in Peers, NEW a \in AIDs, NEW to \in BOOLEAN,
         SetVisibility(p, a, to)
  PROVE  RowStep(p, a)
<1>1. PICK row \in AgentRow : row = agent[p][a]
  BY DEF SetVisibility, HubInv, HubTypes
<1> DEFINE x == [row EXCEPT !.federates = to]
           w == [aid |-> a, to |-> to, pc |-> "count", fs |-> 0]
<1>2. x \in AgentRow /\ x.kel = row.kel /\ x.federates = to /\ (to = row.federates => x = row)
  BY DEF AgentRow
<1>3. w \in Change /\ w.aid = a /\ w.to = to /\ w.pc = "count"
  BY DEF Change
<1>4. /\ agent' = [agent EXCEPT ![p][a] = x] /\ Free(p) /\ agent[p][a] # None
      /\ vis' = [vis EXCEPT ![p] = IF to = row.federates THEN None ELSE w]
      /\ UNCHANGED <<known, card, gone, head, req, cut, reader>>
  BY <1>1 DEF SetVisibility
<1> HIDE DEF x, w
<1>5. x # None /\ w # None
  BY <1>2, <1>3, CardsAssumption DEF AgentRow, Change
<1>6. agent'[p][a] = x /\ vis'[p] = IF to = row.federates THEN None ELSE w
  BY <1>4 DEF PublisherOK, HubInv, HubTypes
<1>7. OnlyRow(p, a)
  <2>1. \A q \in Peers, b \in AIDs : q # p \/ b # a => agent'[q][b] = agent[q][b]
    BY <1>4 DEF HubInv, HubTypes
  <2>2. \A q \in Peers : q # p => vis'[q] = vis[q]
    BY <1>4 DEF PublisherOK
  <2>3. head[p] \in Int /\ known[p][a] \in Int
    BY DEF PublisherOK, HubInv, HubTypes
  <2> QED BY <1>4, <2>1, <2>2, <2>3 DEF OnlyRow, RowKept
<1>8. RowOK(p, a)'
  <2>1. RowOK(p, a)
    BY DEF HubInv
  <2> QED BY <1>1, <1>2, <1>4, <1>6, <2>1 DEF RowOK
<1>9. Federates(p, a)' = to /\ Federates(p, a) = row.federates
  BY <1>1, <1>2, <1>4, <1>5, <1>6, Zenon DEF Federates, AgentRow
<1>a. BothOK(p, a) /\ gone[p][a] \in Nat /\ ~Changing(p, a)
  BY <1>4 DEF HubInv, PublisherOK, Changing
<1>10. CASE to = row.federates
  <2>1. Published(p, a)' = Published(p, a)
    BY <1>4, <1>9, <1>10, Zenon DEF Published
  <2>2. vis'[p] = vis[p]
    BY <1>4, <1>6, <1>10 DEF Free
  <2>3. QuietEffect(p, a)
    BY <1>4, <2>1, Zenon DEF QuietEffect
  <2>4. a \notin cut'[p] /\ Published(p, a)' => gone'[p][a] = 0
    BY <1>4, <1>a, <2>1 DEF BothOK
  <2> QED BY <1>4, <1>7, <1>8, <2>2, <2>3, <2>4, QuietStep
<1>11. CASE to # row.federates
  <2>1. vis'[p] = w
    BY <1>6, <1>11
  <2>2. Changing(p, a)' /\ Between(p, a)' /\ \A b \in AIDs : b # a => ~Changing(p, b)'
    BY <1>3, <1>5, <2>1 DEF Changing, Free, Between
  <2>3. \A b \in AIDs : ~Changing(p, b)
    BY <1>4 DEF Changing
  <2>4. BothOK(p, a)'
    <3>1. Published(p, a)' => to
      BY <1>9 DEF Published
    <3> QED BY <1>3, <2>1, <2>2, <3>1 DEF BothOK
  <2>5. PositionOK(p)' /\ SetAside(p)'
    BY <1>3, <2>1 DEF PositionOK, SetAside
  <2>6. ChangeOK(p)'
    BY <1>2, <1>3, <1>5, <1>6, <2>1 DEF ChangeOK
  <2>7. ASSUME a \notin cut'[p] PROVE Effect(p, a)
    <3>1. gone'[p][a] = gone[p][a] /\ card'[p][a] = card[p][a]
      BY <1>4
    <3>2. Published(p, a) /\ ~Published(p, a)' => gone'[p][a] = 0 /\ Narrowing(p, a)'
      <4> SUFFICES ASSUME Published(p, a), ~Published(p, a)' PROVE gone'[p][a] = 0 /\ Narrowing(p, a)'
        OBVIOUS
      <4>1. gone[p][a] = 0
        BY <1>4, <1>a, <2>7 DEF BothOK
      <4>2. ~to /\ card[p][a] # None
        BY <1>4, <1>9, Zenon DEF Published
      <4> QED BY <1>3, <2>1, <2>2, <3>1, <4>1, <4>2 DEF Narrowing
    <3>3. ~Narrowing(p, a)
      BY <1>a DEF Narrowing
    <3> QED BY <2>2, <3>1, <3>2, <3>3, Zenon DEF Effect
  <2> QED BY <1>7, <1>8, <2>2, <2>3, <2>4, <2>5, <2>6, <2>7, Zenon DEF RowStep
<1> QED BY <1>10, <1>11

LEMMA VisibilityTakes ==
  ASSUME PublisherOK, PublisherOK', HubInv, HubTypes', PlaceInv, NEW p \in Peers, NEW a \in AIDs, VisTake(p), a = vis[p].aid
  PROVE  RowStep(p, a)
<1> DEFINE Take == card[p][a] # None /\ (vis[p].to => card[p][a].listed)
<1>1. PICK v \in Change, n \in Nat : v = vis[p] /\ n = head[p] + 1
  BY DEF VisTake, PublisherOK
<1> DEFINE w == [v EXCEPT !.pc = "put", !.fs = n]
<1>2. w \in Change /\ w.aid = a /\ w.to = v.to /\ w.pc = "put" /\ w.fs = n
  BY <1>1 DEF Change
<1>3. /\ v # None /\ v.pc = "count" /\ UNCHANGED <<agent, known, card, gone, req, cut, reader>>
      /\ IF Take THEN head' = [head EXCEPT ![p] = n] /\ vis' = [vis EXCEPT ![p] = w]
                 ELSE head' = head /\ vis' = [vis EXCEPT ![p] = None]
  BY <1>1 DEF VisTake, TakeSeq, Next1
<1> HIDE DEF w
<1>4. w # None
  BY <1>2, CardsAssumption DEF Change
<1>5. /\ vis'[p] = IF Take THEN w ELSE None
      /\ head'[p] = IF Take THEN n ELSE head[p]
  BY <1>3 DEF PublisherOK
<1>6. OnlyRow(p, a)
  <2>1. \A q \in Peers : q # p => vis'[q] = vis[q] /\ head'[q] = head[q]
    BY <1>3 DEF PublisherOK
  <2>2. head[p] \in Int /\ known[p][a] \in Int /\ head'[p] >= head[p]
    BY <1>1, <1>5 DEF PublisherOK, HubInv, HubTypes
  <2> QED BY <1>3, <2>1, <2>2 DEF OnlyRow, RowKept
<1>7. RowOK(p, a)'
  <2>1. RowOK(p, a) /\ gone[p][a] \in Nat /\ head[p] \in Nat /\ head'[p] \in Nat /\ (card[p][a] # None => card[p][a].fs \in Nat)
    BY DEF HubInv, PublisherOK, StoredCard
  <2>2. head'[p] >= head[p]
    BY <1>6 DEF OnlyRow
  <2> QED BY <1>3, <2>1, <2>2 DEF RowOK
<1>8. Published(p, a)' = Published(p, a) /\ gone'[p][a] = gone[p][a] /\ card'[p][a] = card[p][a]
  BY <1>3, Zenon DEF Published, Federates
<1>9. Changing(p, a) /\ \A b \in AIDs : b # a => ~Changing(p, b) /\ ~Changing(p, b)'
  BY <1>1, <1>2, <1>3, <1>5 DEF Changing, Free
<1>10. BothOK(p, a) /\ ChangeOK(p)
  BY DEF HubInv
<1>11. ASSUME a \notin cut[p] PROVE agent[p][a] # None /\ agent[p][a].federates = v.to
  BY <1>1, <1>3, <1>10, <1>11 DEF ChangeOK
<1>12. CASE Take
  <2>1. vis'[p] = w /\ head'[p] = n
    BY <1>5, <1>12
  <2>2. Changing(p, a)' /\ Between(p, a)'
    BY <1>2, <1>4, <2>1 DEF Changing, Free, Between
  <2>3. BothOK(p, a)'
    BY <1>1, <1>2, <1>3, <1>8, <1>10, <2>1, <2>2 DEF BothOK
  <2>4. PositionOK(p)'
    BY <1>1, <1>2, <2>1 DEF PositionOK, PublisherOK
  <2>5. ChangeOK(p)'
    BY <1>1, <1>2, <1>3, <1>11, <1>12, <2>1 DEF ChangeOK
  <2>6. SetAside(p)'
    <3>1. Ahead(p, n)
      BY <1>1, AheadOfHead DEF PublisherOK
    <3>2. \A b \in AIDs : gone[p][b] < n /\ (card[p][b] # None => card[p][b].fs < n)
      <4> SUFFICES ASSUME NEW b \in AIDs PROVE gone[p][b] < n /\ (card[p][b] # None => card[p][b].fs < n)
        OBVIOUS
      <4>1. RowOK(p, b) /\ gone[p][b] \in Nat /\ head[p] \in Nat
        BY DEF HubInv, PublisherOK
      <4> QED BY <1>1, <4>1 DEF RowOK
    <3>3. Ahead(p, n)'
      BY <1>1, <1>3, <3>1 DEF Ahead, OnPage, reader
    <3> QED BY <1>2, <1>3, <2>1, <3>2, <3>3 DEF SetAside
  <2>7. ASSUME a \notin cut'[p] PROVE Effect(p, a)
    <3>1. Narrowing(p, a) => Narrowing(p, a)'
      BY <1>1, <1>2, <2>1, <2>2 DEF Narrowing
    <3> QED BY <1>8, <2>2, <3>1, Zenon DEF Effect
  <2> QED BY <1>6, <1>7, <1>9, <2>3, <2>4, <2>5, <2>6, <2>7, Zenon DEF RowStep
<1>13. CASE ~Take
  <2>1. vis'[p] = None
    BY <1>5, <1>13
  <2>2. PositionOK(p)' /\ ChangeOK(p)' /\ SetAside(p)'
    BY <2>1, Zenon DEF PositionOK, ChangeOK, SetAside
  <2>3. a \notin cut[p] => ~Published(p, a) /\ ~Narrowing(p, a)
    BY <1>1, <1>3, <1>11, <1>13, Zenon DEF Published, Federates, Narrowing
  <2>4. BothOK(p, a)'
    BY <1>3, <1>8, <2>3, Zenon DEF BothOK
  <2>5. ASSUME a \notin cut'[p] PROVE Effect(p, a)
    BY <1>3, <1>8, <2>3, <2>5, Zenon DEF Effect
  <2> QED BY <1>6, <1>7, <1>9, <2>2, <2>4, <2>5, Zenon DEF RowStep
<1> QED BY <1>12, <1>13

LEMMA VisibilityPuts ==
  ASSUME PublisherOK, PublisherOK', HubInv, HubTypes', PlaceInv, NEW p \in Peers, NEW a \in AIDs, VisPut(p), a = vis[p].aid
  PROVE  RowStep(p, a)
<1>1. PICK v \in Change, n \in Nat : v = vis[p] /\ n = v.fs
  BY DEF VisPut, PublisherOK, Change
<1> DEFINE w == [v EXCEPT !.pc = "clear"]
<1>2. w \in Change /\ w.aid = a /\ w.to = v.to /\ w.pc = "clear"
  BY <1>1 DEF Change
<1>3. /\ v # None /\ v.pc = "put" /\ UNCHANGED <<agent, known, head, req, cut, reader>>
      /\ IF v.to
         THEN /\ card' = IF card[p][a] = None THEN card ELSE [card EXCEPT ![p][a] = [card[p][a] EXCEPT !.fs = n]]
              /\ vis' = [vis EXCEPT ![p] = w] /\ gone' = gone
         ELSE gone' = [gone EXCEPT ![p][a] = n] /\ vis' = [vis EXCEPT ![p] = None] /\ card' = card
  BY <1>1 DEF VisPut
<1> HIDE DEF w
<1>4. w # None
  BY <1>2, CardsAssumption DEF Change
<1>5. /\ RowOK(p, a) /\ BothOK(p, a) /\ ChangeOK(p) /\ SetAside(p) /\ n \in 1..head[p] /\ head[p] \in Nat
      /\ gone[p][a] \in Nat
  BY <1>1, <1>3 DEF HubInv, PlaceInv, PositionOK, PublisherOK
<1>6. a \notin cut[p] =>
        /\ Ahead(p, n) /\ gone[p][a] < n /\ agent[p][a] # None /\ agent[p][a].federates = v.to
        /\ v.to => card[p][a] # None /\ card[p][a].listed
  BY <1>1, <1>3, <1>5 DEF SetAside, ChangeOK
<1>7. Changing(p, a) /\ (\A b \in AIDs : b # a => ~Changing(p, b) /\ ~Changing(p, b)')
  <2>1. vis'[p] = None \/ vis'[p] = w
    BY <1>3 DEF PublisherOK
  <2> QED BY <1>1, <1>2, <1>3, <2>1 DEF Changing, Free
<1>8. \A q \in Peers : q # p => vis'[q] = vis[q]
  BY <1>3 DEF PublisherOK
<1>9. CASE v.to
  <2>1. vis'[p] = w /\ gone' = gone
    BY <1>3, <1>9 DEF PublisherOK
  <2>2. /\ \A q \in Peers, b \in AIDs : q # p \/ b # a => card'[q][b] = card[q][b]
        /\ card[p][a] = None => card'[p][a] = None
    BY <1>3, <1>9 DEF PublisherOK
  <2>3. ASSUME card[p][a] # None
        PROVE  /\ card'[p][a] # None /\ card'[p][a].fs = n /\ card'[p][a].key = card[p][a].key
               /\ card'[p][a].listed = card[p][a].listed
    <3>1. PICK row \in StoredCard : row = card[p][a]
      BY <2>3 DEF PublisherOK
    <3> DEFINE moved == [row EXCEPT !.fs = n]
    <3>2. moved \in StoredCard
      BY DEF StoredCard
    <3>3. moved.fs = n /\ moved.key = row.key
      BY DEF StoredCard
    <3>4. moved.listed = row.listed
      BY Zenon DEF StoredCard
    <3>5. card' = [card EXCEPT ![p][a] = moved]
      BY <1>3, <1>9, <2>3, <3>1
    <3> HIDE DEF moved
    <3>6. card'[p][a] = moved
      BY <3>5 DEF PublisherOK
    <3>7. moved # None
      BY <3>2, CardsAssumption DEF StoredCard
    <3> QED BY <3>1, <3>3, <3>4, <3>6, <3>7
  <2>4. OnlyRow(p, a)
    <3>1. known[p][a] \in Int
      BY DEF HubInv, HubTypes
    <3> QED BY <1>3, <1>5, <1>8, <2>1, <2>2, <3>1 DEF OnlyRow, RowKept
  <2>5. RowOK(p, a)'
    BY <1>3, <1>5, <2>1, <2>2, <2>3 DEF RowOK
  <2>6. Changing(p, a)' /\ ~Between(p, a)'
    BY <1>2, <1>4, <2>1 DEF Changing, Free, Between
  <2>7. BothOK(p, a)'
    BY <1>2, <1>9, <2>1, <2>6 DEF BothOK
  <2>8. PositionOK(p)' /\ SetAside(p)'
    BY <1>2, <2>1 DEF PositionOK, SetAside
  <2>9. ChangeOK(p)'
    <3> SUFFICES ASSUME a \notin cut[p]
                 PROVE  /\ agent'[p][a] # None /\ agent'[p][a].federates = w.to
                        /\ card'[p][a] # None /\ card'[p][a].fs > gone'[p][a] /\ card'[p][a].listed
      BY <1>2, <1>3, <1>9, <2>1 DEF ChangeOK
    <3> QED BY <1>1, <1>2, <1>3, <1>5, <1>6, <1>9, <2>1, <2>3
  <2>10. ASSUME a \notin cut'[p] PROVE Effect(p, a)
    <3>1. card[p][a] # None /\ card[p][a].listed /\ Ahead(p, n) /\ agent[p][a] # None /\ agent[p][a].federates
      BY <1>3, <1>6, <1>9, <2>10
    <3>2. card'[p][a].fs = n /\ card'[p][a].listed
      BY <2>3, <3>1
    <3>3. Published(p, a) /\ Published(p, a)'
      BY <1>3, <2>3, <3>1, <3>2 DEF Published, Federates
    <3> QED BY <2>1, <3>1, <3>2, <3>3 DEF Effect
  <2> QED BY <1>7, <2>4, <2>5, <2>7, <2>8, <2>9, <2>10, Zenon DEF RowStep
<1>10. CASE ~v.to
  <2>1. vis'[p] = None /\ gone'[p][a] = n /\ card' = card
    BY <1>3, <1>10 DEF PublisherOK
  <2>2. OnlyRow(p, a)
    <3>1. \A q \in Peers, b \in AIDs : q # p \/ b # a => gone'[q][b] = gone[q][b]
      BY <1>3, <1>10 DEF PublisherOK
    <3>2. known[p][a] \in Int
      BY DEF HubInv, HubTypes
    <3> QED BY <1>3, <1>5, <1>8, <2>1, <3>1, <3>2 DEF OnlyRow, RowKept
  <2>3. RowOK(p, a)'
    BY <1>3, <1>5, <2>1 DEF RowOK
  <2>4. a \notin cut[p] => ~Published(p, a) /\ ~Published(p, a)'
    BY <1>3, <1>6, <1>10, Zenon DEF Published, Federates
  <2>5. BothOK(p, a)'
    BY <1>3, <2>4 DEF BothOK
  <2>6. PositionOK(p)' /\ ChangeOK(p)' /\ SetAside(p)'
    BY <2>1, Zenon DEF PositionOK, ChangeOK, SetAside
  <2>7. ASSUME a \notin cut'[p] PROVE Effect(p, a)
    BY <1>3, <1>6, <2>1, <2>4, <2>7, Zenon DEF Effect
  <2> QED BY <1>7, <2>2, <2>3, <2>5, <2>6, <2>7, Zenon DEF RowStep
<1> QED BY <1>9, <1>10

LEMMA VisibilityClears ==
  ASSUME PublisherOK, PublisherOK', HubInv, HubTypes', PlaceInv, NEW p \in Peers, NEW a \in AIDs, VisClear(p), a = vis[p].aid
  PROVE  RowStep(p, a)
<1>1. /\ vis[p] # None /\ vis[p].pc = "clear" /\ vis[p] \in Change
      /\ vis' = [vis EXCEPT ![p] = None] /\ UNCHANGED <<agent, known, card, head, req, cut, reader>>
      /\ IF card[p][a] = None THEN gone' = gone ELSE Clear(p, a, card[p][a])
  BY DEF VisClear, PublisherOK
<1>2. vis'[p] = None /\ \A q \in Peers : q # p => vis'[q] = vis[q]
  BY <1>1 DEF PublisherOK
<1>3. /\ \A q \in Peers, b \in AIDs : q # p \/ b # a => gone'[q][b] = gone[q][b]
      /\ gone'[p][a] = IF card[p][a] # None /\ Federates(p, a) /\ card[p][a].listed /\ card[p][a].fs > gone[p][a]
                       THEN 0 ELSE gone[p][a]
  BY <1>1 DEF Clear, PublisherOK
<1>4. gone'[p][a] = IF Published(p, a) /\ card[p][a].fs > gone[p][a] THEN 0 ELSE gone[p][a]
  BY <1>3, Zenon DEF Published
<1>5. RowOK(p, a) /\ ChangeOK(p) /\ head[p] \in Nat /\ known[p][a] \in Int
  BY DEF HubInv, HubTypes, PublisherOK
<1>6. Published(p, a)' = Published(p, a)
  BY <1>1, Zenon DEF Published, Federates
<1>7. a \notin cut[p] => Published(p, a) /\ card[p][a].fs > gone[p][a]
  BY <1>1, <1>5, Zenon DEF ChangeOK, Published, Federates
<1>8. OnlyRow(p, a)
  BY <1>1, <1>2, <1>3, <1>5 DEF OnlyRow, RowKept
<1>9. RowOK(p, a)'
  BY <1>1, <1>4, <1>5 DEF RowOK
<1>10. \A b \in AIDs : b # a => ~Changing(p, b) /\ ~Changing(p, b)'
  BY <1>2 DEF Changing, Free
<1>11. BothOK(p, a)'
  BY <1>1, <1>4, <1>7 DEF BothOK
<1>12. PositionOK(p)' /\ ChangeOK(p)' /\ SetAside(p)'
  BY <1>2, Zenon DEF PositionOK, ChangeOK, SetAside
<1>13. ASSUME a \notin cut'[p] PROVE Effect(p, a)
  <2>1. Published(p, a) /\ gone'[p][a] = 0 /\ ~Between(p, a)
    BY <1>1, <1>4, <1>7, <1>13 DEF Between
  <2> QED BY <1>1, <1>6, <2>1, Zenon DEF Effect
<1> QED BY <1>8, <1>9, <1>10, <1>11, <1>12, <1>13, Zenon DEF RowStep

LEMMA HubStops ==
  ASSUME PublisherOK, PublisherOK', HubInv, HubTypes', NEW p \in Peers, NEW a \in AIDs, Stop(p), ~Free(p), a = vis[p].aid
  PROVE  RowStep(p, a)
<1>1. /\ a \in cut'[p] /\ vis'[p] = None /\ cut[p] \subseteq cut'[p]
      /\ \A q \in Peers : q # p => vis'[q] = vis[q] /\ cut'[q] = cut[q]
      /\ UNCHANGED <<own, agent, known, card, gone, head, reader>>
  BY DEF Stop, Overtaken, PublisherOK, HubInv, HubTypes
<1>2. OnlyRow(p, a)
  <2>1. head[p] \in Int /\ known[p][a] \in Int
    BY DEF PublisherOK, HubInv, HubTypes
  <2> QED BY <1>1, <2>1 DEF OnlyRow, RowKept
<1>3. RowOK(p, a)'
  <2>1. RowOK(p, a)
    BY DEF HubInv
  <2> QED BY <1>1, <2>1 DEF RowOK
<1>4. BothOK(p, a)' /\ PositionOK(p)' /\ ChangeOK(p)' /\ SetAside(p)'
  BY <1>1, Zenon DEF BothOK, PositionOK, ChangeOK, SetAside
<1>5. \A b \in AIDs : b # a => ~Changing(p, b) /\ ~Changing(p, b)'
  BY <1>1 DEF Changing, Free
<1> QED BY <1>1, <1>2, <1>3, <1>4, <1>5, Zenon DEF RowStep

\* Every step of a peer or of a request there concerns one agent, or only the requests.
LEMMA HubRowStep ==
  ASSUME PublisherOK, PublisherOK', HubInv, HubTypes', PlaceInv,
         (\E p \in Peers : AtHub(p)) \/ (\E r \in Requests : Settle(r))
  PROVE  \/ \E p \in Peers, a \in AIDs : RowStep(p, a)
         \/ UNCHANGED <<agent, known, card, gone, head, vis, cut, reader>>
<1> DEFINE Goal == \/ \E p \in Peers, a \in AIDs : RowStep(p, a)
                   \/ UNCHANGED <<agent, known, card, gone, head, vis, cut, reader>>
<1>0. \A p \in Peers, a \in AIDs : known[p][a] \in Int
  BY DEF HubInv, HubTypes
<1>1. ASSUME NEW p \in Peers, NEW a \in AIDs, PublishKeys(p, a) PROVE Goal
  <2>1. PICK old \in StoredCard, n \in Nat : old = card[p][a] /\ n = head[p] + 1
    BY <1>1 DEF PublishKeys, Published, PublisherOK
  <2> DEFINE row == [old EXCEPT !.listed = TRUE, !.fs = n]
  <2>2. row \in StoredCard
    BY DEF StoredCard
  <2>3. row.fs = n /\ row.key = old.key
    BY DEF StoredCard
  <2>4. row.listed
    BY Zenon DEF StoredCard
  <2>5. /\ head' = [head EXCEPT ![p] = n] /\ card' = [card EXCEPT ![p][a] = row] /\ Clear(p, a, row)
        /\ Free(p) /\ UNCHANGED <<agent, known, vis, cut, reader>>
    BY <1>1, <2>1 DEF PublishKeys, TakeSeq, Next1, Shown
  <2> HIDE DEF row
  <2>6. old.key <= known[p][a]
    BY <1>1, <2>1 DEF PublishKeys, Published, HubInv, RowOK
  <2> QED BY <2>1, <2>2, <2>3, <2>4, <2>5, <2>6, CardShown
<1>2. ASSUME NEW p \in Peers, NEW a \in AIDs, Deregister(p, a) PROVE Goal
  BY <1>2, CardGone DEF Deregister
<1>3. ASSUME NEW p \in Peers, NEW a \in AIDs, NEW to \in BOOLEAN, SetVisibility(p, a, to) PROVE Goal
  BY <1>3, VisibilityBegins
<1>4. ASSUME NEW p \in Peers, NEW a \in AIDs, NEW r \in Requests, NEW kel \in Keys, Push(r, p, a, kel) PROVE Goal
  <2>1. PICK row \in AgentRow : row = agent[p][a]
    BY <1>4 DEF Push, HubInv, HubTypes
  <2>2. Federates(p, a) = row.federates
    BY <1>4, <2>1, Zenon DEF Push, Federates, AgentRow
  <2>3. [row EXCEPT !.kel = kel] = [kel |-> kel, federates |-> row.federates]
    BY DEF AgentRow
  <2>4. agent' = [agent EXCEPT ![p][a] = [row EXCEPT !.kel = kel]]
    BY <1>4, <2>1 DEF Push
  <2>5. agent' = [agent EXCEPT ![p][a] = [kel |-> kel, federates |-> Federates(p, a)]]
    BY <2>2, <2>3, <2>4
  <2>6. known[p][a] <= kel
    BY <1>0, <1>4 DEF Push, Keys
  <2> QED BY <1>4, <2>5, <2>6, HistoryStored DEF Push
<1>5. ASSUME NEW p \in Peers, NEW a \in AIDs, NEW r \in Requests, NEW kel \in Keys, NEW c,
             Register(r, p, a, kel, c)
      PROVE  Goal
  <2>1. known[p][a] <= kel
    BY <1>0, <1>5 DEF Register, Keys
  <2> QED BY <1>5, <2>1, HistoryStored DEF Register
<1>6. ASSUME NEW p \in Peers, VisTake(p) \/ VisPut(p) \/ VisClear(p) PROVE Goal
  <2>1. PICK a \in AIDs : a = vis[p].aid
    BY <1>6 DEF VisTake, VisPut, VisClear, PublisherOK, Change
  <2> QED BY <1>6, <2>1, VisibilityTakes, VisibilityPuts, VisibilityClears
<1>7. ASSUME NEW p \in Peers, Stop(p) PROVE Goal
  <2>1. CASE Free(p)
    BY <1>7, <2>1 DEF Stop, Overtaken, Free, PublisherOK
  <2>2. CASE ~Free(p)
    <3>1. PICK a \in AIDs : a = vis[p].aid
      BY <2>2 DEF Free, PublisherOK, Change
    <3> QED BY <1>7, <2>2, <3>1, HubStops
  <2> QED BY <2>1, <2>2
<1>8. ASSUME NEW r \in Requests, WithdrawCard(r) PROVE Goal
  <2>1. req[r] \in CardRequest /\ req[r].hub \in Peers /\ req[r].aid \in AIDs
    BY <1>8 DEF WithdrawCard, CardRequest, PublisherOK
  <2>2. PICK p \in Peers, a \in AIDs : p = req[r].hub /\ a = req[r].aid
    BY <2>1
  <2> QED BY <1>8, <2>2, CardGone DEF WithdrawCard
<1>9. ASSUME NEW r \in Requests, AdmitCard(r) PROVE Goal
  <2>1. req[r] \in CardRequest /\ req[r].hub \in Peers /\ req[r].aid \in AIDs /\ req[r].card \in Card
    BY <1>9 DEF AdmitCard, CardRequest, PublisherOK
  <2>2. PICK p \in Peers, a \in AIDs : p = req[r].hub /\ a = req[r].aid
    BY <2>1
  <2> DEFINE again == card[p][a] # None /\ Signed(card[p][a]) = req[r].card
             pos == IF again /\ card[p][a].listed THEN card[p][a].fs ELSE head[p] + 1
             row == [seq |-> req[r].card.seq, body |-> req[r].card.body, key |-> req[r].card.key,
                     listed |-> TRUE, fs |-> pos]
  <2>3. pos \in Nat
    BY DEF StoredCard, PublisherOK
  <2>4. /\ head' = [head EXCEPT ![p] = head[p] + 1] /\ card' = [card EXCEPT ![p][a] = row]
        /\ Clear(p, a, row) /\ Free(p) /\ Verifies(req[r].card, req[r].kel)
        /\ UNCHANGED <<agent, known, vis, cut, reader>>
    BY <1>9, <2>2 DEF AdmitCard, TakeSeq, Next1
  <2>5. row = card[p][a] \/ pos = head[p] + 1
    <3> SUFFICES ASSUME again, card[p][a].listed PROVE row = card[p][a]
      OBVIOUS
    <3>1. PICK old \in StoredCard : old = card[p][a]
      BY DEF PublisherOK
    <3>2. old = [seq |-> old.seq, body |-> old.body, key |-> old.key, listed |-> old.listed, fs |-> old.fs]
      BY DEF StoredCard
    <3>3. old.listed = TRUE
      BY <3>1, Zenon DEF StoredCard
    <3>4. Signed(old) = req[r].card
      BY <3>1
    <3>a. Signed(old).seq = old.seq /\ Signed(old).body = old.body /\ Signed(old).key = old.key
      BY DEF Signed
    <3>5. req[r].card.seq = old.seq /\ req[r].card.body = old.body /\ req[r].card.key = old.key
      BY <3>4, <3>a
    <3> QED BY <3>1, <3>2, <3>3, <3>5
  <2>6. row.fs = pos /\ row.key = req[r].card.key
    OBVIOUS
  <2>7. row.listed
    BY Zenon
  <2> HIDE DEF pos, again
  <2>8. row \in StoredCard
    BY <2>1, <2>3 DEF StoredCard, Card
  <2>9. req[r].card.key <= known[p][a]
    <3>1. req[r].kel <= known[p][a]
      BY <1>9, <2>2 DEF AdmitCard, HubInv, RequestOK
    <3> QED BY <2>4, <3>1 DEF Verifies
  <2> HIDE DEF row
  <2> QED BY <2>2, <2>4, <2>5, <2>6, <2>7, <2>8, <2>9, CardShown
<1>10. ASSUME NEW r \in Requests, RefuseCard(r) \/ Recheck(r) PROVE Goal
  BY <1>10 DEF RefuseCard, Recheck
<1>11. ASSUME NEW r \in Requests, Delist(r) PROVE Goal
  <2>1. req[r] \in CardRequest /\ req[r].hub \in Peers /\ req[r].aid \in AIDs
    BY <1>11 DEF Delist, CardRequest, PublisherOK
  <2>2. PICK p \in Peers, a \in AIDs : p = req[r].hub /\ a = req[r].aid
    BY <2>1
  <2>3. CASE ~(StillListed(req[r]) /\ ~Verifies(req[r].raw, req[r].kel))
    BY <1>11, <2>3 DEF Delist
  <2>4. CASE StillListed(req[r]) /\ ~Verifies(req[r].raw, req[r].kel)
    <3>1. /\ card[p][a] # None /\ Free(p) /\ UNCHANGED <<agent, known, vis, cut, reader>>
          /\ card' = [card EXCEPT ![p][a].listed = FALSE, ![p][a].fs = head[p] + 1]
          /\ IF Federates(p, a)
             THEN head' = [head EXCEPT ![p] = head[p] + 2] /\ gone' = [gone EXCEPT ![p][a] = head[p] + 2]
             ELSE head' = [head EXCEPT ![p] = head[p] + 1] /\ gone' = gone
      BY <1>11, <2>2, <2>4 DEF Delist, StillListed, TakeSeq, Next1
    <3>2. PICK old \in StoredCard, n \in Nat : old = card[p][a] /\ n = head[p] + 1
      BY <3>1 DEF PublisherOK
    <3> DEFINE row == [old EXCEPT !.listed = FALSE, !.fs = n]
    <3>3. row \in StoredCard
      BY DEF StoredCard
    <3>4. row.fs = n /\ row.key = old.key
      BY DEF StoredCard
    <3>5. ~row.listed
      BY Zenon DEF StoredCard
    <3>6. card' = [card EXCEPT ![p][a] = row]
      BY <3>1, <3>2
    <3> HIDE DEF row
    <3> QED BY <3>1, <3>2, <3>3, <3>4, <3>5, <3>6, CardDelisted
  <2> QED BY <2>3, <2>4
<1>12. ASSUME NEW p \in Peers, AtHub(p) PROVE Goal
  BY <1>12, <1>1, <1>2, <1>3, <1>4, <1>5, <1>6, <1>7 DEF AtHub
<1>13. ASSUME NEW r \in Requests, Settle(r) PROVE Goal
  BY <1>13, <1>8, <1>9, <1>10, <1>11 DEF Settle
<1> QED BY <1>12, <1>13

\* Nor is a card that was dealt with ever owed again: under a longer history the card
\* verifies no more, under the same one it is the same.
LEMMA TakenStays ==
  ASSUME PublisherOK, HubInv, HubTypes', NEW p \in Peers, NEW a \in AIDs, RowOK(p, a)', card'[p][a] = card[p][a],
         Published(p, a), Published(p, a)', known[p][a] <= known'[p][a], fed' = fed, Taken(p, a)
  PROVE  Taken(p, a)'
<1>1. /\ card[p][a] # None /\ agent[p][a] # None /\ agent'[p][a] # None
      /\ RowOK(p, a) /\ card[p][a].key \in Int /\ known[p][a] \in Int /\ known'[p][a] \in Int
  BY DEF Published, Federates, HubInv, HubTypes, PublisherOK, StoredCard, Keys
<1>2. /\ agent[p][a].kel = known[p][a] /\ agent'[p][a].kel = known'[p][a]
      /\ card[p][a].key <= known[p][a]
  BY <1>1 DEF RowOK
<1>3. CASE known'[p][a] = known[p][a]
  <2>1. agent'[p][a].kel = agent[p][a].kel
    BY <1>2, <1>3
  <2>2. Entry(p, a)' = Entry(p, a)
    BY <2>1 DEF Entry
  <2> QED BY <2>1, <2>2, Zenon DEF Taken, Refused
<1>4. CASE known'[p][a] # known[p][a]
  <2>1. card'[p][a].key # agent'[p][a].kel
    BY <1>1, <1>2, <1>4
  <2> QED BY <2>1 DEF Taken, Verifies
<1> QED BY <1>3, <1>4

\* What a peer does leaves the directory accounted for.
LEMMA HubStepKeepsReader ==
  ASSUME PublisherOK, PublisherOK', HubInv, HubInv', PlaceInv, ReaderInv, UNCHANGED reader,
         \A p \in Peers, a \in AIDs : known[p][a] <= known'[p][a],
         \A p \in Peers : cut[p] \subseteq cut'[p],
         \A p \in Peers : \A a \in AIDs \ cut'[p] : Effect(p, a)
  PROVE  ReaderInv'
<1>0. cur' = cur /\ fed' = fed /\ page' = page /\ crossed' = crossed
  BY DEF reader
<1> SUFFICES ASSUME NEW p \in Peers, NEW a \in AIDs \ cut'[p] PROVE DirectoryIn(p, a)'
  BY <1>0 DEF ReaderInv
<1>1. DirectoryIn(p, a) /\ Effect(p, a) /\ cur[p] \in Nat /\ gone[p][a] \in Nat /\ gone'[p][a] \in Nat
  <2>1. a \in AIDs \ cut[p]
    OBVIOUS
  <2>2. DirectoryIn(p, a)
    BY <2>1 DEF ReaderInv
  <2> QED BY <2>2 DEF PlaceInv, PublisherOK
<1>2. /\ ListsFrom(p, a)' = ListsFrom(p, a) /\ CardAwaited(p, a)' = CardAwaited(p, a)
      /\ Believed(p, a)' = Believed(p, a) /\ OnPage(p)' = OnPage(p)
  BY <1>0, Zenon DEF ListsFrom, CardAwaited, Believed, OnPage
<1>3. OnPage(p) => page.next \in Nat
  BY DEF OnPage, PlaceInv, CardPageOK
<1>4. \A n \in Nat : Ahead(p, n) => n > 0 /\ ~(n <= cur[p]) /\ ~(OnPage(p) /\ n <= page.next)
  BY <1>1, <1>3 DEF Ahead
<1>5. StandsIn(p, a)'
  BY <1>1, <1>2, <1>4 DEF DirectoryIn, StandsIn, Effect
<1>6. WithdrawnIn(p, a)'
  <2> SUFFICES ASSUME ~Published(p, a)', gone'[p][a] > 0,
                      gone'[p][a] <= cur[p] \/ (OnPage(p) /\ gone'[p][a] <= page.next)
               PROVE  WithdrawnIn(p, a)'
    BY <1>0, <1>2, Zenon DEF WithdrawnIn
  <2>1. ~Ahead(p, gone'[p][a])
    BY <1>1, <1>4
  <2>2. ~Published(p, a) /\ gone'[p][a] = gone[p][a]
    BY <1>1, <2>1 DEF Effect
  <2>3. WithdrawalAwaited(p, a)' = WithdrawalAwaited(p, a)
    BY <1>0, <1>2, <2>2, Zenon DEF WithdrawalAwaited
  <2> QED BY <1>0, <1>1, <1>2, <2>2, <2>3 DEF DirectoryIn, WithdrawnIn
<1>7. ASSUME card'[p][a] # None, ~Ahead(p, card'[p][a].fs) PROVE card'[p][a] = card[p][a]
  BY <1>1, <1>7, Zenon DEF Effect
<1>8. DealtIn(p, a)'
  <2> SUFFICES ASSUME Published(p, a)', ~Between(p, a)',
                      card'[p][a].fs <= cur[p] \/ (OnPage(p) /\ card'[p][a].fs <= page.next)
               PROVE  DealtIn(p, a)'
    BY <1>0, <1>2, Zenon DEF DealtIn
  <2>1. card'[p][a] # None /\ card'[p][a].fs \in Nat
    BY DEF Published, PublisherOK, StoredCard
  <2>2. ~Ahead(p, card'[p][a].fs)
    BY <1>4, <2>1
  <2>3. card'[p][a] = card[p][a] /\ Published(p, a) /\ ~Between(p, a)
    BY <1>1, <1>7, <2>1, <2>2 DEF Effect
  <2>4. Taken(p, a) => Taken(p, a)'
    BY <1>0, <2>3, TakenStays DEF HubInv
  <2>5. Dealt(p, a) => Dealt(p, a)'
    BY <1>0, <2>4, Zenon DEF Dealt
  <2> QED BY <1>0, <1>1, <1>2, <2>3, <2>5 DEF DirectoryIn, DealtIn
<1>9. SameIn(p, a)'
  <2> SUFFICES ASSUME OnPage(p), card'[p][a] # None, ~Ahead(p, card'[p][a].fs) PROVE SameIn(p, a)'
    <3>1. Ahead(p, card[p][a].fs)' <=> Ahead(p, card'[p][a].fs)
      BY <1>0, <1>2, Zenon DEF Ahead
    <3> QED BY <1>2, <3>1, Zenon DEF SameIn
  <2>1. card'[p][a] = card[p][a]
    BY <1>7
  <2> QED BY <1>0, <1>1, <2>1, Zenon DEF DirectoryIn, SameIn
<1> QED BY <1>5, <1>6, <1>8, <1>9 DEF DirectoryIn

LEMMA HubStepKept ==
  ASSUME PublisherOK, HubInv, PlaceInv, ReaderInv, CardsNext,
         (\E p \in Peers : AtHub(p)) \/ (\E r \in Requests : Settle(r))
  PROVE  HubInv' /\ PlaceInv' /\ ReaderInv'
<1>1. /\ PublisherOK' /\ HubTypes' /\ \A r \in Requests : RequestOK(r)'
      /\ \A p \in Peers, a \in AIDs : known[p][a] <= known'[p][a]
  BY PublisherKept, HubTypesKept, RequestsKept DEF HubInv
<1>2. ASSUME NEW p \in Peers, NEW a \in AIDs, RowStep(p, a) PROVE HubInv' /\ PlaceInv' /\ ReaderInv'
  <2>1. HubInv' /\ PlaceInv' /\ \A q \in Peers : \A b \in AIDs \ cut'[q] : Effect(q, b)
    BY <1>1, <1>2, RowStepKeeps
  <2>2. UNCHANGED reader /\ \A q \in Peers : cut[q] \subseteq cut'[q]
    BY <1>2 DEF RowStep, OnlyRow
  <2> QED BY <1>1, <2>1, <2>2, HubStepKeepsReader
<1>3. CASE UNCHANGED <<agent, known, card, gone, head, vis, cut, reader>>
  <2>1. ASSUME NEW p \in Peers, NEW a \in AIDs PROVE RowOK(p, a)' /\ BothOK(p, a)'
    <3>1. RowOK(p, a) /\ BothOK(p, a)
      BY DEF HubInv
    <3>2. RowOK(p, a)'
      BY <1>3, <3>1, Zenon DEF RowOK
    <3>3. BothOK(p, a)'
      BY <1>3, <3>1, Zenon DEF BothOK, Published, Federates, Changing, Free
    <3> QED BY <3>2, <3>3
  <2>2. HubInv'
    <3>1. \A p \in Peers : PositionOK(p)' /\ ChangeOK(p)'
      BY <1>3, Zenon DEF HubInv, PositionOK, ChangeOK
    <3> QED BY <1>1, <2>1, <3>1 DEF HubInv
  <2>3. PlaceInv'
    BY <1>3, Zenon DEF PlaceInv, SetAside, Ahead, OnPage, CardPageOK, GivenOK, reader
  <2>4. \A p \in Peers, a \in AIDs : Effect(p, a)
    BY <1>3, KeptEffect DEF RowKept, Published, Federates, Changing, Free
  <2> QED BY <1>1, <1>3, <2>2, <2>3, <2>4, HubStepKeepsReader
<1> QED BY <1>1, <1>2, <1>3, HubRowStep

-----------------------------------------------------------------------------
(* A step of the reader.                                                    *)

LEMMA RestIsPage ==
  ASSUME PlaceInv, page # None, page' = [page EXCEPT !.rest = page.rest \ {First}]
  PROVE  /\ page' # None /\ page'.peer = page.peer /\ page'.from = page.from /\ page'.next = page.next
         /\ page'.rest = page.rest \ {First} /\ page' \in GivenPage
<1>1. page \in GivenPage
  BY DEF PlaceInv, CardPageOK
<1>2. /\ page' \in GivenPage /\ page'.rest = page.rest \ {First}
      /\ page'.peer = page.peer /\ page'.from = page.from /\ page'.next = page.next
  BY <1>1 DEF GivenPage
<1> QED BY <1>2, CardsAssumption DEF GivenPage

LEMMA PlaceKept ==
  ASSUME PlaceInv, UNCHANGED <<publisher, cur>>, page # None, page' = [page EXCEPT !.rest = page.rest \ {First}]
  PROVE  PlaceInv'
<1>1. /\ page' # None /\ page'.peer = page.peer /\ page'.from = page.from /\ page'.next = page.next
      /\ page'.rest \subseteq page.rest /\ page' \in GivenPage
  BY RestIsPage
<1>2. \A p \in Peers : SetAside(p)'
  <2> TAKE p \in Peers
  <2>1. SetAside(p)
    BY DEF PlaceInv
  <2>2. \A n : Ahead(p, n)' = Ahead(p, n)
    BY <1>1 DEF Ahead, OnPage
  <2> QED BY <2>1, <2>2 DEF SetAside, publisher
<1>3. CardPageOK'
  <2>1. \A e \in page'.rest : GivenOK(page.peer, e)
    BY <1>1 DEF PlaceInv, CardPageOK
  <2>2. ASSUME NEW e \in page'.rest PROVE GivenOK(page.peer, e)'
    BY <1>1, <2>1 DEF GivenOK, publisher
  <2> QED BY <1>1, <2>2 DEF PlaceInv, CardPageOK, publisher
<1> QED BY <1>2, <1>3 DEF PlaceInv, publisher

\* What an entry of the page may do to the account of an agent at a peer.
LEMMA EntryKeepsAccount ==
  ASSUME PublisherOK, PlaceInv, UNCHANGED <<publisher, cur>>,
         page # None, page' = [page EXCEPT !.rest = page.rest \ {First}],
         NEW p \in Peers, NEW a \in AIDs, DirectoryIn(p, a),
         ListsFrom(p, a)' => Believed(p, a),
         ListsFrom(p, a)' /\ WithdrawalAwaited(p, a) => WithdrawalAwaited(p, a)',
         Published(p, a) /\ ~Ahead(p, card[p][a].fs) =>
           (Dealt(p, a) => Dealt(p, a)') /\ (CardAwaited(p, a) => CardAwaited(p, a)' \/ Dealt(p, a)')
  PROVE  DirectoryIn(p, a)'
<1>1. /\ page' # None /\ page'.peer = page.peer /\ page'.next = page.next /\ page'.rest \subseteq page.rest
  BY RestIsPage
<1>2. /\ OnPage(p)' = OnPage(p) /\ \A n : Ahead(p, n)' = Ahead(p, n)
  BY <1>1 DEF OnPage, Ahead
<1>3. CardAwaited(p, a)' => CardAwaited(p, a)
  BY <1>1, <1>2 DEF CardAwaited
<1>4. Believed(p, a)' => Believed(p, a)
  BY <1>3 DEF Believed
<1>5. /\ Published(p, a)' = Published(p, a) /\ Between(p, a)' = Between(p, a) /\ Narrowing(p, a)' = Narrowing(p, a)
      /\ gone' = gone /\ card' = card
  BY DEF Published, Federates, Between, Narrowing, Changing, Free, publisher
<1>6. StandsIn(p, a)'
  BY <1>4, <1>5 DEF DirectoryIn, StandsIn
<1>7. WithdrawnIn(p, a)'
  BY <1>1, <1>2, <1>3, <1>4, <1>5 DEF DirectoryIn, WithdrawnIn, Believed
<1>8. DealtIn(p, a)'
  <2> SUFFICES ASSUME Published(p, a), ~Between(p, a)
               PROVE  /\ card[p][a].fs <= cur[p] => Dealt(p, a)'
                      /\ OnPage(p) /\ card[p][a].fs <= page.next => Dealt(p, a)' \/ CardAwaited(p, a)'
    BY <1>1, <1>2, <1>5 DEF DealtIn
  <2>1. /\ card[p][a].fs <= cur[p] => Dealt(p, a)
        /\ OnPage(p) /\ card[p][a].fs <= page.next => Dealt(p, a) \/ CardAwaited(p, a)
    BY DEF DirectoryIn, DealtIn
  <2>2. Ahead(p, card[p][a].fs) => ~(card[p][a].fs <= cur[p]) /\ ~(OnPage(p) /\ card[p][a].fs <= page.next)
    <3>1. cur[p] \in Nat /\ card[p][a].fs \in Nat /\ (OnPage(p) => page.next \in Nat)
      BY DEF Published, PublisherOK, StoredCard, PlaceInv, CardPageOK, OnPage
    <3> QED BY <3>1 DEF Ahead
  <2> QED BY <2>1, <2>2
<1>9. SameIn(p, a)'
  BY <1>1, <1>2, <1>5 DEF DirectoryIn, SameIn
<1> QED BY <1>6, <1>7, <1>8, <1>9 DEF DirectoryIn

LEMMA FirstIsGiven ==
  ASSUME MovesInv, PlaceInv, page # None, page.rest # {}
  PROVE  /\ First \in page.rest /\ GivenOK(page.peer, First) /\ (\A f \in page.rest : First.fs <= f.fs)
         /\ page.peer \in Peers /\ First.aid \in AIDs /\ First.fs \in Nat /\ page.next \in Nat
<1>1. First \in page.rest /\ \A f \in page.rest : First.fs <= f.fs
  BY FirstIsEntry
<1>2. GivenOK(page.peer, First) /\ page.peer \in Peers /\ page.next \in Nat
  BY <1>1 DEF PlaceInv, CardPageOK
<1> QED BY <1>1, <1>2 DEF GivenOK

\* A withdrawal is applied: the reader lists the card no more, and remembers that it came
\* to the withdrawal while the peer published the card.
LEMMA WithdrawalKeeps ==
  ASSUME MovesInv, HubInv, PlaceInv, ReaderInv, AdmitWithdrawal
  PROVE  PlaceInv' /\ ReaderInv'
<1>1. /\ page # None /\ page.rest # {} /\ First.card = None /\ UNCHANGED <<publisher, cur>>
      /\ fed' = [fed EXCEPT ![First.aid] = Retired(page.peer, fed[First.aid])]
      /\ crossed' = IF Published(page.peer, First.aid) /\ ListsFrom(page.peer, First.aid)
                    THEN [crossed EXCEPT ![page.peer] = crossed[page.peer] \cup {First.aid}] ELSE crossed
      /\ page' = [page EXCEPT !.rest = page.rest \ {First}]
  BY DEF AdmitWithdrawal
<1>q. PICK q \in Peers : q = page.peer
  BY <1>1, FirstIsGiven
<1>e. PICK e : e = First
  OBVIOUS
<1>2. e = First /\ q = page.peer /\ e \in page.rest /\ e.aid \in AIDs
  BY <1>1, <1>q, <1>e, FirstIsGiven
<1>3. /\ page' # None /\ page'.peer = q /\ page'.rest = page.rest \ {e}
  BY <1>1, <1>2, RestIsPage
<1>4. fed' = [fed EXCEPT ![e.aid] = Retired(q, fed[e.aid])] /\ fed = [a \in AIDs |-> fed[a]]
  BY <1>1, <1>2 DEF MovesInv
<1>5. \A p \in Peers : crossed[p] \subseteq crossed'[p]
  BY <1>1, <1>2 DEF ReaderInv
<1>6. crossed' \in [Peers -> SUBSET AIDs]
  BY <1>1, <1>2 DEF ReaderInv
<1>7. ASSUME NEW p \in Peers, NEW a \in AIDs \ cut[p] PROVE DirectoryIn(p, a)'
  <2>1. DirectoryIn(p, a)
    BY DEF ReaderInv
  <2>2. CardAwaited(p, a) => CardAwaited(p, a)'
    <3>1. OnPage(p) => OnPage(p)'
      BY <1>2, <1>3 DEF OnPage
    <3> QED BY <1>1, <1>2, <1>3, <3>1 DEF CardAwaited
  <2>3. CASE fed'[a] = fed[a]
    <3>1. ListsFrom(p, a)' = ListsFrom(p, a)
      BY <2>3 DEF ListsFrom
    <3>2. Taken(p, a)' = Taken(p, a)
      BY <1>1, <2>3, Zenon DEF Taken, Entry, publisher
    <3>3. Dealt(p, a) => Dealt(p, a)'
      BY <1>5, <3>2 DEF Dealt
    <3>4. ListsFrom(p, a) /\ WithdrawalAwaited(p, a) => WithdrawalAwaited(p, a)'
      <4> SUFFICES ASSUME ListsFrom(p, a), WithdrawalAwaited(p, a) PROVE WithdrawalAwaited(p, a)'
        OBVIOUS
      <4>1. OnPage(p) /\ OnPage(p)' /\ p = q
        BY <1>2, <1>3 DEF WithdrawalAwaited, OnPage
      <4>2. CASE a = e.aid
        <5>1. fed[a] # None /\ fed[a].listed /\ fed[a].peer = q
          BY <4>1 DEF ListsFrom
        <5>2. fed'[a] = [fed[a] EXCEPT !.listed = FALSE]
          BY <1>4, <4>2, <5>1 DEF Retired
        <5>3. FedFormed(a)
          BY <5>1 DEF MovesInv
        <5>4. ~fed'[a].listed
          BY <5>2, <5>3, Zenon DEF FedFormed
        <5> QED BY <2>3, <5>1, <5>4
      <4>3. CASE a # e.aid
        BY <1>1, <1>3, <4>1, <4>3 DEF WithdrawalAwaited, publisher
      <4> QED BY <4>2, <4>3
    <3> QED BY <1>1, <2>1, <2>2, <3>1, <3>3, <3>4, EntryKeepsAccount DEF Believed, MovesInv
  <2>4. CASE fed'[a] # fed[a]
    <3>1. a = e.aid /\ fed[a] # None /\ fed[a].peer = q /\ fed'[a] = [fed[a] EXCEPT !.listed = FALSE]
      BY <1>4, <2>4 DEF Retired
    <3>2. FedFormed(a)
      BY <3>1 DEF MovesInv
    <3>3. /\ fed'[a] \in [seq : Seqs, body : Bodies, key : Keys, kel : Keys, peer : Peers, listed : BOOLEAN]
          /\ fed'[a].seq = fed[a].seq /\ fed'[a].body = fed[a].body /\ fed'[a].key = fed[a].key
          /\ fed'[a].kel = fed[a].kel /\ fed'[a].peer = fed[a].peer
      BY <3>1, <3>2 DEF FedFormed
    <3>4. ~fed'[a].listed
      BY <3>1, <3>2, Zenon DEF FedFormed
    <3>5. fed'[a] # None
      BY <3>3, CardsAssumption
    <3>6. ~ListsFrom(p, a)'
      BY <3>4 DEF ListsFrom
    <3>7. ASSUME Published(p, a), Taken(p, a) PROVE Dealt(p, a)'
      <4>1. CASE p = q /\ fed[a].listed
        <5>1. ListsFrom(q, a)
          BY <3>1, <4>1 DEF ListsFrom
        <5>2. a \in crossed'[p]
          BY <1>1, <1>2, <3>1, <3>7, <4>1, <5>1 DEF ReaderInv
        <5> QED BY <5>2 DEF Dealt
      <4>2. CASE p # q
        BY <3>1, <3>3, <3>5, <4>2 DEF Dealt, Taken
      <4>3. CASE ~fed[a].listed
        <5>1. Entry(p, a)' = Entry(p, a) /\ card' = card /\ agent' = agent
          BY <1>1, Zenon DEF Entry, publisher
        <5>2. Refused(fed[a], Entry(p, a)) => Refused(fed'[a], Entry(p, a))
          BY <3>1, <3>3, <3>5 DEF Refused, Judged, Mark
        <5>3. Taken(p, a)'
          BY <3>1, <3>5, <3>7, <4>3, <5>1, <5>2 DEF Taken
        <5> QED BY <5>3 DEF Dealt
      <4> QED BY <4>1, <4>2, <4>3
    <3>8. Published(p, a) => (Dealt(p, a) => Dealt(p, a)')
      BY <1>5, <3>7 DEF Dealt
    <3> QED BY <1>1, <2>1, <2>2, <3>6, <3>8, EntryKeepsAccount DEF MovesInv
  <2> QED BY <2>3, <2>4
<1>8. cut' = cut
  BY <1>1 DEF publisher
<1> QED BY <1>1, <1>6, <1>7, <1>8, PlaceKept DEF ReaderInv

\* The card that comes is the one the peer publishes, unless its entry moved since.
LEMMA FirstIsCurrent ==
  ASSUME MovesInv, HubInv, PlaceInv, page # None, page.rest # {}, First.card # None, NEW p \in Peers, NEW a \in AIDs,
         p = page.peer, a = First.aid, DirectoryIn(p, a), Published(p, a), ~Ahead(p, card[p][a].fs)
  PROVE  /\ First.card = Signed(card[p][a]) /\ card[p][a] \in StoredCard
         /\ First.card.key <= First.kel /\ First.kel <= agent[p][a].kel
         /\ First.card.key \in Int /\ First.kel \in Int /\ agent[p][a].kel \in Int
<1>1. /\ First \in page.rest /\ First.card \in Card /\ First.kel \in Keys /\ First.card.key <= First.kel
      /\ First.kel <= known[p][a]
  BY FirstIsGiven DEF GivenOK
<1>2. card[p][a] # None /\ agent[p][a] # None /\ OnPage(p)
  BY DEF Published, Federates, OnPage
<1>3. First.card = Signed(card[p][a])
  BY <1>1, <1>2 DEF DirectoryIn, SameIn
<1>4. agent[p][a].kel = known[p][a] /\ known[p][a] \in Int
  BY <1>2 DEF HubInv, HubTypes, RowOK
<1>5. card[p][a] \in StoredCard
  BY <1>2 DEF MovesInv, PublisherOK
<1> QED BY <1>1, <1>3, <1>4, <1>5 DEF Card, Keys

\* A card passed over is dealt with: it does not verify, its row here outranks it, or
\* another peer taught it.
LEMMA PassingKeeps ==
  ASSUME MovesInv, HubInv, PlaceInv, ReaderInv, PassOver
  PROVE  PlaceInv' /\ ReaderInv'
<1>1. /\ page # None /\ page.rest # {} /\ First.card # None /\ UNCHANGED <<publisher, cur>> /\ fed' = fed
      /\ \/ ~Verifies(First.card, First.kel)
         \/ Refused(fed[First.aid], First) \/ Known(fed[First.aid], page.peer, First)
      /\ crossed' = [crossed EXCEPT ![page.peer] = crossed[page.peer] \ {First.aid}]
      /\ page' = [page EXCEPT !.rest = page.rest \ {First}]
  BY DEF PassOver, CameTo
<1>q. PICK q \in Peers : q = page.peer
  BY <1>1, FirstIsGiven
<1>e. PICK e : e = First
  OBVIOUS
<1>2. e = First /\ q = page.peer /\ e \in page.rest /\ e.aid \in AIDs /\ e.card # None
  BY <1>1, <1>q, <1>e, FirstIsGiven
<1>3. /\ page' # None /\ page'.peer = q /\ page'.rest = page.rest \ {e}
  BY <1>1, <1>2, RestIsPage
<1>4. /\ crossed' \in [Peers -> SUBSET AIDs]
      /\ \A p \in Peers, a \in AIDs : p # q \/ a # e.aid => (a \in crossed[p] => a \in crossed'[p])
  BY <1>1, <1>2 DEF ReaderInv
<1>5. ASSUME NEW p \in Peers, NEW a \in AIDs \ cut[p] PROVE DirectoryIn(p, a)'
  <2>1. DirectoryIn(p, a)
    BY DEF ReaderInv
  <2>2. ListsFrom(p, a)' = ListsFrom(p, a) /\ Taken(p, a)' = Taken(p, a)
    BY <1>1, Zenon DEF ListsFrom, Taken, Entry, publisher
  <2>3. OnPage(p)' = OnPage(p) /\ gone' = gone
    BY <1>1, <1>2, <1>3 DEF OnPage, publisher
  <2>4. WithdrawalAwaited(p, a) => WithdrawalAwaited(p, a)'
    BY <1>2, <1>3, <2>3 DEF WithdrawalAwaited
  <2>5. CASE p # q \/ a # e.aid
    <3>1. Dealt(p, a) => Dealt(p, a)'
      BY <1>4, <2>2, <2>5 DEF Dealt
    <3>2. CardAwaited(p, a) => CardAwaited(p, a)'
      BY <1>1, <1>2, <1>3, <2>3, <2>5 DEF CardAwaited, OnPage
    <3> QED BY <1>1, <2>1, <2>2, <2>4, <3>1, <3>2, EntryKeepsAccount DEF Believed, MovesInv
  <2>6. CASE p = q /\ a = e.aid
    <3>1. ASSUME Published(p, a), ~Ahead(p, card[p][a].fs) PROVE Dealt(p, a)'
      <4>1. /\ e.card = Signed(card[p][a]) /\ card[p][a] \in StoredCard
            /\ e.card.key <= e.kel /\ e.kel <= agent[p][a].kel
            /\ e.card.key \in Int /\ e.kel \in Int /\ agent[p][a].kel \in Int
        BY <1>1, <1>2, <2>1, <2>6, <3>1, FirstIsCurrent
      <4>2. card[p][a].key = e.card.key
        BY <4>1 DEF Signed
      <4>3. ~Verifies(e.card, e.kel) \/ e.kel < agent[p][a].kel => ~Verifies(card[p][a], agent[p][a].kel)
        BY <4>1, <4>2 DEF Verifies
      <4>4. ASSUME Verifies(e.card, e.kel), e.kel = agent[p][a].kel,
                   Refused(fed[a], e) \/ Known(fed[a], q, e)
            PROVE  Taken(p, a)
        <5>1. Entry(p, a).card = e.card /\ Entry(p, a).kel = e.kel
          BY <4>1, <4>4 DEF Entry
        <5>2. Refused(fed[a], e) => Refused(fed[a], Entry(p, a)) /\ fed[a] # None
          BY <4>4, <5>1 DEF Refused, Judged, Mark
        <5>3. Known(fed[a], q, e) => fed[a] # None /\ fed[a].peer # p
          BY <2>6 DEF Known
        <5> QED BY <4>4, <5>2, <5>3 DEF Taken
      <4>5. Taken(p, a)
        BY <1>1, <1>2, <2>6, <4>1, <4>3, <4>4 DEF Taken
      <4> QED BY <2>2, <4>5 DEF Dealt
    <3> QED BY <1>1, <2>1, <2>2, <2>4, <3>1, EntryKeepsAccount DEF Believed, MovesInv
  <2> QED BY <2>5, <2>6
<1>6. cut' = cut
  BY <1>1 DEF publisher
<1> QED BY <1>1, <1>4, <1>5, <1>6, PlaceKept DEF ReaderInv

\* A card learned replaces what the reader had of the agent, from whichever peer.
LEMMA LearningKeeps ==
  ASSUME MovesInv, HubInv, PlaceInv, ReaderInv, Learn
  PROVE  PlaceInv' /\ ReaderInv'
<1>1. /\ page # None /\ page.rest # {} /\ First.card # None /\ UNCHANGED <<publisher, cur>>
      /\ ~Refused(fed[First.aid], First)
      /\ fed' = [fed EXCEPT ![First.aid] = Learned(page.peer, First)]
      /\ crossed' = [crossed EXCEPT ![page.peer] = crossed[page.peer] \ {First.aid}]
      /\ page' = [page EXCEPT !.rest = page.rest \ {First}]
  BY DEF Learn, CameTo
<1>q. PICK q \in Peers : q = page.peer
  BY <1>1, FirstIsGiven
<1>e. PICK e : e = First
  OBVIOUS
<1>2. /\ e = First /\ q = page.peer /\ e \in page.rest /\ e.aid \in AIDs /\ e.card # None
      /\ e.card \in Card /\ e.kel = e.card.key
  BY <1>1, <1>q, <1>e, FirstIsGiven DEF GivenOK, Refused, Verifies
<1>3. page' # None /\ page'.peer = q /\ page'.rest = page.rest \ {e}
  BY <1>1, <1>2, RestIsPage
<1>4. /\ crossed' \in [Peers -> SUBSET AIDs]
      /\ \A p \in Peers, a \in AIDs : p # q \/ a # e.aid => (a \in crossed[p] => a \in crossed'[p])
  BY <1>1, <1>2 DEF ReaderInv
<1> DEFINE x == Learned(q, e)
<1>5. /\ x \in [seq : Seqs, body : Bodies, key : Keys, kel : Keys, peer : Peers, listed : BOOLEAN]
      /\ x.seq = e.card.seq /\ x.body = e.card.body /\ x.key = e.card.key /\ x.kel = e.kel /\ x.peer = q
  BY <1>2 DEF Learned, Card
<1>6. x.listed
  BY Zenon DEF Learned
<1>7. fed' = [fed EXCEPT ![e.aid] = x] /\ fed = [a \in AIDs |-> fed[a]]
  BY <1>1, <1>2 DEF MovesInv
<1> HIDE DEF x
<1>8. fed'[e.aid] = x /\ x # None /\ \A a \in AIDs : a # e.aid => fed'[a] = fed[a]
  BY <1>2, <1>5, <1>7, CardsAssumption
<1>9. ASSUME NEW p \in Peers, NEW a \in AIDs \ cut[p] PROVE DirectoryIn(p, a)'
  <2>1. DirectoryIn(p, a)
    BY DEF ReaderInv
  <2>2. OnPage(p)' = OnPage(p) /\ gone' = gone
    BY <1>1, <1>2, <1>3 DEF OnPage, publisher
  <2>3. WithdrawalAwaited(p, a) => WithdrawalAwaited(p, a)'
    BY <1>2, <1>3, <2>2 DEF WithdrawalAwaited
  <2>4. CASE a # e.aid
    <3>1. ListsFrom(p, a)' = ListsFrom(p, a) /\ Taken(p, a)' = Taken(p, a)
      <4>1. fed'[a] = fed[a]
        BY <1>8, <2>4
      <4> QED BY <1>1, <4>1, Zenon DEF ListsFrom, Taken, Entry, publisher
    <3>2. Dealt(p, a) => Dealt(p, a)'
      BY <1>4, <2>4, <3>1 DEF Dealt
    <3>3. CardAwaited(p, a) => CardAwaited(p, a)'
      BY <1>1, <1>2, <1>3, <2>2, <2>4 DEF CardAwaited
    <3> QED BY <1>1, <2>1, <2>3, <3>1, <3>2, <3>3, EntryKeepsAccount DEF Believed, MovesInv
  <2>5. CASE a = e.aid /\ p # q
    <3>1. ~ListsFrom(p, a)' /\ ~CardAwaited(p, a)
      BY <1>2, <1>5, <1>8, <2>5 DEF ListsFrom, CardAwaited, OnPage
    <3>2. Dealt(p, a)'
      BY <1>5, <1>8, <2>5 DEF Dealt, Taken
    <3> QED BY <1>1, <2>1, <3>1, <3>2, EntryKeepsAccount DEF MovesInv
  <2>6. CASE a = e.aid /\ p = q
    <3>1. CardAwaited(p, a)
      BY <1>1, <1>2, <2>6 DEF CardAwaited, OnPage
    <3>2. ASSUME Published(p, a), ~Ahead(p, card[p][a].fs) PROVE Dealt(p, a)'
      <4>1. /\ e.card = Signed(card[p][a]) /\ card[p][a] \in StoredCard
            /\ e.card.key <= e.kel /\ e.kel <= agent[p][a].kel
            /\ e.card.key \in Int /\ e.kel \in Int /\ agent[p][a].kel \in Int
        BY <1>1, <1>2, <2>1, <2>6, <3>2, FirstIsCurrent
      <4>2. card[p][a].key = e.card.key /\ card' = card /\ agent' = agent
        BY <1>1, <4>1 DEF Signed, publisher
      <4>3. CASE e.kel < agent[p][a].kel
        BY <1>2, <4>1, <4>2, <4>3 DEF Dealt, Taken, Verifies
      <4>4. CASE ~(e.kel < agent[p][a].kel)
        <5>1. Judged(x, e.card, agent[p][a].kel) = "same"
          <6>1. x.seq \in Int /\ x.seq = e.card.seq /\ x.body = e.card.body
            BY <1>5 DEF Seqs
          <6> QED BY <1>8, <6>1 DEF Judged, Mark
        <5>2. Judged(fed'[a], Signed(card'[p][a]), agent'[p][a].kel) = "same"
          BY <1>8, <2>6, <4>1, <4>2, <5>1
        <5> QED BY <1>6, <1>8, <2>6, <5>2 DEF Dealt, Taken
      <4> QED BY <4>3, <4>4
    <3> QED BY <1>1, <2>1, <2>3, <3>1, <3>2, EntryKeepsAccount DEF Believed, MovesInv
  <2> QED BY <2>4, <2>5, <2>6
<1>10. cut' = cut
  BY <1>1 DEF publisher
<1> QED BY <1>1, <1>4, <1>9, <1>10, PlaceKept DEF ReaderInv

\* What a page has of a peer's entries: those after where it begins, up to where it ends.
LEMMA FirstIsClosed ==
  ASSUME NEW S, IsFiniteSet(S), \A e \in S : e.fs \in Nat, NEW n \in Int, NEW f \in FirstOf(S, n), NEW e \in S, e.fs <= f.fs
  PROVE  e \in FirstOf(S, n)
<1> DEFINE Below(x) == {g \in S : g.fs < x.fs}
<1>1. Below(e) \subseteq Below(f) /\ Below(f) \subseteq S
  <2>1. f \in S
    BY DEF FirstOf
  <2> QED BY <2>1
<1>2. IsFiniteSet(Below(f)) /\ IsFiniteSet(Below(e))
  BY <1>1, FS_Subset
<1>3. Cardinality(Below(e)) <= Cardinality(Below(f)) /\ Cardinality(Below(e)) \in Nat /\ Cardinality(Below(f)) \in Nat
  BY <1>1, <1>2, FS_Subset, FS_CardinalityType
<1>4. Cardinality(Below(f)) < n
  BY DEF FirstOf
<1>5. Cardinality(Below(e)) < n
  BY <1>3, <1>4
<1> QED BY <1>5 DEF FirstOf

CardEntry(p, a) == [fs |-> card[p][a].fs, aid |-> a, kel |-> agent[p][a].kel, card |-> Signed(card[p][a])]
GoneEntry(p, a) == [fs |-> gone[p][a], aid |-> a, kel |-> 0, card |-> None]

\* What a peer serves.
LEMMA ServedIs ==
  ASSUME PublisherOK, HubInv, NEW p \in Peers
  PROVE  /\ IsFiniteSet(Served(p))
         /\ \A e \in Served(p) : \E a \in AIDs :
              (Published(p, a) /\ e = CardEntry(p, a)) \/ (gone[p][a] > 0 /\ e = GoneEntry(p, a))
         /\ \A a \in AIDs : Published(p, a) => CardEntry(p, a) \in Served(p)
         /\ \A a \in AIDs : gone[p][a] > 0 => GoneEntry(p, a) \in Served(p)
<1> DEFINE A == {a \in AIDs : Published(p, a)}
           B == {a \in AIDs : gone[p][a] > 0}
           C == {CardEntry(p, a) : a \in A}
           D == {GoneEntry(p, a) : a \in B}
<1>1. Served(p) = C \cup D
  BY DEF Served, CardEntry, GoneEntry
<1>2. IsFiniteSet(A) /\ IsFiniteSet(B)
  <2>1. IsFiniteSet(AIDs)
    BY CardsAssumption
  <2> QED BY <2>1, FS_Subset
<1>3. IsFiniteSet(C)
  <2> DEFINE f == [a \in A |-> CardEntry(p, a)]
  <2>1. f \in Surjection(A, C)
    BY DEF Surjection
  <2> HIDE DEF f, A, C
  <2> QED BY <1>2, <2>1, FS_Surjection
<1>4. IsFiniteSet(D)
  <2> DEFINE f == [a \in B |-> GoneEntry(p, a)]
  <2>1. f \in Surjection(B, D)
    BY DEF Surjection
  <2> HIDE DEF f, B, D
  <2> QED BY <1>2, <2>1, FS_Surjection
<1>5. IsFiniteSet(C \cup D)
  <2> HIDE DEF C, D
  <2> QED BY <1>3, <1>4, FS_Union
<1> QED BY <1>1, <1>5

\* The entries of an agent, field by field.
LEMMA ServedFields ==
  ASSUME PublisherOK, HubInv, NEW p \in Peers, NEW a \in AIDs
  PROVE  /\ Published(p, a) =>
              /\ CardEntry(p, a) \in [fs : Nat, aid : AIDs, kel : 0..MaxKey, card : Card \cup {None}]
              /\ CardEntry(p, a).fs = card[p][a].fs /\ CardEntry(p, a).aid = a
              /\ CardEntry(p, a).card = Signed(card[p][a]) /\ CardEntry(p, a).card \in Card
              /\ CardEntry(p, a).kel = known[p][a] /\ CardEntry(p, a).kel \in Keys
              /\ CardEntry(p, a).card.key <= known[p][a]
              /\ card[p][a].fs \in 1..head[p]
         /\ gone[p][a] > 0 =>
              /\ GoneEntry(p, a) \in [fs : Nat, aid : AIDs, kel : 0..MaxKey, card : Card \cup {None}]
              /\ gone[p][a] \in 1..head[p]
         /\ GoneEntry(p, a).fs = gone[p][a] /\ GoneEntry(p, a).aid = a /\ GoneEntry(p, a).card = None
<1>1. RowOK(p, a) /\ gone[p][a] \in Nat /\ head[p] \in Nat /\ MaxKey \in Nat
  BY CardsAssumption DEF HubInv, PublisherOK
<1>2. ASSUME Published(p, a)
      PROVE  /\ card[p][a] # None /\ card[p][a] \in StoredCard /\ agent[p][a] # None /\ agent[p][a] \in AgentRow
             /\ agent[p][a].kel = known[p][a] /\ agent[p][a].kel \in Keys
  BY <1>1, <1>2 DEF Published, Federates, RowOK, PublisherOK, HubInv, HubTypes, AgentRow
<1>3. ASSUME Published(p, a)
      PROVE  card[p][a].fs \in Nat /\ Signed(card[p][a]) \in Card /\ Signed(card[p][a]).key = card[p][a].key
  <2>1. card[p][a] \in StoredCard
    BY <1>2, <1>3
  <2> QED BY <2>1, SignedIsCard DEF StoredCard, Signed
<1>4. Published(p, a) => /\ CardEntry(p, a).fs = card[p][a].fs /\ CardEntry(p, a).aid = a
                         /\ CardEntry(p, a).card = Signed(card[p][a]) /\ CardEntry(p, a).kel = agent[p][a].kel
  BY DEF CardEntry
<1>5. Published(p, a) => CardEntry(p, a) \in [fs : Nat, aid : AIDs, kel : 0..MaxKey, card : Card \cup {None}]
  <2> SUFFICES ASSUME Published(p, a)
               PROVE  CardEntry(p, a) \in [fs : Nat, aid : AIDs, kel : 0..MaxKey, card : Card \cup {None}]
    OBVIOUS
  <2>1. agent[p][a].kel \in 0..MaxKey
    BY <1>2 DEF Keys
  <2> QED BY <1>3, <2>1 DEF CardEntry
<1>6. 0 \in 0..MaxKey
  BY <1>1
<1>7. GoneEntry(p, a) \in [fs : Nat, aid : AIDs, kel : 0..MaxKey, card : Card \cup {None}]
  BY <1>1, <1>6 DEF GoneEntry
<1>8. GoneEntry(p, a).fs = gone[p][a] /\ GoneEntry(p, a).aid = a /\ GoneEntry(p, a).card = None
  BY DEF GoneEntry
<1> QED BY <1>1, <1>2, <1>3, <1>4, <1>5, <1>7, <1>8 DEF RowOK

\* A page is asked for.
LEMMA FetchingKeeps ==
  ASSUME MovesInv, HubInv, PlaceInv, ReaderInv, NEW q \in Peers, NEW full \in BOOLEAN, NEW n \in 1..MaxPage,
         Fetch(q, full, n)
  PROVE  PlaceInv' /\ ReaderInv'
<1> DEFINE from0 == IF full THEN 0 ELSE cur[q]
<1>0. PICK from \in Nat : from = from0 /\ from \in {0, cur[q]}
  BY DEF PlaceInv
<1> HIDE DEF from0
<1> DEFINE S == After(q, from)
           got == FirstOf(S, n)
           next == LastOf(got, from)
<1>1. /\ page = None /\ page' = [peer |-> q, from |-> from, rest |-> got, next |-> next]
      /\ UNCHANGED <<publisher, cur, fed, stay, taught, crossed>>
  BY <1>0 DEF Fetch, from0
<1>2. PublisherOK /\ head[q] \in Nat /\ cur[q] \in Nat /\ cur[q] <= head[q] /\ from <= head[q]
  BY <1>0 DEF MovesInv, PublisherOK, PlaceInv
<1>3. /\ IsFiniteSet(Served(q))
      /\ \A e \in Served(q) : \E a \in AIDs :
           (Published(q, a) /\ e = CardEntry(q, a)) \/ (gone[q][a] > 0 /\ e = GoneEntry(q, a))
      /\ \A a \in AIDs : Published(q, a) => CardEntry(q, a) \in Served(q)
      /\ \A a \in AIDs : gone[q][a] > 0 => GoneEntry(q, a) \in Served(q)
  BY <1>2, ServedIs
<1>4. ASSUME NEW e \in Served(q)
      PROVE  /\ e \in [fs : Nat, aid : AIDs, kel : 0..MaxKey, card : Card \cup {None}] /\ e.fs \in 1..head[q]
             /\ e.card # None => e.card \in Card /\ e.kel \in Keys /\ e.card.key <= e.kel /\ e.kel <= known[q][e.aid]
             /\ e.card # None => Published(q, e.aid) /\ e = CardEntry(q, e.aid)
             /\ vis[q] # None /\ vis[q].pc = "put" /\ vis[q].aid \notin cut[q] => e.fs < vis[q].fs
  <2>1. PICK a \in AIDs : (Published(q, a) /\ e = CardEntry(q, a)) \/ (gone[q][a] > 0 /\ e = GoneEntry(q, a))
    BY <1>3
  <2>2. SetAside(q)
    BY DEF PlaceInv
  <2>3. CASE Published(q, a) /\ e = CardEntry(q, a)
    <3>1. /\ CardEntry(q, a) \in [fs : Nat, aid : AIDs, kel : 0..MaxKey, card : Card \cup {None}]
          /\ e.fs = card[q][a].fs /\ e.aid = a /\ e.card \in Card /\ e.kel = known[q][a] /\ e.kel \in Keys
          /\ e.card.key <= known[q][a] /\ card[q][a].fs \in 1..head[q] /\ card[q][a] # None
      BY <1>2, <2>3, ServedFields DEF Published
    <3>2. e.kel <= known[q][e.aid]
      BY <3>1 DEF Keys
    <3>3. vis[q] # None /\ vis[q].pc = "put" /\ vis[q].aid \notin cut[q] => e.fs < vis[q].fs
      BY <2>2, <3>1 DEF SetAside
    <3>4. e.card # None
      BY <3>1, CardsAssumption
    <3> QED BY <2>3, <3>1, <3>2, <3>3
  <2>4. CASE gone[q][a] > 0 /\ e = GoneEntry(q, a)
    <3>1. /\ GoneEntry(q, a) \in [fs : Nat, aid : AIDs, kel : 0..MaxKey, card : Card \cup {None}]
          /\ gone[q][a] \in 1..head[q] /\ e.fs = gone[q][a] /\ e.card = None
      BY <1>2, <2>4, ServedFields
    <3>2. vis[q] # None /\ vis[q].pc = "put" /\ vis[q].aid \notin cut[q] => e.fs < vis[q].fs
      BY <2>2, <3>1 DEF SetAside
    <3> QED BY <2>4, <3>1, <3>2
  <2> QED BY <2>1, <2>3, <2>4
<1>5. S \subseteq Served(q) /\ got \subseteq S /\ IsFiniteSet(S) /\ \A e \in S : e.fs \in Nat /\ e.fs > from
  <2>1. S \subseteq Served(q) /\ got \subseteq S
    BY DEF After, FirstOf
  <2> QED BY <1>3, <1>4, <2>1, FS_Subset DEF After
<1> DEFINE T == {e.fs : e \in got} \cup {from}
<1>6. /\ next \in Nat /\ next <= head[q] /\ from <= next /\ (\A e \in got : e.fs <= next)
      /\ next = from \/ \E f \in got : next = f.fs
  <2>1. T \subseteq 0..head[q] /\ T # {}
    BY <1>2, <1>4, <1>5
  <2>2. next = Max(T)
    BY DEF LastOf
  <2> HIDE DEF next
  <2>3. next \in Nat /\ next \in T /\ \A t \in T : next >= t
    <3> HIDE DEF T
    <3> QED BY <1>2, <2>1, <2>2, NatMax
  <2>4. \A e \in got : e.fs \in Nat /\ e.fs \in T
    BY <1>5
  <2> HIDE DEF got
  <2> QED BY <1>2, <2>1, <2>3, <2>4
<1>7. ASSUME NEW e \in Served(q), e.fs > from, e.fs <= next PROVE e \in got
  <2>1. e \in S
    BY <1>7 DEF After
  <2>2. PICK f \in got : next = f.fs
    BY <1>0, <1>4, <1>6, <1>7
  <2> HIDE DEF S, next
  <2> QED BY <1>5, <1>7, <2>1, <2>2, FirstIsClosed
<1> HIDE DEF S, got, next, T
<1>8. /\ page' \in GivenPage /\ page' # None /\ page'.peer = q /\ page'.from = from
      /\ page'.rest = got /\ page'.next = next
  <2>1. got \in SUBSET [fs : Nat, aid : AIDs, kel : 0..MaxKey, card : Card \cup {None}]
    BY <1>4, <1>5
  <2>2. page' \in GivenPage
    BY <1>1, <1>6, <2>1 DEF GivenPage
  <2> QED BY <1>1, <2>2, CardsAssumption DEF GivenPage
<1>9. CardPageOK'
  <2>1. ASSUME NEW e \in got PROVE GivenOK(q, e)'
    <3>1. e \in Served(q)
      BY <1>5
    <3>2. e.aid \in AIDs /\ e.fs \in 1..head[q]
      BY <1>4, <3>1
    <3>3. e.fs \in 1..next
      BY <1>6, <3>2
    <3>4. e.card # None => e.card \in Card /\ e.kel \in Keys /\ e.card.key <= e.kel /\ e.kel <= known[q][e.aid]
      BY <1>4, <3>1
    <3> QED BY <1>1, <1>8, <3>2, <3>3, <3>4 DEF GivenOK, publisher
  <2> QED BY <1>0, <1>1, <1>6, <1>8, <2>1 DEF CardPageOK, publisher
<1>10. ASSUME NEW p \in Peers PROVE SetAside(p)'
  <2>1. SetAside(p)
    BY DEF PlaceInv
  <2> SUFFICES ASSUME vis[p] # None, vis[p].pc = "put", vis[p].aid \notin cut[p] PROVE Ahead(p, vis[p].fs)'
    BY <1>1, <2>1 DEF SetAside, publisher
  <2>2. vis[p].fs > cur[p] /\ vis[p].fs \in Nat /\ cur[p] \in Nat
    <3>1. vis[p].fs > cur[p]
      BY <2>1 DEF SetAside, Ahead
    <3>2. vis[p] \in Change
      BY <1>2 DEF PublisherOK
    <3> QED BY <3>1, <3>2 DEF Change, PlaceInv
  <2>3. p = q => vis[p].fs > next
    BY <1>0, <1>4, <1>5, <1>6, <2>2
  <2> QED BY <1>1, <1>8, <2>2, <2>3 DEF Ahead, OnPage, publisher
<1>11. PlaceInv'
  BY <1>1, <1>9, <1>10 DEF PlaceInv, publisher
<1>12. ASSUME NEW p \in Peers, NEW a \in AIDs \ cut[p] PROVE DirectoryIn(p, a)'
  <2>1. DirectoryIn(p, a)
    BY DEF ReaderInv
  <2>2. /\ Published(p, a)' = Published(p, a) /\ Between(p, a)' = Between(p, a) /\ Narrowing(p, a)' = Narrowing(p, a)
        /\ gone' = gone /\ card' = card /\ ListsFrom(p, a)' = ListsFrom(p, a) /\ cur' = cur
    BY <1>1 DEF Published, Federates, Between, Narrowing, Changing, Free, ListsFrom, publisher
  <2>3. Dealt(p, a)' = Dealt(p, a)
    BY <1>1, Zenon DEF Dealt, Taken, Entry, publisher
  <2>4. ~OnPage(p) /\ ~CardAwaited(p, a) /\ OnPage(p)' = (p = q)
    BY <1>1, <1>8 DEF OnPage, CardAwaited
  <2>5. CASE p # q
    <3>1. ~OnPage(p)' /\ ~CardAwaited(p, a)'
      BY <2>4, <2>5 DEF CardAwaited
    <3> QED BY <2>1, <2>2, <2>3, <2>4, <3>1, Zenon DEF DirectoryIn, StandsIn, WithdrawnIn, DealtIn, SameIn, Believed
  <2>6. CASE p = q
    <3>1. CardAwaited(p, a)' => Published(p, a)
      BY <1>4, <1>5, <1>8, <2>6 DEF CardAwaited
    <3>2. gone[p][a] \in Nat /\ (card[p][a] # None => card[p][a].fs \in 1..head[p])
      BY <1>2 DEF PublisherOK, HubInv, RowOK
    <3>3. StandsIn(p, a)'
      BY <2>1, <2>2, <3>1 DEF DirectoryIn, StandsIn, Believed
    <3>4. WithdrawnIn(p, a)'
      <4> SUFFICES ASSUME ~Published(p, a), gone[p][a] > 0
                   PROVE  /\ gone[p][a] <= cur[p] => ~Believed(p, a)'
                          /\ gone[p][a] <= next => ~CardAwaited(p, a)' /\ (ListsFrom(p, a) => WithdrawalAwaited(p, a)')
        BY <1>8, <2>2, Zenon DEF WithdrawnIn
      <4>1. gone[p][a] <= cur[p] => ~ListsFrom(p, a)
        BY <2>1 DEF DirectoryIn, WithdrawnIn, Believed
      <4>2. ASSUME gone[p][a] <= next, ListsFrom(p, a) PROVE WithdrawalAwaited(p, a)'
        <5>1. gone[p][a] > from
          BY <1>0, <1>2, <2>6, <3>2, <4>1, <4>2
        <5>2. GoneEntry(p, a) \in Served(q) /\ GoneEntry(p, a).fs = gone[p][a] /\ GoneEntry(p, a).aid = a
              /\ GoneEntry(p, a).card = None
          BY <1>2, <1>3, <2>6, ServedFields
        <5>3. GoneEntry(p, a) \in got
          BY <1>7, <4>2, <5>1, <5>2
        <5> QED BY <1>8, <2>2, <2>4, <2>6, <5>2, <5>3 DEF WithdrawalAwaited
      <4> QED BY <2>2, <3>1, <4>1, <4>2 DEF Believed
    <3>5. DealtIn(p, a)'
      <4> SUFFICES ASSUME Published(p, a), ~Between(p, a)
                   PROVE  /\ card[p][a].fs <= cur[p] => Dealt(p, a)
                          /\ card[p][a].fs <= next => Dealt(p, a) \/ CardAwaited(p, a)'
        BY <1>8, <2>2, <2>3, Zenon DEF DealtIn
      <4>1. card[p][a].fs <= cur[p] => Dealt(p, a)
        BY <2>1 DEF DirectoryIn, DealtIn
      <4>2. ASSUME card[p][a].fs <= next, ~Dealt(p, a) PROVE CardAwaited(p, a)'
        <5>1. card[p][a].fs > from
          BY <1>0, <1>2, <2>6, <3>2, <4>1, <4>2 DEF Published
        <5>2. CardEntry(p, a) \in Served(q) /\ CardEntry(p, a).fs = card[p][a].fs /\ CardEntry(p, a).aid = a
              /\ CardEntry(p, a).card \in Card
          BY <1>2, <1>3, <2>6, ServedFields
        <5>3. CardEntry(p, a) \in got /\ CardEntry(p, a).card # None
          BY <1>7, <4>2, <5>1, <5>2, CardsAssumption
        <5> QED BY <1>8, <2>4, <2>6, <5>2, <5>3 DEF CardAwaited
      <4> QED BY <4>1, <4>2
    <3>6. SameIn(p, a)'
      <4> SUFFICES ASSUME NEW e \in got, e.aid = a, e.card # None PROVE e.fs = card[p][a].fs /\ e.card = Signed(card[p][a])
        BY <1>8, <2>2 DEF SameIn
      <4>1. Published(q, a) /\ e = CardEntry(q, a)
        BY <1>4, <1>5
      <4>2. CardEntry(q, a).fs = card[q][a].fs /\ CardEntry(q, a).card = Signed(card[q][a])
        BY <1>2, <4>1, ServedFields
      <4> QED BY <2>6, <4>1, <4>2
    <3> QED BY <3>3, <3>4, <3>5, <3>6 DEF DirectoryIn
  <2> QED BY <2>5, <2>6
<1> QED BY <1>1, <1>11, <1>12 DEF ReaderInv, publisher

\* The page ends: at its end, before an entry refused for now, or with the process.
LEMMA PageEndKeeps ==
  ASSUME MovesInv, HubInv, PlaceInv, ReaderInv, Stall \/ Finish \/ ReaderStops
  PROVE  PlaceInv' /\ ReaderInv'
<1>1. page # None /\ page' = None /\ UNCHANGED <<publisher, fed, taught, crossed>>
  BY DEF Stall, Finish, ReaderStops
<1>q. PICK q \in Peers : q = page.peer /\ page.next \in Nat /\ page.from \in {0, cur[q]} /\ page.next <= head[q]
  BY <1>1 DEF PlaceInv, CardPageOK
<1>2. cur \in [Peers -> Nat] /\ cur[q] \in Nat /\ head[q] \in Nat /\ cur[q] <= head[q]
  BY DEF PlaceInv, MovesInv, PublisherOK
<1>3. \/ cur' = cur
      \/ page.rest = {} /\ cur' = [cur EXCEPT ![q] = page.next]
      \/ First.card # None /\ page.rest # {} /\ cur' = [cur EXCEPT ![q] = First.fs - 1]
  BY <1>1, <1>q DEF Stall, Finish, ReaderStops
\* Where the cursor is put, the entries below are no longer on the page.
<1>4. PICK c \in Nat : /\ cur' = [cur EXCEPT ![q] = c]
                       /\ c <= cur[q] \/ (c <= page.next /\ \A e \in page.rest : e.fs > c)
                       /\ c = cur[q] \/ c <= page.next
  <2>1. CASE cur' = cur
    <3>1. cur' = [cur EXCEPT ![q] = cur[q]] /\ cur[q] <= cur[q]
      BY <1>2, <2>1
    <3> QED BY <1>2, <3>1
  <2>2. CASE page.rest = {} /\ cur' = [cur EXCEPT ![q] = page.next]
    <3>1. page.next <= page.next
      BY <1>q
    <3> QED BY <1>q, <2>2, <3>1
  <2>3. CASE page.rest # {} /\ cur' = [cur EXCEPT ![q] = First.fs - 1]
    <3>1. First.fs \in 1..page.next /\ \A e \in page.rest : First.fs <= e.fs /\ e.fs \in 1..page.next
      BY <1>1, <2>3, FirstIsGiven DEF GivenOK, PlaceInv, CardPageOK
    <3>2. /\ First.fs - 1 \in Nat /\ First.fs - 1 <= page.next
          /\ \A e \in page.rest : e.fs > First.fs - 1
      BY <1>q, <3>1
    <3> QED BY <2>3, <3>2
  <2> QED BY <1>3, <2>1, <2>2, <2>3
<1>5. OnPage(q) /\ \A p \in Peers : p # q => ~OnPage(p)
  BY <1>1, <1>q DEF OnPage
<1>6. /\ cur' \in [Peers -> Nat] /\ cur'[q] = c /\ \A p \in Peers : p # q => cur'[p] = cur[p]
      /\ \A p \in Peers : ~OnPage(p)'
  BY <1>1, <1>2, <1>4 DEF OnPage
<1>7. PlaceInv'
  <2>1. ASSUME NEW p \in Peers PROVE cur'[p] <= head[p] /\ SetAside(p)'
    <3>1. SetAside(p) /\ cur[p] <= head[p]
      BY DEF PlaceInv
    <3>2. cur'[p] <= head[p]
      BY <1>q, <1>2, <1>4, <1>6, <3>1
    <3> SUFFICES ASSUME vis[p] # None, vis[p].pc = "put", vis[p].aid \notin cut[p] PROVE Ahead(p, vis[p].fs)'
      BY <1>1, <3>1, <3>2 DEF SetAside, publisher
    <3>3. Ahead(p, vis[p].fs)
      BY <3>1 DEF SetAside
    <3>4. vis[p].fs > cur[p] /\ (p = q => vis[p].fs > page.next) /\ vis[p].fs \in Nat
      BY <1>5, <3>3 DEF Ahead, MovesInv, PublisherOK, Change
    <3>5. vis[p].fs > cur'[p]
      <4>1. CASE p = q
        BY <1>q, <1>2, <1>4, <1>6, <3>4, <4>1
      <4>2. CASE p # q
        BY <1>6, <3>4, <4>2
      <4> QED BY <4>1, <4>2
    <3> QED BY <1>1, <1>6, <3>5 DEF Ahead, publisher
  <2> QED BY <1>1, <1>6, <2>1 DEF PlaceInv, CardPageOK, publisher
<1>8. ASSUME NEW p \in Peers, NEW a \in AIDs \ cut[p] PROVE DirectoryIn(p, a)'
  <2>1. DirectoryIn(p, a)
    BY DEF ReaderInv
  <2>2. /\ Published(p, a)' = Published(p, a) /\ Between(p, a)' = Between(p, a) /\ Narrowing(p, a)' = Narrowing(p, a)
        /\ gone' = gone /\ card' = card /\ ListsFrom(p, a)' = ListsFrom(p, a)
    BY <1>1 DEF Published, Federates, Between, Narrowing, Changing, Free, ListsFrom, publisher
  <2>3. Dealt(p, a)' = Dealt(p, a)
    BY <1>1, Zenon DEF Dealt, Taken, Entry, publisher
  <2>4. ~OnPage(p)' /\ ~CardAwaited(p, a)' /\ (Believed(p, a)' <=> ListsFrom(p, a))
    <3>1. ~OnPage(p)' /\ ~CardAwaited(p, a)'
      BY <1>6 DEF CardAwaited
    <3> QED BY <2>2, <3>1, Zenon DEF Believed
  <2>5. gone[p][a] \in Nat /\ (card[p][a] # None => card[p][a].fs \in Nat)
    BY DEF MovesInv, PublisherOK, StoredCard
  <2>6. StandsIn(p, a)' /\ SameIn(p, a)'
    BY <2>1, <2>2, <2>4, Zenon DEF DirectoryIn, StandsIn, SameIn, Believed
  <2>7. CASE p # q
    <3>1. cur'[p] = cur[p]
      BY <1>6, <2>7
    <3> QED BY <2>1, <2>2, <2>3, <2>4, <2>6, <3>1, Zenon DEF DirectoryIn, WithdrawnIn, DealtIn, Believed
  <2>8. CASE p = q
    <3>1. WithdrawnIn(p, a)'
      <4> SUFFICES ASSUME ~Published(p, a), gone[p][a] > 0, gone[p][a] <= c PROVE ~ListsFrom(p, a)
        BY <1>6, <2>2, <2>4, <2>8 DEF WithdrawnIn
      <4>1. CASE gone[p][a] <= cur[p]
        BY <2>1, <4>1 DEF DirectoryIn, WithdrawnIn, Believed
      <4>2. CASE ~(gone[p][a] <= cur[p])
        <5>1. gone[p][a] <= page.next /\ \A e \in page.rest : e.fs > c
          BY <1>q, <1>2, <1>4, <2>5, <2>8, <4>2
        <5>2. ListsFrom(p, a) => WithdrawalAwaited(p, a)
          BY <1>5, <2>1, <2>8, <5>1 DEF DirectoryIn, WithdrawnIn
        <5>3. \A e \in page.rest : e.fs # gone[p][a]
          BY <2>5, <5>1
        <5> QED BY <5>2, <5>3 DEF WithdrawalAwaited
      <4> QED BY <4>1, <4>2
    <3>2. DealtIn(p, a)'
      <4> SUFFICES ASSUME Published(p, a), ~Between(p, a), card[p][a].fs <= c PROVE Dealt(p, a)
        BY <1>6, <2>2, <2>3, <2>4, <2>8 DEF DealtIn
      <4>0. card[p][a] # None /\ card[p][a].fs \in Nat
        BY <2>5 DEF Published
      <4>1. CASE card[p][a].fs <= cur[p]
        BY <2>1, <4>1 DEF DirectoryIn, DealtIn
      <4>2. CASE ~(card[p][a].fs <= cur[p])
        <5>1. card[p][a].fs <= page.next /\ \A e \in page.rest : e.fs > c
          BY <1>q, <1>2, <1>4, <2>8, <4>0, <4>2
        <5>2. Dealt(p, a) \/ CardAwaited(p, a)
          BY <1>5, <2>1, <2>8, <5>1 DEF DirectoryIn, DealtIn
        <5>3. ~Ahead(p, card[p][a].fs)
          BY <1>q, <1>5, <2>8, <4>0, <5>1 DEF Ahead
        <5>4. \A e \in page.rest : e.aid = a /\ e.card # None => e.fs = card[p][a].fs
          BY <1>5, <2>1, <2>8, <4>0, <5>3 DEF DirectoryIn, SameIn
        <5>5. \A e \in page.rest : e.fs # card[p][a].fs
          BY <4>0, <5>1
        <5>6. ~CardAwaited(p, a)
          BY <5>4, <5>5 DEF CardAwaited
        <5> QED BY <5>2, <5>6
      <4> QED BY <4>1, <4>2
    <3> QED BY <2>6, <3>1, <3>2 DEF DirectoryIn
  <2> QED BY <2>7, <2>8
<1> QED BY <1>1, <1>7, <1>8 DEF ReaderInv, publisher

CardsInv == MovesInv /\ HubInv /\ PlaceInv /\ ReaderInv

LEMMA CardsSame ==
  ASSUME CardsInv, MovesInv', HubTypes',
         UNCHANGED <<agent, known, card, gone, head, vis, req, cut, cur, fed, page, crossed>>
  PROVE  CardsInv'
<1> USE DEF CardsInv
<1>1. ASSUME NEW p \in Peers PROVE PositionOK(p)' /\ ChangeOK(p)'
  <2>1. PositionOK(p) /\ ChangeOK(p)
    BY DEF HubInv
  <2> QED BY <2>1, Zenon DEF PositionOK, ChangeOK
<1>2. ASSUME NEW p \in Peers, NEW b \in AIDs PROVE RowOK(p, b)' /\ BothOK(p, b)'
  <2>1. RowOK(p, b) /\ BothOK(p, b)
    BY DEF HubInv
  <2>2. RowOK(p, b)'
    BY <2>1, Zenon DEF RowOK
  <2>3. BothOK(p, b)'
    BY <2>1, Zenon DEF BothOK, Published, Federates, Changing, Free
  <2> QED BY <2>2, <2>3
<1>3. \A r \in Requests : RequestOK(r)'
  BY Zenon DEF HubInv, RequestOK
<1>4. HubInv'
  BY <1>1, <1>2, <1>3 DEF HubInv
<1>5. PlaceInv'
  BY Zenon DEF PlaceInv, SetAside, Ahead, OnPage, CardPageOK, GivenOK
<1>6. ASSUME NEW p \in Peers, NEW b \in AIDs \ cut[p] PROVE DirectoryIn(p, b)'
  <2>1. DirectoryIn(p, b)
    BY DEF ReaderInv
  <2>2. StandsIn(p, b)'
    BY <2>1, Zenon DEF DirectoryIn, StandsIn, Believed, ListsFrom, CardAwaited, OnPage, Published, Federates,
            Narrowing, Changing, Free
  <2>3. WithdrawnIn(p, b)'
    BY <2>1, Zenon DEF DirectoryIn, WithdrawnIn, Believed, ListsFrom, CardAwaited, WithdrawalAwaited, OnPage,
            Published, Federates
  <2>4. DealtIn(p, b)'
    BY <2>1, Zenon DEF DirectoryIn, DealtIn, CardAwaited, OnPage, Published, Federates, Between,
            Changing, Free, Dealt, Taken, Entry
  <2>5. SameIn(p, b)'
    BY <2>1, Zenon DEF DirectoryIn, SameIn, OnPage, Ahead
  <2> QED BY <2>2, <2>3, <2>4, <2>5 DEF DirectoryIn
<1> QED BY <1>4, <1>5, <1>6 DEF ReaderInv

LEMMA CardsKept ==
  ASSUME CardsInv, CardsNext
  PROVE  CardsInv'
<1> USE DEF CardsInv
<1>0. MovesInv' /\ PublisherOK
  BY MovesKept DEF MovesInv
<1>1. CASE (\E p \in Peers : AtHub(p)) \/ (\E r \in Requests : Settle(r))
  BY <1>0, <1>1, HubStepKept
<1>2. ASSUME UNCHANGED publisher PROVE HubInv'
  <2>1. HubTypes'
    BY <1>2 DEF HubInv, HubTypes, publisher
  <2>2. ASSUME NEW p \in Peers PROVE PositionOK(p)' /\ ChangeOK(p)'
    <3>1. PositionOK(p) /\ ChangeOK(p)
      BY DEF HubInv
    <3> QED BY <1>2, <3>1, Zenon DEF PositionOK, ChangeOK, publisher
  <2>3. ASSUME NEW p \in Peers, NEW a \in AIDs PROVE RowOK(p, a)' /\ BothOK(p, a)'
    <3>1. RowOK(p, a) /\ BothOK(p, a)
      BY DEF HubInv
    <3>2. RowOK(p, a)'
      BY <1>2, <3>1, Zenon DEF RowOK, publisher
    <3>3. BothOK(p, a)'
      BY <1>2, <3>1, Zenon DEF BothOK, Published, Federates, Changing, Free, publisher
    <3> QED BY <3>2, <3>3
  <2>4. \A r \in Requests : RequestOK(r)'
    BY <1>2, Zenon DEF HubInv, RequestOK, publisher
  <2> QED BY <2>1, <2>2, <2>3, <2>4 DEF HubInv
<1>3. CASE AdmitWithdrawal
  BY <1>0, <1>2, <1>3, WithdrawalKeeps DEF AdmitWithdrawal
<1>4. CASE PassOver
  BY <1>0, <1>2, <1>4, PassingKeeps DEF PassOver
<1>5. CASE Learn
  BY <1>0, <1>2, <1>5, LearningKeeps DEF Learn
<1>6. CASE Stall \/ Finish \/ ReaderStops
  BY <1>0, <1>2, <1>6, PageEndKeeps DEF Stall, Finish, ReaderStops
<1>7. ASSUME NEW p \in Peers, NEW full \in BOOLEAN, NEW n \in 1..MaxPage, Fetch(p, full, n) PROVE CardsInv'
  BY <1>0, <1>2, <1>7, FetchingKeeps DEF Fetch
<1>8. ASSUME NEW a \in AIDs, Rotate(a) \/ Move(a) PROVE CardsInv'
  <2>1. UNCHANGED <<agent, known, card, gone, head, vis, req, cut, cur, fed, page, crossed>>
    BY <1>8 DEF Rotate, Move, publisher, reader
  <2>2. HubTypes'
    BY <1>0, <1>8, HubTypesKept DEF HubInv, CardsNext
  <2> QED BY <1>0, <2>1, <2>2, CardsSame
<1> QED BY <1>1, <1>3, <1>4, <1>5, <1>6, <1>7, <1>8 DEF CardsNext, Pull, AdmitEntry

LEMMA CardsStart == CardsInit => CardsInv
<1> SUFFICES ASSUME CardsInit PROVE CardsInv
  OBVIOUS
<1>0. MaxKey \in Nat \ {0}
  BY CardsAssumption
<1>1. MovesInv
  BY DEF CardsInit, MovesInv, PublisherOK
<1>2. HubInv
  <2>1. HubTypes
    BY <1>0 DEF CardsInit, HubTypes, Keys
  <2>2. \A p \in Peers : vis[p] = None /\ head[p] = 0 /\ \A a \in AIDs :
          card[p][a] = None /\ agent[p][a] = None /\ gone[p][a] = 0
    BY DEF CardsInit
  <2>3. \A p \in Peers : PositionOK(p) /\ ChangeOK(p)
    BY <2>2, Zenon DEF PositionOK, ChangeOK
  <2>4. \A p \in Peers, a \in AIDs : RowOK(p, a) /\ BothOK(p, a)
    BY <2>2 DEF RowOK, BothOK, Published
  <2>5. \A r \in Requests : RequestOK(r)
    BY DEF CardsInit, RequestOK
  <2> QED BY <2>1, <2>3, <2>4, <2>5 DEF HubInv
<1>3. PlaceInv
  BY DEF CardsInit, PlaceInv, SetAside, CardPageOK
<1>4. ReaderInv
  BY DEF CardsInit, ReaderInv, DirectoryIn, StandsIn, WithdrawnIn, DealtIn, SameIn, Believed, ListsFrom,
         CardAwaited, OnPage, Published
<1> QED BY <1>1, <1>2, <1>3, <1>4 DEF CardsInv

LEMMA CardsStep == CardsInv /\ [CardsNext]_vars => CardsInv'
<1>1. CardsInv /\ UNCHANGED vars => CardsInv'
  <2> SUFFICES ASSUME CardsInv, UNCHANGED vars PROVE CardsInv'
    OBVIOUS
  <2>1. MovesInv'
    BY DEF CardsInv, MovesInv, PublisherOK, PageFormed, FedFormed, MovesOn, vars, publisher, reader
  <2>2. HubTypes'
    BY DEF CardsInv, HubInv, HubTypes, vars, publisher
  <2> QED BY <2>1, <2>2, CardsSame DEF vars, publisher, reader
<1> QED BY <1>1, CardsKept

\* Whatever the peers' agents, requests and visibility changes, and the reader's pages,
\* stalls and stops do: a card the reader lists and its peer publishes no more has its
\* withdrawal on the peer's stream (withdrawA2ACard, recheckA2ACard, SetVisibility).
THEOREM WithdrawalsStand == CardsSpec => []WithdrawalStands
<1>1. CardsInv => WithdrawalStands
  <2> SUFFICES ASSUME CardsInv, NEW p \in Peers, NEW a \in AIDs, ListsFrom(p, a), ~Published(p, a), a \notin cut[p]
               PROVE  gone[p][a] > 0 \/ (~Free(p) /\ vis[p].aid = a)
    BY DEF WithdrawalStands
  <2>1. StandsIn(p, a)
    BY DEF CardsInv, ReaderInv, DirectoryIn
  <2> QED BY <2>1 DEF StandsIn, Believed, Narrowing, Changing
<1> QED BY <1>1, CardsStart, CardsStep, PTL DEF CardsSpec

\* What the cursor has passed is dealt with: no withdrawn card is listed behind it, and
\* no published one is owed (A2ACardsSince, syncA2ACards, AdmitFedA2ACard,
\* retireFedA2ACard), for any peers, agents, page sizes and interruptions.
THEOREM CursorDeals == CardsSpec => []CursorCovers
<1>1. CardsInv => CursorCovers
  <2> SUFFICES ASSUME CardsInv, NEW p \in Peers, NEW a \in AIDs, a \notin cut[p], ~Changing(p, a)
               PROVE  /\ gone[p][a] \in 1..cur[p] => ~ListsFrom(p, a)
                      /\ Published(p, a) /\ card[p][a].fs <= cur[p] => Taken(p, a) \/ a \in crossed[p]
    BY DEF CursorCovers
  <2>1. DirectoryIn(p, a) /\ BothOK(p, a) /\ gone[p][a] \in Nat
    BY DEF CardsInv, ReaderInv, HubInv, MovesInv, PublisherOK
  <2>2. gone[p][a] \in 1..cur[p] => ~ListsFrom(p, a)
    BY <2>1 DEF DirectoryIn, WithdrawnIn, BothOK, Believed
  <2>3. ~Between(p, a)
    BY DEF Between
  <2> QED BY <2>1, <2>2, <2>3 DEF DirectoryIn, DealtIn, Dealt
<1> QED BY <1>1, CardsStart, CardsStep, PTL DEF CardsSpec

\* The stores of both ends of the stream hold rows of their tables, whose keys and
\* positions are among those their hub knows, and the cursor covers what it passed.
THEOREM CardStreamSound == CardsSpec => []CardsSound
<1>1. CardsInv => CardsTypeOK
  <2> SUFFICES ASSUME CardsInv PROVE CardsTypeOK
    OBVIOUS
  <2>1. /\ own \in [AIDs -> Keys] /\ known \in [Peers -> [AIDs -> 0..MaxKey]]
        /\ agent \in [Peers -> [AIDs -> [kel : Keys, federates : BOOLEAN] \cup {None}]]
        /\ head \in [Peers -> Nat] /\ gone \in [Peers -> [AIDs -> Nat]] /\ cur \in [Peers -> Nat]
        /\ \A p \in Peers : cur[p] <= head[p]
    BY DEF CardsInv, HubInv, HubTypes, AgentRow, MovesInv, PublisherOK, PlaceInv
  <2>2. ASSUME NEW p \in Peers, NEW a \in AIDs
        PROVE  /\ card[p][a] # None => Signed(card[p][a]) \in Card /\ card[p][a].fs \in 1..head[p]
               /\ agent[p][a] # None => agent[p][a].kel = known[p][a]
               /\ gone[p][a] <= head[p]
    <3>1. RowOK(p, a) /\ (card[p][a] # None => card[p][a] \in StoredCard)
      BY DEF CardsInv, HubInv, MovesInv, PublisherOK
    <3> QED BY <3>1, SignedIsCard DEF RowOK
  <2>3. ASSUME NEW a \in AIDs, fed[a] # None
        PROVE  Signed(fed[a]) \in taught[a] /\ Verifies(fed[a], fed[a].kel)
    BY <2>3 DEF CardsInv, MovesInv, MovesOn, FedFormed, Verifies
  <2> QED BY <2>1, <2>2, <2>3 DEF CardsTypeOK
<1>2. CardsSpec => []CardsTypeOK
  BY <1>1, CardsStart, CardsStep, PTL DEF CardsSpec
<1> QED BY <1>2, CursorDeals, PTL DEF CardsSound
=============================================================================
