--------------------------- MODULE RequestsProofs ---------------------------
(***************************************************************************)
(* A signed time is taken at most once: RC1 implements AcceptOnce for every *)
(* set of signers and parts, every window and capacity, and every movement  *)
(* of the hub's clock, alone and beside the clients of module Requests.     *)
(* No signer is refused for another's requests, and an agent that signs one *)
(* request at a time with one clock is not refused for the time of the one  *)
(* it signed again.                                                         *)
(***************************************************************************)
EXTENDS Requests, TLAPS

SignerMap == [Signers -> SignerState]
GoneMap == [Shards -> Nat]
UsesMap == [Signers \X Times -> 0..2]

\* The state (sg, gn) holds what is needed to refuse every time of us again, and every
\* time from before the process began.
Sound(sg, a) ==
  /\ ~sg[a].held => sg[a].recent = {}
  /\ \A x \in sg[a].recent : x <= sg[a].maxSeen
  /\ sg[a].held => start <= sg[a].floor + 1

CoveredIn(sg, gn, x) ==
  IF sg[x[1]].held THEN x[2] <= sg[x[1]].floor \/ x[2] \in sg[x[1]].recent
  ELSE x[2] <= gn[ShardOf[x[1]]]

Good(sg, gn, us) ==
  /\ \A a \in Signers : Sound(sg, a)
  /\ \A p \in Shards : start <= gn[p] + 1
  /\ \A x \in Signers \X Times : us[x] # 0 => CoveredIn(sg, gn, x)

IInv == ReplayTypeOK /\ Good(signer, gone, uses)

-----------------------------------------------------------------------------
(* MaxOf is the larger of two numbers. *)
LEMMA MaxOfFacts ==
  ASSUME NEW x \in Int, NEW y \in Int
  PROVE  MaxOf(x, y) \in Int /\ MaxOf(x, y) >= x /\ MaxOf(x, y) >= y /\ (MaxOf(x, y) = x \/ MaxOf(x, y) = y)
BY DEF MaxOf

(* A new process refuses whatever was signed before it began. *)
LEMMA FreshIsGood ==
  ASSUME ReplayAssumption, NEW t \in Times, NEW sg, NEW gn, NEW us,
         sg = [a \in Signers |-> NoState], gn = [p \in Shards |-> Before(t)],
         us = [x \in Signers \X Times |-> 0]
  PROVE  /\ sg \in SignerMap /\ gn \in GoneMap /\ us \in UsesMap
         /\ t = start => Good(sg, gn, us)
<1>0. t \in Nat /\ Before(t) \in Nat /\ t <= Before(t) + 1
  BY DEF Times, Before, MaxOf
<1>1. NoState \in SignerState
  BY DEF NoState, SignerState
<1>2. sg \in SignerMap /\ gn \in GoneMap /\ us \in UsesMap
  BY <1>0, <1>1 DEF SignerMap, GoneMap, UsesMap
<1>3. ASSUME t = start PROVE Good(sg, gn, us)
  <2>1. \A a \in Signers : Sound(sg, a)
    BY DEF Sound, NoState
  <2>2. \A p \in Shards : start <= gn[p] + 1
    BY <1>0, <1>3
  <2>3. \A x \in Signers \X Times : us[x] = 0
    OBVIOUS
  <2> QED BY <2>1, <2>2, <2>3 DEF Good
<1> QED BY <1>2, <1>3

(* A sweep keeps what is needed: what it drops leaves its top as the part's floor. *)
LEMMA SweepKeeps ==
  ASSUME ReplayAssumption, ReplayTypeOK, NEW sg \in SignerMap, NEW us \in UsesMap, NEW p \in Shards,
         Good(sg, gone, us), SweptFrom(sg, p)
  PROVE  /\ signer' \in SignerMap /\ gone' \in GoneMap /\ swept' \in [Shards -> Times]
         /\ Good(signer', gone', us)
<1> DEFINE old == OldIn(sg, p)
<1>0. PICK g \in {gone[p]} \cup {Top(sg[a]) : a \in old} :
        /\ LeavesTop(sg, p, g)
        /\ gone' = [gone EXCEPT ![p] = g] /\ swept' = [swept EXCEPT ![p] = now]
        /\ signer' = [a \in Signers |-> IF a \in old THEN NoState ELSE sg[a]]
  BY DEF SweptFrom
<1>1. gone \in GoneMap /\ swept \in [Shards -> Times] /\ now \in Times
  BY DEF ReplayTypeOK, GoneMap
<1>2. \A a \in Signers : /\ sg[a].held \in BOOLEAN /\ sg[a].floor \in Nat /\ sg[a].maxSeen \in Nat
                         /\ sg[a].recent \subseteq Nat
                         /\ Top(sg[a]) \in Nat /\ Top(sg[a]) >= sg[a].floor /\ Top(sg[a]) >= sg[a].maxSeen
  BY DEF SignerMap, SignerState, Top, MaxOf
<1>3. old \subseteq Signers /\ \A a \in old : ShardOf[a] = p /\ sg[a].held
  BY DEF OldIn, IsOld
<1>4. g \in Nat
  BY <1>0, <1>1, <1>2, <1>3 DEF GoneMap
<1>5. g >= gone[p] /\ \A a \in old : Top(sg[a]) <= g
  BY <1>0 DEF LeavesTop
<1>6. \A q \in Shards : gone'[q] \in Nat /\ gone'[q] >= gone[q] /\ gone[q] \in Nat
  BY <1>0, <1>1, <1>4, <1>5 DEF GoneMap
<1>7. gone'[p] = g
  BY <1>0, <1>1 DEF GoneMap
<1>8. signer' \in SignerMap /\ gone' \in GoneMap /\ swept' \in [Shards -> Times]
  <2>1. NoState \in SignerState
    BY DEF NoState, SignerState
  <2> QED BY <2>1, <1>0, <1>1, <1>4 DEF SignerMap, GoneMap
<1>9. \A a \in Signers : Sound(signer', a)
  <2> SUFFICES ASSUME NEW a \in Signers PROVE Sound(signer', a)
    OBVIOUS
  <2>1. CASE a \in old
    BY <2>1, <1>0 DEF Sound, NoState
  <2>2. CASE a \notin old
    <3>1. signer'[a] = sg[a] /\ Sound(sg, a)
      BY <2>2, <1>0 DEF Good
    <3> QED BY <3>1 DEF Sound
  <2> QED BY <2>1, <2>2
<1>10. \A q \in Shards : start <= gone'[q] + 1
  <2>1. \A q \in Shards : start <= gone[q] + 1
    BY DEF Good
  <2>2. start \in Nat
    BY DEF ReplayTypeOK, Times
  <2> QED BY <2>1, <2>2, <1>6
<1>11. ASSUME NEW x \in Signers \X Times, us[x] # 0 PROVE CoveredIn(signer', gone', x)
  <2>1. CoveredIn(sg, gone, x) /\ x[1] \in Signers /\ x[2] \in Nat /\ ShardOf[x[1]] \in Shards
    BY <1>11 DEF Good, Times, ReplayAssumption
  <2>2. CASE x[1] \in old
    <3>1. sg[x[1]].held /\ Sound(sg, x[1]) /\ ShardOf[x[1]] = p
      BY <2>1, <2>2, <1>3 DEF Good
    <3>2. x[2] <= Top(sg[x[1]])
      BY <3>1, <2>1, <1>2 DEF CoveredIn, Sound
    <3>3. x[2] <= g
      BY <3>2, <1>5, <1>4, <1>2, <2>1, <2>2
    <3>4. ~signer'[x[1]].held
      BY <2>1, <2>2, <1>0 DEF NoState
    <3> QED BY <3>1, <3>3, <3>4, <1>7 DEF CoveredIn
  <2>3. CASE x[1] \notin old
    <3>1. signer'[x[1]] = sg[x[1]]
      BY <2>1, <2>3, <1>0
    <3> QED BY <3>1, <2>1, <1>6 DEF CoveredIn
  <2> QED BY <2>2, <2>3
<1> QED BY <1>8, <1>9, <1>10, <1>11 DEF Good

(* What an accepted time finds: it was not taken before, and not signed before the     *)
(* process began.                                                                      *)
LEMMA AcceptedIsNew ==
  ASSUME ReplayAssumption, IInv, NEW a \in Signers, NEW t \in Times, Verdict(a, t) = "accepted"
  PROVE  uses[<<a, t>>] = 0 /\ t >= start /\ t > FloorOf(a) /\ FloorOf(a) \in Nat
<1>1. t > FloorOf(a) /\ t \notin signer[a].recent
  <2>1. FloorOf(a) \in Nat /\ t \in Nat
    BY DEF IInv, ReplayTypeOK, SignerState, FloorOf, ReplayAssumption, Times
  <2> QED BY <2>1 DEF Verdict
<1>2. signer[a] \in SignerState /\ gone[ShardOf[a]] \in Nat /\ start \in Nat /\ t \in Nat
  BY DEF IInv, ReplayTypeOK, ReplayAssumption, Times
<1>3. FloorOf(a) \in Nat
  BY <1>2 DEF FloorOf, SignerState
<1>4. start <= FloorOf(a) + 1
  <2>1. Sound(signer, a) /\ start <= gone[ShardOf[a]] + 1
    BY DEF IInv, Good, ReplayAssumption
  <2> QED BY <2>1 DEF Sound, FloorOf
<1>5. uses[<<a, t>>] = 0
  <2> SUFFICES ASSUME uses[<<a, t>>] # 0 PROVE FALSE
    OBVIOUS
  <2> DEFINE x == <<a, t>>
  <2>1. x \in Signers \X Times /\ x[1] = a /\ x[2] = t
    OBVIOUS
  <2>2. CoveredIn(signer, gone, x)
    BY <2>1 DEF IInv, Good
  <2>3. t <= FloorOf(a) \/ t \in signer[a].recent
    BY <2>1, <2>2 DEF CoveredIn, FloorOf
  <2> QED BY <2>3, <1>1, <1>2, <1>3
<1> QED BY <1>1, <1>2, <1>3, <1>4, <1>5

\* What uses becomes when t is accepted from a.
UsedOnce(a, t) == [uses EXCEPT ![<<a, t>>] = IF uses[<<a, t>>] = 0 THEN 1 ELSE 2]

(* An accepted time is held, or lies at or below the floor the insertion leaves. *)
LEMMA InsertKeeps ==
  ASSUME ReplayAssumption, IInv, NEW a \in Signers, NEW t \in Times, NEW k,
         Verdict(a, t) = "accepted",
         NEW g \in {Following(a, t)} \cup signer[a].recent \cup {t},
         RaisedTo(Following(a, t), signer[a].recent \cup {t}, k, g)
  PROVE  /\ Inserted(a, t, g) \in SignerMap /\ UsedOnce(a, t) \in UsesMap
         /\ Good(Inserted(a, t, g), gone, UsedOnce(a, t))
<1> DEFINE sg == Inserted(a, t, g)
           us == UsedOnce(a, t)
           R == signer[a].recent \cup {t}
<1>1. /\ signer \in SignerMap /\ signer[a].floor \in Nat /\ signer[a].maxSeen \in Nat
      /\ signer[a].recent \subseteq Nat /\ gone[ShardOf[a]] \in Nat /\ start \in Nat /\ t \in Nat
      /\ uses \in UsesMap /\ W \in Nat
  BY DEF IInv, ReplayTypeOK, SignerMap, SignerState, ReplayAssumption, Times, UsesMap
<1>2. FloorOf(a) \in Nat /\ t > FloorOf(a) /\ start <= FloorOf(a) + 1
  <2>1. Sound(signer, a) /\ start <= gone[ShardOf[a]] + 1
    BY DEF IInv, Good, ReplayAssumption
  <2>2. FloorOf(a) \in Nat /\ t > FloorOf(a)
    BY AcceptedIsNew
  <2> QED BY <2>1, <2>2 DEF Sound, FloorOf
<1>3. Largest(a, t) \in Nat /\ Largest(a, t) >= t /\ Largest(a, t) >= signer[a].maxSeen
  BY <1>1 DEF Largest, MaxOf
<1>4. Following(a, t) \in Nat /\ Following(a, t) >= FloorOf(a)
  BY <1>1, <1>2, <1>3 DEF Following, MaxOf
<1>5. g \in Nat /\ g >= Following(a, t)
  BY <1>1, <1>4 DEF RaisedTo
<1>6. g >= FloorOf(a)
  BY <1>2, <1>4, <1>5
<1>7. sg[a] = [held |-> TRUE, floor |-> g, maxSeen |-> Largest(a, t), recent |-> Above(R, g)]
  BY <1>1 DEF Inserted, SignerMap
<1>8. \A b \in Signers : b # a => sg[b] = signer[b]
  BY <1>1 DEF Inserted, SignerMap
<1>9. Above(R, g) \subseteq R /\ \A x \in R : x \notin Above(R, g) => x <= g
  BY <1>1, <1>5 DEF Above
<1>10. sg \in SignerMap
  <2>1. sg[a] \in SignerState
    <3>1. Above(R, g) \in SUBSET Nat
      BY <1>1 DEF Above
    <3> HIDE DEF sg, R
    <3> QED BY <3>1, <1>3, <1>5, <1>7 DEF SignerState
  <2>2. sg = [signer EXCEPT ![a] = sg[a]]
    BY <1>1, <1>7 DEF Inserted, SignerMap
  <2> QED BY <2>1, <2>2, <1>1 DEF SignerMap
<1>11. us \in UsesMap
  BY <1>1 DEF UsedOnce, UsesMap
<1>12. ASSUME NEW b \in Signers PROVE Sound(sg, b)
  <2>1. CASE b = a
    <3>1. \A x \in R : x <= Largest(a, t)
      <4>1. Sound(signer, a)
        BY DEF IInv, Good
      <4> QED BY <4>1, <1>1, <1>3 DEF Sound
    <3>2. start <= g + 1
      BY <1>1, <1>2, <1>5, <1>6
    <3>3. \A x \in Above(R, g) : x <= Largest(a, t)
      BY <3>1, <1>9
    <3> HIDE DEF sg, R
    <3> QED BY <2>1, <3>2, <3>3, <1>7 DEF Sound
  <2>2. CASE b # a
    <3>1. Sound(signer, b)
      BY DEF IInv, Good
    <3> QED BY <2>2, <3>1, <1>8 DEF Sound
  <2> QED BY <2>1, <2>2
<1>13. \A p \in Shards : start <= gone[p] + 1
  BY DEF IInv, Good
<1>14. ASSUME NEW x \in Signers \X Times, us[x] # 0 PROVE CoveredIn(sg, gone, x)
  <2>1. x[1] \in Signers /\ x[2] \in Nat /\ x = <<x[1], x[2]>>
    BY DEF Times
  <2>2. CASE x[1] # a
    <3>1. us[x] = uses[x]
      BY <2>1, <2>2, <1>1 DEF UsedOnce, UsesMap
    <3>2. CoveredIn(signer, gone, x)
      BY <3>1, <1>14 DEF IInv, Good
    <3> QED BY <3>2, <2>1, <2>2, <1>8 DEF CoveredIn
  <2>3. CASE x[1] = a
    <3>1. x[2] <= g \/ x[2] \in R
      <4>1. CASE x[2] = t
        BY <4>1
      <4>2. CASE x[2] # t
        <5>1. us[x] = uses[x]
          BY <2>1, <4>2, <1>1 DEF UsedOnce, UsesMap
        <5>2. CoveredIn(signer, gone, x)
          BY <5>1, <1>14 DEF IInv, Good
        <5>3. x[2] <= FloorOf(a) \/ x[2] \in signer[a].recent
          BY <5>2, <2>3 DEF CoveredIn, FloorOf
        <5> QED BY <5>3, <1>2, <1>5, <1>6, <2>1
      <4> QED BY <4>1, <4>2
    <3>2. x[2] <= g \/ x[2] \in Above(R, g)
      BY <3>1, <1>9
    <3>3. sg[x[1]].held /\ sg[x[1]].floor = g /\ sg[x[1]].recent = Above(R, g)
      BY <2>3, <1>7
    <3> QED BY <3>2, <3>3 DEF CoveredIn
  <2> QED BY <2>2, <2>3
<1> QED BY <1>10, <1>11, <1>12, <1>13, <1>14 DEF Good

(* Judging a request keeps the invariant, and takes a time that was not taken. *)
LEMMA JudgeKeeps ==
  ASSUME ReplayAssumption, IInv, NEW a \in Signers, NEW t \in Times, NEW k, Judge(a, t, k)
  PROVE  /\ IInv'
         /\ \/ uses' = uses /\ start' = start
            \/ Promise!Take(a, t)
<1>1. /\ now' = now /\ start' = start /\ latest' = latest
      /\ valving' = (valving \/ Size' > High)
      /\ unswept' = IF ~valving /\ valving' THEN Shards ELSE unswept
  BY DEF Judge
<1>2. /\ now \in Times /\ start \in Times /\ latest \in Times /\ valving \in BOOLEAN
      /\ unswept \subseteq Shards
      /\ signer \in SignerMap /\ gone \in GoneMap /\ swept \in [Shards -> Times] /\ uses \in UsesMap
  BY DEF IInv, ReplayTypeOK, SignerMap, GoneMap, UsesMap
<1>3. ShardOf[a] \in Shards
  BY DEF ReplayAssumption
<1>4. ASSUME NEW sg \in SignerMap, NEW us \in UsesMap, Good(sg, gone, us),
             SweptWhenDue(sg, ShardOf[a]), uses' = us
      PROVE  IInv'
  <2>1. signer' \in SignerMap /\ gone' \in GoneMap /\ swept' \in [Shards -> Times] /\ Good(signer', gone', us)
    <3>1. CASE Due(ShardOf[a])
      <4>1. SweptFrom(sg, ShardOf[a])
        BY <1>4, <3>1 DEF SweptWhenDue
      <4> QED BY <4>1, <1>3, <1>4, SweepKeeps DEF IInv
    <3>2. CASE ~Due(ShardOf[a])
      <4>1. signer' = sg /\ gone' = gone /\ swept' = swept
        BY <1>4, <3>2 DEF SweptWhenDue
      <4> QED BY <4>1, <1>2, <1>4
    <3> QED BY <3>1, <3>2
  <2>3. Good(signer, gone, uses)'
    BY <2>1, <1>1, <1>4 DEF Good, Sound, CoveredIn
  <2>4. valving' \in BOOLEAN /\ unswept' \subseteq Shards
    BY <1>1, <1>2
  <2> QED BY <2>1, <2>3, <2>4, <1>1, <1>2, <1>4 DEF IInv, ReplayTypeOK, SignerMap, GoneMap, UsesMap
<1>5. CASE Verdict(a, t) = "accepted"
  <2>1. PICK g \in {Following(a, t)} \cup signer[a].recent \cup {t} :
          /\ RaisedTo(Following(a, t), signer[a].recent \cup {t}, k, g)
          /\ SweptWhenDue(Inserted(a, t, g), ShardOf[a])
    BY <1>5 DEF Judge
  <2>2. uses' = UsedOnce(a, t)
    BY <1>5 DEF Judge, UsedOnce
  <2>3. /\ Inserted(a, t, g) \in SignerMap /\ UsedOnce(a, t) \in UsesMap
        /\ Good(Inserted(a, t, g), gone, UsedOnce(a, t))
    BY <2>1, <1>5, InsertKeeps
  <2>4. IInv'
    BY <2>1, <2>2, <2>3, <1>4
  <2>5. uses[<<a, t>>] = 0 /\ t >= start
    BY <1>5, AcceptedIsNew
  <2> QED BY <2>2, <2>4, <2>5, <1>1 DEF Promise!Take, UsedOnce
<1>6. CASE Verdict(a, t) # "accepted"
  <2>1. SweptWhenDue(signer, ShardOf[a]) /\ uses' = uses
    BY <1>6 DEF Judge
  <2>2. Good(signer, gone, uses)
    BY DEF IInv
  <2> QED BY <2>1, <2>2, <1>1, <1>2, <1>4
<1> QED BY <1>5, <1>6

(* A signer made monotonic keeps what it covers: its floor rises to its top. *)
LEMMA RelieveKeeps ==
  ASSUME ReplayAssumption, IInv, NEW a \in Signers, Relieve(a)
  PROVE  IInv'
<1> DEFINE x == Monotonic(signer[a])
<1>1. /\ UNCHANGED <<now, start, gone, swept, valving, unswept, uses, latest>>
      /\ signer' = [signer EXCEPT ![a] = x] /\ signer[a].held
  BY DEF Relieve, Oldest
<1>2. signer \in SignerMap /\ gone \in GoneMap /\ start \in Nat /\ signer[a] \in SignerState
  BY DEF IInv, ReplayTypeOK, SignerMap, GoneMap, Times
<1>3. signer[a].floor \in Nat /\ signer[a].maxSeen \in Nat /\ signer[a].recent \subseteq Nat
  BY <1>2 DEF SignerState
<1>4. /\ Top(signer[a]) \in Nat
      /\ Top(signer[a]) >= signer[a].floor /\ Top(signer[a]) >= signer[a].maxSeen
  BY <1>3 DEF Top, MaxOf
<1>5. /\ x \in SignerState /\ x.held /\ x.floor = Top(signer[a]) /\ x.recent = {}
  BY <1>1, <1>2, <1>4 DEF Monotonic, SignerState
<1> HIDE DEF x
<1>6. signer' \in SignerMap /\ signer'[a] = x /\ \A b \in Signers : b # a => signer'[b] = signer[b]
  BY <1>1, <1>2, <1>5 DEF SignerMap
<1>7. ASSUME NEW b \in Signers PROVE Sound(signer', b)
  <2>1. Sound(signer, b) /\ Sound(signer, a)
    BY DEF IInv, Good
  <2>2. CASE b = a
    <3>1. start <= x.floor + 1
      BY <2>1, <1>1, <1>2, <1>3, <1>4, <1>5 DEF Sound
    <3> QED BY <2>2, <3>1, <1>5, <1>6 DEF Sound
  <2>3. CASE b # a
    BY <2>1, <2>3, <1>6 DEF Sound
  <2> QED BY <2>2, <2>3
<1>8. ASSUME NEW y \in Signers \X Times, uses[y] # 0 PROVE CoveredIn(signer', gone, y)
  <2>1. CoveredIn(signer, gone, y) /\ Sound(signer, a) /\ y[1] \in Signers /\ y[2] \in Nat
    BY <1>8 DEF IInv, Good, Times
  <2>2. CASE y[1] = a
    <3>1. y[2] <= Top(signer[a])
      BY <2>1, <2>2, <1>1, <1>3, <1>4 DEF CoveredIn, Sound
    <3> QED BY <3>1, <2>2, <1>5, <1>6 DEF CoveredIn
  <2>3. CASE y[1] # a
    BY <2>1, <2>3, <1>6 DEF CoveredIn
  <2> QED BY <2>2, <2>3
<1>9. \A p \in Shards : start <= gone[p] + 1
  BY DEF IInv, Good
<1>10. Good(signer', gone, uses)
  BY <1>7, <1>8, <1>9 DEF Good
<1>11. Good(signer, gone, uses)'
  BY <1>10, <1>1 DEF Good, Sound, CoveredIn
<1> QED BY <1>11, <1>1, <1>6 DEF IInv, ReplayTypeOK, SignerMap

(* A new process keeps the invariant, and is a new life of the promise. *)
LEMMA RestartKeeps ==
  ASSUME ReplayAssumption, IInv, ReplayRestart
  PROVE  IInv' /\ Promise!Restart
<1>1. /\ now' = now /\ start' = now /\ latest' = now /\ valving' = FALSE /\ unswept' = {}
      /\ gone' = [p \in Shards |-> Before(now)] /\ swept' = [p \in Shards |-> now]
      /\ signer' = [a \in Signers |-> NoState] /\ uses' = [x \in Signers \X Times |-> 0]
  BY DEF ReplayRestart, Fresh, Unused
<1>2. now \in Times
  BY DEF IInv, ReplayTypeOK
<1>3. signer' \in SignerMap /\ gone' \in GoneMap /\ uses' \in UsesMap
  BY <1>1, <1>2, FreshIsGood
<1>4. Good(signer, gone, uses)'
  <2>1. NoState.held = FALSE /\ NoState.recent = {}
    BY DEF NoState
  <2>2. \A a \in Signers : Sound(signer, a)'
    BY <1>1, <2>1 DEF Sound
  <2>3. \A p \in Shards : start' <= gone'[p] + 1
    BY <1>1, <1>2 DEF Before, MaxOf, Times
  <2>4. \A x \in Signers \X Times : uses'[x] = 0
    BY <1>1
  <2> QED BY <2>2, <2>3, <2>4 DEF Good
<1>5. ReplayTypeOK'
  BY <1>1, <1>2, <1>3 DEF ReplayTypeOK, SignerMap, GoneMap, UsesMap
<1>6. Promise!Restart
  BY <1>1, <1>2 DEF Promise!Restart, Promise!Unused
<1> QED BY <1>4, <1>5, <1>6 DEF IInv

(* The hub's clock and the end of the valve touch nothing the invariant needs. *)
LEMMA OthersKeep ==
  ASSUME ReplayAssumption, IInv, ValveCloses \/ \E t \in Times : Clock(t)
  PROVE  IInv' /\ UNCHANGED <<uses, start>>
<1>1. /\ UNCHANGED <<start, gone, swept, signer, uses>>
      /\ now' \in Times /\ latest' \in Times /\ valving' \in BOOLEAN
      /\ unswept' \subseteq Shards
  BY DEF ValveCloses, Clock, replayState, IInv, ReplayTypeOK, MaxOf, Times
<1>2. Good(signer, gone, uses)'
  BY <1>1 DEF IInv, Good, Sound, CoveredIn
<1> QED BY <1>1, <1>2 DEF IInv, ReplayTypeOK

(* A sweep of another part, when a request finds it due, and one of the valve. *)
LEMMA SweepNextKeeps ==
  ASSUME ReplayAssumption, IInv, NEW p \in Shards, SweepNext(p) \/ ValveSweeps(p)
  PROVE  IInv' /\ UNCHANGED <<uses, start>>
<1>1. /\ SweptFrom(signer, p) /\ UNCHANGED <<now, start, valving, uses, latest>>
      /\ unswept' \subseteq Shards
  BY DEF SweepNext, ValveSweeps, IInv, ReplayTypeOK
<1>2. signer \in SignerMap /\ uses \in UsesMap /\ Good(signer, gone, uses)
  BY DEF IInv, ReplayTypeOK, SignerMap, UsesMap
<1>3. /\ signer' \in SignerMap /\ gone' \in GoneMap /\ swept' \in [Shards -> Times]
      /\ Good(signer', gone', uses)
  BY <1>1, <1>2, SweepKeeps DEF IInv
<1>4. Good(signer, gone, uses)'
  BY <1>1, <1>3 DEF Good, Sound, CoveredIn
<1> QED BY <1>1, <1>3, <1>4 DEF IInv, ReplayTypeOK, SignerMap, GoneMap

-----------------------------------------------------------------------------
(* The steps of the hub, alone and among its clients. *)

(* Every step of RC1 keeps the invariant and is a step of the promise, or none. *)
LEMMA StepKeeps ==
  ASSUME ReplayAssumption, IInv, [ReplayStep]_replayVars
  PROVE  IInv' /\ [Promise!Next]_<<uses, start>>
<1>1. ASSUME NEW a \in Signers, NEW t \in Times, NEW k \in KsOf[a], Judge(a, t, k)
      PROVE  IInv' /\ [Promise!Next]_<<uses, start>>
  BY <1>1, JudgeKeeps DEF Promise!Next
<1>2. ASSUME NEW p \in Shards, SweepNext(p) \/ ValveSweeps(p)
      PROVE  IInv' /\ [Promise!Next]_<<uses, start>>
  BY <1>2, SweepNextKeeps
<1>3. ASSUME NEW a \in Signers, Relieve(a)
      PROVE  IInv' /\ [Promise!Next]_<<uses, start>>
  BY <1>3, RelieveKeeps DEF Relieve
<1>4. CASE ValveCloses \/ \E t \in Times : Clock(t)
  BY <1>4, OthersKeep
<1>5. CASE ReplayRestart
  BY <1>5, RestartKeeps DEF Promise!Next
<1>6. CASE UNCHANGED replayVars
  <2>1. UNCHANGED <<now, start, gone, swept, signer, valving, unswept, uses, latest>>
    BY <1>6 DEF replayVars, replayState
  <2> QED BY <2>1 DEF IInv, ReplayTypeOK, Good, Sound, CoveredIn
<1> QED BY <1>1, <1>2, <1>3, <1>4, <1>5, <1>6 DEF ReplayStep

(* A process that begins has nothing taken. *)
LEMMA InitHolds ==
  ASSUME ReplayAssumption, ReplayInit
  PROVE  IInv /\ Promise!Init
<1>1. /\ now \in Times /\ start = now /\ latest = now /\ valving = FALSE /\ unswept = {}
      /\ gone = [p \in Shards |-> Before(now)] /\ swept = [p \in Shards |-> now]
      /\ signer = [a \in Signers |-> NoState] /\ uses = [x \in Signers \X Times |-> 0]
  BY DEF ReplayInit, Unused
<1>2. signer \in SignerMap /\ gone \in GoneMap /\ uses \in UsesMap /\ Good(signer, gone, uses)
  BY <1>1, FreshIsGood
<1> QED BY <1>1, <1>2 DEF IInv, ReplayTypeOK, SignerMap, GoneMap, UsesMap, Promise!Init, Promise!Unused

(* Whatever the clients do, the hub takes a step of RC1 or none. *)
LEMMA ClientsStepRC1 ==
  ASSUME RequestsAssumption, RequestsTypeOK, [RequestsNext]_vars
  PROVE  [ReplayStep]_replayVars
<1>1. ASSUME NEW c \in Clients, JudgeCall(c)
      PROVE  ReplayStep
  <2>1. call[c].pc \in {"sent", "body"} /\ SignerOf[c] \in Signers
    BY <1>1 DEF JudgeCall, RequestsAssumption
  <2>2. call[c] # NoCall
    BY <2>1 DEF NoCall
  <2>3. call[c] \in CallType
    BY <2>2 DEF RequestsTypeOK
  <2>4. call[c].ts \in Times
    BY <2>3 DEF CallType
  <2>5. \E k \in KsOf[SignerOf[c]] : Judge(SignerOf[c], call[c].ts, k)
    BY <1>1 DEF JudgeCall
  <2> QED BY <2>1, <2>4, <2>5 DEF ReplayStep
<1>2. ASSUME NEW x \in taken \cup earlier, Redeliver(x)
      PROVE  ReplayStep
  <2>1. x \in Signers \X Times
    BY DEF taken, RequestsTypeOK
  <2>2. x[1] \in Signers /\ x[2] \in Times
    BY <2>1
  <2>3. \E k \in KsOf[x[1]] : Judge(x[1], x[2], k)
    BY <1>2 DEF Redeliver
  <2> QED BY <2>2, <2>3 DEF ReplayStep
<1>3. CASE HubRestart
  BY <1>3 DEF HubRestart, ReplayStep
<1>4. CASE HubStep
  BY <1>4 DEF HubStep, ReplayStep
<1>5. ASSUME NEW c \in Clients,
             \/ Send(c) \/ NewProcess(c) \/ SignAgain(c) \/ SendAgain(c) \/ Return(c) \/ Lose(c)
             \/ PeerHeaders(c) \/ Refuse(c)
      PROVE  UNCHANGED replayVars
  <2>1. CASE Send(c) \/ NewProcess(c)
    BY <2>1 DEF Send, NewProcess
  <2>2. CASE SignAgain(c) \/ SendAgain(c)
    BY <2>2 DEF SignAgain, SendAgain
  <2>3. CASE Return(c) \/ Lose(c)
    BY <2>3 DEF Return, Lose
  <2>4. CASE PeerHeaders(c) \/ Refuse(c)
    BY <2>4 DEF PeerHeaders, Refuse
  <2> QED BY <1>5, <2>1, <2>2, <2>3, <2>4
<1>6. CASE UNCHANGED vars
  BY <1>6 DEF vars
<1> QED BY <1>1, <1>2, <1>3, <1>4, <1>5, <1>6 DEF RequestsNext

ClientType ==
  /\ mono \in [Clients -> 0..MaxTime] /\ call \in [Clients -> CallType \cup {NoCall}]
  /\ earlier \subseteq Signers \X Times /\ lives \in 1..MaxLives

(* What a client's own step leaves is well formed. *)
LEMMA ClientKeepsType ==
  ASSUME RequestsAssumption, ReplayAssumption, RequestsTypeOK, NEW c \in Clients,
         \/ Send(c) \/ NewProcess(c) \/ SignAgain(c) \/ SendAgain(c) \/ Return(c) \/ Lose(c)
  PROVE  ClientType'
<1>1. /\ mono \in [Clients -> 0..MaxTime] /\ call \in [Clients -> CallType \cup {NoCall}]
      /\ earlier \subseteq Signers \X Times /\ lives \in 1..MaxLives /\ MaxLives \in Nat \ {0}
  BY DEF RequestsTypeOK, RequestsAssumption
<1>2. earlier' = earlier /\ lives' = lives
  BY DEF Send, NewProcess, SignAgain, SendAgain, Return, Lose
<1>3. call[c].pc # "none" => call[c] \in CallType
  BY <1>1 DEF NoCall
<1>4. ASSUME NEW l \in Times, NextTime(c, l) <= MaxTime
      PROVE  NextTime(c, l) \in 0..MaxTime
  <2>1. mono[c] \in Nat /\ l \in Nat
    BY <1>1 DEF Times
  <2> QED BY <2>1, <1>4 DEF NextTime, MaxOf
<1>5. ASSUME NEW ts \in 0..MaxTime, NEW r \in BOOLEAN, NEW t \in BOOLEAN, NEW n \in 1..MaxLives
      PROVE  Signed(ts, r, t, n) \in CallType
  BY <1>5 DEF Signed, CallType, Times
<1>6. ASSUME NEW m \in 0..MaxTime, NEW r \in CallType \cup {NoCall},
             mono' = [mono EXCEPT ![c] = m] \/ mono' = mono, call' = [call EXCEPT ![c] = r]
      PROVE  ClientType'
  BY <1>6, <1>1, <1>2 DEF ClientType
<1>7. CASE Send(c)
  <2>1. PICK l \in ClockOf(c) :
          /\ NextTime(c, l) <= MaxTime
          /\ mono' = [mono EXCEPT ![c] = NextTime(c, l)]
          /\ call' = [call EXCEPT ![c] = Signed(NextTime(c, l), FALSE, FALSE, lives)]
    BY <1>7 DEF Send
  <2>2. NextTime(c, l) \in 0..MaxTime
    BY <2>1, <1>4 DEF ClockOf
  <2>3. Signed(NextTime(c, l), FALSE, FALSE, lives) \in CallType
    BY <2>2, <1>1, <1>5
  <2> QED BY <2>1, <2>2, <2>3, <1>6
<1>8. CASE SendAgain(c)
  <2>1. PICK l \in ClockOf(c) :
          /\ NextTime(c, l) <= MaxTime
          /\ mono' = [mono EXCEPT ![c] = NextTime(c, l)]
          /\ call' = [call EXCEPT ![c] = Signed(NextTime(c, l), FALSE, TRUE, lives)]
    BY <1>8 DEF SendAgain
  <2>2. NextTime(c, l) \in 0..MaxTime
    BY <2>1, <1>4 DEF ClockOf
  <2>3. Signed(NextTime(c, l), FALSE, TRUE, lives) \in CallType
    BY <2>2, <1>1, <1>5
  <2> QED BY <2>1, <2>2, <2>3, <1>6
<1>9. CASE NewProcess(c)
  <2>1. mono' = [mono EXCEPT ![c] = 0] /\ call' = [call EXCEPT ![c] = NoCall]
    BY <1>9 DEF NewProcess
  <2>2. 0 \in 0..MaxTime
    BY DEF ReplayAssumption
  <2> QED BY <2>1, <2>2, <1>6
<1>10. ASSUME NEW answer \in {"accepted", "outside", "below", "refused", "stale", "replayed", "lost", "notAdopted"},
              call[c].pc # "none", 0 \in Times
       PROVE  Ended(c, answer) \in CallType
  <2>1. call[c] \in CallType
    BY <1>3, <1>10
  <2>2. 0 \in Times /\ 0 \in Nat /\ 1 \in 1..MaxLives
    BY <1>1, <1>10
  <2> QED BY <2>1, <2>2 DEF Ended, CallType
<1>11. 0 \in Times
  BY DEF Times, ReplayAssumption
<1>12. CASE SignAgain(c)
  <2>1. call[c].pc = "answered" /\ call[c].pc # "none"
    BY <1>12 DEF SignAgain
  <2>2. call[c] \in CallType
    BY <2>1, <1>3
  <2>3. call[c].retried \in BOOLEAN /\ call[c].told \in Nat /\ call[c].era \in 1..MaxLives
    BY <2>2 DEF CallType
  <2>4. PICK l \in ClockOf(c) :
          IF Adopts(call[c].told, l)
          THEN /\ RaisedTime(c, l) <= MaxTime
               /\ mono' = [mono EXCEPT ![c] = RaisedTime(c, l)]
               /\ call' = [call EXCEPT ![c] = Signed(RaisedTime(c, l), TRUE, call[c].retried, call[c].era)]
          ELSE /\ call' = [call EXCEPT ![c] = Ended(c, "notAdopted")]
               /\ UNCHANGED mono
    BY <1>12 DEF SignAgain
  <2>5. CASE Adopts(call[c].told, l)
    <3>1. RaisedTime(c, l) \in 0..MaxTime
      <4>1. mono[c] \in Nat /\ l \in Nat
        BY <1>1 DEF ClockOf, Times
      <4> QED BY <4>1, <2>3, <2>4, <2>5 DEF RaisedTime, MaxOf
    <3>2. Signed(RaisedTime(c, l), TRUE, call[c].retried, call[c].era) \in CallType
      BY <3>1, <2>3, <1>5
    <3> QED BY <2>4, <2>5, <3>1, <3>2, <1>6
  <2>6. CASE ~Adopts(call[c].told, l)
    <3>1. Ended(c, "notAdopted") \in CallType
      BY <2>1, <1>10, <1>11
    <3>2. 0 \in 0..MaxTime
      BY <2>1, <1>11 DEF Times
    <3> QED BY <2>4, <2>6, <3>1, <3>2, <1>6
  <2> QED BY <2>5, <2>6
<1>13. CASE Return(c) \/ Lose(c)
  <2>1. call[c].pc # "none" /\ (Return(c) => call[c].pc = "answered")
    BY <1>13 DEF Return, Lose
  <2>2. call[c] \in CallType
    BY <2>1, <1>3
  <2>3. mono' = mono /\ \E r : call' = [call EXCEPT ![c] = r] /\ r \in CallType
    <3>1. CASE Lose(c)
      <4>1. Ended(c, "lost") \in CallType
        BY <2>1, <1>10, <1>11
      <4> QED BY <3>1, <4>1 DEF Lose
    <3>2. CASE Return(c)
      <4>1. Ended(c, call[c].answer) \in CallType
        <5>1. 0 \in Times /\ 0 \in Nat /\ 1 \in 1..MaxLives
          BY <1>1, <1>11, <2>1
        <5> QED BY <2>2, <5>1 DEF Ended, CallType
      <4> QED BY <3>2, <4>1 DEF Return
    <3> QED BY <1>13, <3>1, <3>2
  <2>4. 0 \in 0..MaxTime
    BY <2>1, <1>11 DEF Times
  <2> QED BY <2>3, <2>4, <1>6
<1> QED BY <1>7, <1>8, <1>9, <1>12, <1>13

(* What the hub makes of a request is well formed. *)
LEMMA HubKeepsType ==
  ASSUME RequestsAssumption, ReplayAssumption, RequestsTypeOK, NEW c \in Clients,
         PeerHeaders(c) \/ Refuse(c) \/ JudgeCall(c)
  PROVE  ClientType'
<1>1. /\ mono \in [Clients -> 0..MaxTime] /\ call \in [Clients -> CallType \cup {NoCall}]
      /\ earlier \subseteq Signers \X Times /\ lives \in 1..MaxLives
  BY DEF RequestsTypeOK
<1>2. UNCHANGED <<mono, earlier, lives>>
  BY DEF PeerHeaders, Refuse, JudgeCall
<1>3. call[c].pc \in {"sent", "body"} /\ call[c] \in CallType
  <2>1. call[c].pc \in {"sent", "body"}
    BY DEF PeerHeaders, Refuse, JudgeCall
  <2> QED BY <2>1, <1>1 DEF NoCall
<1>4. FloorOf(SignerOf[c]) \in Nat
  BY DEF RequestsTypeOK, ReplayTypeOK, SignerState, FloorOf, ReplayAssumption, RequestsAssumption
<1>5. ASSUME NEW answer \in {"accepted", "outside", "below", "refused", "stale", "replayed"}, Answered(c, answer)
      PROVE  call' \in [Clients -> CallType \cup {NoCall}]
  <2> DEFINE told == IF answer = "stale" THEN FloorOf(SignerOf[c]) ELSE 0
             ex == now < latest \/ call[c].era # lives
             r == [call[c] EXCEPT !.pc = "answered", !.answer = answer, !.told = told, !.era = lives,
                                  !.excused = ex]
  <2>1. told \in Nat /\ ex \in BOOLEAN
    BY <1>4
  <2>2. call' = [call EXCEPT ![c] = r]
    BY <1>5 DEF Answered
  <2> HIDE DEF told, ex
  <2>3. r \in CallType
    BY <2>1, <1>1, <1>3 DEF CallType
  <2> QED BY <2>2, <2>3, <1>1
<1>6. call' \in [Clients -> CallType \cup {NoCall}]
  <2>1. CASE PeerHeaders(c)
    <3>1. CASE call' = [call EXCEPT ![c].pc = "body"]
      <4>1. [call[c] EXCEPT !.pc = "body"] \in CallType
        BY <1>3 DEF CallType
      <4>2. call' = [call EXCEPT ![c] = [call[c] EXCEPT !.pc = "body"]]
        BY <3>1
      <4> QED BY <4>1, <4>2, <1>1
    <3>2. CASE Answered(c, "outside") \/ Answered(c, "below")
      BY <3>2, <1>5
    <3> QED BY <2>1, <3>1, <3>2 DEF PeerHeaders
  <2>2. CASE Refuse(c)
    BY <2>2, <1>5 DEF Refuse
  <2>3. CASE JudgeCall(c)
    <3>1. Answered(c, Verdict(SignerOf[c], call[c].ts))
      BY <2>3 DEF JudgeCall
    <3>2. Verdict(SignerOf[c], call[c].ts) \in {"accepted", "outside", "below", "refused", "stale", "replayed"}
      BY DEF Verdict
    <3> QED BY <3>1, <3>2, <1>5
  <2> QED BY <2>1, <2>2, <2>3
<1> QED BY <1>1, <1>2, <1>6 DEF ClientType

-----------------------------------------------------------------------------
(* The theorems. *)

\* RC1 by itself, whatever requests reach it: what is needed to refuse a time again is
\* always held, and each time is taken at most once (auth2.go: accept, sweep, relieve).
THEOREM ReplayIsTakenOnce ==
  ASSUME ReplayAssumption
  PROVE  ReplaySpec => []IInv /\ TakenOnce
<1>1. ReplayInit => IInv /\ Promise!Init
  BY InitHolds
<1>2. IInv /\ [ReplayStep]_replayVars => IInv' /\ [Promise!Next]_<<uses, start>>
  BY StepKeeps
<1> QED BY <1>1, <1>2, PTL DEF ReplaySpec, TakenOnce, Promise!Spec

\* Every accepted time stays at or below its signer's floor or among the times held.
THEOREM ReplayIsCovered ==
  ASSUME ReplayAssumption
  PROVE  ReplaySpec => []Covered
<1>1. IInv => Covered
  BY DEF IInv, Good, CoveredIn, Covered, taken
<1> QED BY <1>1, ReplayIsTakenOnce, PTL

\* The state of the hub and of its clients is well formed, and beside clients that sign
\* again, send again, restart and lose answers, and a network that delivers twice, what
\* RC1 needs is held.
THEOREM RequestsAreSound ==
  ASSUME ReplayAssumption, RequestsAssumption
  PROVE  RequestsSpec => [](RequestsTypeOK /\ IInv)
<1>1. RequestsInit => RequestsTypeOK /\ IInv
  <2> SUFFICES ASSUME RequestsInit PROVE RequestsTypeOK /\ IInv
    OBVIOUS
  <2>1. IInv
    BY InitHolds DEF RequestsInit
  <2>2. ReplayTypeOK /\ 0 \in 0..MaxTime /\ 1 \in 1..MaxLives
    BY <2>1 DEF IInv, ReplayAssumption, RequestsAssumption
  <2> QED BY <2>1, <2>2 DEF RequestsInit, RequestsTypeOK
<1>2. RequestsTypeOK /\ IInv /\ [RequestsNext]_vars => RequestsTypeOK' /\ IInv'
  <2> SUFFICES ASSUME RequestsTypeOK, IInv, [RequestsNext]_vars PROVE RequestsTypeOK' /\ IInv'
    OBVIOUS
  <2>1. IInv'
    BY ClientsStepRC1, StepKeeps
  <2>2. ClientType'
    <3>0. /\ mono \in [Clients -> 0..MaxTime] /\ call \in [Clients -> CallType \cup {NoCall}]
          /\ earlier \subseteq Signers \X Times /\ lives \in 1..MaxLives
      BY DEF RequestsTypeOK
    <3>1. CASE \E c \in Clients :
                 \/ Send(c) \/ NewProcess(c) \/ SignAgain(c) \/ SendAgain(c) \/ Return(c) \/ Lose(c)
      BY <3>1, ClientKeepsType
    <3>2. CASE \E c \in Clients : PeerHeaders(c) \/ Refuse(c) \/ JudgeCall(c)
      BY <3>2, HubKeepsType
    <3>3. CASE (\E x \in taken \cup earlier : Redeliver(x)) \/ HubStep \/ UNCHANGED vars
      <4>1. UNCHANGED <<mono, call, earlier, lives>>
        BY <3>3 DEF Redeliver, HubStep, vars
      <4> QED BY <4>1, <3>0 DEF ClientType
    <3>4. CASE HubRestart
      <4>1. /\ lives < MaxLives /\ lives' = lives + 1 /\ earlier' = earlier \cup taken
            /\ UNCHANGED <<mono, call>>
        BY <3>4 DEF HubRestart
      <4>2. lives' \in 1..MaxLives
        BY <4>1, <3>0 DEF RequestsAssumption
      <4> QED BY <4>1, <4>2, <3>0 DEF ClientType, taken
    <3> QED BY <3>1, <3>2, <3>3, <3>4 DEF RequestsNext
  <2> QED BY <2>1, <2>2 DEF IInv, ClientType, RequestsTypeOK
<1> QED BY <1>1, <1>2, PTL DEF RequestsSpec

\* The types alone: the state of RC1, of the clients' clocks and of their requests.
THEOREM RequestsTypes ==
  ASSUME ReplayAssumption, RequestsAssumption
  PROVE  RequestsSpec => []RequestsTypeOK
BY RequestsAreSound, PTL

\* The hub among its clients implements the promise: no request is taken twice, and none
\* from before the hub began, however it is signed again or delivered again.
THEOREM RequestsAreTakenOnce ==
  ASSUME ReplayAssumption, RequestsAssumption
  PROVE  RequestsSpec => TakenOnce
<1>1. RequestsInit => Promise!Init
  BY InitHolds DEF RequestsInit
<1>2. RequestsTypeOK /\ IInv /\ [RequestsNext]_vars => [Promise!Next]_<<uses, start>>
  BY ClientsStepRC1, StepKeeps
<1> QED BY <1>1, <1>2, RequestsAreSound, PTL DEF RequestsSpec, TakenOnce, Promise!Spec

-----------------------------------------------------------------------------
(* A signer is refused for its own times alone. *)

\* f is a floor that is due to a time of us taken from a, or lies outside the window.
DueTo(f, us, a) ==
  \/ f < start \/ f = 0 \/ f < latest - MaxSkew
  \/ \E t \in Times : us[<<a, t>>] # 0 /\ f <= t

\* What is held of a signer came from it; what is left of those dropped is outside the
\* window.
OwnIn(sg, gn, us) ==
  /\ \A a \in Signers :
       /\ \A t \in sg[a].recent : t \in Times /\ us[<<a, t>>] # 0
       /\ ~sg[a].held => sg[a].maxSeen = 0
       /\ sg[a].held => /\ DueTo(sg[a].floor, us, a)
                        /\ \E t \in Times : us[<<a, t>>] # 0 /\ sg[a].maxSeen <= t
  /\ \A p \in Shards : gn[p] < start \/ gn[p] = 0 \/ gn[p] < latest - MaxSkew

OwnInv == now <= latest /\ OwnIn(signer, gone, uses)

(* A sweep leaves behind no floor but its own and the tops it drops, which are outside *)
(* the window.                                                                         *)
LEMMA SweepKeepsOwn ==
  ASSUME ReplayAssumption, ReplayTypeOK, now <= latest, NEW sg \in SignerMap, NEW us, NEW p \in Shards,
         OwnIn(sg, gone, us), SweptFrom(sg, p)
  PROVE  OwnIn(signer', gone', us)
<1> DEFINE old == OldIn(sg, p)
<1>1. PICK g \in {gone[p]} \cup {Top(sg[a]) : a \in old} :
        /\ gone' = [gone EXCEPT ![p] = g]
        /\ signer' = [a \in Signers |-> IF a \in old THEN NoState ELSE sg[a]]
  BY DEF SweptFrom
<1>2. now \in Nat /\ latest \in Nat /\ MaxSkew \in Nat /\ gone \in [Shards -> Nat]
  BY DEF ReplayTypeOK, ReplayAssumption, Times
<1>3. \A q \in Shards : gone[q] < start \/ gone[q] = 0 \/ gone[q] < latest - MaxSkew
  BY DEF OwnIn
<1>4. g < start \/ g = 0 \/ g < latest - MaxSkew
  <2>1. CASE g = gone[p]
    BY <2>1, <1>3
  <2>2. ASSUME NEW a \in old, g = Top(sg[a]) PROVE g < latest - MaxSkew
    <3>1. a \in Signers /\ Top(sg[a]) < now - MaxSkew
      BY <2>2 DEF OldIn, IsOld
    <3>2. Top(sg[a]) \in Nat
      BY <3>1 DEF SignerMap, SignerState, Top, MaxOf
    <3> QED BY <3>1, <3>2, <2>2, <1>2
  <2> QED BY <1>1, <2>1, <2>2
<1>5. \A q \in Shards : gone'[q] < start \/ gone'[q] = 0 \/ gone'[q] < latest - MaxSkew
  <2> SUFFICES ASSUME NEW q \in Shards
               PROVE  gone'[q] < start \/ gone'[q] = 0 \/ gone'[q] < latest - MaxSkew
    OBVIOUS
  <2>1. CASE q = p
    BY <2>1, <1>1, <1>2, <1>4
  <2>2. CASE q # p
    BY <2>2, <1>1, <1>2, <1>3
  <2> QED BY <2>1, <2>2
<1>6. ASSUME NEW a \in Signers
      PROVE  /\ \A t \in signer'[a].recent : t \in Times /\ us[<<a, t>>] # 0
             /\ ~signer'[a].held => signer'[a].maxSeen = 0
             /\ signer'[a].held => /\ DueTo(signer'[a].floor, us, a)
                                   /\ \E t \in Times : us[<<a, t>>] # 0 /\ signer'[a].maxSeen <= t
  <2>1. CASE a \in old
    BY <2>1, <1>1 DEF NoState
  <2>2. CASE a \notin old
    <3>1. signer'[a] = sg[a]
      BY <2>2, <1>1
    <3> QED BY <3>1 DEF OwnIn
  <2> QED BY <2>1, <2>2
<1> QED BY <1>5, <1>6 DEF OwnIn

(* What a is due for stays due when one more time is taken from a signer. *)
LEMMA DueStays ==
  ASSUME NEW us \in UsesMap, NEW f, NEW a \in Signers, NEW x \in Signers \X Times, NEW n \in {1, 2},
         DueTo(f, us, a)
  PROVE  DueTo(f, [us EXCEPT ![x] = n], a)
<1>1. \A t \in Times : us[<<a, t>>] # 0 => [us EXCEPT ![x] = n][<<a, t>>] # 0
  BY DEF UsesMap
<1> QED BY <1>1 DEF DueTo

(* An accepted time raises its signer's floor to one of its own times, or to the one it *)
(* was held to.                                                                         *)
LEMMA InsertKeepsOwn ==
  ASSUME ReplayAssumption, ReplayTypeOK, OwnInv, NEW a \in Signers, NEW t \in Times,
         NEW g \in {Following(a, t)} \cup signer[a].recent \cup {t}
  PROVE  OwnIn(Inserted(a, t, g), gone, UsedOnce(a, t))
<1> DEFINE sg == Inserted(a, t, g)
           us == UsedOnce(a, t)
           n == IF uses[<<a, t>>] = 0 THEN 1 ELSE 2
<1>1. /\ signer \in SignerMap /\ uses \in UsesMap /\ t \in Nat /\ W \in Nat
      /\ signer[a].floor \in Nat /\ signer[a].maxSeen \in Nat /\ signer[a].recent \subseteq Nat
      /\ ShardOf[a] \in Shards /\ gone \in [Shards -> Nat]
  BY DEF ReplayTypeOK, SignerMap, SignerState, UsesMap, ReplayAssumption, Times
<1>2. us = [uses EXCEPT ![<<a, t>>] = n] /\ n \in {1, 2} /\ <<a, t>> \in Signers \X Times
  BY DEF UsedOnce
<1>3. us[<<a, t>>] # 0
  BY <1>1, <1>2 DEF UsesMap
<1>4. \A b \in Signers, s \in Times : uses[<<b, s>>] # 0 => us[<<b, s>>] # 0
  BY <1>1, <1>2 DEF UsesMap
<1>5. sg[a] = [held |-> TRUE, floor |-> g, maxSeen |-> Largest(a, t),
               recent |-> Above(signer[a].recent \cup {t}, g)]
  BY <1>1 DEF Inserted, SignerMap
<1>6. \A b \in Signers : b # a => sg[b] = signer[b]
  BY <1>1 DEF Inserted, SignerMap
<1>7. \A s \in signer[a].recent \cup {t} : s \in Times /\ us[<<a, s>>] # 0
  <2>1. \A s \in signer[a].recent : s \in Times /\ uses[<<a, s>>] # 0
    BY DEF OwnInv, OwnIn
  <2> QED BY <2>1, <1>3, <1>4
<1>8. \E s \in Times : us[<<a, s>>] # 0 /\ Largest(a, t) <= s
  <2>1. CASE Largest(a, t) = t
    BY <2>1, <1>1, <1>3
  <2>2. CASE Largest(a, t) # t
    <3>1. Largest(a, t) = signer[a].maxSeen /\ signer[a].maxSeen # 0
      BY <2>2, <1>1 DEF Largest, MaxOf
    <3>2. \E s \in Times : uses[<<a, s>>] # 0 /\ signer[a].maxSeen <= s
      BY <3>1 DEF OwnInv, OwnIn
    <3> QED BY <3>1, <3>2, <1>4
  <2> QED BY <2>1, <2>2
<1>9. DueTo(FloorOf(a), us, a)
  <2>1. DueTo(FloorOf(a), uses, a)
    BY <1>1 DEF OwnInv, OwnIn, FloorOf, DueTo
  <2> HIDE DEF n, us
  <2> QED BY <2>1, <1>1, <1>2, DueStays
<1>10. DueTo(g, us, a)
  <2>1. CASE g \in signer[a].recent \cup {t}
    <3>1. g \in Times /\ us[<<a, g>>] # 0 /\ g <= g
      BY <2>1, <1>7 DEF Times
    <3> QED BY <3>1 DEF DueTo
  <2>2. CASE g = FloorOf(a)
    BY <2>2, <1>9
  <2>3. CASE g = Largest(a, t) - W
    <3>1. PICK s \in Times : us[<<a, s>>] # 0 /\ Largest(a, t) <= s
      BY <1>8
    <3>2. Largest(a, t) \in Nat /\ s \in Nat
      BY <1>1 DEF Largest, MaxOf, Times
    <3>3. g <= s
      BY <3>1, <3>2, <2>3, <1>1
    <3> QED BY <3>1, <3>3 DEF DueTo
  <2> QED BY <2>1, <2>2, <2>3 DEF Following, MaxOf
<1>11. ASSUME NEW b \in Signers
       PROVE  /\ \A s \in sg[b].recent : s \in Times /\ us[<<b, s>>] # 0
              /\ ~sg[b].held => sg[b].maxSeen = 0
              /\ sg[b].held => /\ DueTo(sg[b].floor, us, b)
                               /\ \E s \in Times : us[<<b, s>>] # 0 /\ sg[b].maxSeen <= s
  <2>1. CASE b = a
    <3>1. /\ sg[b].held /\ sg[b].floor = g /\ sg[b].maxSeen = Largest(a, t)
          /\ sg[b].recent \subseteq signer[a].recent \cup {t}
      BY <2>1, <1>5 DEF Above
    <3> HIDE DEF sg, us
    <3> QED BY <2>1, <3>1, <1>7, <1>8, <1>10
  <2>2. CASE b # a
    <3>1. sg[b] = signer[b]
      BY <2>2, <1>6
    <3>2. /\ \A s \in signer[b].recent : s \in Times /\ uses[<<b, s>>] # 0
          /\ ~signer[b].held => signer[b].maxSeen = 0
          /\ signer[b].held => /\ DueTo(signer[b].floor, uses, b)
                               /\ \E s \in Times : uses[<<b, s>>] # 0 /\ signer[b].maxSeen <= s
      BY DEF OwnInv, OwnIn
    <3>3. DueTo(signer[b].floor, uses, b) => DueTo(signer[b].floor, us, b)
      <4> HIDE DEF n, us
      <4> QED BY <1>1, <1>2, DueStays
    <3> HIDE DEF sg, us
    <3> QED BY <3>1, <3>2, <3>3, <1>4
  <2> QED BY <2>1, <2>2
<1>12. \A p \in Shards : gone[p] < start \/ gone[p] = 0 \/ gone[p] < latest - MaxSkew
  BY DEF OwnInv, OwnIn
<1> HIDE DEF sg, us
<1>13. OwnIn(sg, gone, us)
  BY <1>11, <1>12 DEF OwnIn
<1> QED BY <1>13 DEF sg, us

(* Judging a request keeps it. *)
LEMMA JudgeKeepsOwn ==
  ASSUME ReplayAssumption, ReplayTypeOK, IInv, OwnInv, NEW a \in Signers, NEW t \in Times, NEW k,
         Judge(a, t, k)
  PROVE  OwnInv'
<1>1. now' = now /\ start' = start /\ latest' = latest
  BY DEF Judge
<1>2. ShardOf[a] \in Shards /\ signer \in SignerMap
  BY DEF ReplayAssumption, ReplayTypeOK, SignerMap
<1>3. ASSUME NEW sg \in SignerMap, NEW us, OwnIn(sg, gone, us), SweptWhenDue(sg, ShardOf[a]), uses' = us
      PROVE  OwnInv'
  <2>1. OwnIn(signer', gone', us)
    <3>1. CASE Due(ShardOf[a])
      BY <3>1, <1>2, <1>3, SweepKeepsOwn DEF SweptWhenDue, OwnInv
    <3>2. CASE ~Due(ShardOf[a])
      BY <3>2, <1>3 DEF SweptWhenDue
    <3> QED BY <3>1, <3>2
  <2> QED BY <2>1, <1>1, <1>3 DEF OwnInv, OwnIn, DueTo
<1>4. CASE Verdict(a, t) = "accepted"
  <2>1. PICK g \in {Following(a, t)} \cup signer[a].recent \cup {t} :
          /\ RaisedTo(Following(a, t), signer[a].recent \cup {t}, k, g)
          /\ SweptWhenDue(Inserted(a, t, g), ShardOf[a])
    BY <1>4 DEF Judge
  <2>2. uses' = UsedOnce(a, t)
    BY <1>4 DEF Judge, UsedOnce
  <2>3. Inserted(a, t, g) \in SignerMap
    BY <2>1, <1>4, InsertKeeps
  <2>4. OwnIn(Inserted(a, t, g), gone, UsedOnce(a, t))
    BY InsertKeepsOwn
  <2> QED BY <2>1, <2>2, <2>3, <2>4, <1>3
<1>5. CASE Verdict(a, t) # "accepted"
  <2>1. SweptWhenDue(signer, ShardOf[a]) /\ uses' = uses
    BY <1>5 DEF Judge
  <2> QED BY <2>1, <1>2, <1>3 DEF OwnInv
<1> QED BY <1>4, <1>5

(* The valve moves a floor to times its signer was seen at. *)
LEMMA RelieveKeepsOwn ==
  ASSUME ReplayTypeOK, OwnInv, NEW a \in Signers, Relieve(a)
  PROVE  OwnInv'
<1>1. /\ signer' = [signer EXCEPT ![a] = Monotonic(signer[a])] /\ signer[a].held
      /\ UNCHANGED <<now, start, gone, uses, latest>>
  BY DEF Relieve, Oldest
<1>2. signer \in SignerMap /\ signer[a] \in SignerState
  BY DEF ReplayTypeOK, SignerMap
<1>3. /\ signer'[a].held /\ signer'[a].floor = Top(signer[a]) /\ signer'[a].maxSeen = signer[a].maxSeen
      /\ signer'[a].recent = {}
  BY <1>1, <1>2 DEF Monotonic, SignerMap, SignerState
<1>4. DueTo(Top(signer[a]), uses, a) /\ \E t \in Times : uses[<<a, t>>] # 0 /\ signer[a].maxSeen <= t
  BY <1>1 DEF OwnInv, OwnIn, Top, MaxOf, DueTo
<1>5. ASSUME NEW b \in Signers
      PROVE  /\ \A t \in signer'[b].recent : t \in Times /\ uses[<<b, t>>] # 0
             /\ ~signer'[b].held => signer'[b].maxSeen = 0
             /\ signer'[b].held => /\ DueTo(signer'[b].floor, uses, b)
                                   /\ \E t \in Times : uses[<<b, t>>] # 0 /\ signer'[b].maxSeen <= t
  <2>1. CASE b = a
    BY <2>1, <1>3, <1>4
  <2>2. CASE b # a
    <3>1. signer'[b] = signer[b]
      BY <2>2, <1>1, <1>2 DEF SignerMap
    <3> QED BY <3>1 DEF OwnInv, OwnIn
  <2> QED BY <2>1, <2>2
<1>6. OwnIn(signer', gone, uses)
  BY <1>5 DEF OwnInv, OwnIn
<1> QED BY <1>1, <1>6 DEF OwnInv, OwnIn, DueTo

(* A step of RC1 keeps it. *)
LEMMA StepKeepsOwn ==
  ASSUME ReplayAssumption, IInv, OwnInv, [ReplayStep]_replayVars
  PROVE  OwnInv'
<1>0. ReplayTypeOK
  BY DEF IInv
<1>1. ASSUME NEW a \in Signers, NEW t \in Times, NEW k \in KsOf[a], Judge(a, t, k)
      PROVE  OwnInv'
  BY <1>0, <1>1, JudgeKeepsOwn
<1>2. ASSUME NEW p \in Shards, SweepNext(p) \/ ValveSweeps(p)
      PROVE  OwnInv'
  <2>1. SweptFrom(signer, p) /\ UNCHANGED <<now, start, uses, latest>>
    BY <1>2 DEF SweepNext, ValveSweeps
  <2>2. OwnIn(signer', gone', uses)
    BY <2>1, <1>0, SweepKeepsOwn DEF OwnInv, ReplayTypeOK, SignerMap
  <2> QED BY <2>1, <2>2 DEF OwnInv, OwnIn, DueTo
<1>3. ASSUME NEW a \in Signers, Relieve(a)
      PROVE  OwnInv'
  BY <1>0, <1>3, RelieveKeepsOwn
<1>4. CASE ValveCloses
  BY <1>4 DEF ValveCloses, OwnInv, OwnIn, DueTo
<1>5. ASSUME NEW t \in Times, Clock(t)
      PROVE  OwnInv'
  <2>1. now' = t /\ latest' = MaxOf(latest, t) /\ UNCHANGED <<start, gone, signer, uses>>
    BY <1>5 DEF Clock, replayState
  <2>2. latest \in Nat /\ t \in Nat /\ MaxSkew \in Nat
    BY <1>0 DEF ReplayTypeOK, ReplayAssumption, Times
  <2>3. now' <= latest' /\ latest' >= latest /\ latest' \in Nat
    BY <2>1, <2>2 DEF MaxOf
  <2>4. \A f \in Nat : f < latest - MaxSkew => f < latest' - MaxSkew
    <3> SUFFICES ASSUME NEW f \in Nat, NEW l \in Nat, NEW m \in Nat, l >= latest, m = MaxSkew,
                        f < latest - m
                 PROVE  f < l - m
      BY <2>2, <2>3
    <3> QED BY <2>2
  <2>6. /\ \A a \in Signers : signer[a].floor \in Nat
        /\ \A p \in Shards : gone[p] \in Nat
    BY <1>0 DEF ReplayTypeOK, SignerState
  <2>7. ASSUME NEW a \in Signers
        PROVE  /\ \A s \in signer[a].recent : s \in Times /\ uses[<<a, s>>] # 0
               /\ ~signer[a].held => signer[a].maxSeen = 0
               /\ signer[a].held => /\ DueTo(signer[a].floor, uses, a)'
                                    /\ \E s \in Times : uses[<<a, s>>] # 0 /\ signer[a].maxSeen <= s
    <3>1. DueTo(signer[a].floor, uses, a) => DueTo(signer[a].floor, uses, a)'
      <4>1. signer[a].floor \in Nat /\ signer'[a].floor = signer[a].floor
        BY <2>1, <2>6
      <4> QED BY <4>1, <2>1, <2>4 DEF DueTo
    <3> QED BY <3>1 DEF OwnInv, OwnIn
  <2>8. \A p \in Shards : gone[p] < start \/ gone[p] = 0 \/ gone[p] < latest' - MaxSkew
    BY <2>4, <2>6 DEF OwnInv, OwnIn
  <2> QED BY <2>1, <2>3, <2>7, <2>8 DEF OwnInv, OwnIn
<1>6. CASE ReplayRestart
  <2>1. /\ now' = now /\ start' = now /\ latest' = now /\ gone' = [p \in Shards |-> Before(now)]
        /\ signer' = [a \in Signers |-> NoState]
    BY <1>6 DEF ReplayRestart, Fresh
  <2>2. now \in Nat
    BY <1>0 DEF ReplayTypeOK, Times
  <2>3. \A p \in Shards : gone'[p] < start' \/ gone'[p] = 0
    BY <2>1, <2>2 DEF Before, MaxOf
  <2>4. ~NoState.held /\ NoState.recent = {} /\ NoState.maxSeen = 0
    BY DEF NoState
  <2>5. \A a \in Signers : signer'[a] = NoState
    BY <2>1
  <2> QED BY <2>1, <2>2, <2>3, <2>4, <2>5 DEF OwnInv, OwnIn
<1>7. CASE UNCHANGED replayVars
  BY <1>7 DEF replayVars, replayState, OwnInv, OwnIn, DueTo
<1> QED BY <1>1, <1>2, <1>3, <1>4, <1>5, <1>6, <1>7 DEF ReplayStep

LEMMA InitIsOwn ==
  ASSUME ReplayAssumption, ReplayInit
  PROVE  OwnInv
<1>1. now \in Nat /\ start = now /\ latest = now
  BY DEF ReplayInit, Times
<1>2. \A p \in Shards : gone[p] < start \/ gone[p] = 0
  BY <1>1 DEF ReplayInit, Before, MaxOf
<1>3. \A a \in Signers : ~signer[a].held /\ signer[a].recent = {} /\ signer[a].maxSeen = 0
  BY DEF ReplayInit, NoState
<1> QED BY <1>1, <1>2, <1>3 DEF OwnInv, OwnIn

LEMMA OwnIsOwnTimes ==
  ASSUME ReplayAssumption, ReplayTypeOK, OwnInv
  PROVE  RefusedForOwn
<1> SUFFICES ASSUME NEW a \in Signers
             PROVE  /\ signer[a].recent \subseteq OwnTimes(a)
                    /\ \/ FloorOf(a) < start \/ FloorOf(a) = 0 \/ FloorOf(a) < latest - MaxSkew
                       \/ \E t \in OwnTimes(a) : FloorOf(a) <= t
  BY DEF RefusedForOwn
<1>1. ASSUME NEW t \in Times, uses[<<a, t>>] # 0 PROVE t \in OwnTimes(a)
  <2>1. <<a, t>> \in {y \in taken : y[1] = a}
    BY <1>1 DEF taken
  <2> QED BY <2>1 DEF OwnTimes
<1>2. signer[a].recent \subseteq OwnTimes(a)
  BY <1>1 DEF OwnInv, OwnIn
<1>3. DueTo(FloorOf(a), uses, a)
  BY DEF OwnInv, OwnIn, FloorOf, DueTo, ReplayAssumption
<1> QED BY <1>1, <1>2, <1>3 DEF DueTo

-----------------------------------------------------------------------------
(* An agent that signs one request at a time, with one clock that only goes up. *)

OneProcess == \A c, d \in Clients : SignerOf[c] = SignerOf[d] /\ ~IsPeer(c) => c = d

DaemonNext == RequestsNext /\ \A c \in Clients : ~IsPeer(c) => mono[c] <= mono'[c]

DaemonSpec == RequestsInit /\ [][DaemonNext]_vars

\* A request in flight is above every time taken from its agent; one signed again is
\* above the floor named to it, and so not from before the hub began.
AboveOwn(c) ==
  \A x \in taken \cup earlier : x[1] = SignerOf[c] =>
    /\ x[2] <= mono[c]
    /\ call[c].pc = "sent" => x[2] < call[c].ts

AgainAbove(c) ==
  /\ call[c].pc = "sent" => call[c].ts <= mono[c]
  /\ call[c].pc # "none" => call[c].era <= lives
  /\ call[c].pc = "answered" /\ call[c].answer = "stale" /\ call[c].era = lives => start <= call[c].told + 1
  /\ call[c].pc = "sent" /\ call[c].resent => call[c].ts > 0 /\ (call[c].era = lives => start <= call[c].ts)
  /\ /\ call[c].pc \in {"answered", "done"} /\ call[c].resent /\ call[c].answer \in {"stale", "replayed"}
     => call[c].excused

AgentInv == \A c \in Clients : ~IsPeer(c) => call[c].pc # "body" /\ AboveOwn(c) /\ AgainAbove(c)

(* The fields of a request just signed. *)
LEMMA SignedFields ==
  ASSUME NEW n, NEW r, NEW q, NEW l
  PROVE  /\ Signed(n, r, q, l).pc = "sent" /\ Signed(n, r, q, l).ts = n
         /\ Signed(n, r, q, l).resent = r /\ Signed(n, r, q, l).era = l
BY DEF Signed

(* What a judgement takes is the time judged. *)
LEMMA JudgeTakes ==
  ASSUME ReplayTypeOK, NEW a \in Signers, NEW t \in Times, NEW k, Judge(a, t, k)
  PROVE  \A x \in taken' : x \in taken \/ x = <<a, t>>
<1> SUFFICES ASSUME NEW x \in Signers \X Times, uses'[x] # 0, x # <<a, t>> PROVE uses[x] # 0
  BY DEF taken
<1>1. uses' = uses \/ \E n : uses' = [uses EXCEPT ![<<a, t>>] = n]
  BY DEF Judge
<1> QED BY <1>1 DEF ReplayTypeOK

(* What another's step leaves alone. *)
LEMMA AgentIsLeftAlone ==
  ASSUME NEW c \in Clients, ~IsPeer(c), AboveOwn(c), AgainAbove(c), call[c].pc # "body",
         call'[c] = call[c], mono'[c] = mono[c], start' = start, lives' = lives,
         \A x \in taken' \cup earlier' : x[1] = SignerOf[c] => x \in taken \cup earlier
  PROVE  call'[c].pc # "body" /\ AboveOwn(c)' /\ AgainAbove(c)'
<1>1. AboveOwn(c)'
  BY DEF AboveOwn
<1>2. AgainAbove(c)'
  BY DEF AgainAbove
<1> QED BY <1>1, <1>2

(* A request signed again is neither stale nor replayed, unless the hub began anew or  *)
(* its clock stands behind its latest.                                                 *)
LEMMA AgainIsAccepted ==
  ASSUME ReplayAssumption, RequestsAssumption, RequestsTypeOK, IInv, OwnInv, NEW c \in Clients,
         call[c].pc = "sent", call[c] \in CallType, call[c].resent, AboveOwn(c), AgainAbove(c),
         Verdict(SignerOf[c], call[c].ts) \in {"stale", "replayed"}
  PROVE  now < latest \/ call[c].era # lives
<1> DEFINE a == SignerOf[c]
           ts == call[c].ts
<1>1. SUFFICES ASSUME now >= latest, call[c].era = lives PROVE FALSE
  BY DEF RequestsTypeOK, ReplayTypeOK, Times
<1>2. /\ a \in Signers /\ ts \in Times /\ ts \in Nat /\ now \in Nat /\ latest \in Nat /\ start \in Nat
      /\ MaxSkew \in Nat /\ now = latest
  <2>1. a \in Signers /\ MaxSkew \in Nat
    BY DEF ReplayAssumption, RequestsAssumption
  <2>2. ts \in Times
    BY DEF CallType
  <2>3. now \in Times /\ latest \in Times /\ start \in Times
    BY DEF RequestsTypeOK, ReplayTypeOK
  <2>4. now = latest
    BY <1>1, <2>3 DEF OwnInv, Times
  <2> QED BY <2>1, <2>2, <2>3, <2>4 DEF Times
<1>3. ts > 0 /\ start <= ts
  BY <1>1 DEF AgainAbove
<1>4. \A t \in Times : uses[<<a, t>>] # 0 => t < ts
  <2> SUFFICES ASSUME NEW t \in Times, uses[<<a, t>>] # 0 PROVE t < ts
    OBVIOUS
  <2>1. <<a, t>> \in taken
    BY <1>2 DEF taken
  <2> DEFINE x == <<a, t>>
  <2>2. x \in taken \cup earlier /\ x[1] = SignerOf[c] /\ x[2] = t
    BY <2>1
  <2> HIDE DEF x
  <2> QED BY <2>2 DEF AboveOwn
<1>5. InWindow(ts) /\ (ts <= FloorOf(a) \/ ts \in signer[a].recent)
  BY DEF Verdict
<1>6. ts \notin signer[a].recent
  <2>1. ts \in signer[a].recent => uses[<<a, ts>>] # 0
    BY <1>2 DEF OwnInv, OwnIn
  <2> QED BY <2>1, <1>2, <1>4
<1>7. FloorOf(a) \in Nat /\ DueTo(FloorOf(a), uses, a)
  BY <1>2 DEF OwnInv, OwnIn, FloorOf, DueTo, ReplayAssumption, RequestsTypeOK, ReplayTypeOK, SignerState
<1>8. FloorOf(a) < ts
  <2>1. CASE FloorOf(a) < start \/ FloorOf(a) = 0
    BY <2>1, <1>2, <1>3, <1>7
  <2>2. CASE FloorOf(a) < latest - MaxSkew
    BY <2>2, <1>2, <1>5, <1>7 DEF InWindow
  <2>3. ASSUME NEW t \in Times, uses[<<a, t>>] # 0, FloorOf(a) <= t PROVE FloorOf(a) < ts
    <3>1. t < ts /\ t \in Nat
      BY <2>3, <1>4 DEF Times
    <3> QED BY <3>1, <2>3, <1>2, <1>7
  <2> QED BY <2>1, <2>2, <2>3, <1>7 DEF DueTo
<1> QED BY <1>2, <1>5, <1>6, <1>7, <1>8

(* The agent's own steps. *)
LEMMA AgentSteps ==
  ASSUME ReplayAssumption, RequestsAssumption, RequestsTypeOK, IInv, OwnInv, NEW c \in Clients, ~IsPeer(c),
         call[c].pc # "body", AboveOwn(c), AgainAbove(c), mono[c] <= mono'[c],
         \/ Send(c) \/ NewProcess(c) \/ SignAgain(c) \/ SendAgain(c) \/ Return(c) \/ Lose(c)
         \/ Refuse(c) \/ JudgeCall(c)
  PROVE  call'[c].pc # "body" /\ AboveOwn(c)' /\ AgainAbove(c)'
<1>1. /\ mono \in [Clients -> 0..MaxTime] /\ call \in [Clients -> CallType \cup {NoCall}] /\ mono[c] \in Nat
      /\ lives \in Nat /\ lives >= 1 /\ start \in Nat /\ earlier \subseteq Signers \X Times
      /\ SignerOf[c] \in Signers
  BY DEF RequestsTypeOK, ReplayTypeOK, Times, RequestsAssumption
<1>2. \A x \in taken \cup earlier : x[2] \in Nat /\ (x[1] = SignerOf[c] => x[2] <= mono[c])
  BY <1>1 DEF AboveOwn, taken, Times
<1>3. call[c].pc # "none" => call[c] \in CallType
  BY <1>1 DEF NoCall
<1>4. earlier' = earlier /\ lives' = lives /\ start' = start
  BY DEF Send, NewProcess, SignAgain, SendAgain, Return, Lose, Refuse, JudgeCall, Judge, replayVars
<1>5. ASSUME UNCHANGED uses PROVE taken' = taken
  BY <1>5 DEF taken
<1>6. ASSUME NEW n \in Nat, NEW r, NEW q, NEW l \in Nat, n > mono[c], n > 0, l <= lives,
             r = FALSE \/ (r = TRUE /\ (l = lives => start <= n)), UNCHANGED uses,
             mono' = [mono EXCEPT ![c] = n], call' = [call EXCEPT ![c] = Signed(n, r, q, l)]
      PROVE  call'[c].pc # "body" /\ AboveOwn(c)' /\ AgainAbove(c)'
  <2>1. mono'[c] = n /\ call'[c] = Signed(n, r, q, l)
    BY <1>1, <1>6
  <2>2. /\ call'[c].pc = "sent" /\ call'[c].ts = n /\ call'[c].resent = r /\ call'[c].era = l
    BY <2>1, SignedFields
  <2>3. AboveOwn(c)'
    BY <2>1, <2>2, <1>2, <1>4, <1>5, <1>6, <1>1 DEF AboveOwn
  <2>4. AgainAbove(c)'
    BY <2>1, <2>2, <1>4, <1>6, <1>1 DEF AgainAbove
  <2> QED BY <2>2, <2>3, <2>4
<1>7. ASSUME NEW l \in ClockOf(c) PROVE NextTime(c, l) \in Nat /\ NextTime(c, l) > mono[c]
  BY <1>1 DEF NextTime, MaxOf, ClockOf, Times
<1>8. CASE Send(c) \/ SendAgain(c)
  <2>1. PICK l \in ClockOf(c) :
          /\ mono' = [mono EXCEPT ![c] = NextTime(c, l)]
          /\ \E q : call' = [call EXCEPT ![c] = Signed(NextTime(c, l), FALSE, q, lives)]
    BY <1>8 DEF Send, SendAgain
  <2>2. UNCHANGED uses
    BY <1>8 DEF Send, SendAgain, replayVars
  <2> DEFINE n == NextTime(c, l)
  <2>5. mono' = [mono EXCEPT ![c] = n] /\ \E q : call' = [call EXCEPT ![c] = Signed(n, FALSE, q, lives)]
    BY <2>1
  <2>3. n \in Nat /\ n > mono[c]
    BY <1>7
  <2> HIDE DEF n
  <2>4. n > 0
    BY <2>3, <1>1
  <2>6. lives \in Nat /\ lives <= lives
    BY <1>1
  <2>7. PICK q : call' = [call EXCEPT ![c] = Signed(n, FALSE, q, lives)]
    BY <2>5
  <2> QED BY <2>2, <2>3, <2>4, <2>5, <2>6, <2>7, <1>6
<1>9. CASE NewProcess(c)
  <2>1. mono'[c] = 0 /\ mono[c] # 0
    BY <1>1, <1>9 DEF NewProcess
  <2> QED BY <2>1, <1>1
<1>10. CASE SignAgain(c)
  <2>1. call[c].pc = "answered" /\ call[c].answer = "stale" /\ UNCHANGED uses
    BY <1>10 DEF SignAgain, replayVars
  <2>2. call[c] \in CallType /\ call[c].told \in Nat /\ call[c].era \in Nat
    <3>1. call[c] \in CallType
      BY <2>1, <1>3
    <3>2. call[c].told \in Nat /\ call[c].era \in 1..MaxLives
      BY <3>1 DEF CallType
    <3> QED BY <3>1, <3>2
  <2>3. call[c].era <= lives /\ (call[c].era = lives => start <= call[c].told + 1)
    BY <2>1 DEF AgainAbove
  <2>4. PICK l \in ClockOf(c) :
          IF Adopts(call[c].told, l)
          THEN /\ RaisedTime(c, l) <= MaxTime
               /\ mono' = [mono EXCEPT ![c] = RaisedTime(c, l)]
               /\ call' = [call EXCEPT ![c] = Signed(RaisedTime(c, l), TRUE, call[c].retried, call[c].era)]
          ELSE /\ call' = [call EXCEPT ![c] = Ended(c, "notAdopted")]
               /\ UNCHANGED mono
    BY <1>10 DEF SignAgain
  <2>5. CASE Adopts(call[c].told, l)
    <3> DEFINE n == RaisedTime(c, l)
    <3>1. n \in Nat /\ n > mono[c] /\ n > call[c].told
      BY <2>2, <1>1 DEF RaisedTime, MaxOf, ClockOf, Times
    <3>2. mono' = [mono EXCEPT ![c] = n] /\ call' = [call EXCEPT ![c] = Signed(n, TRUE, call[c].retried, call[c].era)]
      BY <2>4, <2>5
    <3> HIDE DEF n
    <3>3. n > 0 /\ (call[c].era = lives => start <= n)
      BY <3>1, <2>2, <2>3, <1>1
    <3> QED BY <3>1, <3>2, <3>3, <2>1, <2>2, <2>3, <1>6
  <2>6. CASE ~Adopts(call[c].told, l)
    <3>1. mono' = mono /\ call'[c] = Ended(c, "notAdopted")
      BY <2>4, <2>6, <1>1
    <3>2. call'[c].pc = "done" /\ call'[c].answer = "notAdopted" /\ call'[c].era = 1
      BY <3>1, <2>2 DEF Ended, CallType
    <3> QED BY <3>1, <3>2, <2>1, <1>1, <1>2, <1>4, <1>5 DEF AboveOwn, AgainAbove
  <2> QED BY <2>5, <2>6
<1>11. CASE Return(c) \/ Lose(c)
  <2>1. mono' = mono /\ UNCHANGED uses /\ call[c] \in CallType
    BY <1>11, <1>3 DEF Return, Lose, replayVars
  <2>2. /\ call'[c].pc = "done" /\ call'[c].era = 1 /\ call'[c].resent = call[c].resent
        /\ call'[c].excused = call[c].excused
        /\ call'[c].answer = "lost" \/ (call[c].pc = "answered" /\ call'[c].answer = call[c].answer)
    <3>1. \/ call'[c] = Ended(c, "lost")
          \/ call[c].pc = "answered" /\ call'[c] = Ended(c, call[c].answer)
      BY <1>11, <1>1 DEF Return, Lose
    <3> QED BY <3>1, <2>1 DEF Ended, CallType
  <2>3. AboveOwn(c)'
    BY <2>1, <2>2, <1>2, <1>4, <1>5 DEF AboveOwn
  <2>4. AgainAbove(c)'
    BY <2>2, <1>1, <1>4 DEF AgainAbove
  <2> QED BY <2>2, <2>3, <2>4
<1>12. ASSUME NEW answer, Answered(c, answer), call[c] \in CallType
       PROVE  /\ call'[c].pc = "answered" /\ call'[c].answer = answer /\ call'[c].era = lives
              /\ call'[c].resent = call[c].resent
              /\ call'[c].told = IF answer = "stale" THEN FloorOf(SignerOf[c]) ELSE 0
              /\ call'[c].excused = (now < latest \/ call[c].era # lives)
  BY <1>1, <1>12 DEF Answered, CallType
<1>13. CASE Refuse(c)
  <2>1. /\ call[c].pc = "sent" /\ Answered(c, "refused") /\ mono' = mono /\ UNCHANGED uses
        /\ call[c] \in CallType
    BY <1>13, <1>3 DEF Refuse, replayVars
  <2>2. call'[c].pc = "answered" /\ call'[c].answer = "refused" /\ call'[c].era = lives
    BY <2>1, <1>12
  <2> QED BY <2>1, <2>2, <1>1, <1>2, <1>4, <1>5 DEF AboveOwn, AgainAbove
<1>14. CASE JudgeCall(c)
  <2> DEFINE a == SignerOf[c]
             ts == call[c].ts
             v == Verdict(a, ts)
  <2>1. call[c].pc = "sent" /\ Answered(c, v) /\ mono' = mono /\ (\E k : Judge(a, ts, k)) /\ call[c] \in CallType
    BY <1>14, <1>3 DEF JudgeCall
  <2>2. ts \in Times /\ ts <= mono[c]
    BY <2>1 DEF CallType, AgainAbove
  <2>3. /\ call'[c].pc = "answered" /\ call'[c].answer = v /\ call'[c].era = lives
        /\ call'[c].resent = call[c].resent
        /\ call'[c].told = IF v = "stale" THEN FloorOf(a) ELSE 0
        /\ call'[c].excused = (now < latest \/ call[c].era # lives)
    BY <2>1, <1>12
  <2>4. \A x \in taken' : x \in taken \/ x = <<a, ts>>
    BY <2>1, <2>2, <1>1, JudgeTakes DEF RequestsTypeOK
  <2>5. AboveOwn(c)'
    <3>1. ASSUME NEW x \in taken' \cup earlier', x[1] = a PROVE x[2] <= mono[c]
      BY <3>1, <2>2, <2>4, <1>2, <1>4
    <3> QED BY <3>1, <2>1, <2>3 DEF AboveOwn
  <2>6. start <= FloorOf(a) + 1
    <3>1. Sound(signer, a) /\ start <= gone[ShardOf[a]] + 1
      BY <1>1 DEF IInv, Good, ReplayAssumption
    <3> QED BY <3>1 DEF Sound, FloorOf
  <2>7. call[c].resent /\ v \in {"stale", "replayed"} => now < latest \/ call[c].era # lives
    BY <2>1, AgainIsAccepted
  <2> HIDE DEF v
  <2>8. call'[c].resent /\ call'[c].answer \in {"stale", "replayed"} => call'[c].excused
    BY <2>3, <2>7, Zenon
  <2>9. AgainAbove(c)'
    <3>1. call'[c].answer = "stale" => start <= call'[c].told + 1
      BY <2>3, <2>6
    <3>2. call'[c].pc = "answered" /\ call'[c].era = lives
      BY <2>3
    <3> HIDE DEF ts, a
    <3> QED BY <3>1, <3>2, <2>8, <1>1, <1>4 DEF AgainAbove
  <2> QED BY <2>3, <2>5, <2>9
<1> QED BY <1>8, <1>9, <1>10, <1>11, <1>13, <1>14

(* Whatever happens, what an agent has in flight stays above what was taken from it. *)
LEMMA DaemonKeeps ==
  ASSUME ReplayAssumption, RequestsAssumption, OneProcess, RequestsTypeOK, IInv, OwnInv, AgentInv,
         [DaemonNext]_vars
  PROVE  AgentInv'
<1> SUFFICES ASSUME NEW c \in Clients, ~IsPeer(c) PROVE call'[c].pc # "body" /\ AboveOwn(c)' /\ AgainAbove(c)'
  BY DEF AgentInv, IsPeer
<1>1. call[c].pc # "body" /\ AboveOwn(c) /\ AgainAbove(c)
  BY DEF AgentInv
<1>2. /\ mono \in [Clients -> 0..MaxTime] /\ call \in [Clients -> CallType \cup {NoCall}]
      /\ earlier \subseteq Signers \X Times /\ lives \in Nat /\ lives >= 1 /\ ReplayTypeOK
      /\ start \in Nat
  BY DEF RequestsTypeOK, ReplayTypeOK, Times
<1>3. ASSUME UNCHANGED uses PROVE taken' = taken
  BY <1>3 DEF taken
<1>4. ASSUME NEW d \in Clients, d # c,
             \/ Send(d) \/ NewProcess(d) \/ SignAgain(d) \/ SendAgain(d) \/ Return(d) \/ Lose(d)
             \/ PeerHeaders(d) \/ Refuse(d)
      PROVE  call'[c].pc # "body" /\ AboveOwn(c)' /\ AgainAbove(c)'
  <2>1. UNCHANGED <<uses, start, earlier, lives>>
    BY <1>4 DEF Send, NewProcess, SignAgain, SendAgain, Return, Lose, PeerHeaders, Refuse, replayVars
  <2>2. (call' = call \/ \E r : call' = [call EXCEPT ![d] = r]) /\ (mono' = mono \/ \E n : mono' = [mono EXCEPT ![d] = n])
    <3>1. CASE Send(d) \/ NewProcess(d) \/ SendAgain(d)
      BY <3>1 DEF Send, NewProcess, SendAgain
    <3>2. CASE SignAgain(d)
      BY <3>2 DEF SignAgain
    <3>3. CASE Return(d) \/ Lose(d) \/ Refuse(d)
      BY <3>3 DEF Return, Lose, Refuse, Answered
    <3>4. CASE PeerHeaders(d)
      BY <3>4 DEF PeerHeaders, Answered
    <3> QED BY <1>4, <3>1, <3>2, <3>3, <3>4
  <2>3. call'[c] = call[c] /\ mono'[c] = mono[c]
    BY <2>2, <1>2, <1>4
  <2> QED BY <2>1, <2>3, <1>1, <1>3, AgentIsLeftAlone
<1>5. ASSUME NEW d \in Clients, d # c, JudgeCall(d)
      PROVE  call'[c].pc # "body" /\ AboveOwn(c)' /\ AgainAbove(c)'
  <2>1. SignerOf[d] # SignerOf[c] /\ SignerOf[d] \in Signers
    BY <1>5 DEF OneProcess, RequestsAssumption
  <2>2. call[d].pc \in {"sent", "body"} /\ (\E k : Judge(SignerOf[d], call[d].ts, k))
        /\ UNCHANGED <<mono, earlier, lives>> /\ \E v : Answered(d, v)
    BY <1>5 DEF JudgeCall
  <2>3. call[d].ts \in Times
    <3>1. call[d] \in CallType
      BY <2>2, <1>2 DEF NoCall
    <3> QED BY <3>1 DEF CallType
  <2>4. \A x \in taken' : x \in taken \/ x = <<SignerOf[d], call[d].ts>>
    BY <2>1, <2>2, <2>3, <1>2, JudgeTakes
  <2>5. start' = start
    BY <2>2 DEF Judge
  <2>6. \E r : call' = [call EXCEPT ![d] = r]
    BY <2>2 DEF Answered
  <2>7. call'[c] = call[c]
    BY <2>6, <1>2, <1>5
  <2>8. \A x \in taken' \cup earlier' : x[1] = SignerOf[c] => x \in taken \cup earlier
    BY <2>1, <2>2, <2>4
  <2> QED BY <2>2, <2>5, <2>7, <2>8, <1>1, AgentIsLeftAlone
<1>6. ASSUME NEW x \in taken \cup earlier, Redeliver(x)
      PROVE  call'[c].pc # "body" /\ AboveOwn(c)' /\ AgainAbove(c)'
  <2>1. x \in Signers \X Times
    BY <1>2 DEF taken
  <2>2. x[1] \in Signers /\ x[2] \in Times /\ x = <<x[1], x[2]>>
    BY <2>1
  <2>3. (\E k : Judge(x[1], x[2], k)) /\ UNCHANGED <<mono, call, earlier, lives>>
    BY <1>6 DEF Redeliver
  <2>4. \A y \in taken' : y \in taken \/ y = x
    BY <2>2, <2>3, <1>2, JudgeTakes
  <2>5. start' = start
    BY <2>3 DEF Judge
  <2> QED BY <2>3, <2>4, <2>5, <1>1, AgentIsLeftAlone
<1>7. CASE HubStep \/ UNCHANGED vars
  <2>1. UNCHANGED <<uses, start, mono, call, earlier, lives>>
    BY <1>7 DEF HubStep, SweepNext, ValveSweeps, Relieve, ValveCloses, Clock, vars, replayVars
  <2> QED BY <2>1, <1>1, <1>3, AgentIsLeftAlone
<1>8. CASE HubRestart
  <2>1. lives' = lives + 1 /\ earlier' = earlier \cup taken /\ UNCHANGED <<mono, call>> /\ uses' = Unused
    BY <1>8 DEF HubRestart, ReplayRestart, Fresh
  <2>2. taken' = {}
    BY <2>1 DEF taken, Unused
  <2>3. AboveOwn(c)'
    BY <2>1, <2>2, <1>1 DEF AboveOwn
  <2>4. call[c].pc # "none" => call[c].era \in Nat
    <3> SUFFICES ASSUME call[c].pc # "none" PROVE call[c].era \in Nat
      OBVIOUS
    <3>1. call[c] \in CallType
      BY <1>2 DEF NoCall
    <3>2. call[c].era \in 1..MaxLives
      BY <3>1 DEF CallType
    <3> QED BY <3>2
  <2>5. AgainAbove(c)'
    BY <2>1, <2>4, <1>1, <1>2 DEF AgainAbove
  <2> QED BY <2>1, <2>3, <2>5, <1>1
<1>9. ASSUME \/ Send(c) \/ NewProcess(c) \/ SignAgain(c) \/ SendAgain(c) \/ Return(c) \/ Lose(c)
             \/ Refuse(c) \/ JudgeCall(c),
             mono[c] <= mono'[c]
      PROVE  call'[c].pc # "body" /\ AboveOwn(c)' /\ AgainAbove(c)'
  BY <1>9, <1>1, AgentSteps
<1>10. ~PeerHeaders(c)
  BY DEF PeerHeaders
<1> QED BY <1>4, <1>5, <1>6, <1>7, <1>8, <1>9, <1>10 DEF DaemonNext, RequestsNext

\* No signer is refused for another's requests: what RC1 holds of a signer was taken from
\* it, and its floor is due to its own times or lies outside the window (rc1State).
THEOREM ReplayRefusesForOwn ==
  ASSUME ReplayAssumption
  PROVE  ReplaySpec => []RefusedForOwn
<1>1. ReplayInit => OwnInv
  BY InitIsOwn
<1>2. IInv /\ OwnInv /\ [ReplayStep]_replayVars => OwnInv'
  BY StepKeepsOwn
<1>3. IInv /\ OwnInv => RefusedForOwn
  BY OwnIsOwnTimes DEF IInv
<1> QED BY <1>1, <1>2, <1>3, ReplayIsTakenOnce, PTL DEF ReplaySpec

\* And beside the clients: a request signed again, sent again or delivered again raises
\* the floor of its own signer alone.
THEOREM RequestsRefuseForOwn ==
  ASSUME ReplayAssumption, RequestsAssumption
  PROVE  RequestsSpec => [](OwnInv /\ RefusedForOwn)
<1>1. RequestsInit => OwnInv
  BY InitIsOwn DEF RequestsInit
<1>2. RequestsTypeOK /\ IInv /\ OwnInv /\ [RequestsNext]_vars => OwnInv'
  BY ClientsStepRC1, StepKeepsOwn
<1>3. RequestsTypeOK /\ OwnInv => RefusedForOwn
  BY OwnIsOwnTimes DEF RequestsTypeOK
<1> QED BY <1>1, <1>2, <1>3, RequestsAreSound, PTL DEF RequestsSpec

\* Agents that sign one request at a time with one clock that only goes up, whatever the
\* others, the network and the hub do: what they have in flight is above what was taken
\* from them, and the one signed again above the floor they were told is refused for its
\* time no more (Signer.Do).
THEOREM AgentsAreTakenAgain ==
  ASSUME ReplayAssumption, RequestsAssumption, OneProcess
  PROVE  DaemonSpec => [](AgentInv /\ SignedAgainIsTaken)
<1>1. RequestsInit => RequestsTypeOK /\ IInv /\ OwnInv /\ AgentInv
  <2> SUFFICES ASSUME RequestsInit PROVE RequestsTypeOK /\ IInv /\ OwnInv /\ AgentInv
    OBVIOUS
  <2>1. IInv /\ OwnInv
    BY InitHolds, InitIsOwn DEF RequestsInit
  <2>2. ReplayTypeOK /\ 0 \in 0..MaxTime /\ 1 \in 1..MaxLives
    BY <2>1 DEF IInv, ReplayAssumption, RequestsAssumption
  <2>3. RequestsTypeOK
    BY <2>2 DEF RequestsInit, RequestsTypeOK
  <2>4. taken = {} /\ earlier = {} /\ \A c \in Clients : call[c].pc = "none"
    BY DEF RequestsInit, ReplayInit, taken, Unused, NoCall
  <2>5. AgentInv
    BY <2>4 DEF AgentInv, AboveOwn, AgainAbove
  <2> QED BY <2>1, <2>3, <2>5
<1>2. RequestsTypeOK /\ IInv /\ OwnInv /\ AgentInv /\ [DaemonNext]_vars => OwnInv' /\ AgentInv'
  <2> SUFFICES ASSUME RequestsTypeOK, IInv, OwnInv, AgentInv, [DaemonNext]_vars PROVE OwnInv' /\ AgentInv'
    OBVIOUS
  <2>1. [RequestsNext]_vars
    BY DEF DaemonNext
  <2> QED BY <2>1, ClientsStepRC1, StepKeepsOwn, DaemonKeeps
<1>3. AgentInv => SignedAgainIsTaken
  BY DEF AgentInv, AgainAbove, SignedAgainIsTaken
<1>4. DaemonSpec => RequestsSpec
  <2>1. [DaemonNext]_vars => [RequestsNext]_vars
    BY DEF DaemonNext
  <2> QED BY <2>1, PTL DEF DaemonSpec, RequestsSpec
<1> QED BY <1>1, <1>2, <1>3, <1>4, RequestsAreSound, PTL DEF DaemonSpec
=============================================================================
