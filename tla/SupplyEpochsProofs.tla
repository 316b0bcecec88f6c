------------------------- MODULE SupplyEpochsProofs -------------------------
(***************************************************************************)
(* Proofs about SupplyEpochs: for every value of the constants, the        *)
(* published epochs cover the days once and in order, each of them adds up *)
(* enough, the schedule is never EpochDays behind once it has handled a    *)
(* day, and a user's proof is refused only past its epoch's time.          *)
(*                                                                         *)
(* ChainContiguous and EpochsAddUp are inductive once the two columns of   *)
(* supply_totals are tied to the chain (TotalsMatch): last_to_day is the   *)
(* newest epoch's day, and events_since_publish the events since it.       *)
(* CheckedDaily also needs to hold while the schedule prunes, and that the *)
(* day it saw last is not ahead of the clock (ScheduleInv).  A refused     *)
(* proof needs that whatever leaves are missing, or about to be deleted,   *)
(* are of epochs past their time (LeavesInv).                              *)
(***************************************************************************)
EXTENDS SupplyEpochs, TLAPS

Epoch == [from: Int, to: Int, at: Nat, total: Nat]

ChainTyped ==
  /\ now \in Nat /\ events \in Nat /\ total \in Nat
  /\ last \in Int /\ last >= NoDay
  /\ chain \in Seq(Epoch)

\* supply_totals against the chain.
TotalsMatch ==
  IF chain = <<>> THEN events = total
  ELSE /\ last = chain[Len(chain)].to
       /\ last # NoDay
       /\ events = total - chain[Len(chain)].total
       /\ \A i \in DOMAIN chain : chain[i].to <= last

ChainInv == ChainTyped /\ TotalsMatch /\ ChainContiguous /\ EpochsAddUp

\* The day of a time is a number, and time does not run backwards.
LEMMA DaysGrow ==
  ASSUME NEW t \in Nat
  PROVE  utcDay(t) \in Nat /\ utcDay(t) <= utcDay(t + 1)
  BY SupplyAssumption DEF utcDay
-----------------------------------------------------------------------------
(* The chain. *)

chainVars == <<now, events, total, last, chain>>

\* Publication keeps the chain in order and adds up what it publishes.
LEMMA PublishKeeps ==
  ASSUME ChainInv, PublishDue(Today - 1), UNCHANGED <<now, total>>
  PROVE  ChainInv'
<1>. DEFINE d == Today - 1
            e == [from |-> last + 1, to |-> d, at |-> now, total |-> total]
<1>1. Today \in Nat
  BY DaysGrow DEF ChainInv, ChainTyped, Today
<1>2. CASE UNCHANGED <<chain, kept, events, last>>
  BY <1>2 DEF ChainInv, ChainTyped, TotalsMatch, ChainContiguous, EpochsAddUp, EventsOf
<1>3. CASE /\ Due(d) /\ chain' = Append(chain, e) /\ events' = 0 /\ last' = d
  <2>1. e \in Epoch /\ chain \in Seq(Epoch)
    BY <1>1 DEF ChainInv, ChainTyped, Epoch
  <2>2. /\ Len(chain) \in Nat /\ Len(chain') = Len(chain) + 1
        /\ DOMAIN chain = 1 .. Len(chain) /\ DOMAIN chain' = 1 .. Len(chain) + 1
        /\ chain' \in Seq(Epoch) /\ chain' # <<>>
        /\ chain'[Len(chain) + 1] = e
        /\ \A i \in DOMAIN chain : chain'[i] = chain[i] /\ chain[i] \in Epoch
    BY <2>1, <1>3
  <2>3. last # NoDay /\ d > last /\ (events >= EpochEvents \/ d - last >= EpochDays)
    BY <1>3 DEF Due
  <2>4. ChainTyped'
    BY <1>1, <1>3, <2>2, <2>3 DEF ChainInv, ChainTyped, NoDay
  <2>5. TotalsMatch'
    <3>1. d # NoDay
      BY <1>1, <2>3 DEF ChainInv, ChainTyped, NoDay
    <3>2. \A i \in DOMAIN chain : chain[i].to < d
      <4>1. CASE chain = <<>>
        BY <4>1
      <4>2. CASE chain # <<>>
        BY <4>2, <1>1, <2>2, <2>3 DEF ChainInv, ChainTyped, TotalsMatch, Epoch
      <4>. QED BY <4>1, <4>2
    <3>3. e.total = total /\ e.to = d /\ total' = total /\ total - total = 0
      BY DEF ChainInv, ChainTyped
    <3>4. ASSUME NEW i \in DOMAIN chain' PROVE chain'[i].to <= d
      <4>1. CASE i \in DOMAIN chain
        BY <4>1, <1>1, <2>2, <3>2 DEF Epoch
      <4>2. CASE i = Len(chain) + 1
        BY <4>2, <1>1, <2>2, <3>3
      <4>. QED BY <4>1, <4>2, <2>2
    <3>. QED BY <1>3, <2>2, <3>1, <3>3, <3>4 DEF TotalsMatch
  <2>6. ChainContiguous'
    <3>1. ASSUME NEW i \in DOMAIN chain'
          PROVE  /\ chain'[i].from <= chain'[i].to
                 /\ chain'[i].to < utcDay(chain'[i].at)
                 /\ i > 1 => chain'[i].from = chain'[i - 1].to + 1
      <4>1. CASE i \in DOMAIN chain
        BY <4>1, <2>2 DEF ChainInv, ChainContiguous
      <4>2. CASE i = Len(chain) + 1
        <5>1. i > 1 => /\ i - 1 = Len(chain) /\ chain'[i - 1] = chain[Len(chain)]
                       /\ last = chain[Len(chain)].to
          BY <4>2, <2>2 DEF ChainInv, TotalsMatch
        <5>2. e.from <= e.to /\ e.to < utcDay(e.at)
          BY <1>1, <2>3 DEF ChainInv, ChainTyped, Today
        <5>. QED BY <4>2, <5>1, <5>2, <2>2
      <4>. QED BY <4>1, <4>2, <2>2
    <3>2. last' = chain'[Len(chain')].to
      BY <1>3, <2>2
    <3>. QED BY <3>1, <3>2 DEF ChainContiguous
  <2>7. EpochsAddUp'
    <3>1. ASSUME NEW i \in DOMAIN chain'
          PROVE  EventsOf(i)' >= EpochEvents \/ chain'[i].to - chain'[i].from + 1 >= EpochDays
      <4>1. CASE i \in DOMAIN chain
        BY <4>1, <2>2 DEF ChainInv, EpochsAddUp, EventsOf
      <4>2. CASE i = Len(chain) + 1
        <5>1. EventsOf(i)' = events
          BY <4>2, <2>2 DEF EventsOf, ChainInv, ChainTyped, TotalsMatch
        <5>2. chain'[i].to - chain'[i].from + 1 = d - last
          BY <4>2, <2>2, <1>1 DEF ChainInv, ChainTyped
        <5>. QED BY <5>1, <5>2, <2>3
      <4>. QED BY <4>1, <4>2, <2>2
    <3>. QED BY <3>1 DEF EpochsAddUp
  <2>. QED BY <2>4, <2>5, <2>6, <2>7 DEF ChainInv
<1>. QED BY <1>2, <1>3 DEF PublishDue, NewEpoch

\* Every other step leaves the chain alone.
LEMMA OthersLeaveChain ==
  ASSUME SupplyNext \/ UNCHANGED vars
  PROVE  \/ Tick \/ SupplyEvent \/ Check
         \/ UNCHANGED chainVars
<1>1. ASSUME NEW p \in Pruners, PruneStep(p) PROVE UNCHANGED chainVars
  BY <1>1 DEF PruneStep, PruneList, PruneDelete, PruneDrop, PruneEnd, chainVars
<1>2. ASSUME NEW r \in Readers, ProofAsked(r) \/ ProofStep(r) PROVE UNCHANGED chainVars
  BY <1>2 DEF ProofAsked, ProofStep, ReadEpoch, ReadCache, LockBuild, ReadLeaves, PutTree,
    ProofAnswered, chainVars
<1>3. (Stop \/ Start \/ CheckFails \/ Wake \/ UNCHANGED vars) => UNCHANGED chainVars
  BY DEF Stop, Start, CheckFails, Wake, vars, chainVars
<1>. QED BY <1>1, <1>2, <1>3 DEF SupplyNext

LEMMA ChainInvInit == SupplyInit => ChainInv
<1>. SUFFICES ASSUME SupplyInit PROVE ChainInv
  OBVIOUS
<1>1. now \in Nat /\ events = 0 /\ total = 0 /\ last = NoDay /\ chain = <<>>
  BY SupplyAssumption DEF SupplyInit, FirstDay
<1>2. chain \in Seq(Epoch) /\ DOMAIN chain = {}
  BY <1>1
<1>. QED BY <1>1, <1>2 DEF ChainInv, ChainTyped, TotalsMatch, ChainContiguous, EpochsAddUp, NoDay

LEMMA ChainInvStep == ChainInv /\ [SupplyNext]_vars => ChainInv'
<1>. SUFFICES ASSUME ChainInv, SupplyNext \/ UNCHANGED vars PROVE ChainInv'
  OBVIOUS
<1>1. CASE Tick
  BY <1>1 DEF Tick, ChainInv, ChainTyped, TotalsMatch, ChainContiguous, EpochsAddUp, EventsOf
<1>2. CASE SupplyEvent
  <2>1. Today \in Nat
    BY DaysGrow DEF ChainInv, ChainTyped, Today
  <2>2. ChainTyped'
    BY <1>2, <2>1 DEF SupplyEvent, ChainInv, ChainTyped, NoDay
  <2>3. chain = <<>> => DOMAIN chain = {}
    OBVIOUS
  <2>4. chain # <<>> => last' = last /\ chain[Len(chain)] \in Epoch
    BY <1>2 DEF SupplyEvent, ChainInv, ChainTyped, TotalsMatch
  <2>5. chain' = chain /\ events' = events + 1 /\ total' = total + 1 /\ events \in Nat /\ total \in Nat
    BY <1>2 DEF SupplyEvent, ChainInv, ChainTyped
  <2>6. CASE chain = <<>>
    <3>1. events = total
      BY <2>6 DEF ChainInv, TotalsMatch
    <3>2. TotalsMatch'
      BY <2>5, <2>6, <3>1 DEF TotalsMatch
    <3>3. ChainContiguous' /\ EpochsAddUp'
      BY <2>3, <2>5, <2>6 DEF ChainContiguous, EpochsAddUp
    <3>. QED BY <2>2, <3>2, <3>3 DEF ChainInv
  <2>7. CASE chain # <<>>
    <3>. DEFINE t == chain[Len(chain)].total
    <3>1. last' = last /\ t \in Nat
      BY <2>4, <2>7 DEF Epoch
    <3>2. /\ last = chain[Len(chain)].to /\ last # NoDay /\ events = total - t
          /\ \A i \in DOMAIN chain : chain[i].to <= last
      BY <2>7 DEF ChainInv, TotalsMatch
    <3>3. events + 1 = (total + 1) - t
      BY <2>5, <3>1, <3>2
    <3>. HIDE DEF t
    <3>4. events' = total' - t
      BY <2>5, <3>3
    <3>5. TotalsMatch'
      BY <2>5, <2>7, <3>1, <3>2, <3>4 DEF TotalsMatch, t, NoDay
    <3>6. ChainContiguous' /\ EpochsAddUp'
      BY <2>5, <3>1 DEF ChainInv, ChainContiguous, EpochsAddUp, EventsOf
    <3>. QED BY <2>2, <3>5, <3>6 DEF ChainInv
  <2>. QED BY <2>6, <2>7
<1>3. CASE Check
  BY <1>3, PublishKeeps DEF Check
<1>4. CASE UNCHANGED chainVars
  BY <1>4 DEF chainVars, ChainInv, ChainTyped, TotalsMatch, ChainContiguous, EpochsAddUp, EventsOf
<1>. QED BY <1>1, <1>2, <1>3, <1>4, OthersLeaveChain

THEOREM ChainInvariant == SupplySpec => []ChainInv
  BY ChainInvInit, ChainInvStep, PTL DEF SupplySpec

\* The published epochs cover the days once and in order (publishDueAt), over
\* any number of restarts, failed checks and supply events.
THEOREM SupplyChainContiguous == SupplySpec => []ChainContiguous
<1>1. ChainInv => ChainContiguous
  BY DEF ChainInv
<1>. QED BY <1>1, ChainInvariant, PTL

\* Every published epoch adds up EpochEvents events or EpochDays days
\* (publishDueAt and supplyEventTx, PAY-S2).
THEOREM SupplyEpochsAddUp == SupplySpec => []EpochsAddUp
<1>1. ChainInv => EpochsAddUp
  BY DEF ChainInv
<1>. QED BY <1>1, ChainInvariant, PTL
-----------------------------------------------------------------------------
(* The schedule. *)

Schedule == [phase: {"check", "prune", "wait"}, day: Nat, again: BOOLEAN]

\* The schedule's round: its day is not ahead, and its pruning runs only in it.
ScheduleTyped ==
  /\ up \in BOOLEAN
  /\ IF up THEN loop \in Schedule /\ loop.day <= Today ELSE loop = Idle
  /\ DOMAIN prune = Pruners
  /\ prune["schedule"] # Idle => up /\ loop.phase = "prune"

\* CheckedDaily from the check on, while the schedule prunes too.
Handled ==
  (up /\ loop.phase \in {"prune", "wait"} /\ loop.day = Today /\ ~loop.again /\ last # NoDay)
    => Today - 1 - last < EpochDays

ScheduleInv == ChainInv /\ ScheduleTyped /\ Handled

LEMMA ScheduleInvInit == SupplyInit => ScheduleInv
<1>. SUFFICES ASSUME SupplyInit PROVE ScheduleInv
  OBVIOUS
<1>1. ScheduleTyped /\ Handled
  BY DEF SupplyInit, ScheduleTyped, Handled, Pruners
<1>. QED BY <1>1, ChainInvInit DEF ScheduleInv

\* A pruner's step keeps the schedule's round.
LEMMA PruneKeeps ==
  ASSUME ScheduleInv, NEW p \in Pruners, PruneStep(p)
  PROVE  ScheduleTyped' /\ Handled'
<1>1. now' = now /\ up' = up /\ last' = last /\ Today' = Today /\ DOMAIN prune' = Pruners
  BY DEF PruneStep, PruneList, PruneDelete, PruneDrop, PruneEnd, ScheduleInv, ScheduleTyped, Today
<1>2. ASSUME UNCHANGED loop PROVE Handled'
  BY <1>1, <1>2 DEF ScheduleInv, Handled
<1>3. CASE p = "janitor" \/ PruneList(p) \/ PruneDelete(p) \/ PruneDrop(p)
  <2>1. UNCHANGED loop
    BY <1>3 DEF PruneStep, PruneList, PruneDelete, PruneDrop, PruneEnd
  <2>2. prune'["schedule"] # Idle => up /\ loop.phase = "prune"
    <3>1. CASE p = "janitor"
      BY <3>1 DEF PruneStep, PruneList, PruneDelete, PruneDrop, PruneEnd, ScheduleInv, ScheduleTyped,
        Pruners
    <3>2. CASE p = "schedule" /\ PruneList(p)
      BY <3>2 DEF PruneList
    <3>3. CASE p = "schedule" /\ (PruneDelete(p) \/ PruneDrop(p))
      BY <3>3 DEF PruneDelete, PruneDrop, ScheduleInv, ScheduleTyped, Idle
    <3>. QED BY <1>3, <3>1, <3>2, <3>3 DEF Pruners
  <2>. QED BY <1>1, <1>2, <2>1, <2>2 DEF ScheduleInv, ScheduleTyped
<1>4. CASE p = "schedule" /\ PruneEnd(p)
  <2>1. up /\ loop.phase = "prune" /\ loop \in Schedule
    BY <1>4 DEF PruneEnd, ScheduleInv, ScheduleTyped, Idle
  <2>2. loop' = [loop EXCEPT !.phase = "wait"] /\ prune'["schedule"] = Idle
    BY <1>4 DEF PruneEnd, ScheduleInv, ScheduleTyped
  <2>3. /\ loop' \in Schedule /\ loop'.day = loop.day /\ loop'.again = loop.again
    BY <2>1, <2>2 DEF Schedule
  <2>. QED BY <1>1, <2>1, <2>2, <2>3 DEF ScheduleInv, ScheduleTyped, Handled
<1>. QED BY <1>3, <1>4 DEF PruneStep, Pruners

\* A check leaves the chain at most EpochDays - 1 behind.
LEMMA CheckHandles ==
  ASSUME ScheduleInv, Check
  PROVE  ScheduleTyped' /\ Handled'
<1>1. Today \in Nat /\ Today' = Today /\ last \in Int /\ up' = up /\ last' \in Int
  BY DaysGrow DEF Check, PublishDue, ScheduleInv, ChainInv, ChainTyped, Today
<1>2. up /\ loop \in Schedule /\ loop.day <= Today /\ prune' = prune /\ prune["schedule"] = Idle
  BY DEF Check, ScheduleInv, ScheduleTyped, Idle
<1>3. loop' \in Schedule /\ loop'.day = loop.day
  BY <1>2 DEF Check, Schedule
<1>4. (last' # NoDay) => Today - 1 - last' < EpochDays
  <2>1. CASE last' = Today - 1
    BY <2>1, <1>1, SupplyAssumption
  <2>2. CASE last' = last /\ ~Due(Today - 1)
    BY <2>2, <1>1, SupplyAssumption DEF Due
  <2>3. Due(Today - 1) => \A i \in DOMAIN chain : chain[i].to # Today - 1
    <3>1. CASE chain = <<>>
      BY <3>1
    <3>2. CASE chain # <<>>
      <4>1. \A i \in DOMAIN chain : chain[i].to \in Int /\ chain[i].to <= last
        <5>1. \A i \in DOMAIN chain : chain[i] \in Epoch
          BY DEF ScheduleInv, ChainInv, ChainTyped
        <5>. QED BY <3>2, <5>1 DEF ScheduleInv, ChainInv, TotalsMatch, Epoch
      <4>. QED BY <4>1, <1>1 DEF Due
    <3>. QED BY <3>1, <3>2
  <2>. QED BY <2>1, <2>2, <2>3 DEF Check, PublishDue
<1>. QED BY <1>1, <1>2, <1>3, <1>4 DEF ScheduleInv, ScheduleTyped, Handled

LEMMA ScheduleInvStep == ScheduleInv /\ [SupplyNext]_vars => ScheduleInv'
<1>. SUFFICES ASSUME ScheduleInv, SupplyNext \/ UNCHANGED vars PROVE ScheduleInv'
  OBVIOUS
<1>1. ChainInv'
  BY ChainInvStep DEF ScheduleInv
<1>2. now \in Nat /\ last \in Int /\ Today \in Nat /\ Today <= utcDay(now + 1) /\ utcDay(now + 1) \in Nat
  <2>1. now \in Nat /\ now + 1 \in Nat /\ last \in Int
    BY DEF ScheduleInv, ChainInv, ChainTyped
  <2>. QED BY <2>1, DaysGrow DEF Today
<1>3. CASE Tick
  <2>1. Today' = utcDay(now + 1) /\ UNCHANGED <<up, loop, prune, last>>
    BY <1>3 DEF Tick, Today
  <2>. QED BY <1>1, <1>2, <2>1 DEF ScheduleInv, ScheduleTyped, Handled, Schedule
<1>4. CASE SupplyEvent
  <2>1. /\ Today' = Today /\ UNCHANGED <<up, loop, prune>>
        /\ last' = Today - 1 \/ (last' = last /\ last # NoDay)
    BY <1>4 DEF SupplyEvent, Today
  <2>2. ScheduleTyped'
    BY <2>1 DEF ScheduleInv, ScheduleTyped
  <2>3. ASSUME last' = Today - 1 PROVE Handled'
    <3>1. Today' - 1 - last' < EpochDays
      BY <1>2, <2>1, <2>3, SupplyAssumption
    <3>. QED BY <3>1 DEF Handled
  <2>4. ASSUME last' = last, last # NoDay PROVE Handled'
    <3>1. Today' = Today /\ up' = up /\ loop' = loop /\ last' = last
      BY <2>1, <2>4
    <3>. QED BY <3>1 DEF ScheduleInv, Handled
  <2>. QED BY <1>1, <2>1, <2>2, <2>3, <2>4 DEF ScheduleInv
<1>5. CASE Stop \/ Start
  <2>1. CASE Stop
    BY <1>1, <2>1 DEF Stop, ScheduleInv, ScheduleTyped, Handled, Pruners
  <2>2. CASE Start
    <3>1. Today' = Today /\ up' /\ prune' = prune /\ prune["schedule"] = Idle
      BY <2>2 DEF Start, Today, ScheduleInv, ScheduleTyped
    <3>2. loop' = [phase |-> "check", day |-> Today, again |-> FALSE]
      BY <2>2 DEF Start
    <3>3. loop' \in Schedule /\ loop'.day = Today /\ loop'.phase = "check"
      BY <1>2, <3>2 DEF Schedule
    <3>4. DOMAIN prune = Pruners /\ up' = TRUE
      BY <2>2 DEF Start, ScheduleInv, ScheduleTyped
    <3>. QED BY <1>1, <1>2, <3>1, <3>3, <3>4 DEF ScheduleInv, ScheduleTyped, Handled
  <2>. QED BY <1>5, <2>1, <2>2
<1>6. CASE Check
  BY <1>1, <1>6, CheckHandles DEF ScheduleInv
<1>7. CASE CheckFails \/ Wake
  <2>1. up /\ loop \in Schedule /\ loop.day <= Today /\ prune["schedule"] = Idle
    BY <1>7 DEF CheckFails, Wake, ScheduleInv, ScheduleTyped, Idle
  <2>2. Today' = Today /\ UNCHANGED <<up, prune, last>>
    BY <1>7 DEF CheckFails, Wake, Today
  <2>3. CASE CheckFails
    <3>1. loop' \in Schedule /\ loop'.day = loop.day /\ loop'.again = TRUE
      BY <2>1, <2>3 DEF CheckFails, Schedule
    <3>. QED BY <1>1, <2>1, <2>2, <3>1 DEF ScheduleInv, ScheduleTyped, Handled
  <2>4. CASE Wake /\ (Today # loop.day \/ loop.again)
    <3>1. loop' \in Schedule /\ loop'.day = Today /\ loop'.phase = "check"
      BY <1>2, <2>1, <2>4 DEF Wake, Schedule
    <3>. QED BY <1>1, <1>2, <2>1, <2>2, <3>1 DEF ScheduleInv, ScheduleTyped, Handled
  <2>5. CASE Wake /\ Today = loop.day /\ ~loop.again
    <3>1. loop.phase = "wait" /\ loop' = [loop EXCEPT !.phase = "prune"]
      BY <2>5 DEF Wake
    <3>2. loop' \in Schedule /\ loop'.day = loop.day /\ loop'.again = loop.again
      BY <2>1, <3>1 DEF Schedule
    <3>. QED BY <1>1, <2>1, <2>2, <3>1, <3>2 DEF ScheduleInv, ScheduleTyped, Handled
  <2>. QED BY <1>7, <2>3, <2>4, <2>5
<1>8. ASSUME NEW p \in Pruners, PruneStep(p) PROVE ScheduleInv'
  BY <1>1, <1>8, PruneKeeps DEF ScheduleInv
<1>9. ASSUME NEW r \in Readers, ProofAsked(r) \/ ProofStep(r) PROVE ScheduleInv'
  <2>1. UNCHANGED <<now, up, last, loop, prune>>
    BY <1>9 DEF ProofAsked, ProofStep, ReadEpoch, ReadCache, LockBuild, ReadLeaves, PutTree, ProofAnswered
  <2>. QED BY <1>1, <2>1 DEF ScheduleInv, ScheduleTyped, Handled, Today
<1>10. CASE UNCHANGED vars
  BY <1>1, <1>10 DEF vars, ScheduleInv, ScheduleTyped, Handled, Today
<1>. QED BY <1>3, <1>4, <1>5, <1>6, <1>7, <1>8, <1>9, <1>10 DEF SupplyNext

THEOREM ScheduleInvariant == SupplySpec => []ScheduleInv
  BY ScheduleInvInit, ScheduleInvStep, PTL DEF SupplySpec

\* Once the schedule has handled a day without failing, fewer than EpochDays
\* days wait for an epoch (runSupplyEpochs, PAY-S2).
THEOREM SupplyCheckedDaily == SupplySpec => []CheckedDaily
<1>1. ScheduleInv => CheckedDaily
  BY DEF ScheduleInv, Handled, CheckedDaily
<1>. QED BY <1>1, ScheduleInvariant, PTL
-----------------------------------------------------------------------------
(* Types.  What the two invariants above leave: the clock began after the   *)
(* first day, so the day before today is a day, and the pruners' and the    *)
(* requests' states are theirs.                                             *)

Prunes == [phase: {"delete"}, old: SUBSET Nat]
            \cup [phase: {"drop"}, old: SUBSET Nat, day: Nat] \cup {Idle}
Asked == [phase: {"epoch", "cached", "lock", "leaves", "put"}, day: Nat, at: Nat]
Proofs == Asked \cup [phase: {"done"}, day: Nat, at: Nat, outcome: Answers] \cup {Idle}

ChainOfDays ==
  /\ now \in Nat /\ now >= DayLength /\ total \in Nat
  /\ last \in Nat \cup {NoDay}
  /\ chain \in Seq([from: Nat, to: Nat, at: Nat, total: Nat])

Work ==
  /\ cache \subseteq Nat /\ kept \subseteq Nat
  /\ prune \in [Pruners -> Prunes] /\ proof \in [Readers -> Proofs]

TypesInv == ScheduleInv /\ ChainOfDays /\ Work

\* The day that has ended is a day.
LEMMA Yesterday ==
  ASSUME NEW t \in Nat, t >= DayLength
  PROVE  utcDay(t) \in Nat /\ utcDay(t) - 1 \in Nat
<1>1. DayLength \in Nat /\ DayLength > 0
  BY SupplyAssumption
<1>2. t \div DayLength >= 1 /\ t \div DayLength \in Nat
  BY <1>1
<1>. QED BY <1>1, <1>2 DEF utcDay

LEMMA TypesInvInit == SupplyInit => TypesInv
<1>. SUFFICES ASSUME SupplyInit PROVE TypesInv
  OBVIOUS
<1>1. now \in Nat /\ now >= DayLength
  BY SupplyAssumption DEF SupplyInit, FirstDay
<1>2. ChainOfDays /\ Work
  BY <1>1 DEF SupplyInit, ChainOfDays, Work, Prunes, Proofs, NoDay
<1>. QED BY <1>2, ScheduleInvInit DEF TypesInv

\* A check appends an epoch of days.
LEMMA CheckKeepsDays ==
  ASSUME TypesInv, Check
  PROVE  ChainOfDays' /\ Work'
<1>1. Today \in Nat /\ Today - 1 \in Nat
  BY Yesterday DEF TypesInv, ChainOfDays, Today
<1>2. CASE UNCHANGED <<chain, kept, events, last>>
  BY <1>2 DEF TypesInv, ChainOfDays, Work, Check
<1>3. CASE /\ Due(Today - 1) /\ chain' = Append(chain, NewEpoch(Today - 1))
           /\ kept' = kept \cup {Today - 1} /\ last' = Today - 1
  <2>1. last + 1 \in Nat
    BY <1>3 DEF TypesInv, ChainOfDays, NoDay
  <2>2. NewEpoch(Today - 1) \in [from: Nat, to: Nat, at: Nat, total: Nat]
    BY <1>1, <2>1 DEF TypesInv, ChainOfDays, NewEpoch
  <2>. QED BY <1>1, <1>3, <2>2 DEF TypesInv, ChainOfDays, Work, Check
<1>. QED BY <1>2, <1>3 DEF Check, PublishDue

\* A pruner's list holds days of epochs, and what it deletes is of its list.
LEMMA PruneKeepsWork ==
  ASSUME TypesInv, NEW p \in Pruners, PruneStep(p)
  PROVE  ChainOfDays' /\ Work'
<1>1. prune \in [Pruners -> Prunes] /\ prune[p] \in Prunes /\ kept \subseteq Nat /\ cache \subseteq Nat
  BY DEF TypesInv, Work
<1>2. UNCHANGED <<now, up, events, last, chain, proof, total>>
  BY DEF PruneStep, PruneList, PruneDelete, PruneDrop, PruneEnd
<1>3. ASSUME NEW x \in Prunes, prune' = [prune EXCEPT ![p] = x], kept' \subseteq Nat, cache' \subseteq Nat
      PROVE  ChainOfDays' /\ Work'
  <2>1. prune' \in [Pruners -> Prunes]
    BY <1>1, <1>3
  <2>. QED BY <1>2, <1>3, <2>1 DEF TypesInv, ChainOfDays, Work
<1>4. CASE PruneList(p)
  <2>. DEFINE x == [phase |-> "delete", old |-> {d \in kept : Expired(d, now)}]
  <2>1. x \in Prunes
    BY <1>1 DEF Prunes
  <2>2. prune' = [prune EXCEPT ![p] = x] /\ UNCHANGED <<kept, cache>>
    BY <1>4 DEF PruneList
  <2>. QED BY <1>1, <1>3, <2>1, <2>2
<1>5. CASE PruneDelete(p)
  <2>1. prune[p].old \subseteq Nat
    BY <1>1, <1>5 DEF PruneDelete, Prunes, Idle
  <2>2. PICK d \in prune[p].old :
          /\ kept' = kept \ {d}
          /\ prune' = [prune EXCEPT ![p] = [phase |-> "drop", old |-> prune[p].old \ {d}, day |-> d]]
    BY <1>5 DEF PruneDelete
  <2>. DEFINE x == [phase |-> "drop", old |-> prune[p].old \ {d}, day |-> d]
  <2>3. x \in Prunes
    BY <2>1, <2>2 DEF Prunes
  <2>4. prune' = [prune EXCEPT ![p] = x] /\ kept' \subseteq Nat /\ cache' \subseteq Nat
    BY <1>1, <1>5, <2>2 DEF PruneDelete
  <2>. QED BY <1>3, <2>3, <2>4
<1>6. CASE PruneDrop(p)
  <2>1. prune[p].old \subseteq Nat
    BY <1>1, <1>6 DEF PruneDrop, Prunes, Idle
  <2>. DEFINE x == [phase |-> "delete", old |-> prune[p].old]
  <2>2. x \in Prunes
    BY <2>1 DEF Prunes
  <2>3. prune' = [prune EXCEPT ![p] = x] /\ kept' \subseteq Nat /\ cache' \subseteq Nat
    BY <1>1, <1>6 DEF PruneDrop
  <2>. QED BY <1>3, <2>2, <2>3
<1>7. CASE PruneEnd(p)
  <2>1. Idle \in Prunes /\ prune' = [prune EXCEPT ![p] = Idle] /\ UNCHANGED <<kept, cache>>
    BY <1>7 DEF PruneEnd, Prunes
  <2>. QED BY <1>1, <1>3, <2>1
<1>. QED BY <1>4, <1>5, <1>6, <1>7 DEF PruneStep

\* A proof request keeps its epoch's day; a tree it puts in the cache is that day's.
LEMMA ProofKeepsWork ==
  ASSUME TypesInv, NEW r \in Readers, ProofAsked(r) \/ ProofStep(r)
  PROVE  ChainOfDays' /\ Work'
<1>1. proof \in [Readers -> Proofs] /\ proof[r] \in Proofs /\ cache \subseteq Nat
  BY DEF TypesInv, Work
<1>2. UNCHANGED <<now, up, events, last, chain, kept, prune, total>>
  BY DEF ProofAsked, ProofStep, ReadEpoch, ReadCache, LockBuild, ReadLeaves, PutTree, ProofAnswered
<1>3. ASSUME NEW x \in Proofs, proof' = [proof EXCEPT ![r] = x], cache' \subseteq Nat
      PROVE  ChainOfDays' /\ Work'
  <2>1. proof' \in [Readers -> Proofs]
    BY <1>1, <1>3
  <2>. QED BY <1>2, <1>3, <2>1 DEF TypesInv, ChainOfDays, Work
<1>4. CASE ProofAsked(r)
  <2>1. PICK i \in DOMAIN chain :
          proof' = [proof EXCEPT ![r] = [phase |-> "epoch", day |-> chain[i].to, at |-> now]]
    BY <1>4 DEF ProofAsked
  <2>2. chain[i].to \in Nat /\ now \in Nat
    <3>. DEFINE E == [from: Nat, to: Nat, at: Nat, total: Nat]
    <3>1. chain \in Seq(E) /\ now \in Nat
      BY DEF TypesInv, ChainOfDays
    <3>2. chain[i] \in E
      <4>. HIDE DEF E
      <4>. QED BY <2>1, <3>1
    <3>. QED BY <3>1, <3>2
  <2>. DEFINE x == [phase |-> "epoch", day |-> chain[i].to, at |-> now]
  <2>3. x \in Proofs
    BY <2>2 DEF Proofs, Asked
  <2>4. proof' = [proof EXCEPT ![r] = x] /\ cache' \subseteq Nat
    BY <1>1, <1>4, <2>1 DEF ProofAsked
  <2>. QED BY <1>3, <2>3, <2>4
<1>5. ASSUME NEW ph \in {"epoch", "cached", "lock", "leaves", "put"}, AtProof(r, ph)
      PROVE  proof[r] \in Asked
  BY <1>1, <1>5 DEF AtProof, Proofs, Asked, Idle
<1>6. ASSUME proof[r] \in Asked, cache' \subseteq Nat, NEW o \in Answers, Finish(r, o)
      PROVE  ChainOfDays' /\ Work'
  <2>. DEFINE x == [phase |-> "done", day |-> proof[r].day, at |-> proof[r].at, outcome |-> o]
  <2>1. x \in Proofs
    BY <1>6 DEF Proofs, Asked
  <2>2. proof' = [proof EXCEPT ![r] = x]
    BY <1>6 DEF Finish
  <2>. QED BY <1>3, <1>6, <2>1, <2>2
<1>7. ASSUME proof[r] \in Asked, cache' \subseteq Nat,
             NEW ph \in {"cached", "lock", "leaves", "put"}, Goto(r, ph)
      PROVE  ChainOfDays' /\ Work'
  <2>. DEFINE x == [proof[r] EXCEPT !.phase = ph]
  <2>1. x \in Proofs
    BY <1>7 DEF Proofs, Asked
  <2>2. proof' = [proof EXCEPT ![r] = x]
    BY <1>7 DEF Goto
  <2>. QED BY <1>3, <1>7, <2>1, <2>2
<1>8. CASE ReadEpoch(r) \/ ReadCache(r) \/ LockBuild(r) \/ ReadLeaves(r)
  <2>1. proof[r] \in Asked /\ cache' \subseteq Nat
    BY <1>1, <1>5, <1>8 DEF ReadEpoch, ReadCache, LockBuild, ReadLeaves
  <2>2. \/ \E o \in Answers : Finish(r, o)
        \/ \E ph \in {"cached", "lock", "leaves", "put"} : Goto(r, ph)
    BY <1>8 DEF ReadEpoch, ReadCache, LockBuild, ReadLeaves, Answers
  <2>. QED BY <1>6, <1>7, <2>1, <2>2
<1>9. CASE PutTree(r)
  <2>1. proof[r] \in Asked
    BY <1>5, <1>9 DEF PutTree
  <2>2. cache' \subseteq Nat
    BY <1>1, <1>9, <2>1 DEF PutTree, Asked
  <2>. QED BY <1>6, <1>9, <2>1, <2>2 DEF PutTree, Answers
<1>10. CASE ProofAnswered(r)
  <2>1. Idle \in Proofs /\ proof' = [proof EXCEPT ![r] = Idle] /\ UNCHANGED cache
    BY <1>10 DEF ProofAnswered, Proofs
  <2>. QED BY <1>1, <1>3, <2>1
<1>. QED BY <1>4, <1>8, <1>9, <1>10 DEF ProofStep

LEMMA TypesInvStep == TypesInv /\ [SupplyNext]_vars => TypesInv'
<1>. SUFFICES ASSUME TypesInv, SupplyNext \/ UNCHANGED vars PROVE TypesInv'
  OBVIOUS
<1>1. ScheduleInv'
  BY ScheduleInvStep DEF TypesInv
<1>2. CASE Tick
  BY <1>1, <1>2, SupplyAssumption DEF Tick, TypesInv, ChainOfDays, Work
<1>3. CASE SupplyEvent
  <2>1. Today - 1 \in Nat
    BY Yesterday DEF TypesInv, ChainOfDays, Today
  <2>. QED BY <1>1, <1>3, <2>1 DEF SupplyEvent, TypesInv, ChainOfDays, Work
<1>4. CASE Stop \/ Start \/ CheckFails \/ Wake \/ UNCHANGED vars
  <2>1. UNCHANGED <<now, events, last, chain, kept, total>>
    BY <1>4 DEF Stop, Start, CheckFails, Wake, vars
  <2>2. Work'
    <3>1. CASE Stop
      BY <3>1 DEF Stop, TypesInv, Work, Prunes, Proofs
    <3>2. CASE Start \/ CheckFails \/ Wake \/ UNCHANGED vars
      BY <3>2 DEF Start, CheckFails, Wake, vars, TypesInv, Work
    <3>. QED BY <1>4, <3>1, <3>2
  <2>. QED BY <1>1, <2>1, <2>2 DEF TypesInv, ChainOfDays
<1>5. CASE Check
  BY <1>1, <1>5, CheckKeepsDays DEF TypesInv
<1>6. ASSUME NEW p \in Pruners, PruneStep(p) PROVE TypesInv'
  BY <1>1, <1>6, PruneKeepsWork DEF TypesInv
<1>7. ASSUME NEW r \in Readers, ProofAsked(r) \/ ProofStep(r) PROVE TypesInv'
  BY <1>1, <1>7, ProofKeepsWork DEF TypesInv
<1>. QED BY <1>2, <1>3, <1>4, <1>5, <1>6, <1>7 DEF SupplyNext

\* Whatever stops, starts, fails and asks, the chain's epochs are of days, and a deletion or
\* a request holds days only.
THEOREM SupplyTypeCorrect == SupplySpec => []SupplyTypeOK
<1>1. TypesInv => SupplyTypeOK
  <2>. SUFFICES ASSUME TypesInv PROVE SupplyTypeOK
    OBVIOUS
  <2>1. loop \in Schedule \cup {Idle} /\ up \in BOOLEAN /\ events \in Nat
    BY DEF TypesInv, ScheduleInv, ScheduleTyped, ChainInv, ChainTyped
  <2>. QED BY <2>1 DEF TypesInv, ChainOfDays, Work, SupplyTypeOK, Schedule, Prunes, Proofs, Asked
<1>. QED BY <1>1, TypesInvInit, TypesInvStep, PTL DEF SupplySpec

\* The chain and its schedule at once: every day is covered once and in order, by epochs that
\* add up enough, and none waits once a day has been handled (PAY-S2, PAY-S3).
THEOREM SupplyIsSound == SupplySpec => []SupplySound
BY SupplyTypeCorrect, SupplyChainContiguous, SupplyEpochsAddUp, SupplyCheckedDaily, PTL
   DEF SupplySound

-----------------------------------------------------------------------------
(* Proofs of balance: what is deleted was past its time.                    *)

\* No day ends two epochs.
Distinct == \A i, j \in DOMAIN chain : chain[i].to = chain[j].to => i = j

\* The leaves of epoch i are there until its time is over.
LeavesKept == \A i \in DOMAIN chain : chain[i].to \in kept \/ Expired(chain[i].to, now)

\* What is kept and what a pruner lists are days of epochs, the latter past their time.
Listed(p) ==
  prune[p] # Idle => \A d \in prune[p].old : \E i \in DOMAIN chain : chain[i].to = d /\ Expired(d, now)

\* A request asks for a published epoch, and read the clock before.
AskedFor(r) == proof[r] # Idle => proof[r].at <= now /\ \E i \in DOMAIN chain : chain[i].to = proof[r].day

LeavesInv ==
  /\ Distinct /\ LeavesKept
  /\ \A d \in kept : \E i \in DOMAIN chain : chain[i].to = d
  /\ \A p \in Pruners : Listed(p)
  /\ \A r \in Readers : AskedFor(r)

\* So the time of publication of a day is that of the one epoch it ends.
LEMMA PublishedOnce ==
  ASSUME Distinct, NEW i \in DOMAIN chain
  PROVE  PublishedAt(chain[i].to) = chain[i].at
<1>. DEFINE j == CHOOSE k \in DOMAIN chain : chain[k].to = chain[i].to
<1>1. j \in DOMAIN chain /\ chain[j].to = chain[i].to
  OBVIOUS
<1>2. j = i
  BY <1>1 DEF Distinct
<1>. QED BY <1>2 DEF PublishedAt

LEMMA EpochFields ==
  ASSUME TypesInv, NEW i \in DOMAIN chain
  PROVE  chain[i].to \in Nat /\ chain[i].at \in Nat
<1>. DEFINE E == [from: Nat, to: Nat, at: Nat, total: Nat]
<1>1. chain \in Seq(E)
  BY DEF TypesInv, ChainOfDays
<1>2. chain[i] \in E
  <2>. HIDE DEF E
  <2>. QED BY <1>1
<1>. QED BY <1>2

\* A chain that grows leaves an epoch's time of publication, and what is past stays past.
LEMMA ExpiredStays ==
  ASSUME TypesInv, Distinct, Distinct', now' \in Nat, now <= now',
         \A i \in DOMAIN chain : i \in DOMAIN chain' /\ chain'[i] = chain[i],
         NEW i \in DOMAIN chain, Expired(chain[i].to, now)
  PROVE  Expired(chain[i].to, now)'
<1>1. PublishedAt(chain[i].to) = chain[i].at
  BY PublishedOnce
<1>2. PublishedAt(chain[i].to)' = chain[i].at
  <2>. DEFINE j == CHOOSE k \in DOMAIN chain' : chain'[k].to = chain'[i].to
  <2>1. i \in DOMAIN chain' /\ chain'[i] = chain[i]
    OBVIOUS
  <2>2. j \in DOMAIN chain' /\ chain'[j].to = chain'[i].to
    BY <2>1
  <2>3. PublishedAt(chain[i].to)' = chain'[j].at
    BY DEF PublishedAt
  <2>4. j = i
    <3>. HIDE DEF j
    <3>. QED BY <2>1, <2>2 DEF Distinct
  <2>. QED BY <2>1, <2>3, <2>4
<1>3. now \in Nat /\ chain[i].at \in Nat
  BY EpochFields DEF TypesInv, ChainOfDays
<1>. QED BY <1>1, <1>2, <1>3, SupplyAssumption DEF Expired

\* Nothing but a check changes the chain or adds to what is kept.
LEMMA RestKeepsLeaves ==
  ASSUME TypesInv, LeavesInv, now' \in Nat, now <= now', UNCHANGED chain,
         kept' \subseteq kept, \A d \in kept \ kept' : \E i \in DOMAIN chain : chain[i].to = d /\ Expired(d, now),
         \A p \in Pruners : prune'[p] = prune[p] \/ Listed(p)',
         \A r \in Readers : proof'[r] = proof[r] \/ AskedFor(r)'
  PROVE  LeavesInv'
<1>1. Distinct'
  BY DEF LeavesInv, Distinct
<1>2. ASSUME NEW i \in DOMAIN chain, Expired(chain[i].to, now) PROVE Expired(chain[i].to, now')
  <2>1. Expired(chain[i].to, now)'
    BY <1>1, <1>2, ExpiredStays DEF LeavesInv
  <2>. QED BY <2>1 DEF Expired, PublishedAt
<1>3. LeavesKept'
  <2>. SUFFICES ASSUME NEW i \in DOMAIN chain, chain[i].to \notin kept' PROVE Expired(chain[i].to, now')
    BY DEF LeavesKept, Expired, PublishedAt
  <2>1. Expired(chain[i].to, now)
    BY DEF LeavesInv, LeavesKept
  <2>. QED BY <1>2, <2>1
<1>4. \A d \in kept' : \E i \in DOMAIN chain' : chain'[i].to = d
  BY DEF LeavesInv
<1>5. ASSUME NEW p \in Pruners PROVE Listed(p)'
  <2>. SUFFICES ASSUME prune'[p] = prune[p], prune[p] # Idle, NEW d \in prune[p].old
                PROVE  \E i \in DOMAIN chain : chain[i].to = d /\ Expired(d, now')
    BY DEF Listed, Expired, PublishedAt
  <2>1. PICK i \in DOMAIN chain : chain[i].to = d /\ Expired(d, now)
    BY DEF LeavesInv, Listed
  <2>. QED BY <1>2, <2>1
<1>6. ASSUME NEW r \in Readers PROVE AskedFor(r)'
  <2>. SUFFICES ASSUME proof'[r] = proof[r], proof[r] # Idle
                PROVE  proof[r].at <= now' /\ \E i \in DOMAIN chain : chain[i].to = proof[r].day
    BY DEF AskedFor
  <2>1. proof[r].at <= now /\ \E i \in DOMAIN chain : chain[i].to = proof[r].day
    BY DEF LeavesInv, AskedFor
  <2>2. proof[r].at \in Nat /\ now \in Nat
    BY DEF TypesInv, ChainOfDays, Work, Proofs, Asked
  <2>. QED BY <2>1, <2>2
<1>. QED BY <1>1, <1>3, <1>4, <1>5, <1>6 DEF LeavesInv

\* An epoch published is of a day of its own, and its leaves are there.
LEMMA CheckKeepsLeaves ==
  ASSUME TypesInv, LeavesInv, Check
  PROVE  LeavesInv'
<1>1. CASE UNCHANGED <<chain, kept>>
  BY <1>1, RestKeepsLeaves DEF Check, TypesInv, ChainOfDays
<1>2. CASE /\ Due(Today - 1) /\ \A i \in DOMAIN chain : chain[i].to # Today - 1
           /\ chain' = Append(chain, NewEpoch(Today - 1)) /\ kept' = kept \cup {Today - 1}
  <2>. DEFINE d == Today - 1
              n == Len(chain) + 1
  <2>1. /\ Len(chain) \in Nat /\ DOMAIN chain = 1 .. Len(chain) /\ DOMAIN chain' = 1 .. n
        /\ \A i \in DOMAIN chain : i \in DOMAIN chain' /\ chain'[i] = chain[i]
        /\ chain'[n] = NewEpoch(d)
    <3>. DEFINE E == [from: Nat, to: Nat, at: Nat, total: Nat]
    <3>1. chain \in Seq(E)
      BY DEF TypesInv, ChainOfDays
    <3>. HIDE DEF E, d
    <3>. QED BY <1>2, <3>1 DEF d
  <2>2. chain'[n].to = d
    BY <2>1 DEF NewEpoch
  <2>3. ASSUME NEW i \in DOMAIN chain' PROVE i \in DOMAIN chain \/ i = n
    BY <2>1
  <2>4. \A i \in DOMAIN chain : chain'[i].to # d
    BY <1>2, <2>1
  <2>5. Distinct'
    <3>. SUFFICES ASSUME NEW i \in DOMAIN chain', NEW j \in DOMAIN chain', chain'[i].to = chain'[j].to
                  PROVE  i = j
      BY DEF Distinct
    <3>1. CASE i = n \/ j = n
      BY <3>1, <2>2, <2>3, <2>4
    <3>2. CASE i \in DOMAIN chain /\ j \in DOMAIN chain
      BY <3>2, <2>1 DEF LeavesInv, Distinct
    <3>. QED BY <3>1, <3>2, <2>3
  <2>6. UNCHANGED <<now, prune, proof>> /\ now \in Nat
    BY DEF Check, TypesInv, ChainOfDays
  <2>7. ASSUME NEW i \in DOMAIN chain, Expired(chain[i].to, now) PROVE Expired(chain[i].to, now)'
    BY <2>1, <2>5, <2>6, <2>7, ExpiredStays DEF LeavesInv
  <2>8. LeavesKept'
    <3>. SUFFICES ASSUME NEW i \in DOMAIN chain', chain'[i].to \notin kept' PROVE Expired(chain[i].to, now)' /\ chain'[i] = chain[i]
      BY <2>6 DEF LeavesKept, Expired, PublishedAt
    <3>1. i \in DOMAIN chain /\ chain'[i] = chain[i]
      BY <1>2, <2>1, <2>2, <2>3
    <3>2. Expired(chain[i].to, now)
      BY <1>2, <3>1 DEF LeavesInv, LeavesKept
    <3>. QED BY <2>7, <3>1, <3>2
  <2>9. \A e \in kept' : \E i \in DOMAIN chain' : chain'[i].to = e
    <3>. SUFFICES ASSUME NEW e \in kept' PROVE \E i \in DOMAIN chain' : chain'[i].to = e
      OBVIOUS
    <3>1. CASE e \in kept
      BY <3>1, <2>1 DEF LeavesInv
    <3>2. CASE e = d
      BY <3>2, <2>1, <2>2
    <3>. QED BY <1>2, <3>1, <3>2
  <2>10. ASSUME NEW p \in Pruners PROVE Listed(p)'
    <3>. SUFFICES ASSUME prune[p] # Idle, NEW e \in prune[p].old
                  PROVE  \E i \in DOMAIN chain' : chain'[i].to = e /\ Expired(e, now)'
      BY <2>6 DEF Listed, Expired, PublishedAt
    <3>1. PICK i \in DOMAIN chain : chain[i].to = e /\ Expired(e, now)
      BY DEF LeavesInv, Listed
    <3>2. Expired(chain[i].to, now)'
      BY <2>7, <3>1
    <3>3. i \in DOMAIN chain' /\ chain'[i].to = e
      BY <2>1, <3>1
    <3>4. Expired(e, now)'
      BY <3>1, <3>2, <3>3, <2>1, <2>6 DEF Expired, PublishedAt
    <3>. QED BY <3>3, <3>4
  <2>11. ASSUME NEW r \in Readers PROVE AskedFor(r)'
    BY <2>1, <2>6 DEF LeavesInv, AskedFor
  <2>. QED BY <2>5, <2>8, <2>9, <2>10, <2>11 DEF LeavesInv
<1>. QED BY <1>1, <1>2 DEF Check, PublishDue

\* A pruner deletes what it listed, and lists what is past its time.
LEMMA PruneKeepsLeaves ==
  ASSUME TypesInv, LeavesInv, NEW p \in Pruners, PruneStep(p)
  PROVE  LeavesInv'
<1>1. prune \in [Pruners -> Prunes] /\ prune[p] \in Prunes /\ now \in Nat
  BY DEF TypesInv, Work, ChainOfDays
<1>2. UNCHANGED <<now, chain, proof>>
  BY DEF PruneStep, PruneList, PruneDelete, PruneDrop, PruneEnd
<1>3. ASSUME NEW x, prune' = [prune EXCEPT ![p] = x],
             x # Idle => \A d \in x.old : \E i \in DOMAIN chain : chain[i].to = d /\ Expired(d, now)
      PROVE  \A q \in Pruners : prune'[q] = prune[q] \/ Listed(q)'
  BY <1>1, <1>2, <1>3 DEF Listed, Expired, PublishedAt
<1>4. prune[p] # Idle => \A d \in prune[p].old : \E i \in DOMAIN chain : chain[i].to = d /\ Expired(d, now)
  BY DEF LeavesInv, Listed
<1>5. CASE PruneList(p)
  <2>1. prune' = [prune EXCEPT ![p] = [phase |-> "delete", old |-> {d \in kept : Expired(d, now)}]] /\ kept' = kept
    BY <1>5 DEF PruneList
  <2>2. \A q \in Pruners : prune'[q] = prune[q] \/ Listed(q)'
    BY <1>3, <2>1 DEF LeavesInv
  <2>. QED BY <1>1, <1>2, <2>1, <2>2, RestKeepsLeaves
<1>6. CASE PruneDelete(p)
  <2>1. PICK d \in prune[p].old :
          /\ kept' = kept \ {d}
          /\ prune' = [prune EXCEPT ![p] = [phase |-> "drop", old |-> prune[p].old \ {d}, day |-> d]]
    BY <1>6 DEF PruneDelete
  <2>2. prune[p] # Idle
    BY <1>6 DEF PruneDelete, Idle
  <2>3. \A q \in Pruners : prune'[q] = prune[q] \/ Listed(q)'
    BY <1>3, <1>4, <2>1, <2>2
  <2>. QED BY <1>1, <1>2, <1>4, <2>1, <2>2, <2>3, RestKeepsLeaves
<1>7. CASE PruneDrop(p)
  <2>1. prune' = [prune EXCEPT ![p] = [phase |-> "delete", old |-> prune[p].old]] /\ kept' = kept /\ prune[p] # Idle
    BY <1>7 DEF PruneDrop, Idle
  <2>2. \A q \in Pruners : prune'[q] = prune[q] \/ Listed(q)'
    BY <1>3, <1>4, <2>1
  <2>. QED BY <1>1, <1>2, <2>1, <2>2, RestKeepsLeaves
<1>8. CASE PruneEnd(p)
  <2>1. prune' = [prune EXCEPT ![p] = Idle] /\ kept' = kept
    BY <1>8 DEF PruneEnd
  <2>2. \A q \in Pruners : prune'[q] = prune[q] \/ Listed(q)'
    BY <1>3, <2>1
  <2>. QED BY <1>1, <1>2, <2>1, <2>2, RestKeepsLeaves
<1>. QED BY <1>5, <1>6, <1>7, <1>8 DEF PruneStep

\* A request keeps the day and the time it began with.
LEMMA ProofKeepsLeaves ==
  ASSUME TypesInv, LeavesInv, NEW r \in Readers, ProofAsked(r) \/ ProofStep(r)
  PROVE  LeavesInv'
<1>1. proof \in [Readers -> Proofs] /\ proof[r] \in Proofs /\ now \in Nat
  BY DEF TypesInv, Work, ChainOfDays
<1>2. UNCHANGED <<now, chain, kept, prune>>
  BY DEF ProofAsked, ProofStep, ReadEpoch, ReadCache, LockBuild, ReadLeaves, PutTree, ProofAnswered
<1>3. ASSUME NEW x, proof' = [proof EXCEPT ![r] = x],
             x # Idle => x.at <= now /\ \E i \in DOMAIN chain : chain[i].to = x.day
      PROVE  LeavesInv'
  <2>1. \A q \in Readers : proof'[q] = proof[q] \/ AskedFor(q)'
    BY <1>1, <1>2, <1>3 DEF AskedFor
  <2>. QED BY <1>1, <1>2, <2>1, RestKeepsLeaves
<1>4. CASE ProofAsked(r)
  <2>1. PICK i \in DOMAIN chain :
          proof' = [proof EXCEPT ![r] = [phase |-> "epoch", day |-> chain[i].to, at |-> now]]
    BY <1>4 DEF ProofAsked
  <2>. DEFINE x == [phase |-> "epoch", day |-> chain[i].to, at |-> now]
  <2>2. x.at <= now /\ chain[i].to = x.day
    BY <1>1
  <2>. HIDE DEF x
  <2>3. proof' = [proof EXCEPT ![r] = x]
    BY <2>1 DEF x
  <2>. QED BY <1>3, <2>2, <2>3
<1>5. ASSUME NEW o, Finish(r, o), proof[r] # Idle PROVE LeavesInv'
  <2>. DEFINE x == [phase |-> "done", day |-> proof[r].day, at |-> proof[r].at, outcome |-> o]
  <2>1. proof' = [proof EXCEPT ![r] = x] /\ x.at = proof[r].at /\ x.day = proof[r].day
    BY <1>5 DEF Finish
  <2>2. proof[r].at <= now /\ \E i \in DOMAIN chain : chain[i].to = proof[r].day
    BY <1>5 DEF LeavesInv, AskedFor
  <2>. HIDE DEF x
  <2>. QED BY <1>3, <2>1, <2>2
<1>6. ASSUME NEW ph, Goto(r, ph), proof[r] \in Asked PROVE LeavesInv'
  <2>. DEFINE x == [proof[r] EXCEPT !.phase = ph]
  <2>1. proof' = [proof EXCEPT ![r] = x] /\ x.at = proof[r].at /\ x.day = proof[r].day
    BY <1>6 DEF Goto, Asked
  <2>2. proof[r] # Idle
    BY <1>6 DEF Asked, Idle
  <2>3. proof[r].at <= now /\ \E i \in DOMAIN chain : chain[i].to = proof[r].day
    BY <2>2 DEF LeavesInv, AskedFor
  <2>. HIDE DEF x
  <2>. QED BY <1>3, <2>1, <2>3
<1>7. CASE ReadEpoch(r) \/ ReadCache(r) \/ LockBuild(r) \/ ReadLeaves(r) \/ PutTree(r)
  <2>1. proof[r] \in Asked
    BY <1>1, <1>7 DEF ReadEpoch, ReadCache, LockBuild, ReadLeaves, PutTree, AtProof, Proofs, Asked, Idle
  <2>2. (\E o : Finish(r, o)) \/ (\E ph : Goto(r, ph))
    BY <1>7 DEF ReadEpoch, ReadCache, LockBuild, ReadLeaves, PutTree
  <2>3. proof[r] # Idle
    BY <2>1 DEF Asked, Idle
  <2>. QED BY <1>5, <1>6, <2>1, <2>2, <2>3
<1>8. CASE ProofAnswered(r)
  <2>1. proof' = [proof EXCEPT ![r] = Idle]
    BY <1>8 DEF ProofAnswered
  <2>. QED BY <1>3, <2>1
<1>. QED BY <1>4, <1>7, <1>8 DEF ProofStep

LEMMA LeavesInvStep == TypesInv /\ LeavesInv /\ [SupplyNext]_vars => LeavesInv'
<1>. SUFFICES ASSUME TypesInv, LeavesInv, SupplyNext \/ UNCHANGED vars PROVE LeavesInv'
  OBVIOUS
<1>1. now \in Nat
  BY DEF TypesInv, ChainOfDays
<1>2. CASE Tick \/ SupplyEvent \/ Start \/ CheckFails \/ Wake \/ UNCHANGED vars
  <2>1. UNCHANGED <<chain, kept, prune, proof>> /\ now' \in {now, now + 1}
    BY <1>2 DEF Tick, SupplyEvent, Start, CheckFails, Wake, vars
  <2>. QED BY <1>1, <2>1, RestKeepsLeaves
<1>3. CASE Stop
  <2>1. UNCHANGED <<chain, kept, now>> /\ prune' = [p \in Pruners |-> Idle] /\ proof' = [r \in Readers |-> Idle]
    BY <1>3 DEF Stop
  <2>2. (\A p \in Pruners : Listed(p)') /\ (\A r \in Readers : AskedFor(r)')
    BY <2>1 DEF Listed, AskedFor
  <2>. QED BY <1>1, <2>1, <2>2, RestKeepsLeaves
<1>4. CASE Check
  BY <1>4, CheckKeepsLeaves
<1>5. ASSUME NEW p \in Pruners, PruneStep(p) PROVE LeavesInv'
  BY <1>5, PruneKeepsLeaves
<1>6. ASSUME NEW r \in Readers, ProofAsked(r) \/ ProofStep(r) PROVE LeavesInv'
  BY <1>6, ProofKeepsLeaves
<1>. QED BY <1>2, <1>3, <1>4, <1>5, <1>6 DEF SupplyNext

\* What is not there any more was past its time, through every overlap of deletions, checks,
\* proof requests and stops.
THEOREM LeavesInvariant == SupplySpec => [](TypesInv /\ LeavesInv)
<1>1. SupplyInit => LeavesInv
  BY DEF SupplyInit, LeavesInv, Distinct, LeavesKept, Listed, AskedFor
<1>. QED BY <1>1, TypesInvInit, TypesInvStep, LeavesInvStep, PTL DEF SupplySpec

\* A proof is refused only past its epoch's time: no deletion, restart or other request, and
\* no tree in the cache, refuses it before (liabilityProofAt, PruneLiabilityProofs; PAY-S5).
THEOREM SupplyProofAnsweredInTime == SupplySpec => ProofAnsweredInTime
<1>. DEFINE Refused(r) == ~AtProof(r, "done") /\ AtProof(r, "done")' /\ proof'[r].outcome # "served"
            InTime == \A r \in Readers : Refused(r) => Expired(proof[r].day, now)
<1>1. ASSUME TypesInv, LeavesInv, SupplyNext \/ UNCHANGED vars PROVE InTime
  <2>. SUFFICES ASSUME NEW r \in Readers, Refused(r) PROVE Expired(proof[r].day, now)
    OBVIOUS
  <2>1. proof \in [Readers -> Proofs] /\ proof[r] \in Proofs /\ now \in Nat
    BY <1>1 DEF TypesInv, Work, ChainOfDays
  <2>2. proof'[r] # proof[r] /\ proof'[r] # Idle
    BY DEF AtProof, Idle
  <2>3. ReadEpoch(r) \/ ReadLeaves(r)
    <3>1. CASE Tick \/ SupplyEvent \/ Start \/ Check \/ CheckFails \/ Wake \/ UNCHANGED vars
      BY <3>1, <2>2 DEF Tick, SupplyEvent, Start, Check, CheckFails, Wake, vars
    <3>2. CASE Stop
      BY <3>2, <2>2 DEF Stop
    <3>3. CASE \E p \in Pruners : PruneStep(p)
      BY <3>3, <2>2 DEF PruneStep, PruneList, PruneDelete, PruneDrop, PruneEnd
    <3>4. ASSUME NEW q \in Readers, ProofAsked(q) \/ ProofStep(q) PROVE ReadEpoch(r) \/ ReadLeaves(r)
      <4>1. \E x : proof' = [proof EXCEPT ![q] = x]
        BY <3>4 DEF ProofAsked, ProofStep, ReadEpoch, ReadCache, LockBuild, ReadLeaves, PutTree, ProofAnswered, Finish, Goto
      <4>2. q = r
        BY <4>1, <2>1, <2>2
      <4>3. ProofAsked(r) => proof'[r].phase = "epoch"
        BY <2>1 DEF ProofAsked
      <4>4. ProofAnswered(r) => proof'[r] = Idle
        BY <2>1 DEF ProofAnswered
      <4>5. ASSUME Finish(r, "served") PROVE FALSE
        BY <2>1, <4>5 DEF Finish
      <4>6. ASSUME NEW ph \in {"lock", "leaves"}, Goto(r, ph), proof[r] \in Asked PROVE FALSE
        BY <2>1, <4>6 DEF Goto, AtProof, Asked
      <4>7. proof[r] # Idle /\ ~AtProof(r, "done") => proof[r] \in Asked
        BY <2>1 DEF Proofs, AtProof
      <4>8. ASSUME ReadCache(r) \/ LockBuild(r) \/ PutTree(r) PROVE FALSE
        <5>1. proof[r] # Idle
          BY <4>8 DEF ReadCache, LockBuild, PutTree, AtProof, Idle
        <5>2. Finish(r, "served") \/ \E ph \in {"lock", "leaves"} : Goto(r, ph)
          BY <4>8 DEF ReadCache, LockBuild, PutTree
        <5>. QED BY <4>5, <4>6, <4>7, <5>1, <5>2
      <4>. QED BY <3>4, <4>2, <4>3, <4>4, <4>8, <2>2 DEF ProofStep, AtProof
    <3>. QED BY <1>1, <3>1, <3>2, <3>3, <3>4 DEF SupplyNext
  <2>4. proof[r] \in Asked
    BY <2>1, <2>3 DEF ReadEpoch, ReadLeaves, AtProof, Proofs, Asked, Idle
  <2>5. PICK i \in DOMAIN chain : chain[i].to = proof[r].day
    BY <1>1, <2>4 DEF LeavesInv, AskedFor, Asked, Idle
  <2>6. proof[r].at <= now /\ proof[r].at \in Nat
    BY <1>1, <2>4 DEF LeavesInv, AskedFor, Asked, Idle
  <2>7. CASE proof[r].day \notin kept
    BY <1>1, <2>5, <2>7 DEF LeavesInv, LeavesKept
  <2>8. CASE Expired(proof[r].day, proof[r].at)
    <3>1. PublishedAt(proof[r].day) = chain[i].at /\ chain[i].at \in Nat
      BY <1>1, <2>5, PublishedOnce, EpochFields DEF LeavesInv
    <3>. QED BY <2>1, <2>6, <2>8, <3>1, SupplyAssumption DEF Expired
  <2>9. ASSUME NEW ph \in {"cached", "put"}, Goto(r, ph) PROVE FALSE
    BY <2>1, <2>4, <2>9 DEF Goto, AtProof, Asked
  <2>. QED BY <2>3, <2>7, <2>8, <2>9 DEF ReadEpoch, ReadLeaves
<1>2. [SupplyNext]_vars /\ TypesInv /\ LeavesInv => [InTime]_vars
  BY <1>1
<1>. HIDE DEF InTime
<1>3. SupplySpec => [][InTime]_vars
  BY <1>2, LeavesInvariant, PTL DEF SupplySpec
<1>. QED BY <1>3 DEF InTime, ProofAnsweredInTime
=============================================================================
