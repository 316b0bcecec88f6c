---------------------------- MODULE SupplyEpochs ----------------------------
(***************************************************************************)
(* A hub's supply epochs (internal/aghub/supply.go): the schedule that     *)
(* publishes what the hub owes all its users, the proofs of a user's       *)
(* balance in a published epoch, and the deletion of what those proofs     *)
(* are built from.                                                         *)
(*                                                                         *)
(* Supply events, the schedule (RunSupplyEpochs), the janitor and the      *)
(* proof requests run side by side, and the hub's process stops and starts *)
(* between any two of their steps.  Each action is one transaction or one  *)
(* access to the tree cache.  Balances, and the check of their sum, are    *)
(* CreditLedger's; here a supply event is counted and an epoch is its days *)
(* and its time of publication.                                            *)
(***************************************************************************)
EXTENDS Integers, Sequences, FiniteSets

CONSTANTS
  DayLength,    \* clock units of a UTC day
  EpochEvents,  \* epochEvents
  EpochDays,    \* epochDays
  ProofKept,    \* proofKeptFor
  CacheRoom,    \* how many trees liabTreeCache holds before it starts over
  Readers,      \* bound of the model: proof requests at once
  MaxTime,      \* bound of the model: the clock stops here
  MaxEvents     \* bound of the model: supply events

ASSUME SupplyAssumption ==
  /\ DayLength \in Nat \ {0} /\ EpochEvents \in Nat \ {0} /\ EpochDays \in Nat \ {0}
  /\ ProofKept \in Nat \ {0} /\ CacheRoom \in Nat \ {0}
  /\ MaxTime \in Nat /\ MaxEvents \in Nat

VARIABLES
  now,    \* the hub's clock
  up,     \* the hub's process runs
  events, \* supply_totals.events_since_publish
  last,   \* supply_totals.last_to_day, NoDay for NULL
  chain,  \* supply_chain
  kept,   \* the epochs, by to_day, whose liab_meta and liab_leaf rows exist
  cache,  \* the epochs whose tree liabTrees holds
  loop,   \* the schedule: its phase, the day it saw last, whether to check again
  prune,  \* the two callers of PruneLiabilityProofs
  proof,  \* proof[r]: a proof request
  total   \* how many supply events there were

vars == <<now, up, events, last, chain, kept, cache, loop, prune, proof, total>>

NoDay == -1

\* A hub's clock reads a day long after 1970.
FirstDay == 1

utcDay(t) == t \div DayLength
Today     == utcDay(now)

Pruners == {"schedule", "janitor"}

Idle == [phase |-> "idle"]

-----------------------------------------------------------------------------
(* The clock, supply events, and the process. *)

Tick ==
  /\ now < MaxTime
  /\ now' = now + 1
  /\ UNCHANGED <<up, events, last, chain, kept, cache, loop, prune, proof, total>>

\* supplyEventTx, in the transaction that moves the credit.  anet-hub grant
\* issues credit while the hub's process is down, too.
SupplyEvent ==
  /\ total < MaxEvents
  /\ total' = total + 1
  /\ events' = events + 1
  /\ last' = IF last = NoDay THEN Today - 1 ELSE last
  /\ UNCHANGED <<now, up, chain, kept, cache, loop, prune, proof>>

\* The process stops: its schedule, requests and cache are gone.
Stop ==
  /\ up
  /\ up' = FALSE
  /\ cache' = {}
  /\ loop' = Idle
  /\ prune' = [p \in Pruners |-> Idle]
  /\ proof' = [r \in Readers |-> Idle]
  /\ UNCHANGED <<now, events, last, chain, kept, total>>

\* It starts: RunSupplyEpochs notes the day and checks at once.
Start ==
  /\ ~up
  /\ up' = TRUE
  /\ loop' = [phase |-> "check", day |-> Today, again |-> FALSE]
  /\ UNCHANGED <<now, events, last, chain, kept, cache, prune, proof, total>>

-----------------------------------------------------------------------------
(* Publication. *)

\* The rule of publishDueAt, d being the day that has ended.
Due(d) ==
  /\ last # NoDay /\ d > last
  /\ events >= EpochEvents \/ d - last >= EpochDays

\* Mutant: the epoch begins with the day that is covered already.
NewEpoch_FromLast(d) == [from |-> last, to |-> d, at |-> now, total |-> total]

NewEpoch(d) == [from |-> last + 1, to |-> d, at |-> now, total |-> total]

\* publishDueAt's transaction.  to_day is unique in supply_chain.
PublishDue(d) ==
  IF Due(d) /\ \A i \in DOMAIN chain : chain[i].to # d
  THEN /\ chain' = Append(chain, NewEpoch(d))
       /\ kept' = kept \cup {d}
       /\ events' = 0
       /\ last' = d
  ELSE UNCHANGED <<chain, kept, events, last>>

\* check: it publishes what is due, or fails for a reason that can pass and is
\* made again at the next tick.
Check ==
  /\ loop.phase = "check"
  /\ PublishDue(Today - 1)
  /\ loop' = [loop EXCEPT !.phase = "prune", !.again = FALSE]
  /\ UNCHANGED <<now, up, cache, prune, proof, total>>

CheckFails ==
  /\ loop.phase = "check"
  /\ loop' = [loop EXCEPT !.phase = "prune", !.again = TRUE]
  /\ UNCHANGED <<now, up, events, last, chain, kept, cache, prune, proof, total>>

\* Mutant: the schedule looks at the day alone.
Wake_NewDayOnly ==
  /\ loop.phase = "wait"
  /\ loop' = IF Today # loop.day THEN [loop EXCEPT !.phase = "check", !.day = Today]
             ELSE [loop EXCEPT !.phase = "prune"]
  /\ UNCHANGED <<now, up, events, last, chain, kept, cache, prune, proof, total>>

\* A tick of the schedule: a new day or a failed check asks for a check.
Wake ==
  /\ loop.phase = "wait"
  /\ loop' = IF Today # loop.day \/ loop.again
             THEN [loop EXCEPT !.phase = "check", !.day = Today]
             ELSE [loop EXCEPT !.phase = "prune"]
  /\ UNCHANGED <<now, up, events, last, chain, kept, cache, prune, proof, total>>

-----------------------------------------------------------------------------
(* PruneLiabilityProofs, for the schedule and for the janitor. *)

PublishedAt(d) == chain[CHOOSE i \in DOMAIN chain : chain[i].to = d].at

Expired(d, t) == t - PublishedAt(d) >= ProofKept

\* Mutant: the time counts from the epoch's last day.
PruneList_FromDay(p) ==
  /\ up /\ prune[p] = Idle
  /\ p = "schedule" => loop.phase = "prune"
  /\ prune' = [prune EXCEPT ![p] = [phase |-> "delete",
                                    old |-> {d \in kept : now - d * DayLength >= ProofKept}]]
  /\ UNCHANGED <<now, up, events, last, chain, kept, cache, loop, proof, total>>

\* The pruner lists what is past its time.
PruneList(p) ==
  /\ up /\ prune[p] = Idle
  /\ p = "schedule" => loop.phase = "prune"
  /\ prune' = [prune EXCEPT ![p] = [phase |-> "delete", old |-> {d \in kept : Expired(d, now)}]]
  /\ UNCHANGED <<now, up, events, last, chain, kept, cache, loop, proof, total>>

\* One epoch's rows go, in one transaction.
PruneDelete(p) ==
  /\ prune[p].phase = "delete"
  /\ \E d \in prune[p].old :
       /\ kept' = kept \ {d}
       /\ prune' = [prune EXCEPT ![p] = [phase |-> "drop", old |-> @.old \ {d}, day |-> d]]
  /\ UNCHANGED <<now, up, events, last, chain, cache, loop, proof, total>>

\* Then its tree.
PruneDrop(p) ==
  /\ prune[p].phase = "drop"
  /\ cache' = cache \ {prune[p].day}
  /\ prune' = [prune EXCEPT ![p] = [phase |-> "delete", old |-> @.old]]
  /\ UNCHANGED <<now, up, events, last, chain, kept, loop, proof, total>>

\* The list is done, or a deletion failed and ends the round.
PruneEnd(p) ==
  /\ prune[p].phase = "delete"
  /\ prune' = [prune EXCEPT ![p] = Idle]
  /\ loop' = IF p = "schedule" THEN [loop EXCEPT !.phase = "wait"] ELSE loop
  /\ UNCHANGED <<now, up, events, last, chain, kept, cache, proof, total>>

-----------------------------------------------------------------------------
(* LiabilityProof. *)

Goto(r, p)   == proof' = [proof EXCEPT ![r].phase = p]
Finish(r, o) == proof' = [proof EXCEPT ![r] = [phase |-> "done", day |-> @.day, at |-> @.at, outcome |-> o]]

AtProof(r, p) == proof[r].phase = p

\* A request for the epoch that closed on d, its clock reading taken; d is a
\* published epoch's (any other is refused at once and changes nothing).
ProofAsked(r) ==
  /\ up /\ proof[r] = Idle
  /\ \E i \in DOMAIN chain :
       proof' = [proof EXCEPT ![r] = [phase |-> "epoch", day |-> chain[i].to, at |-> now]]
  /\ UNCHANGED <<now, up, events, last, chain, kept, cache, loop, prune, total>>

\* liabilityProofAt's own check of the time, then liab_meta.
ReadEpoch(r) ==
  /\ AtProof(r, "epoch")
  /\ IF Expired(proof[r].day, proof[r].at) \/ proof[r].day \notin kept
     THEN Finish(r, "proof_unavailable") ELSE Goto(r, "cached")
  /\ UNCHANGED <<now, up, events, last, chain, kept, cache, loop, prune, total>>

ReadCache(r) ==
  /\ AtProof(r, "cached")
  /\ IF proof[r].day \in cache THEN Finish(r, "served") ELSE Goto(r, "lock")
  /\ UNCHANGED <<now, up, events, last, chain, kept, cache, loop, prune, total>>

\* liabBuildMu: one rebuild at a time, and the one that waited looks again.
Building(r) == proof[r].phase \in {"leaves", "put"}

LockBuild(r) ==
  /\ AtProof(r, "lock")
  /\ \A q \in Readers : ~Building(q)
  /\ IF proof[r].day \in cache THEN Finish(r, "served") ELSE Goto(r, "leaves")
  /\ UNCHANGED <<now, up, events, last, chain, kept, cache, loop, prune, total>>

\* The leaves, in one query; their number is compared with liab_meta's, read
\* before.
ReadLeaves(r) ==
  /\ AtProof(r, "leaves")
  /\ IF proof[r].day \in kept THEN Goto(r, "put") ELSE Finish(r, "damaged")
  /\ UNCHANGED <<now, up, events, last, chain, kept, cache, loop, prune, total>>

PutTree(r) ==
  /\ AtProof(r, "put")
  /\ cache' = {proof[r].day} \cup (IF Cardinality(cache) >= CacheRoom THEN {} ELSE cache)
  /\ Finish(r, "served")
  /\ UNCHANGED <<now, up, events, last, chain, kept, loop, prune, total>>

ProofAnswered(r) ==
  /\ AtProof(r, "done")
  /\ proof' = [proof EXCEPT ![r] = Idle]
  /\ UNCHANGED <<now, up, events, last, chain, kept, cache, loop, prune, total>>

ProofStep(r) ==
  \/ ReadEpoch(r) \/ ReadCache(r) \/ LockBuild(r) \/ ReadLeaves(r)
  \/ PutTree(r) \/ ProofAnswered(r)

-----------------------------------------------------------------------------

SupplyInit ==
  /\ now = FirstDay * DayLength /\ up = FALSE
  /\ events = 0 /\ last = NoDay /\ chain = <<>>
  /\ kept = {} /\ cache = {}
  /\ loop = Idle /\ prune = [p \in Pruners |-> Idle] /\ proof = [r \in Readers |-> Idle]
  /\ total = 0

PruneStep(p) == PruneList(p) \/ PruneDelete(p) \/ PruneDrop(p) \/ PruneEnd(p)

SupplyNext ==
  \/ Tick \/ SupplyEvent \/ Stop \/ Start
  \/ Check \/ CheckFails \/ Wake
  \/ \E p \in Pruners : PruneStep(p)
  \/ \E r \in Readers : ProofAsked(r) \/ ProofStep(r)

SupplySpec == SupplyInit /\ [][SupplyNext]_vars

\* A hub that stopped is started again, the schedule and the janitor tick, and
\* neither a check nor a deletion fails forever (the database is busy or full
\* for a while).
SupplyFairness ==
  /\ WF_vars(Start) /\ WF_vars(Wake)
  /\ SF_vars(Check)
  /\ \A p \in Pruners : SF_vars(PruneList(p)) /\ SF_vars(PruneDelete(p) \/ PruneDrop(p)) /\ WF_vars(PruneEnd(p))

FairSupplySpec == SupplySpec /\ SupplyFairness

-----------------------------------------------------------------------------
(* Properties. *)

Answers == {"served", "proof_unavailable", "damaged"}

SupplyTypeOK ==
  /\ now \in Nat /\ up \in BOOLEAN /\ events \in Nat /\ total \in Nat
  /\ last \in Nat \cup {NoDay}
  /\ chain \in Seq([from: Nat, to: Nat, at: Nat, total: Nat])
  /\ cache \subseteq Nat /\ kept \subseteq Nat
  /\ loop \in [phase: {"check", "prune", "wait"}, day: Nat, again: BOOLEAN] \cup {Idle}
  /\ prune \in [Pruners -> [phase: {"delete"}, old: SUBSET Nat]
                             \cup [phase: {"drop"}, old: SUBSET Nat, day: Nat] \cup {Idle}]
  /\ proof \in [Readers -> [phase: {"epoch", "cached", "lock", "leaves", "put"}, day: Nat, at: Nat]
                             \cup [phase: {"done"}, day: Nat, at: Nat, outcome: Answers] \cup {Idle}]

\* The published epochs cover every day from the first on once, in order, and
\* none that has not ended, however often the schedule restarts or checks again
\* (PAY-S2, PAY-S3).
ChainContiguous ==
  /\ \A i \in DOMAIN chain :
       /\ chain[i].from <= chain[i].to
       /\ chain[i].to < utcDay(chain[i].at)
       /\ i > 1 => chain[i].from = chain[i - 1].to + 1
  /\ chain # <<>> => last = chain[Len(chain)].to

\* How many supply events there were when epoch i was published, since the one
\* before it.
EventsOf(i) == chain[i].total - (IF i = 1 THEN 0 ELSE chain[i - 1].total)

\* An epoch never tells of a handful of events of a day: it adds up EpochEvents
\* of them or EpochDays days (PAY-S2).
EpochsAddUp ==
  \A i \in DOMAIN chain :
    \/ EventsOf(i) >= EpochEvents
    \/ chain[i].to - chain[i].from + 1 >= EpochDays

\* Once the schedule has handled a day without failing, the chain is less than
\* EpochDays behind until the next midnight, although midnight may pass between
\* its reading of the day and its check, and a failed check comes between.
CheckedDaily ==
  (up /\ loop.phase = "wait" /\ loop.day = Today /\ ~loop.again /\ last # NoDay)
    => Today - 1 - last < EpochDays

\* A user who asks for a proof within its 14 days gets it: no deletion, restart
\* or other request, and no tree built from part of the leaves, refuses it
\* (PAY-S5).
ProofAnsweredInTime ==
  [][\A r \in Readers :
       (~AtProof(r, "done") /\ AtProof(r, "done")' /\ proof'[r].outcome # "served")
         => Expired(proof[r].day, now)]_vars

\* The schedule has not checked today.
Unchecked == ~up \/ loop.phase = "check" \/ loop.day # Today \/ loop.again

\* An epoch that is due at midnight is published, though the hub stops or the
\* check fails then.
DueIsPublished == (Due(Today - 1) /\ Unchecked) ~> ~Due(Today - 1)

ExpiredRow  == \E d \in kept : Expired(d, now)
ExpiredTree(d) == (\E i \in DOMAIN chain : chain[i].to = d) /\ d \in cache /\ Expired(d, now)

\* The leaves of an epoch past its 14 days go.
LeavesDropped == ExpiredRow ~> ~ExpiredRow

\* What RunSupplyEpochs's comment says: no balance snapshot outlives its 14 days
\* by more than a tick (PAY-S5).  A request that read the leaves before they were
\* deleted puts their tree in the cache after it was dropped from there, and no
\* later round looks for it.
SnapshotsDropped == \A d \in 0 .. MaxTime : ExpiredTree(d) ~> ~ExpiredTree(d)

\* The chain of epochs at any time: contiguous, of epochs worth publishing, and
\* not behind the schedule.
SupplySound == SupplyTypeOK /\ ChainContiguous /\ EpochsAddUp /\ CheckedDaily

\* What must happen whatever stops or fails: a due epoch is published, and an old
\* one's leaves go.
SupplyMovesOn == DueIsPublished /\ LeavesDropped
=============================================================================
