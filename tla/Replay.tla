------------------------------- MODULE Replay -------------------------------
(***************************************************************************)
(* RC1, the replay protection of signed requests (internal/aghub/auth2.go): *)
(* for each signer a floor, the times accepted above it and the largest     *)
(* time accepted, in parts (shards) under one lock each.  A part sweeps out *)
(* the signers whose times are all older than the window and leaves their   *)
(* top behind as the floor of signers it holds nothing of; a valve, when    *)
(* the state grows too large, sweeps every part and then makes the oldest   *)
(* signers strictly monotonic.                                             *)
(*                                                                         *)
(* Every action is one critical section of the code.  The state is in      *)
(* memory alone: a restart forgets it.  The hub's clock moves forward and   *)
(* back as it likes.                                                       *)
(***************************************************************************)
EXTENDS Integers, FiniteSets

CONSTANTS
  Signers,
  Shards, ShardOf,   \* the parts, and the part of each signer (a hash of the AID)
  MaxSkew,           \* relayauth.MaxSkewMillis
  W,                 \* rc1W: how far out of order requests may arrive
  KsOf,              \* rc1K: the capacities of recent a signer has, new and later
  SweepEvery,        \* rc1SweepEvery
  High, Low,         \* rc1MemHigh and rc1MemLow, in signers and times held
  MaxTime            \* bound of the model: the last instant

ASSUME ReplayAssumption ==
  /\ ShardOf \in [Signers -> Shards]
  /\ MaxSkew \in Nat /\ W \in Nat /\ KsOf \in [Signers -> SUBSET (Nat \ {0})]
  /\ SweepEvery \in Nat /\ High \in Nat /\ Low \in Nat /\ MaxTime \in Nat

Times == 0..MaxTime

VARIABLES
  now,       \* the hub's clock
  start,     \* when the process began
  gone,      \* gone[p]: the floor of a signer without state in part p
  swept,     \* when part p was last swept
  signer,    \* signer[a]: the state held of a, or NoState
  valving,   \* the valve is running
  unswept,   \* the parts it has not swept yet
  uses,      \* how often each <<signer, time>> was accepted since the process began; 2: again
  latest     \* the latest the clock has been since then

replayState == <<gone, swept, signer, valving, unswept>>
replayVars == <<now, start, replayState, uses, latest>>

NoState == [held |-> FALSE, floor |-> 0, maxSeen |-> 0, recent |-> {}]
SignerState == [held: BOOLEAN, floor: Nat, maxSeen: Nat, recent: SUBSET Nat]

ReplayTypeOK ==
  /\ now \in Times /\ start \in Times /\ latest \in Times
  /\ gone \in [Shards -> Nat] /\ swept \in [Shards -> Times]
  /\ signer \in [Signers -> SignerState] /\ valving \in BOOLEAN /\ unswept \subseteq Shards
  /\ uses \in [Signers \X Times -> 0..2]

Unused == [x \in Signers \X Times |-> 0]

taken == {x \in Signers \X Times : uses[x] # 0}

MaxOf(x, y) == IF x >= y THEN x ELSE y

-----------------------------------------------------------------------------
(* newRC1: a time signed before the process began is refused.              *)

Before(t) == MaxOf(t - 1, 0)

Fresh(t) ==
  /\ gone' = [p \in Shards |-> Before(t)] /\ swept' = [p \in Shards |-> t]
  /\ signer' = [a \in Signers |-> NoState] /\ valving' = FALSE /\ unswept' = {}
  /\ uses' = Unused /\ start' = t /\ latest' = t

ReplayInit ==
  /\ now \in Times /\ start = now /\ latest = now
  /\ gone = [p \in Shards |-> Before(now)] /\ swept = [p \in Shards |-> now]
  /\ signer = [a \in Signers |-> NoState] /\ valving = FALSE /\ unswept = {} /\ uses = Unused

-----------------------------------------------------------------------------
(* accept.                                                                 *)

\* floorOf: a signer's own floor, or its part's.
FloorOf(a) == IF signer[a].held THEN signer[a].floor ELSE gone[ShardOf[a]]

InWindow(t) == now - MaxSkew <= t /\ t <= now + MaxSkew

Verdict(a, t) ==
  IF ~InWindow(t) THEN "outside"
  ELSE IF t <= FloorOf(a) THEN "stale"
  ELSE IF t \in signer[a].recent THEN "replayed"
  ELSE "accepted"

Largest(a, t) == MaxOf(signer[a].maxSeen, t)

\* The floor follows the largest time at the distance W.
Following(a, t) == MaxOf(FloorOf(a), Largest(a, t) - W)

Above(R, f) == {x \in R : x > f}

\* Past k times the floor rises to the smallest: the least floor that keeps k.
RaisedTo(f, R, k, g) ==
  /\ g \in {f} \cup R /\ g >= f /\ Cardinality(Above(R, g)) <= k
  /\ \A h \in {f} \cup R : h >= f /\ Cardinality(Above(R, h)) <= k => g <= h

\* acceptLocked for a time it accepts.
Inserted(a, t, g) ==
  [signer EXCEPT ![a] = [held |-> TRUE, floor |-> g, maxSeen |-> Largest(a, t),
                         recent |-> Above(signer[a].recent \cup {t}, g)]]

Top(x) == MaxOf(x.floor, x.maxSeen)

\* Mutant: a signer is dropped a while after it was last active, its top notwithstanding.
IsOld_Floor(x) == x.held /\ x.floor < now - MaxSkew

IsOld(x) == x.held /\ Top(x) < now - MaxSkew

OldIn(sg, p) == {a \in Signers : ShardOf[a] = p /\ IsOld(sg[a])}

\* Mutant: what is dropped leaves nothing behind.
LeavesTop_Nothing(sg, p, g) == g = gone[p]

\* g is the larger of gone and the tops of the signers dropped.
LeavesTop(sg, p, g) ==
  /\ g >= gone[p] /\ \A a \in OldIn(sg, p) : Top(sg[a]) <= g
  /\ g = gone[p] \/ \E a \in OldIn(sg, p) : g = Top(sg[a])

\* sweepLocked of part p over the signers sg, when due.
SweptFrom(sg, p) ==
  \E g \in {gone[p]} \cup {Top(sg[a]) : a \in OldIn(sg, p)} :
    /\ LeavesTop(sg, p, g)
    /\ gone' = [gone EXCEPT ![p] = g] /\ swept' = [swept EXCEPT ![p] = now]
    /\ signer' = [a \in Signers |-> IF a \in OldIn(sg, p) THEN NoState ELSE sg[a]]

Due(p) == now - swept[p] >= SweepEvery

SweptWhenDue(sg, p) ==
  IF Due(p) THEN SweptFrom(sg, p) ELSE signer' = sg /\ UNCHANGED <<gone, swept>>

\* The state held, in signers and times.
Held == {a \in Signers : signer[a].held}
Size == Cardinality(Held) + Cardinality({x \in Held \X Times : x[2] \in signer[x[1]].recent})

\* A verified request of signer a, signed at t, with capacity k.
Judge(a, t, k) ==
  /\ IF Verdict(a, t) = "accepted"
     THEN /\ \E g \in {Following(a, t)} \cup signer[a].recent \cup {t} :
               /\ RaisedTo(Following(a, t), signer[a].recent \cup {t}, k, g)
               /\ SweptWhenDue(Inserted(a, t, g), ShardOf[a])
          /\ uses' = [uses EXCEPT ![<<a, t>>] = IF uses[<<a, t>>] = 0 THEN 1 ELSE 2]
     ELSE SweptWhenDue(signer, ShardOf[a]) /\ UNCHANGED uses
  /\ valving' = (valving \/ Size' > High)
  /\ unswept' = IF ~valving /\ valving' THEN Shards ELSE unswept
  /\ UNCHANGED <<now, start, latest>>

\* sweepNext: a request also sweeps the next part when that is due and its lock free.
SweepNext(p) ==
  /\ Due(p) /\ SweptFrom(signer, p)
  /\ UNCHANGED <<now, start, valving, unswept, uses, latest>>

\* relieve: what may be dropped is dropped first, in every part, due or not.
ValveSweeps(p) ==
  /\ p \in unswept /\ unswept' = unswept \ {p} /\ SweptFrom(signer, p)
  /\ UNCHANGED <<now, start, valving, uses, latest>>

\* Then the signers with times, oldest first, become monotonic until the state is
\* below Low.
Oldest(a) ==
  /\ signer[a].held /\ signer[a].recent # {}
  /\ \A b \in Held : signer[b].recent # {} => signer[a].maxSeen <= signer[b].maxSeen

Monotonic(x) == [x EXCEPT !.floor = Top(x), !.recent = {}]

Relieve(a) ==
  /\ valving /\ unswept = {} /\ Size >= Low /\ Oldest(a)
  /\ signer' = [signer EXCEPT ![a] = Monotonic(signer[a])]
  /\ UNCHANGED <<now, start, gone, swept, valving, unswept, uses, latest>>

ValveCloses ==
  /\ valving /\ unswept = {} /\ (Size < Low \/ \A a \in Held : signer[a].recent = {})
  /\ valving' = FALSE
  /\ UNCHANGED <<now, start, gone, swept, signer, unswept, uses, latest>>

\* The hub's clock moves, forward or back.
Clock(t) ==
  /\ now' = t /\ t # now /\ latest' = MaxOf(latest, t)
  /\ UNCHANGED <<start, replayState, uses>>

ReplayRestart == Fresh(now) /\ UNCHANGED now

ReplayStep ==
  \/ \E a \in Signers, t \in Times : \E k \in KsOf[a] : Judge(a, t, k)
  \/ \E p \in Shards : SweepNext(p) \/ ValveSweeps(p)
  \/ \E a \in Signers : Relieve(a)
  \/ ValveCloses \/ (\E t \in Times : Clock(t)) \/ ReplayRestart

ReplaySpec == ReplayInit /\ [][ReplayStep]_replayVars

-----------------------------------------------------------------------------
(* Properties. *)

\* Every time accepted from a signer is at or below its floor or among the times
\* held above it, whatever was swept, trimmed or relieved: none can be accepted
\* again (acceptLocked, sweepLocked, relieve).
Covered ==
  \A x \in taken :
    IF signer[x[1]].held THEN x[2] <= signer[x[1]].floor \/ x[2] \in signer[x[1]].recent
    ELSE x[2] <= gone[ShardOf[x[1]]]

\* A signed time is taken at most once in the life of the process, and never one from
\* before it began, wherever the clock goes (PAY-R2, PAY-R6).
Promise == INSTANCE AcceptOnce WITH since <- start
TakenOnce == Promise!Spec

\* A signer is refused for its own times alone: what is held of it was taken from it,
\* and the floor it is held to is due to its own times or lies outside the window, so
\* no other signer's requests have it refused (rc1State: no pool, no share).
OwnTimes(a) == {x[2] : x \in {y \in taken : y[1] = a}}
RefusedForOwn ==
  \A a \in Signers :
    /\ signer[a].recent \subseteq OwnTimes(a)
    /\ \/ FloorOf(a) < start \/ FloorOf(a) = 0 \/ FloorOf(a) < latest - MaxSkew
       \/ \E t \in OwnTimes(a) : FloorOf(a) <= t
=============================================================================
