----------------------------- MODULE Revocations -----------------------------
(***************************************************************************)
(* Delivery credentials at a hub and their revocation (internal/aghub:     *)
(* revoke.go, keys.go, deregister.go, and step 2 of /relay/send).  An      *)
(* owner hands out credentials signed with the mailbox key of its key set  *)
(* and revokes them at the hub; a send under one is checked against the    *)
(* owner's key set and the table cap_revocation, through a cache that      *)
(* RevokeCaps writes after its commit.                                     *)
(*                                                                         *)
(* A send's check is several steps (the key set, the cache, the table, the *)
(* cache again), each with anything in between.  cache is memory and is    *)
(* lost with the process; the tables stay.                                 *)
(***************************************************************************)
EXTENDS Integers, FiniteSets

CONSTANTS
  Owners,              \* agents that may register here and own a mailbox
  Caps,                \* the credentials they handed out
  KeySets,             \* the key sets they may publish
  Slots,               \* bound of the model: sends in flight at once
  RevocationKeep,      \* RevocationKeep: how long a revocation is kept
  MaxRevocations,      \* MaxRevocationsPerOwner
  CacheSize,           \* revokedCacheSize
  CapGrace,            \* seal.CapExpGraceMS, how long after cap_exp one is taken
  CapAhead,            \* seal.CapExpMaxAheadMS, how far ahead cap_exp may be
  MaxCheck,            \* the longest a send takes to be checked
  MaxTime              \* bound of the model: the clock stops here

\* A credential, issued at from by an owner under an epoch of its mailbox key.
CapType == [id: Nat, owner: Owners, class: {"contact", "stranger"}, epoch: Nat \ {0},
            from: Nat, until: Nat]

\* A published set: its place in the order of publications, the epoch of its
\* mailbox key and the keys mail may be sealed to.
KeyType    == [id: Nat, notAfter: Nat]
KeySetType == [seq: Nat \ {0}, epoch: Nat \ {0}, kids: SUBSET KeyType]

ASSUME RevocationAssumption ==
  /\ Caps \subseteq CapType
  /\ \A ks \in KeySets : ks.seq \in Nat \ {0} /\ ks.epoch \in Nat \ {0} /\ ks.kids \subseteq KeyType
  /\ RevocationKeep \in Nat /\ MaxRevocations \in Nat /\ CacheSize \in Nat \ {0}
  /\ CapGrace \in Nat /\ CapAhead \in Nat /\ MaxCheck \in Nat /\ MaxTime \in Nat
  \* A credential lives 30 days and a revocation 31; a send is checked in seconds.
  /\ \A c \in Caps : c.until + CapGrace + MaxCheck < c.from + RevocationKeep

VARIABLES
  time,       \* the hub's clock; starts at 1, so that 0 is no time
  agents,     \* the owners registered here
  served,     \* the owners registered at some time since the process started
  keyset,     \* keyset[o]: agent_keys, NoKeys without a row
  revokedAt,  \* revokedAt[c]: cap_revocation, 0 without a row
  cache,      \* cache[c]: a revoked_at (0: not revoked), NoEntry when not cached
  work,       \* what the store's lock holder still does to the cache after its commit
  events,     \* dereg_event: deregistrations whose callbacks have not run
  look,       \* look[s]: the credential check of the send in slot s
  banned      \* the credentials whose revocation was answered and stands

credVars == <<time, agents, served, keyset, revokedAt, cache, work, events, look, banned>>

NoKeys  == [seq |-> 0, epoch |-> 0, kids |-> {}]
NoEntry == -1
NoWork  == [kind |-> "none", fresh |-> {}, batch |-> {}, at |-> 0]
NoLook  == [phase |-> "idle"]

\* No transaction holds the store's lock.
Unlocked == work = NoWork

CapsOf(o) == {c \in Caps : c.owner = o}

-----------------------------------------------------------------------------
(* The table and the cache. *)

\* A revocation made at time at has not expired at t.
Unexpired(at, t) == at > t - RevocationKeep

\* revokedCache.put and set: at most CacheSize entries, another one goes.
CacheWith(c, at) ==
  LET held == {d \in Caps : cache[d] # NoEntry} \cup {c}
      room == IF Cardinality(held) <= CacheSize THEN {{}} ELSE {{d} : d \in held \ {c}}
  IN {[d \in Caps |-> IF d = c THEN at ELSE IF d \in gone THEN NoEntry ELSE cache[d]] : gone \in room}

EmptyCache == [c \in Caps |-> NoEntry]

\* Every revocation and every forget advances the generation: a check that
\* took it before must not put what it read.
GenerationMoves ==
  [s \in Slots |-> IF look[s].phase \in {"row", "put"} THEN [look[s] EXCEPT !.moved = TRUE] ELSE look[s]]

-----------------------------------------------------------------------------
(* The credential check of a send (capPrecheck, CapRevoked). *)

LookType ==
  [phase: {"keys", "cache", "row", "put", "admitted", "refused"}, cap: Caps,
   since: Nat, asked: Nat, at: Nat, moved: BOOLEAN, banned: BOOLEAN, overtaken: BOOLEAN]

Looking(s, p) == look[s].phase = p

\* A send under credential c reaches the hub.
Present(s, c) ==
  /\ look[s] = NoLook
  /\ look' = [look EXCEPT ![s] =
                [phase |-> "keys", cap |-> c, since |-> time, asked |-> time, at |-> 0, moved |-> FALSE,
                 banned |-> c \in banned, overtaken |-> FALSE]]
  /\ UNCHANGED <<time, agents, served, keyset, revokedAt, cache, work, events, banned>>

capExpOK(c, t) == t - CapGrace <= c.until /\ c.until <= t + CapAhead

\* The end of a check: of it, its verdict is left.
Undecided(s) == look[s] # NoLook /\ look[s].phase \in {"keys", "cache", "row", "put"}

Decide(s, verdict) ==
  look' = [look EXCEPT ![s] = [@ EXCEPT !.phase = verdict, !.since = 0, !.asked = 0, !.at = 0, !.moved = FALSE,
                            !.banned = look[s].banned /\ verdict = "admitted"]]

\* The owner's key set, and the credential against it.
OwnerKeys(s) ==
  /\ Looking(s, "keys")
  /\ LET c == look[s].cap
         ok == c.owner \in agents /\ keyset[c.owner].epoch = c.epoch /\ capExpOK(c, look[s].since)
     IN IF ok THEN look' = [look EXCEPT ![s].phase = "cache", ![s].asked = time]
        ELSE Decide(s, "refused")
  /\ UNCHANGED <<time, agents, served, keyset, revokedAt, cache, work, events, banned>>

Verdict(at, t) == IF at # 0 /\ Unexpired(at, t) THEN "refused" ELSE "admitted"

\* The cached answer; without one, the generation.
LookInCache(s) ==
  /\ Looking(s, "cache")
  /\ LET at == cache[look[s].cap] IN
       IF at # NoEntry THEN Decide(s, Verdict(at, look[s].asked))
       ELSE look' = [look EXCEPT ![s].phase = "row", ![s].moved = FALSE]
  /\ UNCHANGED <<time, agents, served, keyset, revokedAt, cache, work, events, banned>>

ReadRow(s) ==
  /\ Looking(s, "row")
  /\ look' = [look EXCEPT ![s].phase = "put", ![s].at = revokedAt[look[s].cap]]
  /\ UNCHANGED <<time, agents, served, keyset, revokedAt, cache, work, events, banned>>

\* Mutant: a reader puts what it read though a revocation came in between.
PutInCache_Raced(s) ==
  /\ Looking(s, "put")
  /\ cache' \in CacheWith(look[s].cap, look[s].at)
  /\ Decide(s, Verdict(look[s].at, look[s].asked))
  /\ UNCHANGED <<time, agents, served, keyset, revokedAt, work, events, banned>>

PutInCache(s) ==
  /\ Looking(s, "put")
  /\ IF look[s].moved THEN cache' = cache ELSE cache' \in CacheWith(look[s].cap, look[s].at)
  /\ Decide(s, Verdict(look[s].at, look[s].asked))
  /\ UNCHANGED <<time, agents, served, keyset, revokedAt, work, events, banned>>

-----------------------------------------------------------------------------
(* Revoking. *)

Live(o) == {c \in CapsOf(o) : revokedAt[c] # 0 /\ Unexpired(revokedAt[c], time)}

\* RevokeCaps up to its commit, with a batch of credentials that were issued.
\* Its request was authenticated before, so the owner may be gone by now: the
\* transaction does not look at the agent's row.
RevokeCaps(o, batch) ==
  /\ Unlocked /\ o \in served
  /\ batch \subseteq CapsOf(o) /\ \A c \in batch : c.from <= time
  /\ Cardinality(Live(o) \cup batch) <= MaxRevocations
  /\ revokedAt' = [c \in Caps |-> IF c \in batch \ Live(o) THEN time ELSE revokedAt[c]]
  /\ work' = [kind |-> "add", fresh |-> batch \ Live(o), batch |-> batch, at |-> time]
  /\ UNCHANGED <<time, agents, served, keyset, cache, events, look, banned>>

\* revokedCache.add, still under the lock, and the answer: what is cached is
\* marked.  Where the owner left meanwhile, the answered revocation is void.
RevocationCached ==
  /\ work.kind = "add"
  /\ cache' = [c \in Caps |-> IF c \in work.fresh /\ cache[c] # NoEntry THEN work.at ELSE cache[c]]
  /\ look' = GenerationMoves
  /\ banned' = banned \cup {c \in work.batch : revokedAt[c] # 0}
  /\ work' = NoWork
  /\ UNCHANGED <<time, agents, served, keyset, revokedAt, events>>

\* PurgeExpiredRevocations, of the hourly janitor.
PurgeRevocations ==
  /\ revokedAt' = [c \in Caps |-> IF Unexpired(revokedAt[c], time) THEN revokedAt[c] ELSE 0]
  /\ revokedAt' # revokedAt
  /\ UNCHANGED <<time, agents, served, keyset, cache, work, events, look, banned>>

-----------------------------------------------------------------------------
(* What voids revocations: a new mailbox key, and leaving. *)

\* The revocations of o go, and every check of a credential of o under way is
\* overtaken.
VoidRevocations(o) ==
  /\ revokedAt' = [c \in Caps |-> IF c.owner = o THEN 0 ELSE revokedAt[c]]
  /\ banned' = banned \ CapsOf(o)
  /\ look' = [s \in Slots |-> IF look[s] # NoLook /\ look[s].cap.owner = o
                              THEN [look[s] EXCEPT !.overtaken = TRUE] ELSE look[s]]

\* What PublishKeys may have read as the stored set: it reads before its
\* transaction, and another process's departure may come in between.
ReadKeys(o) == {keyset[o]} \cup (IF o \notin agents /\ keyset[o] = NoKeys THEN KeySets ELSE {})

\* PublishKeys: a set follows the one that was read, and its mailbox epoch does
\* not go down.  A higher epoch drops the owner's revocations.  The agent's row
\* is not looked at: a set may be stored for an owner that has left.
PublishKeys(o, ks) ==
  /\ Unlocked /\ o \in served
  /\ \E prev \in ReadKeys(o) :
       /\ ks.seq > prev.seq /\ ks.epoch >= prev.epoch
       /\ IF prev # NoKeys /\ ks.epoch > prev.epoch
          THEN VoidRevocations(o) /\ work' = [NoWork EXCEPT !.kind = "forget"]
          ELSE UNCHANGED <<revokedAt, banned, look, work>>
  /\ keyset' = [keyset EXCEPT ![o] = ks]
  /\ UNCHANGED <<time, agents, served, cache, events>>

\* revokedCache.forget, still under PublishKeys' lock.
ForgetCaps ==
  /\ work.kind = "forget"
  /\ cache' = EmptyCache /\ look' = GenerationMoves
  /\ work' = NoWork
  /\ UNCHANGED <<time, agents, served, keyset, revokedAt, events, banned>>

\* A rotation of a registered agent's key deletes the set signed by the old one
\* (kelChangedTx).
RotateKey(o) ==
  /\ Unlocked /\ o \in agents /\ keyset[o] # NoKeys
  /\ keyset' = [keyset EXCEPT ![o] = NoKeys]
  /\ UNCHANGED <<time, agents, served, revokedAt, cache, work, events, look, banned>>

\* A registration; a key set that was left here stays.
Join(o) ==
  /\ Unlocked /\ o \notin agents
  /\ agents' = agents \cup {o} /\ served' = served \cup {o}
  /\ UNCHANGED <<time, keyset, revokedAt, cache, work, events, look, banned>>

\* DeregisterTx, by this process or another.  Another takes no lock of this
\* one, but its transaction comes before or after a transaction here.
Leave(o) ==
  /\ o \in agents
  /\ agents' = agents \ {o}
  /\ keyset' = [keyset EXCEPT ![o] = NoKeys]
  /\ VoidRevocations(o)
  /\ events' = events \cup {o}
  /\ UNCHANGED <<time, served, cache, work>>

\* runDeregHooks, after the commit and under no lock: the callback forgets the
\* cache.
DeregCallback(o) ==
  /\ o \in events
  /\ cache' = EmptyCache /\ look' = GenerationMoves
  /\ UNCHANGED <<time, agents, served, keyset, revokedAt, work, events, banned>>

\* The event goes after its callback (afterDereg, drainDeregEvents).  afterDereg
\* deletes the row the agent has by then: also one of a later departure, whose
\* callback then never runs, so the model lets a row go at any time.
ClearEvent(o) ==
  /\ o \in events
  /\ events' = events \ {o}
  /\ UNCHANGED <<time, agents, served, keyset, revokedAt, cache, work, look, banned>>

\* The process stops and starts again: StartDeregWatcher clears dereg_event.
\* A revocation that was committed and not answered stands in the table.
LoseMemory ==
  /\ cache' = EmptyCache /\ work' = NoWork /\ events' = {}
  /\ look' = [s \in Slots |-> NoLook] /\ served' = agents
  /\ UNCHANGED <<time, agents, keyset, revokedAt, banned>>

\* A check that has started ends within MaxCheck.
TimePasses ==
  /\ time < MaxTime
  /\ \A s \in {t \in Slots : Undecided(t)} : time < look[s].since + MaxCheck
  /\ time' = time + 1

CredInit ==
  /\ time = 1 /\ agents = {} /\ served = {} /\ keyset = [o \in Owners |-> NoKeys]
  /\ revokedAt = [c \in Caps |-> 0] /\ cache = EmptyCache
  /\ work = NoWork /\ events = {} /\ banned = {}
  /\ look = [s \in Slots |-> NoLook]

CredStep(s) == OwnerKeys(s) \/ LookInCache(s) \/ ReadRow(s) \/ PutInCache(s)

-----------------------------------------------------------------------------
(* Properties. *)

CredTypeOK ==
  /\ time \in Nat \ {0} /\ agents \subseteq served /\ served \subseteq Owners
  /\ keyset \in [Owners -> KeySets \cup {NoKeys}]
  /\ revokedAt \in [Caps -> Nat] /\ cache \in [Caps -> Nat \cup {NoEntry}]
  /\ work \in [kind: {"none", "add", "forget"}, fresh: SUBSET Caps, batch: SUBSET Caps, at: Nat]
  /\ events \subseteq Owners /\ banned \subseteq Caps
  /\ look \in [Slots -> LookType \cup {NoLook}]

\* A credential whose revocation was answered before a send arrived does not
\* admit the send, unless the owner took a new mailbox epoch or left while the
\* send was being checked: not through the cache, a reader that raced the
\* revocation, a restart, or the end of the 31 days (CapRevoked, revokedCache).
RevokedStaysOut ==
  \A s \in Slots : look[s] # NoLook /\ Looking(s, "admitted") /\ look[s].banned => look[s].overtaken

\* The comment on PublishKeys: a higher epoch voids every credential the old
\* key signed, since capPrecheck compares the epoch first, so their revocations
\* are of no use any more.
RevokedNeverAdmitted ==
  \A s \in Slots : ~(look[s] # NoLook /\ Looking(s, "admitted") /\ look[s].banned)
=============================================================================
