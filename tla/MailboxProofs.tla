---------------------------- MODULE MailboxProofs ----------------------------
(***************************************************************************)
(* Theorems about Mailbox and Revocations, for every value of the          *)
(* constants: a revoked credential stays out; mail waits only where a key  *)
(* set is stored; a poller is given all of it; no envelope is queued too   *)
(* often; the table of confirmations stays within its bound; and a sender  *)
(* is told the truth.  And about Histories, whose specification shares no  *)
(* variable with theirs: after a rollback nothing is stated about an agent *)
(* held, no quarantine begins without one, and what is served is what is   *)
(* held.                                                                   *)
(*                                                                         *)
(* The invariants: CredInv of the credential check, MembersInv of mail and *)
(* members, QueueInv of the queue, its readers and the redelivery windows, *)
(* and ConfirmInv of confirmations and status checks.  Each relies on the  *)
(* ones before it.  HInv is that of key histories, on its own.             *)
(***************************************************************************)
EXTENDS Mailbox, Histories, FiniteSetTheorems, WellFoundedInduction, TLAPS

-----------------------------------------------------------------------------
(* The inductive invariant of the credential check.                        *)

\* at is the time of a revocation of c.
RevocationOf(c, at) == at # 0 /\ at >= c.from

\* c's revocation is in the table, and RevokeCaps is done with the cache.
Standing(c) == revokedAt[c] # 0 /\ ~(work.kind = "add" /\ c \in work.fresh)

RecordsGood ==
  /\ \A c \in Caps : revokedAt[c] # 0 => RevocationOf(c, revokedAt[c])
  /\ work.kind = "add" => \A c \in work.fresh : RevocationOf(c, work.at)

CacheCurrent == \A c \in Caps : Standing(c) => cache[c] = NoEntry \/ RevocationOf(c, cache[c])

\* While a banned credential can be used its revocation stands.
BannedStands == \A c \in banned : time < c.from + RevocationKeep => Standing(c)

\* A check under way, or decided.
Deciding == {"keys", "cache", "row", "put"}
AfterKeys == {"cache", "row", "put"}

\* It ends in time, and past OwnerKeys its credential was not past its end.
InTime(x) ==
  /\ x.phase \in Deciding => x.asked <= time /\ time <= x.since + MaxCheck
  /\ x.phase \in AfterKeys => x.since <= x.cap.until + CapGrace

\* What it read is no older than a revocation that stands, if it may be put.
ReadsCurrent(x) ==
  x.phase = "put" /\ ~x.moved /\ Standing(x.cap) => RevocationOf(x.cap, x.at)

\* A check of a banned credential that nothing overtook will find it so.
StillBanned(x) ==
  x.phase \in Deciding /\ x.banned /\ ~x.overtaken =>
    x.cap \in banned /\ (x.phase = "put" => RevocationOf(x.cap, x.at))

KeptOut(x) == x.phase = "admitted" /\ x.banned => x.overtaken

CheckGood(x) == InTime(x) /\ ReadsCurrent(x) /\ StillBanned(x) /\ KeptOut(x)

ChecksGood == \A s \in Slots : look[s] # NoLook => CheckGood(look[s])

CredInv == CredTypeOK /\ RecordsGood /\ CacheCurrent /\ BannedStands /\ ChecksGood

-----------------------------------------------------------------------------
(* Lemmas. *)

LEMMA CredInitInv == CredInit => CredInv
  <1> SUFFICES ASSUME CredInit PROVE CredInv OBVIOUS
  <1> USE DEF CredInit, NoLook, NoWork, NoEntry, EmptyCache
  <1>1. CredTypeOK BY DEF CredTypeOK
  <1>2. RecordsGood /\ CacheCurrent /\ BannedStands
    BY DEF RecordsGood, CacheCurrent, BannedStands, Standing
  <1>3. ChecksGood BY DEF ChecksGood
  <1> QED BY <1>1, <1>2, <1>3 DEF CredInv

\* The bound that RevocationKeep gives: while a check is past OwnerKeys, a
\* revocation of its credential has not expired.
LEMMA KeptLongEnough ==
  ASSUME CredInv, NEW x \in LookType, InTime(x), x.phase \in AfterKeys
  PROVE  /\ time < x.cap.from + RevocationKeep
         /\ \A at \in Nat : RevocationOf(x.cap, at) => Verdict(at, x.asked) = "refused"
  <1>1. x.cap \in Caps /\ x.since \in Nat /\ x.asked \in Nat /\ time \in Nat
    BY DEF LookType, CredInv, CredTypeOK
  <1>2. x.cap.from \in Nat /\ x.cap.until \in Nat
    BY <1>1, RevocationAssumption DEF CapType
  <1>3. x.cap.until + CapGrace + MaxCheck < x.cap.from + RevocationKeep
    BY <1>1, RevocationAssumption
  <1>4. RevocationKeep \in Nat /\ CapGrace \in Nat /\ MaxCheck \in Nat BY RevocationAssumption
  <1>5. x.asked <= time /\ time <= x.since + MaxCheck /\ x.since <= x.cap.until + CapGrace
    BY DEF InTime, Deciding, AfterKeys
  <1>6. time < x.cap.from + RevocationKeep BY <1>1, <1>2, <1>3, <1>4, <1>5
  <1>7. ASSUME NEW at \in Nat, RevocationOf(x.cap, at) PROVE Verdict(at, x.asked) = "refused"
    BY <1>1, <1>2, <1>4, <1>5, <1>6, <1>7 DEF RevocationOf, Verdict, Unexpired
  <1> QED BY <1>6, <1>7

\* A step of one check: it is x afterwards, and the cache may have changed.
LEMMA OneCheck ==
  ASSUME CredInv, NEW s \in Slots, NEW x \in LookType \cup {NoLook},
         look' = [look EXCEPT ![s] = x], x # NoLook => CheckGood(x),
         cache' \in [Caps -> Nat \cup {NoEntry}],
         \A c \in Caps : Standing(c) => cache'[c] = NoEntry \/ RevocationOf(c, cache'[c]),
         UNCHANGED <<time, agents, served, keyset, revokedAt, work, events, banned>>
  PROVE  CredInv'
  <1>1. CredTypeOK' BY DEF CredInv, CredTypeOK
  <1>2. RecordsGood' /\ CacheCurrent' /\ BannedStands'
    BY DEF CredInv, RecordsGood, CacheCurrent, BannedStands, Standing
  <1>3. ASSUME NEW t \in Slots, look'[t] # NoLook PROVE CheckGood(look'[t])
    BY <1>3 DEF CredInv, ChecksGood, CredTypeOK
  <1>4. ChecksGood'
    BY <1>3 DEF ChecksGood, CheckGood, InTime, ReadsCurrent, StillBanned, KeptOut, Standing, NoLook
  <1> QED BY <1>1, <1>2, <1>4 DEF CredInv

LEMMA PresentInv == ASSUME CredInv, NEW s \in Slots, NEW c \in Caps, Present(s, c) PROVE CredInv'
  <1> DEFINE x == [phase |-> "keys", cap |-> c, since |-> time, asked |-> time, at |-> 0, moved |-> FALSE,
                   banned |-> c \in banned, overtaken |-> FALSE]
  <1>1. x \in LookType BY DEF LookType, CredInv, CredTypeOK
  <1>2. CheckGood(x)
    <2>1. x.phase = "keys" /\ x.asked = time /\ x.since = time /\ x.cap = c OBVIOUS
    <2>2. x.banned => c \in banned OBVIOUS
    <2>3. time \in Nat /\ MaxCheck \in Nat BY RevocationAssumption DEF CredInv, CredTypeOK
    <2> HIDE DEF x
    <2>4. InTime(x) BY <2>1, <2>3 DEF InTime, Deciding, AfterKeys
    <2>5. ReadsCurrent(x) /\ StillBanned(x) /\ KeptOut(x)
      BY <2>1, <2>2 DEF ReadsCurrent, StillBanned, KeptOut, Deciding
    <2> QED BY <2>4, <2>5 DEF CheckGood
  <1> HIDE DEF x
  <1>3. look' = [look EXCEPT ![s] = x] BY DEF Present, x
  <1> QED BY <1>1, <1>2, <1>3, OneCheck DEF Present, CredInv, CredTypeOK, CacheCurrent

LEMMA DecideInv ==
  ASSUME CredInv, NEW s \in Slots, look[s] # NoLook, NEW v \in {"admitted", "refused"}, Decide(s, v),
         v = "admitted" /\ look[s].banned => look[s].overtaken,
         cache' \in [Caps -> Nat \cup {NoEntry}],
         \A c \in Caps : Standing(c) => cache'[c] = NoEntry \/ RevocationOf(c, cache'[c]),
         UNCHANGED <<time, agents, served, keyset, revokedAt, work, events, banned>>
  PROVE  CredInv'
  <1> DEFINE y == look[s]
  <1> DEFINE x == [look[s] EXCEPT !.phase = v, !.since = 0, !.asked = 0, !.at = 0, !.moved = FALSE,
                                  !.banned = look[s].banned /\ v = "admitted"]
  <1>1. y \in LookType BY DEF CredInv, CredTypeOK
  <1>2. x \in LookType BY <1>1 DEF LookType
  <1>3. /\ x.phase = v /\ x.overtaken = y.overtaken
        /\ x.banned = (y.banned /\ v = "admitted")
    BY <1>1 DEF LookType
  <1> HIDE DEF x
  <1>4. CheckGood(x)
    BY <1>3 DEF CheckGood, InTime, ReadsCurrent, StillBanned, KeptOut, Deciding, AfterKeys
  <1>5. look' = [look EXCEPT ![s] = x] BY DEF Decide, x
  <1> QED BY <1>2, <1>4, <1>5, OneCheck

LEMMA OwnerKeysInv == ASSUME CredInv, NEW s \in Slots, OwnerKeys(s) PROVE CredInv'
  <1> DEFINE y == look[s]
  <1>1. look[s] # NoLook /\ y \in LookType /\ y.phase = "keys"
    BY DEF OwnerKeys, Looking, CredInv, CredTypeOK, NoLook
  <1>2. CheckGood(y) BY <1>1 DEF CredInv, ChecksGood
  <1>3. CASE Decide(s, "refused")
    BY <1>1, <1>3, DecideInv DEF OwnerKeys, CredInv, CredTypeOK, CacheCurrent
  <1>4. CASE capExpOK(y.cap, y.since) /\ look' = [look EXCEPT ![s].phase = "cache", ![s].asked = time]
    <2> DEFINE x == [y EXCEPT !.phase = "cache", !.asked = time]
    <2>1. x \in LookType BY <1>1 DEF LookType, CredInv, CredTypeOK
    <2>2. /\ x.phase = "cache" /\ x.asked = time /\ x.since = y.since /\ x.cap = y.cap
          /\ x.banned = y.banned /\ x.overtaken = y.overtaken
      BY <1>1 DEF LookType
    <2>3. look' = [look EXCEPT ![s] = x] BY <1>4
    <2> HIDE DEF x
    <2>4. InTime(x)
      <3>1. y.since \in Nat /\ y.cap \in Caps BY <1>1 DEF LookType
      <3>2. y.cap.until \in Nat BY <3>1, RevocationAssumption DEF CapType
      <3>3. time \in Nat /\ CapGrace \in Nat /\ MaxCheck \in Nat
        BY RevocationAssumption DEF CredInv, CredTypeOK
      <3>4. time <= y.since + MaxCheck BY <1>1, <1>2 DEF CheckGood, InTime, Deciding
      <3>5. y.since - CapGrace <= y.cap.until BY <1>4 DEF capExpOK
      <3> QED BY <2>2, <3>1, <3>2, <3>3, <3>4, <3>5 DEF InTime, Deciding, AfterKeys
    <2>5. ReadsCurrent(x) /\ StillBanned(x) /\ KeptOut(x)
      BY <1>1, <1>2, <2>2 DEF CheckGood, ReadsCurrent, StillBanned, KeptOut, Deciding
    <2>6. CheckGood(x) BY <2>4, <2>5 DEF CheckGood
    <2> QED BY <2>1, <2>3, <2>6, OneCheck DEF OwnerKeys, CredInv, CredTypeOK, CacheCurrent
  <1> QED BY <1>3, <1>4 DEF OwnerKeys

\* A banned credential past OwnerKeys: its revocation stands.
LEMMA BannedUnderWay ==
  ASSUME CredInv, NEW x \in LookType, CheckGood(x), x.phase \in AfterKeys, x.banned, ~x.overtaken
  PROVE  x.cap \in banned /\ Standing(x.cap)
  <1>1. x.cap \in banned BY DEF CheckGood, StillBanned, AfterKeys, Deciding
  <1>2. time < x.cap.from + RevocationKeep BY KeptLongEnough DEF CheckGood
  <1> QED BY <1>1, <1>2 DEF CredInv, BannedStands

LEMMA LookInCacheInv == ASSUME CredInv, NEW s \in Slots, LookInCache(s) PROVE CredInv'
  <1> DEFINE y == look[s]
           at == cache[y.cap]
  <1>1. look[s] # NoLook /\ y \in LookType /\ y.phase = "cache"
    BY DEF LookInCache, Looking, CredInv, CredTypeOK, NoLook
  <1>2. CheckGood(y) BY <1>1 DEF CredInv, ChecksGood
  <1>3. CASE at # NoEntry
    <2>1. y.cap \in Caps BY <1>1 DEF LookType
    <2>2. at \in Nat BY <1>3, <2>1 DEF CredInv, CredTypeOK
    <2>3. ASSUME y.banned, ~y.overtaken PROVE Verdict(at, y.asked) = "refused"
      <3>1. RevocationOf(y.cap, at)
        BY <1>1, <1>2, <1>3, <2>1, <2>3, BannedUnderWay DEF AfterKeys, CredInv, CacheCurrent
      <3> QED BY <1>1, <1>2, <2>2, <3>1, KeptLongEnough DEF AfterKeys, CheckGood
    <2>4. Verdict(at, y.asked) \in {"admitted", "refused"} BY DEF Verdict
    <2>5. y.overtaken \in BOOLEAN /\ y.banned \in BOOLEAN BY <1>1 DEF LookType
    <2> QED BY <1>1, <1>3, <2>3, <2>4, <2>5, DecideInv DEF LookInCache, CredInv, CredTypeOK, CacheCurrent
  <1>4. CASE at = NoEntry
    <2> DEFINE x == [y EXCEPT !.phase = "row", !.moved = FALSE]
    <2>1. x \in LookType BY <1>1 DEF LookType
    <2>2. /\ x.phase = "row" /\ x.asked = y.asked /\ x.since = y.since /\ x.cap = y.cap
          /\ x.banned = y.banned /\ x.overtaken = y.overtaken
      BY <1>1 DEF LookType
    <2>3. look' = [look EXCEPT ![s] = x] BY <1>4 DEF LookInCache
    <2> HIDE DEF x
    <2>4. CheckGood(x)
      BY <1>1, <1>2, <2>2 DEF CheckGood, InTime, ReadsCurrent, StillBanned, KeptOut, Deciding, AfterKeys
    <2> QED BY <2>1, <2>3, <2>4, OneCheck DEF LookInCache, CredInv, CredTypeOK, CacheCurrent
  <1> QED BY <1>3, <1>4

LEMMA ReadRowInv == ASSUME CredInv, NEW s \in Slots, ReadRow(s) PROVE CredInv'
  <1> DEFINE y == look[s]
           x == [y EXCEPT !.phase = "put", !.at = revokedAt[y.cap]]
  <1>1. look[s] # NoLook /\ y \in LookType /\ y.phase = "row"
    BY DEF ReadRow, Looking, CredInv, CredTypeOK, NoLook
  <1>2. CheckGood(y) BY <1>1 DEF CredInv, ChecksGood
  <1>3. y.cap \in Caps /\ revokedAt[y.cap] \in Nat BY <1>1 DEF LookType, CredInv, CredTypeOK
  <1>4. x \in LookType BY <1>1, <1>3 DEF LookType
  <1>5. /\ x.phase = "put" /\ x.asked = y.asked /\ x.since = y.since /\ x.cap = y.cap
        /\ x.banned = y.banned /\ x.overtaken = y.overtaken /\ x.at = revokedAt[y.cap]
    BY <1>1 DEF LookType
  <1>6. look' = [look EXCEPT ![s] = x] BY DEF ReadRow
  <1> HIDE DEF x
  <1>7. Standing(y.cap) => RevocationOf(y.cap, revokedAt[y.cap])
    BY <1>3 DEF Standing, CredInv, RecordsGood
  <1>8. y.banned /\ ~y.overtaken => y.cap \in banned /\ Standing(y.cap)
    BY <1>1, <1>2, BannedUnderWay DEF AfterKeys
  <1>9. CheckGood(x)
    BY <1>1, <1>2, <1>5, <1>7, <1>8
    DEF CheckGood, InTime, ReadsCurrent, StillBanned, KeptOut, Deciding, AfterKeys
  <1> QED BY <1>4, <1>6, <1>9, OneCheck DEF ReadRow, CredInv, CredTypeOK, CacheCurrent

LEMMA PutInCacheInv == ASSUME CredInv, NEW s \in Slots, PutInCache(s) PROVE CredInv'
  <1> DEFINE y == look[s]
  <1>1. look[s] # NoLook /\ y \in LookType /\ y.phase = "put"
    BY DEF PutInCache, Looking, CredInv, CredTypeOK, NoLook
  <1>2. CheckGood(y) BY <1>1 DEF CredInv, ChecksGood
  <1>3. y.cap \in Caps /\ y.at \in Nat BY <1>1 DEF LookType
  <1>4. IF y.moved THEN cache' = cache ELSE cache' \in CacheWith(y.cap, y.at)
    BY Zenon DEF PutInCache
  <1>5. /\ cache' \in [Caps -> Nat \cup {NoEntry}]
        /\ \A c \in Caps : Standing(c) => cache'[c] = NoEntry \/ RevocationOf(c, cache'[c])
    <2>1. cache \in [Caps -> Nat \cup {NoEntry}] BY DEF CredInv, CredTypeOK
    <2>2. CASE cache' = cache BY <2>1, <2>2 DEF CredInv, CacheCurrent
    <2>3. CASE ~y.moved /\ cache' \in CacheWith(y.cap, y.at)
      <3>1. PICK gone \in SUBSET Caps :
              cache' = [d \in Caps |-> IF d = y.cap THEN y.at ELSE IF d \in gone THEN NoEntry ELSE cache[d]]
        <4> DEFINE entries == {d \in Caps : cache[d] # NoEntry} \cup {y.cap}
                   room == IF Cardinality(entries) <= CacheSize THEN {{}} ELSE {{d} : d \in entries \ {y.cap}}
        <4>1. cache' \in {[d \in Caps |-> IF d = y.cap THEN y.at ELSE IF d \in gone THEN NoEntry ELSE cache[d]]
                          : gone \in room}
          BY <2>3 DEF CacheWith
        <4>2. room \subseteq SUBSET Caps BY <1>3
        <4> HIDE DEF room
        <4> QED BY <4>1, <4>2
      <3>2. cache' \in [Caps -> Nat \cup {NoEntry}] BY <1>3, <2>1, <3>1
      <3>3. Standing(y.cap) => RevocationOf(y.cap, y.at)
        BY <1>1, <1>2, <2>3 DEF CheckGood, ReadsCurrent
      <3>4. \A c \in Caps : cache'[c] = IF c = y.cap THEN y.at ELSE IF c \in gone THEN NoEntry ELSE cache[c]
        BY <3>1
      <3> QED BY <3>2, <3>3, <3>4 DEF CredInv, CacheCurrent
    <2> QED BY <1>4, <2>2, <2>3, Zenon
  <1>6. Verdict(y.at, y.asked) \in {"admitted", "refused"} BY DEF Verdict
  <1>7. ASSUME y.banned, ~y.overtaken PROVE Verdict(y.at, y.asked) = "refused"
    <2>1. RevocationOf(y.cap, y.at)
      BY <1>1, <1>2, <1>7 DEF CheckGood, StillBanned, Deciding
    <2> QED BY <1>1, <1>2, <1>3, <2>1, KeptLongEnough DEF AfterKeys, CheckGood
  <1>8. y.overtaken \in BOOLEAN /\ y.banned \in BOOLEAN BY <1>1 DEF LookType
  <1> QED BY <1>1, <1>5, <1>6, <1>7, <1>8, DecideInv DEF PutInCache

-----------------------------------------------------------------------------
(* The steps of the tables and the cache.                                  *)

\* A step that leaves every check and the clock as they are.
LEMMA KeepsChecks ==
  ASSUME CredInv, UNCHANGED look, CredTypeOK', RecordsGood', CacheCurrent', BannedStands',
         time' = time, banned \subseteq banned', \A c \in Caps : Standing(c)' => Standing(c)
  PROVE  CredInv'
  <1>1. ASSUME NEW s \in Slots, look[s] # NoLook PROVE CheckGood(look[s])'
    <2> DEFINE x == look[s]
    <2>1. x \in LookType /\ x' = x /\ CheckGood(x) BY <1>1 DEF CredInv, CredTypeOK, ChecksGood
    <2>2. x.cap \in Caps BY <2>1 DEF LookType
    <2>3. Standing(x.cap)' => Standing(x.cap) BY <2>1, <2>2
    <2> QED BY <2>1, <2>3 DEF CheckGood, InTime, ReadsCurrent, StillBanned, KeptOut
  <1> QED BY <1>1 DEF CredInv, ChecksGood

LEMMA RevokeCapsInv ==
  ASSUME CredInv, NEW o \in Owners, NEW batch \in SUBSET Caps, RevokeCaps(o, batch) PROVE CredInv'
  <1> DEFINE fresh == batch \ Live(o)
  <1>1. /\ work = NoWork /\ batch \subseteq CapsOf(o) /\ \A c \in batch : c.from <= time
        /\ revokedAt' = [c \in Caps |-> IF c \in fresh THEN time ELSE revokedAt[c]]
        /\ work' = [kind |-> "add", fresh |-> fresh, batch |-> batch, at |-> time]
        /\ UNCHANGED <<time, agents, served, keyset, cache, events, look, banned>>
    BY DEF RevokeCaps, Unlocked
  <1>2. time \in Nat \ {0} /\ revokedAt \in [Caps -> Nat] /\ fresh \subseteq Caps
    BY DEF CredInv, CredTypeOK
  <1>3. ASSUME NEW c \in banned, time < c.from + RevocationKeep PROVE c \notin fresh /\ Standing(c)
    <2>1. c \in Caps /\ c.from \in Nat /\ RevocationKeep \in Nat
      BY RevocationAssumption DEF CapType, CredInv, CredTypeOK
    <2>2. Standing(c) BY <1>3 DEF CredInv, BannedStands
    <2>3. revokedAt[c] # 0 /\ revokedAt[c] >= c.from /\ revokedAt[c] \in Nat
      BY <1>2, <2>1, <2>2 DEF Standing, CredInv, RecordsGood, RevocationOf
    <2>4. Unexpired(revokedAt[c], time) BY <1>2, <1>3, <2>1, <2>3 DEF Unexpired
    <2>5. c \in batch => c \in Live(o) BY <1>1, <2>3, <2>4 DEF Live, CapsOf
    <2> QED BY <2>2, <2>5
  <1> HIDE DEF fresh
  <1>4. CredTypeOK' BY <1>1, <1>2 DEF CredInv, CredTypeOK
  <1>5. RecordsGood'
    BY <1>1, <1>2 DEF CredInv, RecordsGood, RevocationOf, fresh
  <1>6. \A c \in Caps : Standing(c)' => Standing(c) BY <1>1, <1>2 DEF Standing, NoWork
  <1>7. CacheCurrent' BY <1>1, <1>6 DEF CredInv, CacheCurrent
  <1>8. BannedStands' BY <1>1, <1>2, <1>3 DEF CredInv, CredTypeOK, BannedStands, Standing
  <1> QED BY <1>1, <1>4, <1>5, <1>6, <1>7, <1>8, KeepsChecks

\* A step after which no reader may put what it has read.
LEMMA GenerationInv ==
  ASSUME CredInv, look' = GenerationMoves, time' = time, banned \subseteq banned',
         look' \in [Slots -> LookType \cup {NoLook}] => CredTypeOK',
         RecordsGood', CacheCurrent', BannedStands'
  PROVE  CredInv'
  <1>1. ASSUME NEW s \in Slots
        PROVE  /\ look'[s] \in LookType \cup {NoLook}
               /\ look'[s] # NoLook => CheckGood(look[s])'
    <2> DEFINE x == look[s]
    <2>1. x \in LookType \cup {NoLook} BY DEF CredInv, CredTypeOK
    <2>2. CASE x = NoLook
      <3>1. look'[s] = NoLook BY <2>2 DEF GenerationMoves, NoLook
      <3> QED BY <3>1
    <2>3. CASE x # NoLook /\ x.phase \notin {"row", "put"}
      <3>1. look'[s] = x /\ x \in LookType /\ CheckGood(x)
        BY <2>1, <2>3 DEF GenerationMoves, CredInv, ChecksGood
      <3> QED BY <2>3, <3>1 DEF CheckGood, InTime, ReadsCurrent, StillBanned, KeptOut
    <2>4. CASE x # NoLook /\ x.phase \in {"row", "put"}
      <3>1. look'[s] = [x EXCEPT !.moved = TRUE] /\ x \in LookType /\ CheckGood(x)
        BY <2>1, <2>4 DEF GenerationMoves, CredInv, ChecksGood
      <3>2. look'[s] \in LookType BY <3>1 DEF LookType
      <3>3. /\ look'[s].phase = x.phase /\ look'[s].asked = x.asked /\ look'[s].since = x.since
            /\ look'[s].cap = x.cap /\ look'[s].at = x.at /\ look'[s].banned = x.banned
            /\ look'[s].overtaken = x.overtaken /\ look'[s].moved = TRUE
        BY <3>1 DEF LookType
      <3>4. InTime(x) /\ StillBanned(x) BY <3>1 DEF CheckGood
      <3>5. InTime(look[s])' BY <3>3, <3>4 DEF InTime
      <3>6. ReadsCurrent(look[s])' BY <3>3, Zenon DEF ReadsCurrent
      <3>7. StillBanned(look[s])' BY <3>3, <3>4 DEF StillBanned
      <3>8. KeptOut(look[s])' BY <2>4, <3>3 DEF KeptOut
      <3> QED BY <3>2, <3>5, <3>6, <3>7, <3>8 DEF CheckGood
    <2> QED BY <2>2, <2>3, <2>4
  <1>2. look' \in [Slots -> LookType \cup {NoLook}] BY <1>1 DEF GenerationMoves
  <1> QED BY <1>1, <1>2 DEF CredInv, ChecksGood

LEMMA RevocationCachedInv == CredInv /\ RevocationCached => CredInv'
  <1> SUFFICES ASSUME CredInv, RevocationCached PROVE CredInv' OBVIOUS
  <1>1. /\ work.kind = "add" /\ work' = NoWork /\ look' = GenerationMoves
        /\ cache' = [c \in Caps |-> IF c \in work.fresh /\ cache[c] # NoEntry THEN work.at ELSE cache[c]]
        /\ banned' = banned \cup {c \in work.batch : revokedAt[c] # 0}
        /\ UNCHANGED <<time, agents, served, keyset, revokedAt, events>>
    BY DEF RevocationCached
  <1>2. /\ work.at \in Nat /\ work.batch \subseteq Caps /\ work.fresh \subseteq Caps
        /\ cache \in [Caps -> Nat \cup {NoEntry}]
    BY DEF CredInv, CredTypeOK
  <1>3. look' \in [Slots -> LookType \cup {NoLook}] => CredTypeOK'
    BY <1>1, <1>2 DEF CredInv, CredTypeOK, NoWork
  <1>4. RecordsGood' BY <1>1 DEF CredInv, RecordsGood, NoWork
  <1>5. CacheCurrent' BY <1>1, <1>2 DEF CredInv, CacheCurrent, RecordsGood, Standing
  <1>6. BannedStands' BY <1>1 DEF CredInv, BannedStands, Standing, NoWork
  <1> QED BY <1>1, <1>3, <1>4, <1>5, <1>6, GenerationInv

\* The cache is dropped, with the generation (forget).
LEMMA ForgetInv ==
  ASSUME CredInv, cache' = EmptyCache, look' = GenerationMoves, work' = work \/ work' = NoWork,
         events' \subseteq Owners, UNCHANGED <<time, agents, served, keyset, revokedAt, banned>>
  PROVE  CredInv'
  <1>1. look' \in [Slots -> LookType \cup {NoLook}] => CredTypeOK'
    BY DEF CredInv, CredTypeOK, NoWork, EmptyCache
  <1>2. RecordsGood' BY DEF CredInv, RecordsGood, NoWork
  <1>3. CacheCurrent' BY DEF CacheCurrent, EmptyCache
  <1>4. BannedStands' BY DEF CredInv, BannedStands, Standing, NoWork
  <1> QED BY <1>1, <1>2, <1>3, <1>4, GenerationInv

LEMMA LoseMemoryInv == CredInv /\ LoseMemory => CredInv'
  <1> SUFFICES ASSUME CredInv, LoseMemory PROVE CredInv' OBVIOUS
  <1>1. CredTypeOK' BY DEF LoseMemory, CredInv, CredTypeOK, NoWork, EmptyCache
  <1>2. RecordsGood' BY DEF LoseMemory, CredInv, RecordsGood, NoWork
  <1>3. CacheCurrent' BY DEF LoseMemory, CacheCurrent, EmptyCache
  <1>4. BannedStands' BY DEF LoseMemory, CredInv, BannedStands, Standing, NoWork
  <1>5. ChecksGood' BY DEF LoseMemory, ChecksGood
  <1> QED BY <1>1, <1>2, <1>3, <1>4, <1>5 DEF CredInv

\* A departure and a new mailbox key void an owner's revocations.
LEMMA VoidInv ==
  ASSUME CredInv, NEW o \in Owners, VoidRevocations(o), UNCHANGED <<time, cache>>,
         \/ work' = work
         \/ work = NoWork /\ work' = [NoWork EXCEPT !.kind = "forget"],
         look' \in [Slots -> LookType \cup {NoLook}] /\ revokedAt' \in [Caps -> Nat] => CredTypeOK'
  PROVE  CredInv'
  <1>1. /\ revokedAt' = [c \in Caps |-> IF c.owner = o THEN 0 ELSE revokedAt[c]]
        /\ banned' = banned \ CapsOf(o)
        /\ look' = [s \in Slots |-> IF look[s] # NoLook /\ look[s].cap.owner = o
                                    THEN [look[s] EXCEPT !.overtaken = TRUE] ELSE look[s]]
    BY DEF VoidRevocations
  <1>2. revokedAt \in [Caps -> Nat] /\ banned \subseteq Caps BY DEF CredInv, CredTypeOK
  <1>3. \A c \in Caps : /\ Standing(c)' => Standing(c)
                        /\ Standing(c) /\ c.owner # o => Standing(c)'
    BY <1>1, <1>2 DEF Standing, NoWork
  <1>4. RecordsGood' BY <1>1, <1>2 DEF CredInv, RecordsGood, RevocationOf, NoWork
  <1>5. CacheCurrent' BY <1>3 DEF CredInv, CacheCurrent
  <1>6. BannedStands' BY <1>1, <1>2, <1>3 DEF CredInv, BannedStands, CapsOf
  <1>7. ASSUME NEW s \in Slots
        PROVE  /\ look'[s] \in LookType \cup {NoLook}
               /\ look'[s] # NoLook => CheckGood(look[s])'
    <2> DEFINE x == look[s]
    <2>1. x \in LookType \cup {NoLook} BY DEF CredInv, CredTypeOK
    <2>2. CASE x = NoLook
      <3>1. look'[s] = NoLook BY <1>1, <2>2
      <3> QED BY <3>1
    <2>3. CASE x # NoLook /\ x.cap.owner # o
      <3>1. look'[s] = x /\ x \in LookType /\ CheckGood(x)
        BY <1>1, <2>1, <2>3 DEF CredInv, ChecksGood
      <3>2. x.cap \in Caps BY <3>1 DEF LookType
      <3>3. x.cap \in banned => x.cap \in banned' BY <1>1, <2>3 DEF CapsOf
      <3> QED BY <1>3, <3>1, <3>2, <3>3 DEF CheckGood, InTime, ReadsCurrent, StillBanned, KeptOut
    <2>4. CASE x # NoLook /\ x.cap.owner = o
      <3>1. look'[s] = [x EXCEPT !.overtaken = TRUE] /\ x \in LookType /\ CheckGood(x)
        BY <1>1, <2>1, <2>4 DEF CredInv, ChecksGood
      <3>2. look'[s] \in LookType BY <3>1 DEF LookType
      <3>3. /\ look'[s].phase = x.phase /\ look'[s].asked = x.asked /\ look'[s].since = x.since
            /\ look'[s].cap = x.cap /\ look'[s].at = x.at /\ look'[s].moved = x.moved
            /\ look'[s].overtaken = TRUE
        BY <3>1 DEF LookType
      <3>4. x.cap \in Caps /\ InTime(x) BY <3>1 DEF LookType, CheckGood
      <3>5. InTime(look[s])' BY <3>3, <3>4 DEF InTime
      <3>6. ~Standing(x.cap)' BY <1>1, <2>4, <3>4 DEF Standing
      <3>7. ReadsCurrent(look[s])' BY <3>3, <3>6 DEF ReadsCurrent, Standing
      <3>8. StillBanned(look[s])' /\ KeptOut(look[s])' BY <3>3 DEF StillBanned, KeptOut
      <3> QED BY <3>2, <3>5, <3>7, <3>8 DEF CheckGood
    <2> QED BY <2>2, <2>3, <2>4
  <1>8. look' \in [Slots -> LookType \cup {NoLook}] BY <1>1, <1>7
  <1>9. revokedAt' \in [Caps -> Nat] BY <1>1, <1>2
  <1> QED BY <1>4, <1>5, <1>6, <1>7, <1>8, <1>9 DEF CredInv, ChecksGood

LEMMA PurgeRevocationsInv == CredInv /\ PurgeRevocations => CredInv'
  <1> SUFFICES ASSUME CredInv, PurgeRevocations PROVE CredInv' OBVIOUS
  <1>1. /\ revokedAt' = [c \in Caps |-> IF Unexpired(revokedAt[c], time) THEN revokedAt[c] ELSE 0]
        /\ UNCHANGED <<time, agents, served, keyset, cache, work, events, look, banned>>
    BY DEF PurgeRevocations
  <1>2. CredTypeOK' BY <1>1 DEF CredInv, CredTypeOK
  <1>3. RecordsGood' BY <1>1 DEF CredInv, RecordsGood, RevocationOf
  <1>4. \A c \in Caps : Standing(c)' => Standing(c) BY <1>1 DEF Standing
  <1>5. CacheCurrent' BY <1>1, <1>4 DEF CredInv, CacheCurrent
  <1>6. ASSUME NEW c \in banned, time < c.from + RevocationKeep PROVE Standing(c)'
    <2>1. c \in Caps /\ c.from \in Nat /\ RevocationKeep \in Nat /\ time \in Nat /\ revokedAt[c] \in Nat
      BY RevocationAssumption DEF CapType, CredInv, CredTypeOK
    <2>2. Standing(c) BY <1>6 DEF CredInv, BannedStands
    <2>3. revokedAt[c] # 0 /\ revokedAt[c] >= c.from
      BY <2>1, <2>2 DEF Standing, CredInv, RecordsGood, RevocationOf
    <2>4. Unexpired(revokedAt[c], time) BY <1>6, <2>1, <2>3 DEF Unexpired
    <2> QED BY <1>1, <2>1, <2>2, <2>4 DEF Standing
  <1>7. BannedStands' BY <1>1, <1>6 DEF BannedStands
  <1> QED BY <1>1, <1>2, <1>3, <1>4, <1>5, <1>7, KeepsChecks

LEMMA RowsAloneInv ==
  ASSUME CredInv, CredTypeOK', UNCHANGED <<time, revokedAt, cache, work, look, banned>> PROVE CredInv'
  <1>1. RecordsGood' /\ CacheCurrent' /\ BannedStands' /\ \A c \in Caps : Standing(c)' = Standing(c)
    BY DEF CredInv, RecordsGood, CacheCurrent, BannedStands, Standing
  <1> QED BY <1>1, KeepsChecks

LEMMA TimePassesInv ==
  ASSUME CredInv, TimePasses, UNCHANGED <<agents, served, keyset, revokedAt, cache, work, events, look, banned>>
  PROVE  CredInv'
  <1>1. CredTypeOK' BY DEF TimePasses, CredInv, CredTypeOK
  <1>2. RecordsGood' /\ CacheCurrent' BY DEF CredInv, RecordsGood, CacheCurrent, Standing
  <1>3. BannedStands'
    <2> SUFFICES ASSUME NEW c \in banned, time' < c.from + RevocationKeep PROVE Standing(c)
      BY DEF BannedStands, Standing
    <2>1. c \in Caps /\ c.from \in Nat /\ RevocationKeep \in Nat /\ time \in Nat
      BY RevocationAssumption DEF CapType, CredInv, CredTypeOK
    <2>2. time < c.from + RevocationKeep BY <2>1 DEF TimePasses
    <2> QED BY <2>2 DEF CredInv, BannedStands
  <1>4. ASSUME NEW s \in Slots, look[s] # NoLook PROVE CheckGood(look[s])'
    <2> DEFINE x == look[s]
    <2>1. x \in LookType /\ x' = x /\ CheckGood(x) BY <1>4 DEF CredInv, CredTypeOK, ChecksGood
    <2>2. time \in Nat /\ x.asked \in Nat /\ x.since \in Nat /\ MaxCheck \in Nat
      BY <2>1, RevocationAssumption DEF LookType, CredInv, CredTypeOK
    <2>3. x.phase \in Deciding => time < x.since + MaxCheck
      BY <1>4 DEF TimePasses, Undecided, Deciding
    <2>4. InTime(x)'
      BY <2>1, <2>2, <2>3 DEF TimePasses, CheckGood, InTime
    <2> QED BY <2>1, <2>4 DEF CheckGood, ReadsCurrent, StillBanned, KeptOut, Standing
  <1> QED BY <1>1, <1>2, <1>3, <1>4 DEF CredInv, ChecksGood

LEMMA PublishKeysInv ==
  ASSUME CredInv, NEW o \in Owners, NEW ks \in KeySets, PublishKeys(o, ks) PROVE CredInv'
  <1>1. keyset' \in [Owners -> KeySets \cup {NoKeys}] BY DEF PublishKeys, CredInv, CredTypeOK
  <1>2. CASE VoidRevocations(o) /\ work' = [NoWork EXCEPT !.kind = "forget"]
    <2>1. look' \in [Slots -> LookType \cup {NoLook}] /\ revokedAt' \in [Caps -> Nat] => CredTypeOK'
      BY <1>1, <1>2 DEF PublishKeys, VoidRevocations, NoWork, CredInv, CredTypeOK
    <2> QED BY <1>2, <2>1, VoidInv DEF PublishKeys, Unlocked
  <1>3. CASE UNCHANGED <<revokedAt, banned, look, work>>
    <2>1. CredTypeOK' BY <1>1, <1>3 DEF PublishKeys, CredInv, CredTypeOK
    <2> QED BY <1>3, <2>1, RowsAloneInv DEF PublishKeys
  <1> QED BY <1>2, <1>3 DEF PublishKeys

LEMMA LeaveInv == ASSUME CredInv, NEW o \in Owners, Leave(o) PROVE CredInv'
  <1>1. look' \in [Slots -> LookType \cup {NoLook}] /\ revokedAt' \in [Caps -> Nat] => CredTypeOK'
    BY DEF Leave, VoidRevocations, CredInv, CredTypeOK
  <1> QED BY <1>1, VoidInv DEF Leave

LEMMA CheckedInv == ASSUME CredInv, NEW s \in Slots, Checked(s) PROVE CredInv'
  <1>1. /\ look' = [look EXCEPT ![s] = NoLook]
        /\ UNCHANGED <<time, agents, served, keyset, revokedAt, cache, work, events, banned>>
    BY DEF Checked
  <1> QED BY <1>1, OneCheck DEF CredInv, CredTypeOK, CacheCurrent

LEMMA CredentialStepInv == CredInv /\ CredentialStep => CredInv'
  <1> SUFFICES ASSUME CredInv, CredentialStep PROVE CredInv' OBVIOUS
  <1>1. CASE \E s \in Slots : CredStep(s)
    BY <1>1, OwnerKeysInv, LookInCacheInv, ReadRowInv, PutInCacheInv DEF CredStep
  <1>2. ASSUME NEW o \in Owners, Join(o) \/ RotateKey(o) \/ ClearEvent(o) PROVE CredInv'
    <2>1. CredTypeOK' BY <1>2 DEF Join, RotateKey, ClearEvent, CredInv, CredTypeOK
    <2> QED BY <1>2, <2>1, RowsAloneInv DEF Join, RotateKey, ClearEvent
  <1>3. ASSUME NEW o \in Owners, DeregCallback(o) PROVE CredInv'
    BY <1>3, ForgetInv DEF DeregCallback, CredInv, CredTypeOK
  <1>4. ASSUME NEW o \in Owners, NEW batch \in SUBSET CapsOf(o), RevokeCaps(o, batch) PROVE CredInv'
    BY <1>4, RevokeCapsInv DEF CapsOf
  <1>5. CASE ForgetCaps BY <1>5, ForgetInv DEF ForgetCaps, CredInv, CredTypeOK
  <1> QED
    BY <1>1, <1>2, <1>3, <1>4, <1>5, PublishKeysInv, RevocationCachedInv, PurgeRevocationsInv
    DEF CredentialStep

LEMMA UnchangedInv == CredInv /\ UNCHANGED credVars => CredInv'
  <1> SUFFICES ASSUME CredInv, UNCHANGED credVars PROVE CredInv' OBVIOUS
  <1>1. CredTypeOK' BY DEF credVars, CredInv, CredTypeOK
  <1> QED BY <1>1, RowsAloneInv DEF credVars

LEMMA MailNextCred == CredInv /\ [MailNext]_vars => CredInv'
  <1> SUFFICES ASSUME CredInv, [MailNext]_vars PROVE CredInv' OBVIOUS
  <1>1. ASSUME NEW s \in Slots, NEW m \in Envelopes, StartSend(s, m) PROVE CredInv'
    <2>1. m.cap # NoCap => m.cap \in Caps BY MailboxAssumption DEF EnvelopeType
    <2> QED BY <1>1, <2>1, UnchangedInv, PresentInv DEF StartSend
  <1>2. ASSUME NEW s \in Slots, NEW share \in Shares, RelayEnqueue(s, share) PROVE CredInv'
    BY <1>2, UnchangedInv DEF RelayEnqueue
  <1>3. ASSUME NEW s \in Slots, Route(s) \/ LookForDuplicate(s) \/ Answer(s) PROVE CredInv'
    BY <1>3, UnchangedInv DEF Route, LookForDuplicate, Answer
  <1>4. ASSUME NEW o \in Owners, PollPage(o) PROVE CredInv' BY <1>4, UnchangedInv DEF PollPage
  <1>5. ASSUME NEW o \in Owners, NEW ids, NEW confirmed, Acknowledge(o, ids, confirmed) PROVE CredInv'
    BY <1>5, UnchangedInv DEF Acknowledge
  <1>6. ASSUME NEW t \in told, ReadStatus(t.msg, t.rid) PROVE CredInv' BY <1>6, UnchangedInv DEF ReadStatus
  <1>7. CASE CutTime \/ StatusTold \/ PurgeUndelivered \/ PurgeByExp \/ PurgeCounts \/ PurgeDAcks
    BY <1>7, UnchangedInv
    DEF CutTime, StatusTold, PurgeUndelivered, PurgeByExp, Purge, PurgeCounts, PurgeDAcks
  <1>8. ASSUME NEW o \in Owners, MailboxLeaves(o) PROVE CredInv' BY <1>8, LeaveInv DEF MailboxLeaves
  <1>9. CASE Crash BY <1>9, LoseMemoryInv DEF Crash
  <1>10. CASE MailTime BY <1>10, TimePassesInv DEF MailTime
  <1>11. CASE UNCHANGED vars BY <1>11, UnchangedInv DEF vars
  <1> QED
    BY <1>1, <1>2, <1>3, <1>4, <1>5, <1>6, <1>7, <1>8, <1>9, <1>10, <1>11, CheckedInv, CredentialStepInv
    DEF MailNext

\* The invariant of the credential check holds of the whole hub.
THEOREM CredentialsInvariant == MailSpec => []CredInv
  <1>1. MailInit => CredInv BY CredInitInv DEF MailInit
  <1>2. CredInv /\ [MailNext]_vars => CredInv' BY MailNextCred
  <1> QED BY <1>1, <1>2, PTL DEF MailSpec

\* The tables of credentials and revocations, the cache and the checks hold
\* values of their types (revoke.go, keys.go, capPrecheck).
THEOREM CredentialsTypeCorrect == MailSpec => []CredTypeOK
  <1>1. CredInv => CredTypeOK BY DEF CredInv
  <1> QED BY <1>1, CredentialsInvariant, PTL

\* A credential whose revocation was answered before a send arrived does not
\* admit the send, unless its owner took a new mailbox key or left meanwhile,
\* in every interleaving of checks with revocations, evictions from the cache,
\* restarts and the janitor (CapRevoked, revokedCache, RevokeCaps).
THEOREM RevokedCredentialStaysOut == MailSpec => []RevokedStaysOut
  <1>1. CredInv => RevokedStaysOut
    BY DEF CredInv, ChecksGood, CheckGood, KeptOut, RevokedStaysOut, Looking
  <1> QED BY <1>1, CredentialsInvariant, PTL

-----------------------------------------------------------------------------
(* Mail and members.                                                       *)

SendsTyped == send \in [Slots -> SendType \cup {NoSend}]

\* Mail may wait for o.
MayWait(o) == o \in agents \/ keyset[o] # NoKeys

RowsTyped == rows \subseteq [id: Nat, rid: Nat, msg: Envelopes, at: Nat] /\ lastId \in Nat

MembersInv == SendsTyped /\ RowsTyped /\ MailNeedsKeys

LEMMA EnvelopeOwner == \A m \in Envelopes : m.to \in Owners
  BY MailboxAssumption DEF EnvelopeType

\* Steps of a send that queue nothing.
LEMMA SendOnly ==
  ASSUME MembersInv, SendsTyped', UNCHANGED <<agents, keyset, lastId>>, rows' \subseteq rows PROVE MembersInv'
  BY DEF MembersInv, RowsTyped, MailNeedsKeys

\* Steps that delete mail, or none.
LEMMA RowsGo ==
  ASSUME MembersInv, UNCHANGED <<send, agents, keyset, lastId>>, rows' \subseteq rows PROVE MembersInv'
  BY DEF MembersInv, SendsTyped, RowsTyped, MailNeedsKeys

LEMMA SendOf ==
  ASSUME SendsTyped, NEW s \in Slots, NEW p \in {"access", "route", "waiting", "enqueue", "answered"},
         Sending(s, p)
  PROVE  send[s] \in SendType
  BY DEF SendsTyped, Sending, NoSend

LEMMA ReplyTyped ==
  ASSUME SendsTyped, NEW s \in Slots, send[s] \in SendType, NEW a \in Outcomes, NEW rid \in Nat,
         Reply(s, a, rid)
  PROVE  SendsTyped'
  <1> DEFINE x == [send[s] EXCEPT !.phase = "answered", !.answer = a, !.rid = rid]
  <1>1. x \in SendType BY DEF SendType
  <1>2. send' = [send EXCEPT ![s] = x] BY DEF Reply
  <1> HIDE DEF x
  <1> QED BY <1>1, <1>2 DEF SendsTyped

LEMMA AdvanceTyped ==
  ASSUME SendsTyped, NEW s \in Slots, send[s] \in SendType, NEW p \in {"waiting", "enqueue"},
         send' = [send EXCEPT ![s].phase = p]
  PROVE  SendsTyped'
  <1> DEFINE x == [send[s] EXCEPT !.phase = p]
  <1>1. x \in SendType BY DEF SendType
  <1>2. send' = [send EXCEPT ![s] = x] OBVIOUS
  <1> HIDE DEF x
  <1> QED BY <1>1, <1>2 DEF SendsTyped

\* The recipient has a key set when the row is written.
LEMMA EnqueueMembers ==
  ASSUME CredTypeOK, MembersInv, NEW s \in Slots, NEW share \in Shares, RelayEnqueue(s, share)
  PROVE  MembersInv'
  <1> DEFINE m == send[s].msg
             o == EnqueueOutcome(m, time, share)
  <1>1. send[s] \in SendType BY SendOf DEF MembersInv, RelayEnqueue
  <1>2. m \in Envelopes /\ m.to \in Owners BY <1>1, EnvelopeOwner DEF SendType
  <1>3. UNCHANGED <<agents, keyset>> BY DEF RelayEnqueue, credVars
  <1>4. lastId + 1 \in Nat /\ \A r \in rows : r.rid \in Nat BY DEF MembersInv, RowsTyped
  <1>5. CASE o = "queued" /\ Enqueued(m, time) /\ Reply(s, o, lastId + 1)
    <2>1. SendsTyped' BY <1>1, <1>4, <1>5, ReplyTyped DEF MembersInv, Outcomes
    <2>2. kidAcceptable(m, time) BY <1>5 DEF EnqueueOutcome, NewOutcome
    <2>3. keyset[m.to] # NoKeys BY <2>2 DEF kidAcceptable, NoKeys
    <2>4. \A r \in rows' : r \in rows \/ r.msg = m BY <1>5 DEF Enqueued
    <2>5. MailNeedsKeys' BY <1>3, <2>3, <2>4 DEF MembersInv, MailNeedsKeys
    <2>6. RowsTyped'
      <3>1. time \in Nat BY DEF CredTypeOK
      <3> QED BY <1>2, <1>4, <1>5, <3>1 DEF Enqueued, NewId, MembersInv, RowsTyped
    <2> QED BY <2>1, <2>5, <2>6 DEF MembersInv
  <1>6. CASE o = "duplicate" /\ Reply(s, o, RowOf(m).rid) /\ UNCHANGED queueVars
    <2>1. Waiting(m)
      <3>1. NewOutcome(m, time, share) # "duplicate" BY DEF NewOutcome
      <3> QED BY <1>6, <3>1 DEF EnqueueOutcome
    <2>2. RowOf(m) \in rows BY <2>1 DEF Waiting, RowOf
    <2>3. SendsTyped' BY <1>1, <1>4, <1>6, <2>2, ReplyTyped DEF MembersInv, Outcomes
    <2> QED BY <1>3, <1>6, <2>3, SendOnly DEF queueVars
  <1>7. CASE o \notin {"queued", "duplicate"} /\ Reply(s, o, 0) /\ UNCHANGED queueVars
    <2>1. o \in Outcomes BY DEF EnqueueOutcome, NewOutcome, Outcomes
    <2>2. SendsTyped' BY <1>1, <1>7, <2>1, ReplyTyped DEF MembersInv
    <2> QED BY <1>3, <1>7, <2>2, SendOnly DEF queueVars
  <1> QED BY <1>5, <1>6, <1>7, Zenon DEF RelayEnqueue

LEMMA MailNextMembers == CredTypeOK /\ MembersInv /\ [MailNext]_vars => MembersInv'
  <1> SUFFICES ASSUME CredTypeOK, MembersInv, [MailNext]_vars PROVE MembersInv' OBVIOUS
  <1>1. ASSUME NEW s \in Slots, NEW m \in Envelopes, StartSend(s, m) PROVE MembersInv'
    <2> DEFINE x == [phase |-> IF m.cap = NoCap THEN "route" ELSE "access", msg |-> m, answer |-> "none", rid |-> 0]
    <2>1. x \in SendType BY DEF SendType
    <2>2. send' = [send EXCEPT ![s] = x] BY <1>1 DEF StartSend
    <2> HIDE DEF x
    <2>3. SendsTyped' BY <2>1, <2>2 DEF MembersInv, SendsTyped
    <2>4. UNCHANGED <<agents, keyset>> BY <1>1 DEF StartSend, Present, credVars
    <2> QED BY <1>1, <2>3, <2>4, SendOnly DEF StartSend, queueVars
  <1>2. ASSUME NEW s \in Slots, Checked(s) PROVE MembersInv'
    <2>1. send[s] \in SendType BY <1>2, SendOf DEF Checked, MembersInv
    <2>2. SendsTyped'
      BY <1>2, <2>1, AdvanceTyped, ReplyTyped DEF Checked, Outcomes, MembersInv
    <2> QED BY <1>2, <2>2, SendOnly DEF Checked, queueVars
  <1>3. ASSUME NEW s \in Slots, Route(s) PROVE MembersInv'
    <2>1. send[s] \in SendType BY <1>3, SendOf DEF Route, MembersInv
    <2>2. SendsTyped'
      BY <1>3, <2>1, AdvanceTyped, ReplyTyped DEF Route, Outcomes, MembersInv
    <2> QED BY <1>3, <2>2, SendOnly DEF Route, queueVars, credVars
  <1>4. ASSUME NEW s \in Slots, LookForDuplicate(s) PROVE MembersInv'
    <2>1. send[s] \in SendType BY <1>4, SendOf DEF LookForDuplicate, MembersInv
    <2>2. Waiting(send[s].msg) => RowOf(send[s].msg).rid \in Nat
      BY DEF Waiting, RowOf, MembersInv, RowsTyped
    <2>3. SendsTyped'
      BY <1>4, <2>1, <2>2, AdvanceTyped, ReplyTyped DEF LookForDuplicate, Outcomes, MembersInv
    <2> QED BY <1>4, <2>3, SendOnly DEF LookForDuplicate, queueVars, credVars
  <1>5. ASSUME NEW s \in Slots, Answer(s) PROVE MembersInv'
    <2>1. SendsTyped' BY <1>5 DEF Answer, MembersInv, SendsTyped
    <2> QED BY <1>5, <2>1, SendOnly DEF Answer, queueVars, credVars
  <1>6. ASSUME NEW o \in Owners, PollPage(o) PROVE MembersInv'
    BY <1>6, RowsGo DEF PollPage, queueVars, credVars
  <1>7. ASSUME NEW o \in Owners, NEW ids, NEW confirmed, Acknowledge(o, ids, confirmed) PROVE MembersInv'
    BY <1>7, RowsGo DEF Acknowledge, Drop, credVars
  <1>8. ASSUME NEW t \in told, ReadStatus(t.msg, t.rid) PROVE MembersInv'
    BY <1>8, RowsGo DEF ReadStatus, queueVars, credVars
  <1>9. CASE CutTime \/ StatusTold \/ PurgeCounts \/ PurgeDAcks
    BY <1>9, RowsGo DEF CutTime, StatusTold, PurgeCounts, PurgeDAcks, queueVars, credVars
  <1>10. CASE PurgeUndelivered \/ PurgeByExp
    BY <1>10, RowsGo DEF PurgeUndelivered, PurgeByExp, Purge, Drop, credVars
  <1>11. ASSUME NEW o \in Owners, MailboxLeaves(o) PROVE MembersInv'
    <2>1. /\ agents' = agents \ {o} /\ keyset' = [keyset EXCEPT ![o] = NoKeys]
          /\ rows' = rows \ Box(o) /\ UNCHANGED <<send, lastId>>
      BY <1>11 DEF MailboxLeaves, Leave, Drop
    <2>2. SendsTyped' /\ RowsTyped' BY <2>1 DEF MembersInv, SendsTyped, RowsTyped
    <2>3. ASSUME NEW r \in rows' PROVE r.msg.to \in agents' \/ keyset'[r.msg.to] # NoKeys
      <3>1. r \in rows /\ r.msg.to # o BY <2>1, <2>3 DEF Box
      <3>2. r.msg.to \in Owners BY <3>1, EnvelopeOwner DEF MembersInv, RowsTyped
      <3> QED BY <2>1, <3>1, <3>2 DEF MembersInv, MailNeedsKeys, CredTypeOK
    <2>4. MailNeedsKeys' BY <2>3 DEF MailNeedsKeys
    <2> QED BY <2>2, <2>4 DEF MembersInv
  <1>12. CASE Crash
    <2>1. SendsTyped' BY <1>12 DEF Crash, SendsTyped
    <2> QED BY <1>12, <2>1, SendOnly DEF Crash, LoseMemory, queueVars
  <1>13. CASE MailTime BY <1>13, RowsGo DEF MailTime, mailVars, queueVars
  <1>14. CASE CredentialStep
    <2>1. UNCHANGED <<send, rows, lastId>> BY <1>14 DEF CredentialStep, mailVars, queueVars
    <2>3. ASSUME NEW o \in Owners, Join(o) \/ RotateKey(o), NEW w \in Owners, MayWait(w) PROVE MayWait(w)'
      BY <2>3 DEF Join, RotateKey, MayWait, CredTypeOK
    <2>4. ASSUME NEW o \in Owners, NEW ks \in KeySets, PublishKeys(o, ks), NEW w \in Owners, MayWait(w)
          PROVE  MayWait(w)'
      <3>1. ks # NoKeys BY RevocationAssumption DEF NoKeys
      <3>2. keyset' = [keyset EXCEPT ![o] = ks] /\ agents' = agents BY <2>4 DEF PublishKeys
      <3> QED BY <2>4, <3>1, <3>2 DEF MayWait, CredTypeOK
    <2>5. ASSUME UNCHANGED <<agents, keyset>>, NEW w \in Owners, MayWait(w) PROVE MayWait(w)'
      BY <2>5 DEF MayWait
    <2>6. ASSUME NEW s \in Slots, CredStep(s) PROVE UNCHANGED <<agents, keyset>>
      BY <2>6 DEF CredStep, OwnerKeys, LookInCache, ReadRow, PutInCache
    <2>7. ASSUME NEW o \in Owners, DeregCallback(o) \/ ClearEvent(o) PROVE UNCHANGED <<agents, keyset>>
      BY <2>7 DEF DeregCallback, ClearEvent
    <2>8. ASSUME NEW o \in Owners, NEW batch, RevokeCaps(o, batch) PROVE UNCHANGED <<agents, keyset>>
      BY <2>8 DEF RevokeCaps
    <2>9. ASSUME RevocationCached \/ ForgetCaps \/ PurgeRevocations PROVE UNCHANGED <<agents, keyset>>
      BY <2>9 DEF RevocationCached, ForgetCaps, PurgeRevocations
    <2>10. \A w \in Owners : MayWait(w) => MayWait(w)'
      BY <1>14, <2>3, <2>4, <2>5, <2>6, <2>7, <2>8, <2>9 DEF CredentialStep
    <2>11. ASSUME NEW r \in rows PROVE MayWait(r.msg.to)'
      <3>1. r.msg.to \in Owners /\ MayWait(r.msg.to)
        BY EnvelopeOwner DEF MembersInv, RowsTyped, MailNeedsKeys, MayWait
      <3> QED BY <2>10, <3>1
    <2>12. MailNeedsKeys' BY <2>1, <2>11 DEF MailNeedsKeys, MayWait
    <2> QED BY <2>1, <2>12 DEF MembersInv, SendsTyped, RowsTyped
  <1>15. CASE UNCHANGED vars BY <1>15, RowsGo DEF vars, mailVars, queueVars, credVars
  <1> QED
    BY <1>1, <1>2, <1>3, <1>4, <1>5, <1>6, <1>7, <1>8, <1>9, <1>10, <1>11, <1>12, <1>13, <1>14, <1>15,
       EnqueueMembers
    DEF MailNext

\* Mail waits for an agent that is not registered only where a key set is stored
\* for it, which a publication that overlaps its departure may leave: the
\* enqueuing transaction reads the recipient's key set, and that goes with the
\* agent, though the send learnt long before that its recipient is registered
\* (RelayEnqueue, kidAcceptable, PublishKeys, deregSteps).
THEOREM MailWaitsWithKeys == MailSpec => []MailNeedsKeys
  <1>1. MailInit => MembersInv BY DEF MailInit, CredInit, MembersInv, SendsTyped, RowsTyped, MailNeedsKeys
  <1>2. CredTypeOK /\ MembersInv /\ [MailNext]_vars => MembersInv' BY MailNextMembers
  <1>3. MembersInv => MailNeedsKeys BY DEF MembersInv
  <1> QED BY <1>1, <1>2, <1>3, CredentialsTypeCorrect, PTL DEF MailSpec

-----------------------------------------------------------------------------
(* The queue and its reader.                                               *)

\* A row's number is also its place in the sequence of queueings.
RowsGood ==
  /\ IsFiniteSet(rows)
  /\ \A r \in rows : 0 < r.id /\ r.id <= lastId /\ r.rid = r.id
  /\ \A r, q \in rows : r # q => r.id # q.id /\ r.msg # q.msg

\* What waits behind the cursor of a pass was read in it, or is past its end.
PassesGood ==
  /\ poll \in [Owners -> [after: Nat, read: SUBSET Nat]] /\ missed = {} /\ known \subseteq Ids(rows)
  /\ \A o \in Owners :
       /\ poll[o].after <= lastId
       /\ \A r \in Box(o) : r.id <= poll[o].after => r.rid \in poll[o].read \/ Expired(r.msg, time)

\* The queueings of m that L logs from t on and before u.
Queued(L, m, t, u) == {i \in DOMAIN L : L[i].msg = m /\ t <= L[i].at /\ L[i].at < u}

LogEntry == [msg: Envelopes, at: Nat]

LogTyped ==
  /\ log \in Seq(LogEntry)
  /\ \A i \in DOMAIN log : log[i].at <= time
  /\ redelivery \in [Envelopes -> [count: 0 .. MaxRedeliveries, start: Nat]]

\* The count of m is of the window that began with a queueing of it, and in any
\* stretch as long as a window that ends where this one begins there are fewer
\* than MaxRedeliveries.  Without a count the same holds of a stretch up to now.
CountGood(m) ==
  IF redelivery[m] = NoCount
  THEN /\ \A i \in DOMAIN log : log[i].msg = m => log[i].at < time
       /\ \A t \in Nat : t + RedeliveryWindow > time => Cardinality(Queued(log, m, t, time + 1)) < MaxRedeliveries
  ELSE LET s == redelivery[m].start IN
       /\ \E i \in DOMAIN log : log[i].msg = m /\ log[i].at = s
       /\ \A i \in DOMAIN log : log[i].msg = m => log[i].at < s + RedeliveryWindow
       /\ Cardinality(Queued(log, m, s, time + 1)) = redelivery[m].count
       /\ \A t \in Nat : t + RedeliveryWindow > s => Cardinality(Queued(log, m, t, s)) < MaxRedeliveries

CountsGood == \A m \in Envelopes : CountGood(m)

NeverTooOften ==
  \A m \in Envelopes, t \in Nat : Cardinality(Queued(log, m, t, t + RedeliveryWindow)) < 2 * MaxRedeliveries

QueueInv == RowsGood /\ PassesGood /\ LogTyped /\ CountsGood /\ NeverTooOften

\* What a step does to the queue and the readers.
Queues(m) ==
  /\ \E share \in Shares : EnqueueOutcome(m, time, share) = "queued"
  /\ Enqueued(m, time) /\ UNCHANGED <<poll, known, missed, time>>

Drops ==
  /\ \E R \in SUBSET rows : Drop(R)
  /\ poll' = poll \/ \E o \in Owners : poll' = [poll EXCEPT ![o] = NewPass]
  /\ UNCHANGED <<lastId, redelivery, log, missed, time>>

LEMMA QueueSteps ==
  ASSUME [MailNext]_vars, SendsTyped
  PROVE  \/ UNCHANGED <<queueVars, readerVars>> /\ time' \in {time, time + 1}
         \/ \E m \in Envelopes : Queues(m)
         \/ Drops
         \/ \E o \in Owners : PollPage(o)
         \/ PurgeCounts
  <1>. DEFINE Q == \/ UNCHANGED <<queueVars, readerVars>> /\ time' \in {time, time + 1}
                   \/ \E m \in Envelopes : Queues(m)
                   \/ Drops
                   \/ \E o \in Owners : PollPage(o)
                   \/ PurgeCounts
  <1>. SUFFICES Q OBVIOUS
  <1>1. ASSUME NEW s \in Slots, NEW m \in Envelopes, StartSend(s, m) PROVE Q
    BY <1>1 DEF StartSend, Present, credVars
  <1>2. ASSUME NEW s \in Slots, Checked(s) \/ Route(s) \/ LookForDuplicate(s) \/ Answer(s) PROVE Q
    BY <1>2 DEF Checked, Route, LookForDuplicate, Answer, credVars
  <1>3. ASSUME NEW s \in Slots, NEW share \in Shares, RelayEnqueue(s, share) PROVE Q
    <2> DEFINE m == send[s].msg
               o == EnqueueOutcome(m, time, share)
    <2>1. m \in Envelopes BY <1>3, SendOf DEF RelayEnqueue, SendType
    <2>2. UNCHANGED <<readerVars, time>> BY <1>3 DEF RelayEnqueue, credVars
    <2>3. (o = "queued" /\ Enqueued(m, time)) \/ UNCHANGED queueVars
      BY <1>3, Zenon DEF RelayEnqueue
    <2>4. CASE o = "queued" /\ Enqueued(m, time)
      <3>1. Queues(m) BY <2>2, <2>4 DEF Queues, readerVars
      <3> QED BY <2>1, <3>1
    <2>5. CASE UNCHANGED queueVars BY <2>2, <2>5
    <2> QED BY <2>3, <2>4, <2>5
  <1>4. ASSUME NEW o \in Owners, PollPage(o) PROVE Q BY <1>4
  <1>5. ASSUME NEW o \in Owners, NEW ids, NEW confirmed, Acknowledge(o, ids, confirmed) PROVE Q
    <2>1. Drop({r \in Box(o) : r.id \in ids}) BY <1>5 DEF Acknowledge
    <2>2. {r \in Box(o) : r.id \in ids} \in SUBSET rows BY DEF Box
    <2>3. UNCHANGED <<lastId, redelivery, log, missed, time, poll>> BY <1>5 DEF Acknowledge, credVars
    <2>4. Drops BY <2>1, <2>2, <2>3 DEF Drops
    <2> QED BY <2>4
  <1>6. ASSUME NEW t \in told, ReadStatus(t.msg, t.rid) PROVE Q BY <1>6 DEF ReadStatus, credVars
  <1>7. CASE CutTime \/ StatusTold \/ PurgeDAcks
    BY <1>7 DEF CutTime, StatusTold, PurgeDAcks, credVars
  <1>8. ASSUME NEW R \in SUBSET rows, Purge(R) PROVE Q
    <2>1. Drops BY <1>8 DEF Purge, Drops, credVars
    <2> QED BY <2>1
  <1>9. CASE PurgeUndelivered \/ PurgeByExp
    <2>1. PICK R \in SUBSET rows : Purge(R) BY <1>9 DEF PurgeUndelivered, PurgeByExp
    <2> QED BY <1>8, <2>1
  <1>10. ASSUME NEW o \in Owners, MailboxLeaves(o) PROVE Q
    <2>1. Box(o) \in SUBSET rows BY DEF Box
    <2>2. Drops BY <1>10, <2>1 DEF MailboxLeaves, Leave, Drops
    <2> QED BY <2>2
  <1>11. CASE CredentialStep
    <2>1. UNCHANGED <<queueVars, readerVars>> BY <1>11 DEF CredentialStep, mailVars
    <2>2. ASSUME NEW s \in Slots, CredStep(s) PROVE time' = time
      BY <2>2 DEF CredStep, OwnerKeys, LookInCache, ReadRow, PutInCache
    <2>3. ASSUME NEW o \in Owners, Join(o) \/ RotateKey(o) \/ DeregCallback(o) \/ ClearEvent(o)
          PROVE  time' = time
      BY <2>3 DEF Join, RotateKey, DeregCallback, ClearEvent
    <2>4. ASSUME NEW o \in Owners, NEW batch, RevokeCaps(o, batch) PROVE time' = time
      BY <2>4 DEF RevokeCaps
    <2>5. ASSUME NEW o \in Owners, NEW ks, PublishKeys(o, ks) PROVE time' = time
      BY <2>5 DEF PublishKeys
    <2>6. ASSUME RevocationCached \/ ForgetCaps \/ PurgeRevocations PROVE time' = time
      BY <2>6 DEF RevocationCached, ForgetCaps, PurgeRevocations
    <2>7. time' = time BY <1>11, <2>2, <2>3, <2>4, <2>5, <2>6 DEF CredentialStep
    <2> QED BY <2>1, <2>7
  <1>12. CASE Crash BY <1>12 DEF Crash, LoseMemory
  <1>13. CASE MailTime BY <1>13 DEF MailTime, TimePasses, mailVars
  <1>14. CASE UNCHANGED vars BY <1>14 DEF vars, mailVars, credVars
  <1>15. CASE PurgeCounts BY <1>15
  <1> HIDE DEF Q
  <1> QED
    BY <1>1, <1>2, <1>3, <1>4, <1>5, <1>6, <1>7, <1>9, <1>10, <1>11, <1>12, <1>13, <1>14, <1>15
    DEF MailNext

-----------------------------------------------------------------------------
(* A poller misses nothing.                                                *)

LEMMA EnqueueRows ==
  ASSUME RowsTyped, RowsGood, PassesGood, NEW m \in Envelopes, Queues(m) PROVE RowsGood' /\ PassesGood'
  <1> DEFINE r == [id |-> lastId + 1, rid |-> lastId + 1, msg |-> m, at |-> time]
  <1>1. rows' = rows \cup {r} /\ lastId' = lastId + 1 /\ UNCHANGED <<poll, known, missed, time>>
    BY DEF Queues, Enqueued, NewId
  <1>2. \A q \in rows : q.msg # m BY DEF Queues, EnqueueOutcome, Waiting
  <1>3. lastId \in Nat /\ \A q \in rows : q.id \in Nat /\ q.id <= lastId /\ 0 < q.id /\ q.rid = q.id
    BY DEF RowsTyped, RowsGood
  <1>4. r.id = lastId + 1 /\ r.rid = r.id /\ r.msg = m OBVIOUS
  <1> HIDE DEF r
  <1>5. RowsGood'
    <2>1. IsFiniteSet(rows') BY <1>1, FS_AddElement DEF RowsGood
    <2>2. \A q \in rows' : 0 < q.id /\ q.id <= lastId' /\ q.rid = q.id BY <1>1, <1>3, <1>4
    <2>3. \A p, q \in rows' : p # q => p.id # q.id /\ p.msg # q.msg
      BY <1>1, <1>2, <1>3, <1>4 DEF RowsGood
    <2> QED BY <2>1, <2>2, <2>3 DEF RowsGood
  <1>6. PassesGood'
    <2>1. known' \subseteq Ids(rows') BY <1>1 DEF PassesGood, Ids
    <2>2. ASSUME NEW o \in Owners
          PROVE  /\ poll'[o].after <= lastId'
                 /\ \A q \in Box(o)' : q.id <= poll'[o].after => q.rid \in poll'[o].read \/ Expired(q.msg, time')
      <3>1. poll[o].after \in Nat /\ poll[o].after <= lastId BY DEF PassesGood
      <3>2. ASSUME NEW q \in Box(o)', q.id <= poll[o].after PROVE q \in Box(o)
        BY <1>1, <1>3, <1>4, <3>1, <3>2 DEF Box
      <3> QED BY <1>1, <1>3, <3>1, <3>2 DEF PassesGood
    <2> QED BY <1>1, <2>1, <2>2 DEF PassesGood
  <1> QED BY <1>5, <1>6

LEMMA DropRows == ASSUME RowsTyped, RowsGood, PassesGood, Drops PROVE RowsGood' /\ PassesGood'
  <1>1. PICK R \in SUBSET rows : Drop(R) BY DEF Drops
  <1>2. rows' = rows \ R /\ known' = known \ Ids(R) /\ UNCHANGED <<lastId, missed, time>>
    BY <1>1 DEF Drop, Drops
  <1>3. RowsGood'
    <2>1. IsFiniteSet(rows') BY <1>2, FS_Subset DEF RowsGood
    <2> QED BY <1>2, <2>1 DEF RowsGood
  <1>4. known' \subseteq Ids(rows') BY <1>2 DEF PassesGood, Ids
  <1>5. poll' \in [Owners -> [after: Nat, read: SUBSET Nat]] BY DEF Drops, PassesGood, NewPass
  <1>6. ASSUME NEW o \in Owners
        PROVE  /\ poll'[o].after <= lastId'
               /\ \A q \in Box(o)' : q.id <= poll'[o].after => q.rid \in poll'[o].read \/ Expired(q.msg, time')
    <2>1. lastId \in Nat /\ \A q \in rows : q.id \in Nat /\ 0 < q.id BY DEF RowsTyped, RowsGood
    <2>2. Box(o)' \subseteq Box(o) BY <1>2 DEF Box
    <2>3. poll'[o] = poll[o] \/ poll'[o] = NewPass BY DEF Drops, PassesGood
    <2>4. CASE poll'[o] = poll[o] BY <1>2, <2>2, <2>4 DEF PassesGood
    <2>5. CASE poll'[o] = NewPass
      <3>1. \A q \in Box(o)' : q \in rows BY <2>2 DEF Box
      <3> QED BY <1>2, <2>1, <2>5, <3>1 DEF NewPass
    <2> QED BY <2>3, <2>4, <2>5
  <1> QED BY <1>2, <1>3, <1>4, <1>5, <1>6 DEF PassesGood

\* A nonempty set of natural numbers has a least one, and if it is bounded a greatest.
LEMMA LeastNat ==
  ASSUME NEW T, T \subseteq Nat, T # {}
  PROVE  \E i \in T : \A j \in T : i <= j
  <1>1. \E i \in T : \A j \in T : ~(<<j, i>> \in OpToRel(<, Nat))
    BY WFMin, NatLessThanWellFounded, Zenon
  <1>2. PICK i \in T : \A j \in T : ~(<<j, i>> \in OpToRel(<, Nat)) BY <1>1
  <1>3. ASSUME NEW j \in T PROVE i <= j
    <2>1. ~(<<j, i>> \in OpToRel(<, Nat)) BY <1>2
    <2>2. ~(j < i) BY <2>1, Zenon DEF OpToRel
    <2> QED BY <2>2
  <1> QED BY <1>2, <1>3

LEMMA GreatestNat ==
  ASSUME NEW T, T \subseteq Nat, T # {}, NEW n \in Nat, \A i \in T : i <= n
  PROVE  \E i \in T : \A j \in T : j <= i
  <1> DEFINE U == {n - i : i \in T}
  <1>1. U \subseteq Nat /\ U # {}
    <2>1. \A i \in T : n - i \in Nat OBVIOUS
    <2>2. PICK i \in T : TRUE OBVIOUS
    <2>3. n - i \in U OBVIOUS
    <2>4. U # {} BY <2>3
    <2>5. U \subseteq Nat BY <2>1
    <2> QED BY <2>4, <2>5
  <1>2. PICK k \in U : \A j \in U : k <= j BY <1>1, LeastNat
  <1>3. PICK i \in T : k = n - i BY <1>2
  <1>4. ASSUME NEW j \in T PROVE j <= i
    <2>1. n - j \in U OBVIOUS
    <2>2. k <= n - j BY <1>2, <2>1
    <2>3. i \in Nat /\ j \in Nat /\ n \in Nat OBVIOUS
    <2> HIDE DEF U
    <2> QED BY <1>3, <2>2, <2>3
  <1> QED BY <1>4

\* A page that is not all there is has a last row, and reads on from it nothing
\* before that row.
LEMMA PageReads ==
  ASSUME RowsTyped, RowsGood, NEW all \in SUBSET rows, FirstOf(all) # all
  PROVE  \E p \in FirstOf(all) : /\ \A q \in FirstOf(all) : q.id <= p.id
                                 /\ \A q \in all : q.id <= p.id => q \in FirstOf(all)
  <1> DEFINE page == FirstOf(all)
  <1>1. lastId \in Nat /\ \A q \in all : q.id \in Nat /\ q.id <= lastId BY DEF RowsTyped, RowsGood
  <1>2. page \subseteq all BY DEF FirstOf
  <1>3. page # {}
    <2>1. Ids(all) \subseteq Nat /\ Ids(all) # {} BY <1>1, <1>2 DEF Ids
    <2>2. PICK i \in Ids(all) : \A j \in Ids(all) : i <= j BY <2>1, LeastNat
    <2>3. PICK r \in all : i = r.id BY <2>2 DEF Ids
    <2>4. \A q \in all : r.id <= q.id BY <2>2, <2>3 DEF Ids
    <2>5. {q \in all : q.id < r.id} = {} BY <1>1, <2>4
    <2>6. PollLimit > 0 BY MailboxAssumption
    <2>7. r \in page BY <2>5, <2>6, FS_EmptySet DEF FirstOf
    <2> QED BY <2>7
  <1>4. PICK i \in Ids(page) : \A j \in Ids(page) : j <= i
    <2>1. Ids(page) \subseteq Nat /\ Ids(page) # {} /\ \A j \in Ids(page) : j <= lastId
      BY <1>1, <1>2, <1>3 DEF Ids
    <2> QED BY <1>1, <2>1, GreatestNat
  <1>5. PICK p \in page : i = p.id BY <1>4 DEF Ids
  <1>6. \A q \in page : q.id <= p.id BY <1>4, <1>5 DEF Ids
  <1>7. ASSUME NEW q \in all, q.id <= p.id PROVE q \in page
    <2> DEFINE B(r) == {x \in all : x.id < r.id}
    <2>1. p \in all /\ q.id \in Nat /\ p.id \in Nat BY <1>1, <1>2
    <2>2. IsFiniteSet(B(p)) /\ Cardinality(B(p)) \in Nat
      <3>1. IsFiniteSet(B(p))
        BY FS_Subset DEF RowsGood
      <3> QED BY <3>1, FS_CardinalityType
    <2>3. B(q) \in SUBSET B(p) BY <1>1, <1>7, <2>1
    <2>4. Cardinality(B(q)) <= Cardinality(B(p)) /\ Cardinality(B(q)) \in Nat
      BY <2>2, <2>3, FS_Subset, FS_CardinalityType
    <2>5. Cardinality(B(p)) < PollLimit BY <1>5 DEF FirstOf
    <2>6. PollLimit \in Nat BY MailboxAssumption
    <2>7. Cardinality(B(q)) < PollLimit
      <3> HIDE DEF B
      <3> QED BY <2>2, <2>4, <2>5, <2>6
    <2> QED BY <2>7 DEF FirstOf
  <1> QED BY <1>5, <1>6, <1>7

LEMMA PollPageRows ==
  ASSUME RowsTyped, RowsGood, PassesGood, NEW o \in Owners, PollPage(o) PROVE RowsGood' /\ PassesGood'
  <1> DEFINE all == Returnable(o, After(o))
             page == FirstOf(all)
             read == poll[o].read \cup RIDs(page)
             last == CHOOSE i \in Ids(page) : \A j \in Ids(page) : j <= i
  <1>1. /\ poll' = [poll EXCEPT ![o] = IF page = all THEN NewPass ELSE [after |-> last, read |-> read]]
        /\ missed' = IF page = all THEN missed \cup (RIDs(Returnable(o, 0)) \ read) ELSE missed
        /\ known' = known \cup Ids(page)
        /\ UNCHANGED <<rows, lastId, time>>
    BY DEF PollPage, credVars, queueVars
  <1>2. RowsGood' BY <1>1 DEF RowsGood
  <1>3. page \subseteq all /\ all \subseteq Box(o) /\ Box(o) \subseteq rows
    BY DEF FirstOf, Returnable, Box
  <1>4. lastId \in Nat /\ \A q \in rows : q.id \in Nat /\ 0 < q.id /\ q.id <= lastId /\ q.rid = q.id
    BY DEF RowsTyped, RowsGood
  <1>5. poll[o] \in [after: Nat, read: SUBSET Nat] /\ After(o) = poll[o].after BY DEF PassesGood, After
  <1>6. RIDs(page) \subseteq Nat /\ read \subseteq Nat BY <1>3, <1>4, <1>5 DEF RIDs
  <1>7. known' \subseteq Ids(rows') BY <1>1, <1>3 DEF Ids, PassesGood
  <1>8. \A q \in Box(o) : q.id > After(o) => q \in all \/ Expired(q.msg, time) BY DEF Returnable
  <1>9. ASSUME NEW q \in Box(o), q \in page \/ q.id <= After(o) PROVE q.rid \in read \/ Expired(q.msg, time)
    BY <1>5, <1>9 DEF PassesGood, RIDs
  <1>10. CASE page = all
    <2>1. missed' = {}
      <3>1. ASSUME NEW q \in Returnable(o, 0) PROVE q.rid \in read
        <4>1. q \in Box(o) /\ ~Expired(q.msg, time) BY DEF Returnable
        <4>2. q.id \in Nat /\ After(o) \in Nat BY <1>3, <1>4, <1>5, <4>1
        <4> HIDE DEF all, page, read
        <4> QED BY <1>8, <1>9, <1>10, <4>1, <4>2
      <3>2. RIDs(Returnable(o, 0)) \ read = {} BY <3>1 DEF RIDs
      <3> QED BY <1>1, <1>10, <3>2 DEF PassesGood
    <2>2. poll' = [poll EXCEPT ![o] = NewPass] BY <1>1, <1>10
    <2>3. poll' \in [Owners -> [after: Nat, read: SUBSET Nat]] BY <2>2 DEF PassesGood, NewPass
    <2>4. ASSUME NEW u \in Owners
          PROVE  /\ poll'[u].after <= lastId
                 /\ \A q \in Box(u) : q.id <= poll'[u].after => q.rid \in poll'[u].read \/ Expired(q.msg, time)
      <3>1. CASE u = o BY <1>3, <1>4, <2>2, <3>1 DEF NewPass, PassesGood
      <3>2. CASE u # o BY <2>2, <3>2 DEF PassesGood
      <3> QED BY <3>1, <3>2
    <2> QED BY <1>1, <1>2, <1>7, <2>1, <2>3, <2>4 DEF PassesGood, Box
  <1>11. CASE page # all
    <2>1. PICK p \in page : (\A q \in page : q.id <= p.id) /\ (\A q \in all : q.id <= p.id => q \in page)
      BY <1>3, <1>11, PageReads
    <2>2. last = p.id
      <3>1. \A i, j \in Ids(page) : (i <= j /\ j <= i) => i = j BY <1>3, <1>4 DEF Ids
      <3>2. p.id \in Ids(page) /\ \A j \in Ids(page) : j <= p.id BY <2>1 DEF Ids
      <3>3. last \in Ids(page) /\ \A j \in Ids(page) : j <= last
        <4> HIDE DEF page
        <4> QED BY <3>2
      <3> QED BY <3>1, <3>2, <3>3
    <2>3. poll' = [poll EXCEPT ![o] = [after |-> last, read |-> read]] BY <1>1, <1>11
    <2>4. p.id \in Nat /\ p.id <= lastId BY <1>3, <1>4
    <2> HIDE DEF all, page, read, last
    <2>5. poll'[o].after = p.id /\ poll'[o].read = read /\ \A u \in Owners : u # o => poll'[u] = poll[u]
      BY <2>2, <2>3 DEF PassesGood
    <2>6. poll' \in [Owners -> [after: Nat, read: SUBSET Nat]]
      BY <1>6, <2>2, <2>3, <2>4 DEF PassesGood
    <2>7. missed' = {} BY <1>1, <1>11 DEF PassesGood
    <2>8. ASSUME NEW q \in Box(o), q.id <= p.id PROVE q.rid \in read \/ Expired(q.msg, time)
      <3>1. q.id \in Nat /\ After(o) \in Nat BY <1>3, <1>4, <1>5
      <3> QED BY <1>8, <1>9, <2>1, <2>8, <3>1
    <2>9. ASSUME NEW u \in Owners
          PROVE  /\ poll'[u].after <= lastId
                 /\ \A q \in Box(u) : q.id <= poll'[u].after => q.rid \in poll'[u].read \/ Expired(q.msg, time)
      BY <2>4, <2>5, <2>8 DEF PassesGood
    <2> QED BY <1>1, <1>2, <1>7, <2>6, <2>7, <2>9 DEF PassesGood, Box
  <1> QED BY <1>10, <1>11

LEMMA RowsStep ==
  ASSUME CredTypeOK, MembersInv, RowsGood, PassesGood, [MailNext]_vars PROVE RowsGood' /\ PassesGood'
  <1>1. SendsTyped /\ RowsTyped BY DEF MembersInv
  <1>2. ASSUME UNCHANGED <<rows, lastId, poll, known, missed>>, time' \in {time, time + 1}
        PROVE  RowsGood' /\ PassesGood'
    <2>1. time \in Nat /\ time <= time' BY <1>2 DEF CredTypeOK
    <2>2. \A q \in rows : q.msg.exp \in Nat BY <1>1, MailboxAssumption DEF RowsTyped, EnvelopeType
    <2>3. \A q \in rows : Expired(q.msg, time) => Expired(q.msg, time') BY <1>2, <2>1, <2>2 DEF Expired
    <2>4. RowsGood' BY <1>2 DEF RowsGood
    <2>5. PassesGood' BY <1>2, <2>3 DEF PassesGood, Box
    <2> QED BY <2>4, <2>5
  <1>3. CASE UNCHANGED <<queueVars, readerVars>> /\ time' \in {time, time + 1}
    BY <1>2, <1>3 DEF queueVars, readerVars
  <1>4. CASE PurgeCounts BY <1>2, <1>4 DEF PurgeCounts, credVars, readerVars
  <1>5. \/ UNCHANGED <<queueVars, readerVars>> /\ time' \in {time, time + 1}
        \/ \E m \in Envelopes : Queues(m)
        \/ Drops
        \/ \E o \in Owners : PollPage(o)
        \/ PurgeCounts
    BY <1>1, QueueSteps
  <1> QED BY <1>1, <1>3, <1>4, <1>5, EnqueueRows, DropRows, PollPageRows

-----------------------------------------------------------------------------
(* An envelope is not queued too often.                                    *)

LEMMA LogEntries ==
  ASSUME LogTyped
  PROVE  \A i \in DOMAIN log : log[i].msg \in Envelopes /\ log[i].at \in Nat /\ log[i].at <= time
  <1>1. \A i \in DOMAIN log : log[i] \in LogEntry BY DEF LogTyped
  <1> QED BY <1>1 DEF LogTyped, LogEntry

LEMMA QueuedFinite ==
  ASSUME LogTyped, NEW m, NEW t, NEW u
  PROVE  IsFiniteSet(Queued(log, m, t, u)) /\ Cardinality(Queued(log, m, t, u)) \in Nat
  <1>1. DOMAIN log = 1 .. Len(log) /\ Len(log) \in Nat BY DEF LogTyped
  <1>2. IsFiniteSet(1 .. Len(log)) BY <1>1, FS_Interval
  <1>3. Queued(log, m, t, u) \in SUBSET (1 .. Len(log)) BY <1>1 DEF Queued
  <1>4. IsFiniteSet(Queued(log, m, t, u)) BY <1>2, <1>3, FS_Subset
  <1> QED BY <1>4, FS_CardinalityType

\* A narrower stretch has no more queueings.
LEMMA QueuedNarrower ==
  ASSUME LogTyped, NEW m, NEW t, NEW u, NEW v, NEW w, Queued(log, m, t, u) \subseteq Queued(log, m, v, w)
  PROVE  Cardinality(Queued(log, m, t, u)) <= Cardinality(Queued(log, m, v, w))
  BY QueuedFinite, FS_Subset

\* Queueings of a stretch that falls into two.
LEMMA QueuedSplit ==
  ASSUME LogTyped, NEW m, NEW t \in Nat, NEW s \in Nat, NEW u \in Nat,
         NEW n \in Nat, Cardinality(Queued(log, m, t, s)) <= n,
         NEW k \in Nat, Cardinality(Queued(log, m, s, u)) <= k
  PROVE  Cardinality(Queued(log, m, t, u)) <= n + k
  <1> DEFINE A == Queued(log, m, t, s)
             B == Queued(log, m, s, u)
  <1>1. \A i \in DOMAIN log : log[i].at \in Nat BY LogEntries
  <1>2. Queued(log, m, t, u) \in SUBSET (A \cup B) BY <1>1 DEF Queued
  <1>3. /\ IsFiniteSet(A) /\ IsFiniteSet(B) /\ Cardinality(A) \in Nat /\ Cardinality(B) \in Nat
        /\ Cardinality(Queued(log, m, t, u)) \in Nat
    BY QueuedFinite
  <1> HIDE DEF A, B
  <1>4. /\ IsFiniteSet(A \cup B) /\ Cardinality(A \cup B) \in Nat
        /\ Cardinality(A \cup B) = Cardinality(A) + Cardinality(B) - Cardinality(A \cap B)
    BY <1>3, FS_Union, FS_CardinalityType
  <1>5. Cardinality(A \cap B) \in Nat BY <1>3, FS_Intersection, FS_CardinalityType
  <1>6. Cardinality(Queued(log, m, t, u)) <= Cardinality(A \cup B) BY <1>2, <1>4, FS_Subset
  <1>7. Cardinality(A) <= n /\ Cardinality(B) <= k BY DEF A, B
  <1> QED BY <1>3, <1>4, <1>5, <1>6, <1>7

\* A stretch that begins after a window did misses at least its first queueing.
LEMMA MissesTheFirst ==
  ASSUME LogTyped, time \in Nat, NEW m, NEW s \in Nat, NEW t \in Nat, s < t, NEW u \in Nat,
         \E i \in DOMAIN log : log[i].msg = m /\ log[i].at = s
  PROVE  Cardinality(Queued(log, m, t, u)) < Cardinality(Queued(log, m, s, time + 1))
  <1>1. \A i \in DOMAIN log : log[i].at \in Nat /\ log[i].at <= time BY LogEntries
  <1>2. PICK i \in DOMAIN log : log[i].msg = m /\ log[i].at = s OBVIOUS
  <1> DEFINE A == Queued(log, m, t, u)
             B == Queued(log, m, s, time + 1)
  <1>3. A \subseteq B \ {i} BY <1>1, <1>2 DEF Queued
  <1>4. i \in B BY <1>1, <1>2 DEF Queued
  <1>5. IsFiniteSet(B) /\ Cardinality(B) \in Nat BY QueuedFinite
  <1> HIDE DEF A, B
  <1>6. Cardinality(B \ {i}) = Cardinality(B) - 1 /\ IsFiniteSet(B \ {i}) BY <1>4, <1>5, FS_RemoveElement
  <1>7. Cardinality(A) <= Cardinality(B \ {i}) /\ Cardinality(A) \in Nat
    BY <1>3, <1>6, FS_Subset, FS_CardinalityType
  <1>8. Cardinality(A) < Cardinality(B) BY <1>5, <1>6, <1>7
  <1> QED BY <1>8 DEF A, B

\* A queueing of m is in the stretches of m that are under way, and in no other.
LEMMA QueuedAppends ==
  ASSUME LogTyped, time \in Nat, NEW m \in Envelopes, log' = Append(log, [msg |-> m, at |-> time]), time' = time
  PROVE  /\ log' \in Seq(LogEntry)
         /\ \A i \in DOMAIN log' : log'[i].at <= time'
         /\ \E i \in DOMAIN log' : log'[i].msg = m /\ log'[i].at = time
         /\ \A i \in DOMAIN log : i \in DOMAIN log' /\ log'[i] = log[i]
         /\ \A e \in Envelopes, t \in Nat, u \in Nat :
              IF e = m /\ t <= time /\ time < u
              THEN Cardinality(Queued(log', e, t, u)) = Cardinality(Queued(log, e, t, u)) + 1
              ELSE Queued(log', e, t, u) = Queued(log, e, t, u)
  <1> DEFINE x == [msg |-> m, at |-> time]
             n == Len(log) + 1
  <1>1. log \in Seq(LogEntry) /\ x \in LogEntry /\ x.msg = m /\ x.at = time
    BY DEF LogTyped, LogEntry
  <1>2. log' = Append(log, x) OBVIOUS
  <1> HIDE DEF x
  <1>3. log' \in Seq(LogEntry) BY <1>1, <1>2
  <1>4. /\ DOMAIN log = 1 .. Len(log) /\ Len(log) \in Nat /\ DOMAIN log' = 1 .. n
        /\ log'[n] = x /\ \A i \in 1 .. Len(log) : log'[i] = log[i]
    BY <1>1, <1>2
  <1> HIDE DEF n
  <1>5. n \notin DOMAIN log /\ DOMAIN log' = DOMAIN log \cup {n} BY <1>4 DEF n
  <1>6. \A i \in DOMAIN log : log'[i] = log[i] BY <1>4
  <1>7. \A i \in DOMAIN log' : log'[i].at <= time' BY <1>1, <1>4, <1>5, <1>6 DEF LogTyped
  <1>8. ASSUME NEW e \in Envelopes, NEW t \in Nat, NEW u \in Nat
        PROVE  IF e = m /\ t <= time /\ time < u
               THEN Cardinality(Queued(log', e, t, u)) = Cardinality(Queued(log, e, t, u)) + 1
               ELSE Queued(log', e, t, u) = Queued(log, e, t, u)
    <2>1. ASSUME e = m, t <= time, time < u
          PROVE  Cardinality(Queued(log', e, t, u)) = Cardinality(Queued(log, e, t, u)) + 1
      <3>1. Queued(log', e, t, u) = Queued(log, e, t, u) \cup {n} BY <1>1, <1>4, <1>5, <1>6, <2>1 DEF Queued
      <3>2. n \notin Queued(log, e, t, u) BY <1>5 DEF Queued
      <3> QED BY <3>1, <3>2, QueuedFinite, FS_AddElement
    <2>2. ASSUME ~(e = m /\ t <= time /\ time < u) PROVE Queued(log', e, t, u) = Queued(log, e, t, u)
      BY <1>1, <1>4, <1>5, <1>6, <2>2 DEF Queued
    <2> QED BY <2>1, <2>2
  <1> QED BY <1>1, <1>3, <1>4, <1>5, <1>6, <1>7, <1>8

\* What the limit and the window say of the stretches of m as m is queued.
LEMMA EnqueueCounts ==
  ASSUME CredTypeOK, LogTyped, CountsGood, NeverTooOften, NEW m \in Envelopes, Queues(m)
  PROVE  LogTyped' /\ CountsGood' /\ NeverTooOften'
  <1> DEFINE new == IF InWindow(m, time) THEN [count |-> redelivery[m].count + 1, start |-> redelivery[m].start]
                    ELSE [count |-> 1, start |-> time]
             K(e, t, u) == Cardinality(Queued(log, e, t, u))
  <1>1. /\ redelivery' = [redelivery EXCEPT ![m] = new]
        /\ log' = Append(log, [msg |-> m, at |-> time]) /\ time' = time
    <2>1. Enqueued(m, time) /\ time' = time BY DEF Queues
    <2>2. redelivery' = [redelivery EXCEPT ![m] = new] BY <2>1, Zenon DEF Enqueued
    <2> QED BY <2>1, <2>2 DEF Enqueued
  <1>2. ~(InWindow(m, time) /\ redelivery[m].count >= MaxRedeliveries)
    BY DEF Queues, EnqueueOutcome, NewOutcome
  <1>3. /\ time \in Nat /\ RedeliveryWindow \in Nat /\ RedeliveryWindow # 0
        /\ MaxRedeliveries \in Nat /\ MaxRedeliveries # 0
    BY MailboxAssumption DEF CredTypeOK
  <1>4. redelivery[m] \in [count: 0 .. MaxRedeliveries, start: Nat] BY DEF LogTyped
  <1> DEFINE s == redelivery[m].start
             c == redelivery[m].count
  <1>5. s \in Nat /\ c \in Nat /\ c <= MaxRedeliveries BY <1>3, <1>4
  <1>6. /\ log' \in Seq(LogEntry)
        /\ \A i \in DOMAIN log' : log'[i].at <= time'
        /\ \E i \in DOMAIN log' : log'[i].msg = m /\ log'[i].at = time
        /\ \A i \in DOMAIN log : i \in DOMAIN log' /\ log'[i] = log[i]
    BY <1>1, <1>3, QueuedAppends
  <1>7. \A e \in Envelopes, t \in Nat, u \in Nat :
          IF e = m /\ t <= time /\ time < u
          THEN Cardinality(Queued(log', e, t, u)) = K(e, t, u) + 1
          ELSE Queued(log', e, t, u) = Queued(log, e, t, u)
    BY <1>1, <1>3, QueuedAppends
  <1>8. \A t, u : K(m, t, u) \in Nat BY QueuedFinite
  <1>17. \A i \in DOMAIN log' : log'[i].at \in Nat
    <2>1. \A i \in DOMAIN log' : log'[i] \in LogEntry BY <1>6
    <2> QED BY <2>1 DEF LogEntry
  <1>18. \A i \in DOMAIN log' : log'[i].at <= time BY <1>1, <1>6
  <1>9. new \in [count: 0 .. MaxRedeliveries, start: Nat] /\ new # NoCount
    <2>1. InWindow(m, time) => new = [count |-> c + 1, start |-> s] BY <1>4
    <2>2. 1 \in 0 .. MaxRedeliveries BY <1>3
    <2>3. InWindow(m, time) => c + 1 \in 0 .. MaxRedeliveries BY <1>2, <1>3, <1>5
    <2>4. InWindow(m, time) => [count |-> c + 1, start |-> s].count = c + 1 /\ c + 1 # 0 BY <1>5
    <2> QED BY <1>3, <1>5, <2>1, <2>2, <2>3, <2>4 DEF NoCount
  <1>10. LogTyped' BY <1>1, <1>6, <1>9 DEF LogTyped
  <1>11. redelivery'[m] = new /\ \A e \in Envelopes : e # m => redelivery'[e] = redelivery[e]
    BY <1>1 DEF LogTyped
  <1>12. ASSUME NEW e \in Envelopes, e # m PROVE CountGood(e)'
    <2>1. CountGood(e) BY DEF CountsGood
    <2>2. \A t, u \in Nat : Queued(log', e, t, u) = Queued(log, e, t, u) BY <1>7, <1>12
    <2>3. redelivery[e].start \in Nat /\ time + 1 \in Nat BY <1>3 DEF LogTyped
    <2> QED BY <1>1, <1>6, <1>11, <1>12, <2>1, <2>2, <2>3 DEF CountGood
  \* The stretches that end where the window of the queueing begins.
  <1>13. ASSUME InWindow(m, time)
         PROVE  CountGood(m)'
                /\ \A t \in Nat : Cardinality(Queued(log', m, t, t + RedeliveryWindow)) < 2 * MaxRedeliveries
    <2>1. new.start = s /\ new.count = c + 1 /\ c + 1 <= MaxRedeliveries /\ time < s + RedeliveryWindow
          /\ redelivery[m] # NoCount
      BY <1>2, <1>3, <1>4, <1>5, <1>13 DEF InWindow
    <2>2. /\ \E i \in DOMAIN log : log[i].msg = m /\ log[i].at = s
          /\ K(m, s, time + 1) = c
          /\ \A t \in Nat : t + RedeliveryWindow > s => K(m, t, s) < MaxRedeliveries
      BY <2>1 DEF CountsGood, CountGood
    <2>3. s <= time BY <2>2 DEF LogTyped
    <2>4. CountGood(m)'
      <3>1. \E i \in DOMAIN log' : log'[i].msg = m /\ log'[i].at = s BY <1>6, <2>2
      <3>2. Cardinality(Queued(log', m, s, time + 1)) = c + 1 BY <1>3, <1>5, <1>7, <2>2, <2>3
      <3>3. \A t \in Nat : Queued(log', m, t, s) = Queued(log, m, t, s) BY <1>3, <1>5, <1>7, <2>3
      <3>4. \A i \in DOMAIN log' : log'[i].msg = m => log'[i].at < s + RedeliveryWindow
        BY <1>1, <1>3, <1>5, <1>17, <1>18, <2>1
      <3> QED BY <1>1, <1>9, <1>11, <2>1, <2>2, <3>1, <3>2, <3>3, <3>4 DEF CountGood
    <2>5. ASSUME NEW t \in Nat PROVE Cardinality(Queued(log', m, t, t + RedeliveryWindow)) < 2 * MaxRedeliveries
      <3>1. CASE ~(t <= time /\ time < t + RedeliveryWindow)
        BY <1>3, <1>7, <3>1 DEF NeverTooOften
      <3>2. CASE t <= time /\ time < t + RedeliveryWindow
        <4>1. Cardinality(Queued(log', m, t, t + RedeliveryWindow)) = K(m, t, t + RedeliveryWindow) + 1
          BY <1>3, <1>7, <3>2
        <4>2. Queued(log, m, t, t + RedeliveryWindow) \subseteq Queued(log, m, t, time + 1)
          <5>1. \A i \in DOMAIN log : log[i].at \in Nat /\ log[i].at <= time BY LogEntries
          <5> QED BY <1>3, <5>1 DEF Queued
        <4>3. K(m, t, t + RedeliveryWindow) <= K(m, t, time + 1) BY <4>2, QueuedNarrower
        <4>4. K(m, t, s) <= MaxRedeliveries - 1
          <5>1. t + RedeliveryWindow > s BY <1>3, <1>5, <2>3, <3>2
          <5>2. K(m, t, s) < MaxRedeliveries BY <2>2, <5>1
          <5> HIDE DEF K
          <5> QED BY <1>3, <1>5, <1>8, <5>2
        <4>5. K(m, t, time + 1) <= (MaxRedeliveries - 1) + c
          <5>1. MaxRedeliveries - 1 \in Nat /\ time + 1 \in Nat BY <1>3
          <5>2. K(m, s, time + 1) <= c BY <1>5, <2>2
          <5> QED BY <1>5, <4>4, <5>1, <5>2, QueuedSplit
        <4>6. K(m, t, t + RedeliveryWindow) \in Nat /\ K(m, t, time + 1) \in Nat BY <1>3, <1>8
        <4> HIDE DEF K
        <4>7. K(m, t, t + RedeliveryWindow) + 1 < 2 * MaxRedeliveries
          BY <1>3, <1>5, <2>1, <4>3, <4>5, <4>6
        <4> QED BY <4>1, <4>7
      <3> QED BY <3>1, <3>2
    <2> QED BY <2>4, <2>5
  <1>14. ASSUME ~InWindow(m, time)
         PROVE  CountGood(m)'
                /\ \A t \in Nat : Cardinality(Queued(log', m, t, t + RedeliveryWindow)) < 2 * MaxRedeliveries
    <2>1. new.start = time /\ new.count = 1 BY <1>14
    <2>2. ASSUME NEW t \in Nat, t + RedeliveryWindow > time PROVE K(m, t, time + 1) < MaxRedeliveries
      <3>1. CASE redelivery[m] = NoCount BY <2>2, <3>1 DEF CountsGood, CountGood
      <3>2. CASE redelivery[m] # NoCount
        <4>1. /\ \E i \in DOMAIN log : log[i].msg = m /\ log[i].at = s
              /\ K(m, s, time + 1) = c
          BY <3>2 DEF CountsGood, CountGood
        <4>2. s + RedeliveryWindow <= time BY <1>3, <1>5, <1>14, <3>2 DEF InWindow
        <4>3. s < t /\ time + 1 \in Nat BY <1>3, <1>5, <2>2, <4>2
        <4>4. K(m, t, time + 1) < K(m, s, time + 1) BY <1>3, <1>5, <4>1, <4>3, MissesTheFirst
        <4>5. K(m, t, time + 1) \in Nat BY <1>8, <4>3
        <4> HIDE DEF K
        <4> QED BY <1>3, <1>5, <4>1, <4>4, <4>5
      <3> QED BY <3>1, <3>2
    <2>3. ASSUME NEW t \in Nat, t + RedeliveryWindow > time, NEW u \in Nat PROVE K(m, t, u) < MaxRedeliveries
      <3>1. \A i \in DOMAIN log : log[i].at \in Nat /\ log[i].at <= time BY LogEntries
      <3>2. Queued(log, m, t, u) \subseteq Queued(log, m, t, time + 1) BY <1>3, <3>1 DEF Queued
      <3>3. K(m, t, u) <= K(m, t, time + 1) BY <3>2, QueuedNarrower
      <3>4. K(m, t, u) \in Nat /\ K(m, t, time + 1) \in Nat BY QueuedFinite
      <3>5. K(m, t, time + 1) < MaxRedeliveries BY <2>2, <2>3
      <3> HIDE DEF K
      <3> QED BY <1>3, <3>3, <3>4, <3>5
    <2>4. CountGood(m)'
      <3>1. Cardinality(Queued(log', m, time, time + 1)) = 1
        <4>1. Cardinality(Queued(log', m, time, time + 1)) = K(m, time, time + 1) + 1 BY <1>3, <1>7
        <4>2. K(m, time, time + 1) = 0
          <5>1. Queued(log, m, time, time + 1) = {}
            <6>1. ASSUME NEW i \in DOMAIN log, log[i].msg = m PROVE log[i].at < time
              <7>1. CASE redelivery[m] = NoCount BY <6>1, <7>1 DEF CountsGood, CountGood
              <7>2. CASE redelivery[m] # NoCount
                <8>1. log[i].at < s + RedeliveryWindow BY <6>1, <7>2 DEF CountsGood, CountGood
                <8>2. s + RedeliveryWindow <= time BY <1>3, <1>5, <1>14, <7>2 DEF InWindow
                <8>3. log[i].at \in Nat BY LogEntries
                <8> QED BY <1>3, <1>5, <8>1, <8>2, <8>3
              <7> QED BY <7>1, <7>2
            <6> QED BY <1>3, <6>1, LogEntries DEF Queued
          <5> QED BY <5>1, FS_EmptySet
        <4> QED BY <4>1, <4>2
      <3>2. \A t \in Nat : Queued(log', m, t, time) = Queued(log, m, t, time) BY <1>3, <1>7
      <3>3. \A t \in Nat : t + RedeliveryWindow > time => Cardinality(Queued(log', m, t, time)) < MaxRedeliveries
        BY <1>3, <2>3, <3>2
      <3>4. \A i \in DOMAIN log' : log'[i].msg = m => log'[i].at < time + RedeliveryWindow
        BY <1>1, <1>3, <1>17, <1>18
      <3> QED BY <1>1, <1>6, <1>9, <1>11, <2>1, <3>1, <3>3, <3>4 DEF CountGood
    <2>5. ASSUME NEW t \in Nat PROVE Cardinality(Queued(log', m, t, t + RedeliveryWindow)) < 2 * MaxRedeliveries
      <3>1. CASE ~(t <= time /\ time < t + RedeliveryWindow)
        BY <1>3, <1>7, <3>1 DEF NeverTooOften
      <3>2. CASE t <= time /\ time < t + RedeliveryWindow
        <4>1. Cardinality(Queued(log', m, t, t + RedeliveryWindow)) = K(m, t, t + RedeliveryWindow) + 1
          BY <1>3, <1>7, <3>2
        <4>2. K(m, t, t + RedeliveryWindow) < MaxRedeliveries BY <1>3, <2>3, <3>2
        <4>3. K(m, t, t + RedeliveryWindow) \in Nat BY <1>3, <1>8
        <4> HIDE DEF K
        <4>4. K(m, t, t + RedeliveryWindow) + 1 < 2 * MaxRedeliveries BY <1>3, <4>2, <4>3
        <4> QED BY <4>1, <4>4
      <3> QED BY <3>1, <3>2
    <2> QED BY <2>4, <2>5
  <1>15. CountGood(m)' /\ \A t \in Nat : Cardinality(Queued(log', m, t, t + RedeliveryWindow)) < 2 * MaxRedeliveries
    BY <1>13, <1>14
  <1>16. NeverTooOften'
    <2>1. ASSUME NEW e \in Envelopes, NEW t \in Nat
          PROVE  Cardinality(Queued(log', e, t, t + RedeliveryWindow)) < 2 * MaxRedeliveries
      <3>1. CASE e = m BY <1>15, <3>1
      <3>2. CASE e # m
        <4>1. t + RedeliveryWindow \in Nat BY <1>3
        <4>2. Queued(log', e, t, t + RedeliveryWindow) = Queued(log, e, t, t + RedeliveryWindow) BY <1>7, <3>2, <4>1
        <4> QED BY <4>2 DEF NeverTooOften
      <3> QED BY <3>1, <3>2
    <2> QED BY <2>1 DEF NeverTooOften
  <1> QED BY <1>10, <1>12, <1>15, <1>16 DEF CountsGood

\* The janitor forgets a count whose window is over: what it was for is over too.
LEMMA PurgeKeepsCounts ==
  ASSUME CredTypeOK, LogTyped, CountsGood, NeverTooOften, PurgeCounts
  PROVE  LogTyped' /\ CountsGood' /\ NeverTooOften'
  <1>1. /\ redelivery' = [m \in Envelopes |-> IF WindowClosed(m) THEN NoCount ELSE redelivery[m]]
        /\ log' = log /\ time' = time
    BY DEF PurgeCounts, credVars
  <1>2. time \in Nat /\ RedeliveryWindow \in Nat /\ RedeliveryWindow # 0 /\ MaxRedeliveries \in Nat
    BY MailboxAssumption DEF CredTypeOK
  <1>3. LogTyped'
    <2>1. NoCount \in [count: 0 .. MaxRedeliveries, start: Nat] BY <1>2 DEF NoCount
    <2>2. \A m \in Envelopes : redelivery'[m] \in [count: 0 .. MaxRedeliveries, start: Nat]
      BY <1>1, <2>1 DEF LogTyped
    <2> QED BY <1>1, <2>2 DEF LogTyped
  <1>4. ASSUME NEW m \in Envelopes PROVE CountGood(m)'
    <2>1. CountGood(m) BY DEF CountsGood
    <2>2. CASE redelivery'[m] = redelivery[m] BY <1>1, <2>1, <2>2 DEF CountGood
    <2>3. CASE redelivery'[m] # redelivery[m]
      <3> DEFINE s == redelivery[m].start
                 c == redelivery[m].count
      <3>1. redelivery[m] \in [count: 0 .. MaxRedeliveries, start: Nat] BY DEF LogTyped
      <3>2. WindowClosed(m) /\ redelivery'[m] = NoCount /\ redelivery[m] # NoCount BY <1>1, <2>3
      <3>3. s \in Nat /\ c \in Nat /\ c <= MaxRedeliveries BY <1>2, <3>1
      <3>4. s + RedeliveryWindow <= time BY <1>2, <3>2, <3>3 DEF WindowClosed
      <3>5. /\ \E i \in DOMAIN log : log[i].msg = m /\ log[i].at = s
            /\ \A i \in DOMAIN log : log[i].msg = m => log[i].at < s + RedeliveryWindow
            /\ Cardinality(Queued(log, m, s, time + 1)) = c
        BY <2>1, <3>2 DEF CountGood
      <3>6. ASSUME NEW i \in DOMAIN log, log[i].msg = m PROVE log[i].at < time
        <4>1. log[i].at \in Nat /\ log[i].at < s + RedeliveryWindow BY <3>5, <3>6, LogEntries
        <4> QED BY <1>2, <3>3, <3>4, <4>1
      <3>7. ASSUME NEW t \in Nat, t + RedeliveryWindow > time
            PROVE  Cardinality(Queued(log, m, t, time + 1)) < MaxRedeliveries
        <4>1. s < t /\ time + 1 \in Nat BY <1>2, <3>3, <3>4, <3>7
        <4>2. Cardinality(Queued(log, m, t, time + 1)) < Cardinality(Queued(log, m, s, time + 1))
          BY <1>2, <3>3, <3>5, <4>1, MissesTheFirst
        <4>3. Cardinality(Queued(log, m, t, time + 1)) \in Nat BY QueuedFinite
        <4> QED BY <1>2, <3>3, <3>5, <4>2, <4>3
      <3> QED BY <1>1, <3>2, <3>6, <3>7 DEF CountGood
    <2> QED BY <2>2, <2>3
  <1>5. NeverTooOften' BY <1>1 DEF NeverTooOften
  <1> QED BY <1>3, <1>4, <1>5 DEF CountsGood

\* A clock that goes on leaves fewer stretches to speak of.
LEMMA TimeKeepsCounts ==
  ASSUME CredTypeOK, LogTyped, CountsGood, NeverTooOften, UNCHANGED <<log, redelivery>>, time' \in {time, time + 1}
  PROVE  LogTyped' /\ CountsGood' /\ NeverTooOften'
  <1>1. time \in Nat /\ time' \in Nat /\ time <= time' /\ RedeliveryWindow \in Nat
    BY MailboxAssumption DEF CredTypeOK
  <1>2. \A i \in DOMAIN log : log[i].at \in Nat /\ log[i].at <= time BY LogEntries
  <1>3. LogTyped' BY <1>1, <1>2 DEF LogTyped
  <1>4. \A m, t : Queued(log, m, t, time' + 1) = Queued(log, m, t, time + 1) BY <1>1, <1>2 DEF Queued
  <1>5. ASSUME NEW m \in Envelopes PROVE CountGood(m)'
    <2>1. CountGood(m) BY DEF CountsGood
    <2>2. CASE redelivery[m] = NoCount
      <3>1. \A i \in DOMAIN log : log[i].msg = m => log[i].at < time'
        BY <1>1, <1>2, <2>1, <2>2 DEF CountGood
      <3>2. ASSUME NEW t \in Nat, t + RedeliveryWindow > time'
            PROVE  Cardinality(Queued(log, m, t, time' + 1)) < MaxRedeliveries
        <4>1. t + RedeliveryWindow > time BY <1>1, <3>2
        <4> QED BY <1>4, <2>1, <2>2, <4>1 DEF CountGood
      <3> QED BY <2>2, <3>1, <3>2 DEF CountGood
    <2>3. CASE redelivery[m] # NoCount BY <1>4, <2>1, <2>3 DEF CountGood
    <2> QED BY <2>2, <2>3
  <1>6. NeverTooOften' BY DEF NeverTooOften
  <1> QED BY <1>3, <1>5, <1>6 DEF CountsGood

LEMMA CountsStep ==
  ASSUME CredTypeOK, MembersInv, LogTyped, CountsGood, NeverTooOften, [MailNext]_vars
  PROVE  LogTyped' /\ CountsGood' /\ NeverTooOften'
  <1>1. SendsTyped BY DEF MembersInv
  <1>2. CASE UNCHANGED <<queueVars, readerVars>> /\ time' \in {time, time + 1}
    BY <1>2, TimeKeepsCounts DEF queueVars
  <1>3. CASE Drops BY <1>3, TimeKeepsCounts DEF Drops
  <1>4. ASSUME NEW o \in Owners, PollPage(o) PROVE LogTyped' /\ CountsGood' /\ NeverTooOften'
    BY <1>4, TimeKeepsCounts DEF PollPage, credVars, queueVars
  <1>5. \/ UNCHANGED <<queueVars, readerVars>> /\ time' \in {time, time + 1}
        \/ \E m \in Envelopes : Queues(m)
        \/ Drops
        \/ \E o \in Owners : PollPage(o)
        \/ PurgeCounts
    BY <1>1, QueueSteps
  <1> QED BY <1>2, <1>3, <1>4, <1>5, EnqueueCounts, PurgeKeepsCounts

LEMMA QueueInit == MailInit => QueueInv
  <1> SUFFICES ASSUME MailInit PROVE QueueInv OBVIOUS
  <1>1. /\ rows = {} /\ lastId = 0 /\ redelivery = [m \in Envelopes |-> NoCount] /\ log = <<>>
        /\ poll = [o \in Owners |-> NewPass] /\ known = {} /\ missed = {} /\ time = 1
    BY DEF MailInit, CredInit
  <1>2. MaxRedeliveries \in Nat /\ 0 < MaxRedeliveries BY MailboxAssumption
  <1>3. RowsGood BY <1>1, FS_EmptySet DEF RowsGood
  <1>4. PassesGood
    <2>1. NewPass \in [after: Nat, read: SUBSET Nat] /\ NewPass.after = 0 BY DEF NewPass
    <2> QED BY <1>1, <2>1 DEF PassesGood, Box
  <1>5. DOMAIN log = {} BY <1>1
  <1>6. LogTyped
    <2>1. NoCount \in [count: 0 .. MaxRedeliveries, start: Nat] BY <1>2 DEF NoCount
    <2> QED BY <1>1, <1>5, <2>1 DEF LogTyped
  <1>7. \A m, t, u : Cardinality(Queued(log, m, t, u)) = 0
    <2>1. \A m, t, u : Queued(log, m, t, u) = {} BY <1>5 DEF Queued
    <2> QED BY <2>1, FS_EmptySet
  <1>8. CountsGood BY <1>1, <1>2, <1>5, <1>7 DEF CountsGood, CountGood
  <1>9. NeverTooOften BY <1>2, <1>7 DEF NeverTooOften
  <1> QED BY <1>3, <1>4, <1>6, <1>8, <1>9 DEF QueueInv

LEMMA MembersInvariant == MailSpec => []MembersInv
  <1>1. MailInit => MembersInv BY DEF MailInit, CredInit, MembersInv, SendsTyped, RowsTyped, MailNeedsKeys
  <1>2. CredTypeOK /\ MembersInv /\ [MailNext]_vars => MembersInv' BY MailNextMembers
  <1> QED BY <1>1, <1>2, CredentialsTypeCorrect, PTL DEF MailSpec

\* The invariant of the queue holds of the whole hub.
THEOREM QueueInvariant == MailSpec => []QueueInv
  <1>1. CredTypeOK /\ MembersInv /\ QueueInv /\ [MailNext]_vars => QueueInv'
    BY RowsStep, CountsStep DEF QueueInv
  <1> QED BY <1>1, QueueInit, MembersInvariant, CredentialsTypeCorrect, PTL DEF MailSpec

\* When the hub says there is no more, the daemon has been given everything that waits for it and is
\* not past its end, for any page size and any queueing, taking and deleting between the pages: ids
\* are never used twice, and a page leaves out nothing before its last row (RelayPoll).
THEOREM PollerIsGivenAll == MailSpec => []PollerMissesNothing
  <1>1. QueueInv => PollerMissesNothing BY DEF QueueInv, PassesGood, PollerMissesNothing
  <1> QED BY <1>1, QueueInvariant, PTL

\* Within any RedeliveryWindow an envelope is queued less than 2 MaxRedeliveries times, for any
\* limit and window: two windows' queueings fit in a stretch of one, but never both windows' first
\* (RelayEnqueue, PurgeExpiredRelay).
THEOREM RedeliveriesStayBounded == MailSpec => []RedeliveriesBounded
  <1>1. CredTypeOK /\ QueueInv => RedeliveriesBounded
    <2> SUFFICES ASSUME CredTypeOK, QueueInv, NEW m \in Envelopes, NEW t \in 1 .. time
                 PROVE  Cardinality({i \in DOMAIN log : /\ log[i].msg = m
                                                        /\ t <= log[i].at /\ log[i].at < t + RedeliveryWindow})
                          < 2 * MaxRedeliveries
      BY DEF RedeliveriesBounded
    <2>1. t \in Nat BY DEF CredTypeOK
    <2>2. Cardinality(Queued(log, m, t, t + RedeliveryWindow)) < 2 * MaxRedeliveries
      BY <2>1 DEF QueueInv, NeverTooOften
    <2> QED BY <2>2 DEF Queued
  <1> QED BY <1>1, QueueInvariant, CredentialsTypeCorrect, PTL

-----------------------------------------------------------------------------
(* The confirmations, and what senders are told.                           *)

\* A confirmation that is due is stored, for as long as it was promised.
DAcksGood ==
  /\ stored \in [Envelopes -> Nat] /\ promised \in [Envelopes -> Nat]
  /\ dackRows \in Nat \cup {Uncounted}
  /\ IsFiniteSet(Kept) /\ ConfirmationsBounded
  /\ \A m \in Envelopes : /\ stored[m] # 0 => promised[m] # 0
                          /\ promised[m] > time => stored[m] = promised[m]

\* Nobody holds the number of a row that is still to come.
RIDsGiven ==
  /\ told \subseteq [msg: Envelopes, rid: Nat] /\ \A x \in told : x.rid <= lastId
  /\ \A s \in Slots : send[s] # NoSend => send[s].rid <= lastId

StatusGood ==
  /\ check \in CheckType \cup {NoCheck}
  /\ check # NoCheck =>
       /\ check.rid <= lastId /\ check.until # 0
       /\ check.phase = "cut" => check.state = "done"
       /\ check.state # "queued" =>
            /\ check.rid \notin RIDs(rows)
            /\ IF check.state = "done" THEN promised[check.msg] # 0 ELSE ~check.due

ConfirmInv == DAcksGood /\ RIDsGiven /\ StatusGood

Acknowledges == \E o \in Owners : \E ids, confirmed : Acknowledge(o, ids, confirmed)
Reads        == \E x \in told : ReadStatus(x.msg, x.rid)

LEMMA ConfirmSteps ==
  ASSUME [MailNext]_vars
  PROVE  \/ /\ UNCHANGED <<stored, promised>> /\ dackRows' \in {dackRows, Uncounted}
            /\ time' \in {time, time + 1} /\ check' \in {check, NoCheck}
         \/ Acknowledges \/ CutTime \/ PurgeDAcks \/ Reads
  <1>. DEFINE Q == \/ /\ UNCHANGED <<stored, promised>> /\ dackRows' \in {dackRows, Uncounted}
                      /\ time' \in {time, time + 1} /\ check' \in {check, NoCheck}
                   \/ Acknowledges \/ CutTime \/ PurgeDAcks \/ Reads
  <1>. SUFFICES Q OBVIOUS
  <1>1. ASSUME NEW s \in Slots, NEW m \in Envelopes, StartSend(s, m) PROVE Q
    BY <1>1 DEF StartSend, Present, credVars, dackVars
  <1>2. ASSUME NEW s \in Slots, Checked(s) \/ Route(s) \/ LookForDuplicate(s) \/ Answer(s) PROVE Q
    BY <1>2 DEF Checked, Route, LookForDuplicate, Answer, credVars, dackVars
  <1>3. ASSUME NEW s \in Slots, NEW share \in Shares, RelayEnqueue(s, share) PROVE Q
    <2>1. UNCHANGED <<credVars, dackVars, check>> BY <1>3 DEF RelayEnqueue
    <2> QED BY <2>1 DEF credVars, dackVars
  <1>4. ASSUME NEW o \in Owners, PollPage(o) PROVE Q BY <1>4 DEF PollPage, credVars, dackVars
  <1>5. ASSUME NEW o \in Owners, NEW ids, NEW confirmed, Acknowledge(o, ids, confirmed) PROVE Q
    <2>1. Acknowledges BY <1>5 DEF Acknowledges
    <2> QED BY <2>1
  <1>6. ASSUME NEW t \in told, ReadStatus(t.msg, t.rid) PROVE Q
    <2>1. Reads BY <1>6 DEF Reads
    <2> QED BY <2>1
  <1>7. CASE StatusTold \/ PurgeCounts BY <1>7 DEF StatusTold, PurgeCounts, credVars, dackVars
  <1>8. CASE PurgeUndelivered \/ PurgeByExp
    BY <1>8 DEF PurgeUndelivered, PurgeByExp, Purge, credVars, dackVars
  <1>9. ASSUME NEW o \in Owners, MailboxLeaves(o) PROVE Q
    <2>1. time' = time BY <1>9 DEF MailboxLeaves, Leave
    <2> QED BY <1>9, <2>1 DEF MailboxLeaves, dackVars
  <1>10. CASE CredentialStep
    <2>1. UNCHANGED <<dackVars, check>> BY <1>10 DEF CredentialStep, mailVars
    <2>2. ASSUME NEW s \in Slots, CredStep(s) PROVE time' = time
      BY <2>2 DEF CredStep, OwnerKeys, LookInCache, ReadRow, PutInCache
    <2>3. ASSUME NEW o \in Owners, Join(o) \/ RotateKey(o) \/ DeregCallback(o) \/ ClearEvent(o)
          PROVE  time' = time
      BY <2>3 DEF Join, RotateKey, DeregCallback, ClearEvent
    <2>4. ASSUME NEW o \in Owners, NEW batch, RevokeCaps(o, batch) PROVE time' = time
      BY <2>4 DEF RevokeCaps
    <2>5. ASSUME NEW o \in Owners, NEW ks, PublishKeys(o, ks) PROVE time' = time
      BY <2>5 DEF PublishKeys
    <2>6. ASSUME RevocationCached \/ ForgetCaps \/ PurgeRevocations PROVE time' = time
      BY <2>6 DEF RevocationCached, ForgetCaps, PurgeRevocations
    <2>7. time' = time BY <1>10, <2>2, <2>3, <2>4, <2>5, <2>6 DEF CredentialStep
    <2> QED BY <2>1, <2>7 DEF dackVars
  <1>11. CASE Crash BY <1>11 DEF Crash, LoseMemory
  <1>12. CASE MailTime BY <1>12 DEF MailTime, TimePasses, mailVars, dackVars
  <1>13. CASE UNCHANGED vars BY <1>13 DEF vars, mailVars, credVars, dackVars
  <1>14. CASE CutTime \/ PurgeDAcks BY <1>14
  <1> HIDE DEF Q
  <1> QED
    BY <1>1, <1>2, <1>3, <1>4, <1>5, <1>6, <1>7, <1>8, <1>9, <1>10, <1>11, <1>12, <1>13, <1>14
    DEF MailNext

\* Whatever goes past the bound goes, and the count is then what is left.
LEMMA EvictedBounds ==
  ASSUME NEW entries, IsFiniteSet(DOMAIN entries), NEW n \in Nat, Cardinality(DOMAIN entries) <= n,
         NEW E \in Evicted(entries, n)
  PROVE  /\ IsFiniteSet(DOMAIN entries \ E)
         /\ Cardinality(DOMAIN entries \ E) <= MaxDAckRows
         /\ n <= MaxDAckRows => Cardinality(DOMAIN entries \ E) <= n
  <1> DEFINE D == DOMAIN entries
             over == Cardinality(D) - MaxDAckRows
  <1>1. MaxDAckRows \in Nat BY MailboxAssumption
  <1>2. Cardinality(D) \in Nat BY FS_CardinalityType
  <1>3. CASE n <= MaxDAckRows \/ over <= 0
    <2>1. E = {} BY <1>3 DEF Evicted
    <2>2. D \ E = D BY <2>1
    <2> HIDE DEF D
    <2>3. Cardinality(D) <= MaxDAckRows BY <1>1, <1>2, <1>3 DEF D
    <2> QED BY <2>2, <2>3 DEF D
  <1>4. CASE ~(n <= MaxDAckRows \/ over <= 0)
    <2>1. E \subseteq D /\ Cardinality(E) = over BY <1>4 DEF Evicted
    <2>2. D \cap E = E BY <2>1
    <2>3. IsFiniteSet(D \ E) /\ Cardinality(D \ E) = Cardinality(D) - Cardinality(E)
      BY <2>2, FS_Difference
    <2> HIDE DEF D
    <2>4. Cardinality(D \ E) = MaxDAckRows BY <1>1, <1>2, <2>1, <2>3
    <2> QED BY <1>1, <1>4, <2>3, <2>4 DEF D
  <1> QED BY <1>3, <1>4

\* Those written in one call, and the count of them with what was there.
LEMMA AcknowledgeInv ==
  ASSUME CredTypeOK, RowsTyped, RowsGood, DAcksGood, NEW o \in Owners, NEW ids, NEW confirmed,
         Acknowledge(o, ids, confirmed)
  PROVE  /\ DAcksGood' /\ UNCHANGED <<check, time>>
         /\ \A m \in Envelopes : promised[m] # 0 => promised'[m] # 0
  <1> DEFINE gone == {r \in Box(o) : r.id \in ids}
             R == {q \in gone : q.id \in confirmed}
             M == {r.msg : r \in R}
             entries == [m \in Kept \cup M |-> IF m \in M THEN time + DAckTTL ELSE stored[m]]
             n == IF dackRows = Uncounted THEN Cardinality(DOMAIN entries)
                  ELSE dackRows + Cardinality(InsertedOf(M))
  <1>1. PICK E \in Evicted(entries, n) :
          /\ stored' = [m \in Envelopes |-> IF m \in DOMAIN entries \ E THEN entries[m] ELSE 0]
          /\ dackRows' = IF n <= MaxDAckRows THEN n ELSE Cardinality(DOMAIN entries \ E)
          /\ promised' = [m \in Envelopes |-> IF m \in E THEN 1
                                              ELSE IF m \in M THEN time + DAckTTL ELSE promised[m]]
    BY DEF Acknowledge
  <1>2. UNCHANGED <<check, time>> BY DEF Acknowledge, credVars
  <1>3. M \subseteq Envelopes /\ IsFiniteSet(M)
    <2>1. R \in SUBSET rows BY DEF Box
    <2>2. IsFiniteSet(R) BY <2>1, FS_Subset DEF RowsGood
    <2> DEFINE f == [r \in R |-> r.msg]
    <2>3. f \in Surjection(R, M) BY DEF Surjection
    <2> HIDE DEF f
    <2>4. IsFiniteSet(M) BY <2>2, <2>3, FS_Surjection
    <2>5. M \subseteq Envelopes BY <2>1 DEF RowsTyped
    <2> QED BY <2>4, <2>5
  <1>4. DOMAIN entries = Kept \cup M /\ Kept \subseteq Envelopes BY DEF Kept
  <1> HIDE DEF M
  <1>5. time \in Nat /\ time # 0 /\ DAckTTL \in Nat BY MailboxAssumption DEF CredTypeOK
  <1>6. \A m \in Kept \cup M : entries[m] \in Nat /\ entries[m] # 0
    BY <1>3, <1>4, <1>5 DEF DAcksGood, Kept
  <1>7. IsFiniteSet(Kept) BY DEF DAcksGood
  <1>8. IsFiniteSet(Kept \cup M) /\ Cardinality(Kept \cup M) \in Nat
    BY <1>3, <1>7, FS_Union, FS_CardinalityType
  <1>9. n \in Nat /\ Cardinality(Kept \cup M) <= n
    <2>1. CASE dackRows = Uncounted BY <1>4, <1>8, <2>1
    <2>2. CASE dackRows # Uncounted
      <3>1. dackRows \in Nat /\ Cardinality(Kept) <= dackRows
        BY <2>2 DEF DAcksGood, ConfirmationsBounded
      <3> DEFINE N == M \ Kept
      <3>2. IsFiniteSet(N) /\ Cardinality(N) \in Nat BY <1>3, FS_Difference, FS_CardinalityType
      <3>3. Kept \cup M = Kept \cup N /\ Kept \cap N = {} OBVIOUS
      <3> HIDE DEF N
      <3>4. Cardinality(Kept \cup N) = Cardinality(Kept) + Cardinality(N) - Cardinality(Kept \cap N)
        BY <1>7, <3>2, FS_Union
      <3>5. Cardinality(Kept \cap N) = 0 BY <3>3, FS_EmptySet
      <3>6. Cardinality(Kept) \in Nat BY <1>7, FS_CardinalityType
      <3>9. Cardinality(Kept \cup M) = Cardinality(Kept \cup N) BY <3>3
      <3>7. Cardinality(Kept \cup M) = Cardinality(Kept) + Cardinality(N)
        BY <3>2, <3>4, <3>5, <3>6, <3>9
      <3>8. n = dackRows + Cardinality(N) BY <2>2 DEF InsertedOf, N
      <3> HIDE DEF n
      <3> QED BY <3>1, <3>2, <3>6, <3>7, <3>8
    <2> QED BY <2>1, <2>2
  <1> HIDE DEF n, entries
  <1>10. /\ IsFiniteSet((Kept \cup M) \ E)
         /\ Cardinality((Kept \cup M) \ E) <= MaxDAckRows
         /\ n <= MaxDAckRows => Cardinality((Kept \cup M) \ E) <= n
    BY <1>4, <1>8, <1>9, EvictedBounds
  <1>11. Kept' = (Kept \cup M) \ E
    <2>1. \A m \in Envelopes : stored'[m] # 0 <=> m \in (Kept \cup M) \ E BY <1>1, <1>4, <1>6
    <2>2. Kept' = {m \in Envelopes : stored'[m] # 0} BY DEF Kept
    <2> QED BY <1>3, <1>4, <2>1, <2>2
  <1>12. Cardinality((Kept \cup M) \ E) \in Nat BY <1>10, FS_CardinalityType
  <1>13. dackRows' \in Nat /\ Cardinality(Kept') <= dackRows'
    <2>1. CASE n <= MaxDAckRows BY <1>1, <1>9, <1>10, <1>11, <2>1
    <2>2. CASE ~(n <= MaxDAckRows) BY <1>1, <1>4, <1>11, <1>12, <2>2
    <2> QED BY <2>1, <2>2
  <1>14. stored' \in [Envelopes -> Nat] BY <1>1, <1>4, <1>6
  <1>15. promised' \in [Envelopes -> Nat] BY <1>1, <1>5 DEF DAcksGood
  <1>16. ASSUME NEW m \in Envelopes
         PROVE  /\ stored'[m] # 0 => promised'[m] # 0
                /\ promised'[m] > time => stored'[m] = promised'[m]
                /\ promised[m] # 0 => promised'[m] # 0
    <2>1. CASE m \in E
      <3>1. promised'[m] = 1 /\ stored'[m] = 0 BY <1>1, <2>1
      <3> QED BY <1>5, <3>1
    <2>2. CASE m \notin E /\ m \in M
      <3>1. promised'[m] = time + DAckTTL BY <1>1, <2>2
      <3>2. stored'[m] = time + DAckTTL BY <1>1, <1>4, <2>2 DEF entries
      <3> QED BY <1>5, <3>1, <3>2
    <2>3. CASE m \notin E /\ m \notin M
      <3>1. promised'[m] = promised[m] BY <1>1, <2>3
      <3>2. stored'[m] = stored[m] BY <1>1, <1>4, <2>3 DEF entries, Kept
      <3> QED BY <3>1, <3>2 DEF DAcksGood
    <2> QED BY <2>1, <2>2, <2>3
  <1>17. DAcksGood' BY <1>2, <1>10, <1>11, <1>13, <1>14, <1>15, <1>16 DEF DAcksGood, ConfirmationsBounded
  <1> QED BY <1>2, <1>16, <1>17

\* The write transaction cuts whatever is stored by then, and not to nothing.
LEMMA CutTimeInv ==
  ASSUME CredTypeOK, DAcksGood, StatusGood, CutTime
  PROVE  DAcksGood' /\ StatusGood'
  <1> DEFINE e == check.msg
             u == check.until
  <1>1. /\ check \in CheckType /\ check # NoCheck /\ check.phase = "cut"
        /\ e \in Envelopes /\ u \in Nat /\ u # 0 /\ check.state = "done"
    BY DEF CutTime, StatusGood, NoCheck, CheckType
  <1>2. /\ stored' = [stored EXCEPT ![e] = Earlier(@, u)]
        /\ promised' = [promised EXCEPT ![e] = Earlier(@, u)]
        /\ check' = [check EXCEPT !.phase = "answered"]
        /\ UNCHANGED <<rows, lastId, dackRows, time>>
    BY DEF CutTime, credVars, queueVars
  <1> HIDE DEF e, u
  <1>3. /\ time \in Nat /\ stored \in [Envelopes -> Nat] /\ promised \in [Envelopes -> Nat]
    BY DEF CredTypeOK, DAcksGood
  <1>4. ASSUME NEW m \in Envelopes
        PROVE  /\ stored'[m] \in Nat /\ promised'[m] \in Nat
               /\ stored'[m] # 0 <=> stored[m] # 0
               /\ promised'[m] # 0 <=> promised[m] # 0
               /\ promised'[m] > time => stored'[m] = promised'[m]
    <2>1. stored[m] \in Nat /\ promised[m] \in Nat /\ (promised[m] > time => stored[m] = promised[m])
      BY DEF DAcksGood
    <2>2. CASE m = e
      <3>1. stored'[m] = Earlier(stored[m], u) /\ promised'[m] = Earlier(promised[m], u)
        BY <1>2, <1>3, <2>2
      <3> QED BY <1>1, <1>3, <2>1, <3>1 DEF Earlier
    <2>3. CASE m # e
      <3>1. stored'[m] = stored[m] /\ promised'[m] = promised[m] BY <1>2, <1>3, <2>3
      <3> QED BY <2>1, <3>1
    <2> QED BY <2>2, <2>3
  <1>5. Kept' = Kept
    <2>1. Kept' = {m \in Envelopes : stored'[m] # 0} BY DEF Kept
    <2> QED BY <1>4, <2>1 DEF Kept
  <1>6. stored' \in [Envelopes -> Nat] /\ promised' \in [Envelopes -> Nat] BY <1>2, <1>3, <1>4
  <1>7. DAcksGood' BY <1>2, <1>4, <1>5, <1>6 DEF DAcksGood, ConfirmationsBounded
  <1>8. /\ check' \in CheckType /\ check'.rid = check.rid /\ check'.until = check.until
        /\ check'.state = "done" /\ check'.msg = e /\ check'.phase = "answered"
    BY <1>1, <1>2 DEF CheckType, e
  <1>9. check.rid <= lastId /\ check.rid \notin RIDs(rows) /\ promised[e] # 0
    BY <1>1 DEF StatusGood, e
  <1>10. StatusGood' BY <1>1, <1>2, <1>4, <1>8, <1>9 DEF StatusGood, RIDs, u
  <1> QED BY <1>7, <1>10

LEMMA PurgeDAcksInv ==
  ASSUME CredTypeOK, DAcksGood, PurgeDAcks
  PROVE  DAcksGood' /\ UNCHANGED <<check, promised, time>>
  <1> DEFINE over == {m \in Kept : stored[m] <= time}
  <1>1. /\ stored' = [m \in Envelopes |-> IF m \in over THEN 0 ELSE stored[m]]
        /\ dackRows' = IF dackRows = Uncounted THEN Uncounted
                       ELSE IF dackRows < Cardinality(over) THEN 0 ELSE dackRows - Cardinality(over)
        /\ UNCHANGED <<check, promised, time>>
    BY DEF PurgeDAcks, credVars
  <1>2. over \subseteq Kept /\ over \cap Kept = over /\ Kept \cap over = over OBVIOUS
  <1>3. \A m \in over : stored[m] <= time OBVIOUS
  <1>4. Kept' = Kept \ over
    <2>1. Kept' = {m \in Envelopes : stored'[m] # 0} BY DEF Kept
    <2> HIDE DEF over
    <2> QED BY <1>1, <2>1 DEF Kept
  <1> HIDE DEF over
  <1>5. IsFiniteSet(Kept) /\ Cardinality(Kept) \in Nat BY FS_CardinalityType DEF DAcksGood
  <1>6. IsFiniteSet(over) /\ Cardinality(over) \in Nat /\ Cardinality(over) <= Cardinality(Kept)
    BY <1>2, <1>5, FS_Subset, FS_CardinalityType
  <1>7. IsFiniteSet(Kept') /\ Cardinality(Kept') = Cardinality(Kept) - Cardinality(over)
    BY <1>2, <1>4, <1>5, FS_Difference
  <1>8. MaxDAckRows \in Nat /\ Cardinality(Kept) <= MaxDAckRows /\ dackRows \in Nat \cup {Uncounted}
        /\ (dackRows # Uncounted => Cardinality(Kept) <= dackRows)
    BY MailboxAssumption DEF DAcksGood, ConfirmationsBounded
  <1>9. /\ dackRows' \in Nat \cup {Uncounted} /\ Cardinality(Kept') <= MaxDAckRows
        /\ dackRows' # Uncounted => Cardinality(Kept') <= dackRows'
    <2>1. CASE dackRows = Uncounted BY <1>1, <1>5, <1>6, <1>7, <1>8, <2>1
    <2>2. CASE dackRows # Uncounted
      <3>1. dackRows \in Nat /\ Cardinality(over) <= dackRows BY <1>5, <1>6, <1>8, <2>2
      <3>2. dackRows' = dackRows - Cardinality(over) BY <1>1, <1>6, <2>2, <3>1
      <3> QED BY <1>5, <1>6, <1>7, <1>8, <2>2, <3>1, <3>2
    <2> QED BY <2>1, <2>2
  <1>10. stored' \in [Envelopes -> Nat] BY <1>1 DEF DAcksGood
  <1>11. ASSUME NEW m \in Envelopes
         PROVE  /\ stored'[m] # 0 => promised[m] # 0
                /\ promised[m] > time => stored'[m] = promised[m]
    <2>1. stored[m] \in Nat /\ promised[m] \in Nat /\ time \in Nat BY DEF DAcksGood, CredTypeOK
    <2>2. stored'[m] = IF m \in over THEN 0 ELSE stored[m] BY <1>1
    <2> QED BY <1>3, <2>1, <2>2 DEF DAcksGood
  <1>12. DAcksGood' BY <1>1, <1>7, <1>9, <1>10, <1>11 DEF DAcksGood, ConfirmationsBounded
  <1> QED BY <1>1, <1>12

\* What a status check reads is the truth as it reads it.
LEMMA ReadsInv ==
  ASSUME CredTypeOK, DAcksGood, RIDsGiven, Reads
  PROVE  DAcksGood' /\ StatusGood'
  <1>1. PICK x \in told : ReadStatus(x.msg, x.rid) BY DEF Reads
  <1> DEFINE m == x.msg
             rid == x.rid
             st == StateOf(m, rid)
             ph == IF st = "done" /\ stored[m] > time + DAckFetchedTTL THEN "cut" ELSE "answered"
  <1>2. /\ check' = [phase |-> ph, msg |-> m, rid |-> rid, due |-> promised[m] > time,
                     state |-> st, until |-> time + DAckFetchedTTL]
        /\ UNCHANGED <<rows, lastId, stored, promised, dackRows, time>>
    BY <1>1 DEF ReadStatus, credVars, queueVars, dackVars
  <1>3. m \in Envelopes /\ rid \in Nat /\ rid <= lastId BY DEF RIDsGiven
  <1>4. time \in Nat /\ time # 0 /\ DAckFetchedTTL \in Nat BY MailboxAssumption DEF CredTypeOK
  <1>5. DAcksGood' BY <1>2 DEF DAcksGood, Kept, ConfirmationsBounded
  <1>6. /\ stored[m] \in Nat /\ promised[m] \in Nat
        /\ stored[m] # 0 => promised[m] # 0
        /\ promised[m] > time => stored[m] = promised[m]
    BY <1>3 DEF DAcksGood
  <1>7. /\ st \in {"queued", "done", "unknown"}
        /\ st # "queued" => rid \notin RIDs(rows)
        /\ st = "done" => stored[m] > time
        /\ st = "unknown" => ~(stored[m] > time)
    BY DEF StateOf
  <1>8. /\ st = "done" => promised[m] # 0
        /\ st = "unknown" => ~(promised[m] > time)
    <2> HIDE DEF st, m
    <2> QED BY <1>4, <1>6, <1>7
  <1>9. ph \in {"cut", "answered"} /\ (ph = "cut" => st = "done") OBVIOUS
  <1>10. (promised[m] > time) \in BOOLEAN OBVIOUS
  <1> DEFINE d == promised[m] > time
             u == time + DAckFetchedTTL
  <1>11. u \in Nat /\ u # 0 /\ (st = "unknown" => ~d) /\ d \in BOOLEAN BY <1>4, <1>8
  <1>12. check' = [phase |-> ph, msg |-> m, rid |-> rid, due |-> d, state |-> st, until |-> u] BY <1>2
  <1> HIDE DEF m, rid, st, ph, d, u
  <1>13. /\ check'.phase = ph /\ check'.msg = m /\ check'.rid = rid /\ check'.state = st
         /\ check'.until = u /\ check'.due = d
    BY <1>12, Zenon
  <1>14. check' \in CheckType BY <1>3, <1>7, <1>9, <1>11, <1>12 DEF CheckType
  <1>15. st # "queued" => rid \notin RIDs(rows) /\ IF st = "done" THEN promised[m] # 0 ELSE ~d
    BY <1>7, <1>8, <1>11
  <1>16. StatusGood'
    <2>1. RIDs(rows)' = RIDs(rows) BY <1>2 DEF RIDs
    <2>2. check'.state # "queued" =>
            /\ check'.rid \notin RIDs(rows)
            /\ IF check'.state = "done" THEN promised'[check'.msg] # 0 ELSE ~check'.due
      BY <1>2, <1>13, <1>15, Zenon
    <2>3. check'.rid <= lastId' /\ check'.until # 0 /\ (check'.phase = "cut" => check'.state = "done")
      BY <1>2, <1>3, <1>9, <1>11, <1>13
    <2> QED BY <1>14, <2>1, <2>2, <2>3, Zenon DEF StatusGood
  <1> QED BY <1>5, <1>16

\* Rows come with a new number.
LEMMA NumbersGrow ==
  ASSUME CredTypeOK, MembersInv, [MailNext]_vars
  PROVE  lastId' \in Nat /\ lastId <= lastId' /\ RIDs(rows') \subseteq RIDs(rows) \cup {lastId + 1}
  <1>1. SendsTyped /\ lastId \in Nat BY DEF MembersInv, RowsTyped
  <1>2. ASSUME NEW m \in Envelopes, Queues(m)
        PROVE  lastId' = lastId + 1 /\ RIDs(rows') \subseteq RIDs(rows) \cup {lastId + 1}
    BY <1>2 DEF Queues, Enqueued, RIDs
  <1>3. ASSUME rows' \subseteq rows, lastId' = lastId
        PROVE  lastId' = lastId /\ RIDs(rows') \subseteq RIDs(rows)
    BY <1>3 DEF RIDs
  <1>4. CASE Drops BY <1>1, <1>3, <1>4 DEF Drops, Drop
  <1>5. CASE UNCHANGED <<queueVars, readerVars>> BY <1>1, <1>3, <1>5 DEF queueVars
  <1>6. ASSUME NEW o \in Owners, PollPage(o) PROVE lastId' = lastId /\ RIDs(rows') \subseteq RIDs(rows)
    BY <1>3, <1>6 DEF PollPage, queueVars
  <1>7. CASE PurgeCounts BY <1>1, <1>3, <1>7 DEF PurgeCounts
  <1>8. \/ UNCHANGED <<queueVars, readerVars>> /\ time' \in {time, time + 1}
        \/ \E m \in Envelopes : Queues(m)
        \/ Drops
        \/ \E o \in Owners : PollPage(o)
        \/ PurgeCounts
    BY <1>1, QueueSteps
  <1> QED BY <1>1, <1>2, <1>4, <1>5, <1>6, <1>7, <1>8

\* A check that the step leaves alone stays true.
LEMMA StatusStays ==
  ASSUME StatusGood, check' \in {check, NoCheck}, lastId \in Nat, lastId' \in Nat, lastId <= lastId',
         RIDs(rows') \subseteq RIDs(rows) \cup {lastId + 1},
         \A m \in Envelopes : promised[m] # 0 => promised'[m] # 0
  PROVE  StatusGood'
  <1>1. CASE check' = NoCheck BY <1>1 DEF StatusGood
  <1>2. CASE check' = check /\ check # NoCheck
    <2>1. check \in CheckType /\ check.rid <= lastId BY <1>2 DEF StatusGood
    <2>2. check.rid \in Nat /\ check.msg \in Envelopes BY <2>1 DEF CheckType
    <2>3. check.rid # lastId + 1 /\ check.rid <= lastId' BY <2>1, <2>2
    <2>4. check.rid \notin RIDs(rows) => check.rid \notin RIDs(rows') BY <2>3
    <2>5. check.state # "queued" =>
            /\ check.rid \notin RIDs(rows')
            /\ IF check.state = "done" THEN promised'[check.msg] # 0 ELSE ~check.due
      BY <1>2, <2>2, <2>4 DEF StatusGood
    <2>6. check.until # 0 /\ (check.phase = "cut" => check.state = "done") BY <1>2 DEF StatusGood
    <2>7. check' \in CheckType /\ check' = check /\ RIDs(rows)' = RIDs(rows') BY <1>2, <2>1 DEF RIDs
    <2> QED BY <2>3, <2>5, <2>6, <2>7, Zenon DEF StatusGood
  <1> QED BY <1>1, <1>2

LEMMA ConfirmStep ==
  ASSUME CredTypeOK, MembersInv, RowsGood, DAcksGood, RIDsGiven, StatusGood, [MailNext]_vars
  PROVE  DAcksGood' /\ StatusGood'
  <1>1. /\ RowsTyped /\ lastId \in Nat /\ lastId' \in Nat /\ lastId <= lastId'
        /\ RIDs(rows') \subseteq RIDs(rows) \cup {lastId + 1}
    BY NumbersGrow DEF MembersInv, RowsTyped
  <1>2. CASE /\ UNCHANGED <<stored, promised>> /\ dackRows' \in {dackRows, Uncounted}
             /\ time' \in {time, time + 1} /\ check' \in {check, NoCheck}
    <2>1. time \in Nat /\ time <= time' BY <1>2 DEF CredTypeOK
    <2>2. \A m \in Envelopes : promised[m] \in Nat BY DEF DAcksGood
    <2>3. \A m \in Envelopes : promised[m] > time' => promised[m] > time BY <1>2, <2>1, <2>2
    <2>4. DAcksGood' BY <1>2, <2>3 DEF DAcksGood, Kept, ConfirmationsBounded
    <2>5. StatusGood' BY <1>1, <1>2, StatusStays
    <2> QED BY <2>4, <2>5
  <1>3. CASE Acknowledges
    <2>1. /\ DAcksGood' /\ UNCHANGED <<check, time>>
          /\ \A m \in Envelopes : promised[m] # 0 => promised'[m] # 0
      BY <1>1, <1>3, AcknowledgeInv DEF Acknowledges
    <2> QED BY <1>1, <2>1, StatusStays
  <1>4. CASE PurgeDAcks BY <1>1, <1>4, PurgeDAcksInv, StatusStays
  <1> QED BY <1>2, <1>3, <1>4, CutTimeInv, ReadsInv, ConfirmSteps

\* A send that answers with a number already given, or goes on with its own.
LEMMA SendMoves ==
  ASSUME MembersInv, RIDsGiven, NEW s \in Slots, send[s] \in SendType, NEW x \in SendType \cup {NoSend},
         send' = [send EXCEPT ![s] = x], x # NoSend => x.rid <= lastId',
         lastId' \in Nat, lastId <= lastId', UNCHANGED told
  PROVE  RIDsGiven'
  <1>1. lastId \in Nat /\ send \in [Slots -> SendType \cup {NoSend}] BY DEF MembersInv, RowsTyped, SendsTyped
  <1>2. ASSUME NEW t \in Slots, send'[t] # NoSend PROVE send'[t].rid <= lastId'
    <2>1. CASE t = s BY <1>1, <1>2, <2>1
    <2>2. CASE t # s
      <3>1. send'[t] = send[t] /\ send[t] \in SendType BY <1>1, <1>2, <2>2
      <3>2. send[t].rid <= lastId BY <1>2, <3>1 DEF RIDsGiven
      <3>3. send[t].rid \in Nat BY <3>1 DEF SendType
      <3> QED BY <1>1, <3>1, <3>2, <3>3
    <2> QED BY <2>1, <2>2
  <1>3. \A y \in told : y.rid \in Nat /\ y.rid <= lastId' BY <1>1 DEF RIDsGiven
  <1> QED BY <1>2, <1>3 DEF RIDsGiven

LEMMA ReplyGives ==
  ASSUME MembersInv, RIDsGiven, NEW s \in Slots, send[s] \in SendType, NEW a \in Outcomes, NEW rid \in Nat,
         Reply(s, a, rid), rid <= lastId', lastId' \in Nat, lastId <= lastId', UNCHANGED told
  PROVE  RIDsGiven'
  <1> DEFINE x == [send[s] EXCEPT !.phase = "answered", !.answer = a, !.rid = rid]
  <1>1. x \in SendType /\ x.rid = rid BY DEF SendType
  <1>2. send' = [send EXCEPT ![s] = x] BY DEF Reply
  <1> HIDE DEF x
  <1> QED BY <1>1, <1>2, SendMoves

LEMMA AdvanceGives ==
  ASSUME MembersInv, RIDsGiven, NEW s \in Slots, send[s] \in SendType, NEW p \in {"waiting", "enqueue"},
         send' = [send EXCEPT ![s].phase = p], lastId' = lastId, UNCHANGED told
  PROVE  RIDsGiven'
  <1> DEFINE x == [send[s] EXCEPT !.phase = p]
  <1>1. x \in SendType /\ x.rid = send[s].rid BY DEF SendType
  <1>2. send' = [send EXCEPT ![s] = x] OBVIOUS
  <1>3. send[s] # NoSend
    <2>1. \A y \in SendType : y.phase # "idle" BY DEF SendType
    <2> QED BY <2>1 DEF NoSend
  <1>4. send[s].rid <= lastId /\ lastId \in Nat BY <1>3 DEF RIDsGiven, MembersInv, RowsTyped
  <1> HIDE DEF x
  <1>5. lastId' \in Nat /\ lastId <= lastId' /\ x.rid <= lastId' BY <1>1, <1>4
  <1> QED BY <1>1, <1>2, <1>5, SendMoves

\* Steps that give no number.
LEMMA NoneGiven ==
  ASSUME MembersInv, RIDsGiven, UNCHANGED told, lastId' \in Nat, lastId <= lastId',
         send' = send \/ send' = [s \in Slots |-> NoSend]
  PROVE  RIDsGiven'
  <1>1. lastId \in Nat /\ send \in [Slots -> SendType \cup {NoSend}] BY DEF MembersInv, RowsTyped, SendsTyped
  <1>2. \A y \in told : y.rid \in Nat /\ y.rid <= lastId' BY <1>1 DEF RIDsGiven
  <1>3. ASSUME NEW t \in Slots, send'[t] # NoSend PROVE send'[t].rid <= lastId'
    <2>1. send'[t] = send[t] /\ send[t] \in SendType BY <1>1, <1>3
    <2>2. send[t].rid <= lastId /\ send[t].rid \in Nat BY <1>3, <2>1 DEF RIDsGiven, SendType
    <2> QED BY <1>1, <2>1, <2>2
  <1> QED BY <1>2, <1>3 DEF RIDsGiven

LEMMA RIDsStep ==
  ASSUME CredTypeOK, MembersInv, RowsGood, RIDsGiven, [MailNext]_vars PROVE RIDsGiven'
  <1>1. SendsTyped /\ lastId \in Nat /\ lastId' \in Nat /\ lastId <= lastId'
    BY NumbersGrow DEF MembersInv, RowsTyped
  <1>2. ASSUME NEW m \in Envelopes, Waiting(m)
        PROVE  RowOf(m).rid \in Nat /\ RowOf(m).rid <= lastId
    <2>1. RowOf(m) \in rows BY <1>2 DEF Waiting, RowOf
    <2> QED BY <2>1 DEF RowsGood, MembersInv, RowsTyped
  <1>3. ASSUME NEW s \in Slots, NEW m \in Envelopes, StartSend(s, m) PROVE RIDsGiven'
    <2> DEFINE x == [phase |-> IF m.cap = NoCap THEN "route" ELSE "access", msg |-> m, answer |-> "none", rid |-> 0]
    <2>1. x \in SendType /\ x.rid = 0 BY DEF SendType
    <2>2. send' = [send EXCEPT ![s] = x] /\ told' = told BY <1>3 DEF StartSend
    <2> HIDE DEF x
    <2>3. ASSUME NEW t \in Slots, send'[t] # NoSend PROVE send'[t].rid <= lastId'
      <3>1. send'[t] = x \/ (send'[t] = send[t] /\ send[t] \in SendType)
        <4>1. CASE t = s
          <5>1. DOMAIN send = Slots BY <1>1 DEF SendsTyped
          <5>2. send'[s] = x BY <2>2, <5>1
          <5> QED BY <4>1, <5>2
        <4>2. CASE t # s
          <5>1. send'[t] = send[t] BY <1>1, <2>2, <4>2 DEF SendsTyped
          <5>2. send[t] \in SendType BY <1>1, <2>3, <5>1 DEF SendsTyped
          <5> QED BY <5>1, <5>2
        <4> QED BY <4>1, <4>2
      <3>2. send'[t] = send[t] /\ send[t] \in SendType => send[t].rid <= lastId /\ send[t].rid \in Nat
        BY <2>3 DEF RIDsGiven, SendType
      <3> QED BY <1>1, <2>1, <3>1, <3>2
    <2>4. \A y \in told : y.rid \in Nat /\ y.rid <= lastId' BY <1>1 DEF RIDsGiven
    <2> QED BY <2>2, <2>3, <2>4 DEF RIDsGiven
  <1>4. ASSUME NEW s \in Slots, Checked(s) PROVE RIDsGiven'
    <2>1. send[s] \in SendType BY <1>1, <1>4, SendOf DEF Checked
    <2>2. lastId' = lastId /\ told' = told BY <1>4 DEF Checked, queueVars
    <2>3. send' = [send EXCEPT ![s].phase = "waiting"] \/ Reply(s, "access_invalid", 0)
      BY <1>4 DEF Checked
    <2> QED BY <1>1, <2>1, <2>2, <2>3, AdvanceGives, ReplyGives DEF Outcomes
  <1>5. ASSUME NEW s \in Slots, Route(s) PROVE RIDsGiven'
    <2>1. send[s] \in SendType BY <1>1, <1>5, SendOf DEF Route
    <2>2. lastId' = lastId /\ told' = told BY <1>5 DEF Route, queueVars
    <2>3. send' = [send EXCEPT ![s].phase = "waiting"] \/ Reply(s, "recipient_unknown", 0)
      BY <1>5 DEF Route
    <2> QED BY <1>1, <2>1, <2>2, <2>3, AdvanceGives, ReplyGives DEF Outcomes
  <1>6. ASSUME NEW s \in Slots, LookForDuplicate(s) PROVE RIDsGiven'
    <2>1. send[s] \in SendType BY <1>1, <1>6, SendOf DEF LookForDuplicate
    <2>2. lastId' = lastId /\ told' = told BY <1>6 DEF LookForDuplicate, queueVars
    <2>3. send[s].msg \in Envelopes BY <2>1 DEF SendType
    <2>4. \/ send' = [send EXCEPT ![s].phase = "enqueue"]
          \/ Waiting(send[s].msg) /\ Reply(s, "duplicate", RowOf(send[s].msg).rid)
      BY <1>6 DEF LookForDuplicate
    <2>5. Waiting(send[s].msg) => RowOf(send[s].msg).rid \in Nat /\ RowOf(send[s].msg).rid <= lastId
      BY <1>2, <2>3
    <2> QED BY <1>1, <2>1, <2>2, <2>4, <2>5, AdvanceGives, ReplyGives DEF Outcomes
  <1>7. ASSUME NEW s \in Slots, NEW share \in Shares, RelayEnqueue(s, share) PROVE RIDsGiven'
    <2> DEFINE m == send[s].msg
               o == EnqueueOutcome(m, time, share)
    <2>1. send[s] \in SendType BY <1>1, <1>7, SendOf DEF RelayEnqueue
    <2>2. m \in Envelopes BY <2>1 DEF SendType
    <2>3. told' = told BY <1>7 DEF RelayEnqueue
    <2>4. o \in Outcomes BY DEF EnqueueOutcome, NewOutcome, Outcomes
    <2>5. o = "duplicate" => Waiting(m)
      <3>1. NewOutcome(m, time, share) # "duplicate" BY DEF NewOutcome
      <3> QED BY <3>1 DEF EnqueueOutcome
    <2>6. \/ o = "queued" /\ Enqueued(m, time) /\ Reply(s, o, lastId + 1)
          \/ o = "duplicate" /\ Reply(s, o, RowOf(m).rid)
          \/ Reply(s, o, 0)
      BY <1>7, Zenon DEF RelayEnqueue
    <2> HIDE DEF m, o
    <2>7. CASE o = "queued" /\ Enqueued(m, time) /\ Reply(s, o, lastId + 1)
      <3>1. lastId' = lastId + 1 BY <2>7 DEF Enqueued
      <3>2. lastId + 1 \in Nat /\ lastId + 1 <= lastId' BY <1>1, <3>1
      <3> QED BY <1>1, <2>1, <2>3, <2>4, <2>7, <3>2, ReplyGives
    <2>8. CASE o = "duplicate" /\ Reply(s, o, RowOf(m).rid)
      <3>1. RowOf(m).rid \in Nat /\ RowOf(m).rid <= lastId BY <1>2, <2>2, <2>5, <2>8
      <3>2. RowOf(m).rid <= lastId' BY <1>1, <3>1
      <3> QED BY <1>1, <2>1, <2>3, <2>4, <2>8, <3>1, <3>2, ReplyGives
    <2>9. CASE Reply(s, o, 0)
      BY <1>1, <2>1, <2>3, <2>4, <2>9, ReplyGives
    <2> QED BY <2>6, <2>7, <2>8, <2>9
  <1>8. ASSUME NEW s \in Slots, Answer(s) PROVE RIDsGiven'
    <2>1. send[s] \in SendType BY <1>1, <1>8, SendOf DEF Answer
    <2>2. lastId' = lastId /\ send' = [send EXCEPT ![s] = NoSend] BY <1>8 DEF Answer, queueVars
    <2> DEFINE x == [msg |-> send[s].msg, rid |-> send[s].rid]
    <2>3. x \in [msg: Envelopes, rid: Nat] /\ x.rid <= lastId
      BY <2>1 DEF SendType, RIDsGiven, NoSend
    <2> HIDE DEF x
    <2>4. told' \subseteq told \cup {x} BY <1>8 DEF Answer, x
    <2>5. \A y \in told' : y \in [msg: Envelopes, rid: Nat] /\ y.rid <= lastId' BY <2>2, <2>3, <2>4 DEF RIDsGiven
    <2>6. \A t \in Slots : send'[t] # NoSend => send'[t] = send[t] BY <1>1, <2>2 DEF SendsTyped
    <2> QED BY <2>2, <2>5, <2>6 DEF RIDsGiven
  <1>9. ASSUME NEW o \in Owners, PollPage(o) PROVE RIDsGiven' BY <1>1, <1>9, NoneGiven DEF PollPage
  <1>10. ASSUME NEW o \in Owners, NEW ids, NEW confirmed, Acknowledge(o, ids, confirmed) PROVE RIDsGiven'
    BY <1>1, <1>10, NoneGiven DEF Acknowledge
  <1>11. ASSUME NEW t \in told, ReadStatus(t.msg, t.rid) PROVE RIDsGiven'
    BY <1>1, <1>11, NoneGiven DEF ReadStatus
  <1>12. CASE CutTime \/ StatusTold \/ PurgeUndelivered \/ PurgeByExp \/ PurgeCounts \/ PurgeDAcks
    BY <1>1, <1>12, NoneGiven
    DEF CutTime, StatusTold, PurgeUndelivered, PurgeByExp, Purge, PurgeCounts, PurgeDAcks
  <1>13. ASSUME NEW o \in Owners, MailboxLeaves(o) PROVE RIDsGiven' BY <1>1, <1>13, NoneGiven DEF MailboxLeaves
  <1>14. CASE CredentialStep BY <1>1, <1>14, NoneGiven DEF CredentialStep, mailVars
  <1>15. CASE Crash BY <1>1, <1>15, NoneGiven DEF Crash
  <1>16. CASE MailTime BY <1>1, <1>16, NoneGiven DEF MailTime, mailVars
  <1>17. CASE UNCHANGED vars BY <1>1, <1>17, NoneGiven DEF vars, mailVars
  <1> QED
    BY <1>3, <1>4, <1>5, <1>6, <1>7, <1>8, <1>9, <1>10, <1>11, <1>12, <1>13, <1>14, <1>15, <1>16, <1>17
    DEF MailNext

LEMMA ConfirmInit == MailInit => ConfirmInv
  <1> SUFFICES ASSUME MailInit PROVE ConfirmInv OBVIOUS
  <1>1. /\ stored = [m \in Envelopes |-> 0] /\ promised = [m \in Envelopes |-> 0] /\ dackRows = Uncounted
        /\ send = [s \in Slots |-> NoSend] /\ told = {} /\ check = NoCheck /\ time = 1
    BY DEF MailInit, CredInit
  <1>2. Kept = {} BY <1>1 DEF Kept
  <1>3. IsFiniteSet(Kept) /\ Cardinality(Kept) = 0 BY <1>2, FS_EmptySet
  <1>4. DAcksGood BY <1>1, <1>3, MailboxAssumption DEF DAcksGood, ConfirmationsBounded
  <1>5. RIDsGiven /\ StatusGood BY <1>1 DEF RIDsGiven, StatusGood
  <1> QED BY <1>4, <1>5 DEF ConfirmInv

\* The invariant of the confirmations and of what senders are told holds of the whole hub.
THEOREM ConfirmInvariant == MailSpec => []ConfirmInv
  <1>1. CredTypeOK /\ MembersInv /\ QueueInv /\ ConfirmInv /\ [MailNext]_vars => ConfirmInv'
    BY ConfirmStep, RIDsStep DEF QueueInv, ConfirmInv
  <1> QED BY <1>1, ConfirmInit, QueueInvariant, MembersInvariant, CredentialsTypeCorrect, PTL DEF MailSpec

\* A sender is told done only of an envelope its recipient confirmed and whose own row has left the
\* mailbox, and unknown only when the row has left and no confirmation is due, whatever is acknowledged,
\* evicted, purged or queued again between the status check's two transactions (RelayStatus).
THEOREM StatusIsTruthful == MailSpec => []StatusTruthful
  <1>1. ConfirmInv => StatusTruthful BY DEF ConfirmInv, StatusGood, StatusTruthful
  <1> QED BY <1>1, ConfirmInvariant, PTL

\* relay_dack stays within its bound, for any bound and number of confirmations in one call: the count
\* in memory is never behind the table (StoreDAcks, boundDAcksTx, PurgeExpiredDAcks).
THEOREM ConfirmationsStayBounded == MailSpec => []ConfirmationsBounded
  <1>1. ConfirmInv => ConfirmationsBounded BY DEF ConfirmInv, DAcksGood
  <1> QED BY <1>1, ConfirmInvariant, PTL

\* The mailbox's tables and counts hold what they are for: the types, no two rows of one number or one
\* envelope, the redelivery limit and the bound of the confirmations.
THEOREM MailboxSound == MailSpec => []MailSound
  <1>1. CredTypeOK /\ MembersInv /\ QueueInv /\ ConfirmInv => MailTypeOK
    <2> SUFFICES ASSUME CredTypeOK, MembersInv, QueueInv, ConfirmInv PROVE MailTypeOK OBVIOUS
    <2>1. \A r, q \in rows : r # q => r.id # q.id /\ r.rid # q.rid /\ r.msg # q.msg
      BY DEF QueueInv, RowsGood
    <2>2. known \subseteq Ids(rows) /\ missed \subseteq Nat /\ poll \in [Owners -> [after: Nat, read: SUBSET Nat]]
      BY DEF QueueInv, PassesGood
    <2>3. redelivery \in [Envelopes -> [count: 0 .. MaxRedeliveries, start: Nat]] BY DEF QueueInv, LogTyped
    <2>4. /\ stored \in [Envelopes -> Nat] /\ promised \in [Envelopes -> Nat]
          /\ dackRows \in Nat \cup {Uncounted} /\ check \in CheckType \cup {NoCheck}
          /\ told \subseteq [msg: Envelopes, rid: Nat]
      BY DEF ConfirmInv, DAcksGood, StatusGood, RIDsGiven
    <2> QED BY <2>1, <2>2, <2>3, <2>4 DEF MailTypeOK, MembersInv, RowsTyped, SendsTyped
  <1> QED
    BY <1>1, CredentialsTypeCorrect, MembersInvariant, QueueInvariant, ConfirmInvariant,
       RedeliveriesStayBounded, ConfirmationsStayBounded, PTL DEF MailSound

-----------------------------------------------------------------------------
(* Key histories: the inductive invariant.                                  *)

\* What the row of a carries: a notice is about the tip held, and the directory entry is
\* what the tables make it, unless a quarantine dropped it and the hub has not served yet.
GoodAt(d, a) ==
  /\ d.notice[a] # None => d.reg[a] # None /\ d.notice[a].tip = d.reg[a]
  /\ d.reg[a] = None => d.dir[a] = None
  /\ \/ d.reg[a] = None \/ d.dir[a] = EntryOf(d, a)
     \/ d.dir[a] = None /\ d.quar # None /\ d.quar.serving = None /\ a \notin d.released
Good(d) == \A a \in AIDs : GoodAt(d, a)

\* A process that has not opened the database owes the file nothing, and a hub that is
\* not up remembers nothing.
ProcInv ==
  /\ \A p \in Processes :
       /\ proc[p].pc = "down" => proc[p] = Down
       /\ proc[p].pc \in {"down", "read", "begin", "filed"} => sync[p] = NoSync
  /\ ~Up => mem = NoMem
  /\ Up => back # None
  /\ back # None => back <= now

TableInv ==
  /\ Good(db) /\ (copy # None => Good(copy))
  /\ Up => \A a \in AIDs : db.notice[a] # None => db.notice[a].by = key

\* An older copy is in place and no process has looked away from it.
Alarmed(p) == proc[p].seen = Unreadable \/ db.n < SeenCount(p)
Pending ==
  /\ Found(db)
  /\ \A p \in Processes : /\ proc[p].pc \in {"down", "read", "begin"}
                          /\ proc[p].pc # "down" => Alarmed(p)

\* An agent held is in the quarantine, or its wait is over and it is not registered.
HeldAt(d, a, waited) ==
  \/ InQuarantine(d, a) /\ d.notice[a] = None
  \/ waited /\ d.reg[a] = None

\* A wait that runs began once the hub served again.
Since(t) == t # None => back # None /\ back <= t
\* Every agent held is so in the database, and no wait is older than the hub's return.
StayHeld ==
  /\ \A a \in held : HeldAt(db, a, WaitedOut)
  /\ db.quar # None => Since(db.quar.serving)
  /\ Since(mem.since)

HeldInv == held = {} \/ Pending \/ StayHeld

\* The counts a process or the file may still bring, above the database's, are one, and
\* there is none but where an older copy was put in place.
Above(x) == x \in Nat /\ x > db.n
CountInv ==
  /\ \A p \in Processes : sync[p].n <= db.n /\ proc[p].n <= db.n
  /\ \A p \in Processes : /\ Above(proc[p].seen) /\ Above(file) => proc[p].seen = file
                          /\ \A q \in Processes :
                               Above(proc[p].seen) /\ Above(proc[q].seen) => proc[p].seen = proc[q].seen
  /\ ~replaced => ~Above(file) /\ \A p \in Processes : ~Above(proc[p].seen)

HInv == HistoriesTypeOK /\ ProcInv /\ TableInv /\ HeldInv /\ CountInv

-----------------------------------------------------------------------------
(* The database whatever its count, and what one transaction may touch.     *)

LooseDb ==
  [reg: [AIDs -> KELs \cup {None}], departed: [AIDs -> KELs \cup {None}],
   keys: [AIDs -> KELs \cup {None}], notice: [AIDs -> Notice \cup {None}],
   dir: [AIDs -> Entry \cup {None}], quar: Quarantine \cup {None}, released: SUBSET AIDs,
   event: BOOLEAN, n: Nat]

SameAt(d, e, b) ==
  /\ e.reg[b] = d.reg[b] /\ e.keys[b] = d.keys[b] /\ e.notice[b] = d.notice[b]
  /\ e.dir[b] = d.dir[b] /\ (b \in e.released <=> b \in d.released)

\* e is d but for the row of a, a tombstone, an event and a count that went up.
Written(d, e, a) ==
  /\ e \in LooseDb /\ e.quar = d.quar /\ e.n >= d.n
  /\ \A b \in AIDs \ {a} : SameAt(d, e, b)

\* A database bounded by the model is one.
LEMMA DatabaseIsLoose ==
  /\ Database \subseteq LooseDb
  /\ \A d \in LooseDb : d.n \in Counts => d \in Database
  BY HistoriesAssumption DEF Database, LooseDb, Counts

\* Two transactions on the row of a are one.
LEMMA WrittenTwice ==
  ASSUME NEW d \in LooseDb, NEW e, NEW f, NEW a, Written(d, e, a), Written(e, f, a)
  PROVE  Written(d, f, a)
<1>1. d.n \in Nat /\ e.n \in Nat /\ f.n \in Nat
  BY DEF Written, LooseDb
<1>2. \A b \in AIDs \ {a} : SameAt(d, f, b)
  BY DEF Written, SameAt
<1> QED BY <1>1, <1>2 DEF Written

\* A row that stays stays sound.
LEMMA SameIsGood ==
  ASSUME NEW d, NEW e, NEW b, SameAt(d, e, b), e.quar = d.quar, GoodAt(d, b)
  PROVE  GoodAt(e, b)
<1>1. TipNotice(e, b) = TipNotice(d, b)
  BY DEF TipNotice, SameAt
<1>2. EntryOf(e, b) = EntryOf(d, b)
  BY <1>1 DEF EntryOf, SameAt
<1> QED BY <1>2 DEF GoodAt, SameAt

\* What a transaction on the row of a leaves of a sound table.
LEMMA RowsApart ==
  ASSUME NEW d, NEW e, NEW a, Written(d, e, a), Good(d), GoodAt(e, a)
  PROVE  Good(e)
<1>1. ASSUME NEW b \in AIDs \ {a} PROVE GoodAt(e, b)
  BY <1>1, SameIsGood DEF Written, Good
<1> QED BY <1>1 DEF Good

\* The entry sealed for a registered agent is one.
LEMMA EntryIsOne ==
  ASSUME NEW d \in LooseDb, NEW a \in AIDs, d.reg[a] # None
  PROVE  EntryOf(d, a) \in Entry \cup {None}
<1>1. d.reg[a] \in KELs /\ d.keys[a] \in KELs \cup {None} /\ d.notice[a] \in Notice \cup {None}
  BY DEF LooseDb
<1>2. TipNotice(d, a) \in Notice \cup {None}
  BY <1>1 DEF TipNotice
<1> QED BY <1>1, <1>2 DEF EntryOf, Entry

\* refreshDirTx writes the entry of a registered agent and nothing else.
LEMMA RefreshedIs ==
  ASSUME NEW d \in LooseDb, NEW a \in AIDs
  PROVE  LET e == Refreshed(d, a)
         IN  /\ Written(d, e, a)
             /\ e.reg = d.reg /\ e.keys = d.keys /\ e.notice = d.notice /\ e.released = d.released
             /\ e.n = d.n /\ e.quar = d.quar
             /\ e.dir[a] = IF d.reg[a] = None THEN d.dir[a] ELSE EntryOf(d, a)
<1> DEFINE e == Refreshed(d, a)
           x == EntryOf(d, a)
<1>0. d.n \in Nat /\ d.dir \in [AIDs -> Entry \cup {None}]
  BY DEF LooseDb
<1>1. CASE d.reg[a] = None
  <2>1. e = d
    BY <1>1 DEF Refreshed
  <2> QED BY <1>0, <1>1, <2>1 DEF Written, SameAt
<1>2. CASE d.reg[a] # None
  <2>1. x \in Entry \cup {None}
    BY <1>2, EntryIsOne
  <2> HIDE DEF x
  <2>2. e = [d EXCEPT !.dir = [d.dir EXCEPT ![a] = x]]
    BY <1>2 DEF Refreshed, Put, x
  <2> HIDE DEF e
  <2>3. e \in LooseDb
    BY <2>1, <2>2, <1>0 DEF LooseDb
  <2>4. /\ e.reg = d.reg /\ e.keys = d.keys /\ e.notice = d.notice /\ e.released = d.released
        /\ e.n = d.n /\ e.quar = d.quar /\ e.dir[a] = x
        /\ \A b \in AIDs \ {a} : e.dir[b] = d.dir[b]
    BY <2>2, <1>0 DEF LooseDb
  <2> QED BY <1>0, <1>2, <2>3, <2>4 DEF Written, SameAt, e, x
<1> QED BY <1>1, <1>2

\* A row is sound once its entry is refreshed, if its notice is.
LEMMA RefreshedIsGood ==
  ASSUME NEW d \in LooseDb, NEW a \in AIDs,
         d.notice[a] # None => d.reg[a] # None /\ d.notice[a].tip = d.reg[a],
         d.reg[a] = None => d.dir[a] = None
  PROVE  GoodAt(Refreshed(d, a), a)
<1> DEFINE e == Refreshed(d, a)
<1>1. /\ e.reg = d.reg /\ e.keys = d.keys /\ e.notice = d.notice
      /\ e.dir[a] = IF d.reg[a] = None THEN d.dir[a] ELSE EntryOf(d, a)
  BY RefreshedIs
<1> HIDE DEF e
<1>2. EntryOf(e, a) = EntryOf(d, a)
  BY <1>1 DEF EntryOf, TipNotice
<1>3. GoodAt(e, a)
  BY <1>1, <1>2 DEF GoodAt
<1> QED BY <1>3 DEF e

-----------------------------------------------------------------------------
(* The operators transactions are made of.                                  *)

\* Putting an allowed value at a row touches that row alone.
LEMMA PutReg ==
  ASSUME NEW d \in LooseDb, NEW a \in AIDs, NEW h \in KELs \cup {None}
  PROVE  LET e == [d EXCEPT !.reg = Put(d.reg, a, h)]
         IN  /\ Written(d, e, a) /\ e.reg[a] = h
             /\ e.keys = d.keys /\ e.notice = d.notice /\ e.dir = d.dir /\ e.released = d.released
             /\ e.departed = d.departed /\ e.n = d.n
<1> DEFINE e == [d EXCEPT !.reg = Put(d.reg, a, h)]
<1>0. d.n \in Nat /\ d.reg \in [AIDs -> KELs \cup {None}]
  BY DEF LooseDb
<1>1. e \in LooseDb
  BY <1>0 DEF LooseDb, Put
<1>2. /\ e.reg[a] = h /\ \A b \in AIDs \ {a} : e.reg[b] = d.reg[b]
      /\ e.keys = d.keys /\ e.notice = d.notice /\ e.dir = d.dir /\ e.released = d.released
      /\ e.departed = d.departed /\ e.n = d.n /\ e.quar = d.quar
  BY <1>0 DEF LooseDb, Put
<1> QED BY <1>0, <1>1, <1>2 DEF Written, SameAt

\* So does a key set put there,
LEMMA PutKeys ==
  ASSUME NEW d \in LooseDb, NEW a \in AIDs, NEW h \in KELs \cup {None}
  PROVE  LET e == [d EXCEPT !.keys = Put(d.keys, a, h)]
         IN  /\ Written(d, e, a)
             /\ e.reg = d.reg /\ e.notice = d.notice /\ e.dir = d.dir /\ e.released = d.released
             /\ e.departed = d.departed /\ e.n = d.n
<1> DEFINE e == [d EXCEPT !.keys = Put(d.keys, a, h)]
<1>0. d.n \in Nat /\ d.keys \in [AIDs -> KELs \cup {None}]
  BY DEF LooseDb
<1>1. e \in LooseDb
  BY <1>0 DEF LooseDb, Put
<1>2. /\ \A b \in AIDs \ {a} : e.keys[b] = d.keys[b]
      /\ e.reg = d.reg /\ e.notice = d.notice /\ e.dir = d.dir /\ e.released = d.released
      /\ e.departed = d.departed /\ e.n = d.n /\ e.quar = d.quar
  BY <1>0 DEF LooseDb, Put
<1> QED BY <1>0, <1>1, <1>2 DEF Written, SameAt

\* and a notice.
LEMMA PutNotice ==
  ASSUME NEW d \in LooseDb, NEW a \in AIDs, NEW x \in Notice \cup {None}
  PROVE  LET e == [d EXCEPT !.notice = Put(d.notice, a, x)]
         IN  /\ Written(d, e, a) /\ e.notice[a] = x
             /\ e.reg = d.reg /\ e.keys = d.keys /\ e.dir = d.dir /\ e.released = d.released
             /\ e.departed = d.departed /\ e.n = d.n
<1> DEFINE e == [d EXCEPT !.notice = Put(d.notice, a, x)]
<1>0. d.n \in Nat /\ d.notice \in [AIDs -> Notice \cup {None}]
  BY DEF LooseDb
<1>1. e \in LooseDb
  BY <1>0 DEF LooseDb, Put
<1>2. /\ e.notice[a] = x /\ \A b \in AIDs \ {a} : e.notice[b] = d.notice[b]
      /\ e.reg = d.reg /\ e.keys = d.keys /\ e.dir = d.dir /\ e.released = d.released
      /\ e.departed = d.departed /\ e.n = d.n /\ e.quar = d.quar
  BY <1>0 DEF LooseDb, Put
<1> QED BY <1>0, <1>1, <1>2 DEF Written, SameAt

\* countKELChangeTx adds one and leaves every row.
LEMMA CountedIs ==
  ASSUME NEW d \in LooseDb, NEW a
  PROVE  LET e == Counted(d)
         IN  /\ Written(d, e, a) /\ e.n = d.n + 1
             /\ e.reg = d.reg /\ e.keys = d.keys /\ e.notice = d.notice /\ e.dir = d.dir
             /\ e.released = d.released
<1> DEFINE e == Counted(d)
<1>0. d.n \in Nat
  BY DEF LooseDb
<1>1. e \in LooseDb
  BY <1>0 DEF LooseDb, Counted
<1>2. /\ e.reg = d.reg /\ e.keys = d.keys /\ e.notice = d.notice /\ e.dir = d.dir /\ e.released = d.released
      /\ e.n = d.n + 1 /\ e.quar = d.quar
  BY <1>0 DEF LooseDb, Counted
<1> QED BY <1>0, <1>1, <1>2 DEF Written, SameAt

\* kelChangedTx drops the notice, and the row stays.
LEMMA KelChangedIs ==
  ASSUME NEW d \in LooseDb, NEW a \in AIDs
  PROVE  LET e == KelChanged(d, a)
         IN  /\ Written(d, e, a) /\ e.notice[a] = None
             /\ e.reg = d.reg /\ e.dir = d.dir /\ e.released = d.released /\ e.n = d.n
<1> DEFINE x == IF d.keys[a] = d.reg[a] THEN d.keys[a] ELSE None
           f == [d EXCEPT !.keys = Put(d.keys, a, x)]
           g == [f EXCEPT !.notice = Put(f.notice, a, None)]
<1>0. d.keys \in [AIDs -> KELs \cup {None}] /\ x \in KELs \cup {None}
  BY DEF LooseDb
<1>1. Put(d.keys, a, x) = IF d.keys[a] = d.reg[a] THEN d.keys ELSE Put(d.keys, a, None)
  BY <1>0 DEF Put
<1>2. KelChanged(d, a) = g
  BY <1>1 DEF KelChanged, ForgetNotice
<1> HIDE DEF x
<1>3. /\ Written(d, f, a) /\ f.reg = d.reg /\ f.dir = d.dir /\ f.released = d.released /\ f.n = d.n
  BY <1>0, PutKeys
<1>4. f \in LooseDb
  BY <1>3 DEF Written
<1> HIDE DEF f
<1>5. /\ Written(f, g, a) /\ g.notice[a] = None /\ g.reg = f.reg /\ g.dir = f.dir
      /\ g.released = f.released /\ g.n = f.n
  BY <1>4, PutNotice
<1> HIDE DEF g
<1>6. Written(d, g, a)
  BY <1>3, <1>5, WrittenTwice
<1> QED BY <1>2, <1>3, <1>5, <1>6

\* releaseTx drops the notice of an agent it releases, and the row stays.
LEMMA ReleaseIs ==
  ASSUME NEW d \in LooseDb, NEW a \in AIDs
  PROVE  LET e == Release(d, a)
         IN  /\ Written(d, e, a) /\ e.notice[a] \in {None, d.notice[a]}
             /\ e.reg = d.reg /\ e.keys = d.keys /\ e.dir = d.dir /\ e.n = d.n
<1>1. CASE ~InQuarantine(d, a)
  <2>1. Release(d, a) = d
    BY <1>1 DEF Release
  <2>2. d.n \in Nat
    BY DEF LooseDb
  <2> QED BY <2>1, <2>2 DEF Written, SameAt
<1>2. CASE InQuarantine(d, a)
  <2> DEFINE f == [d EXCEPT !.released = d.released \cup {a}]
             g == [f EXCEPT !.notice = Put(f.notice, a, None)]
  <2>1. Release(d, a) = g
    BY <1>2 DEF Release, ForgetNotice
  <2>2. /\ f \in LooseDb /\ f.n = d.n /\ f.reg = d.reg /\ f.keys = d.keys /\ f.dir = d.dir
        /\ f.notice = d.notice /\ f.quar = d.quar
        /\ \A b \in AIDs \ {a} : b \in f.released <=> b \in d.released
    BY DEF LooseDb
  <2>3. Written(d, f, a)
    <3>1. d.n \in Nat
      BY DEF LooseDb
    <3> HIDE DEF f
    <3> QED BY <2>2, <3>1 DEF Written, SameAt
  <2> HIDE DEF f
  <2>4. /\ Written(f, g, a) /\ g.notice[a] = None /\ g.reg = f.reg /\ g.keys = f.keys /\ g.dir = f.dir
        /\ g.n = f.n
    BY <2>2, PutNotice
  <2> HIDE DEF g
  <2>5. Written(d, g, a)
    BY <2>3, <2>4, WrittenTwice
  <2> QED BY <2>1, <2>2, <2>4, <2>5
<1> QED BY <1>1, <1>2

\* writeTombstone leaves every row, and is counted.
LEMMA TombstoneIs ==
  ASSUME NEW d \in LooseDb, NEW a \in AIDs, NEW h \in KELs
  PROVE  LET e == Tombstone(d, a, h)
         IN  /\ Written(d, e, a) /\ e.n = d.n + 1
             /\ e.reg = d.reg /\ e.keys = d.keys /\ e.notice = d.notice /\ e.dir = d.dir
             /\ e.released = d.released
<1> DEFINE f == [d EXCEPT !.departed = Put(d.departed, a, h)]
           g == Counted(f)
<1>0. d.n \in Nat
  BY DEF LooseDb
<1>1. f \in LooseDb
  BY DEF LooseDb, Put
<1>2. /\ f.reg = d.reg /\ f.keys = d.keys /\ f.notice = d.notice /\ f.dir = d.dir /\ f.released = d.released
      /\ f.n = d.n /\ f.quar = d.quar
  BY DEF LooseDb
<1> HIDE DEF f
<1>3. Written(d, f, a)
  BY <1>0, <1>1, <1>2 DEF Written, SameAt
<1>4. /\ Written(f, g, a) /\ g.n = f.n + 1
      /\ g.reg = f.reg /\ g.keys = f.keys /\ g.notice = f.notice /\ g.dir = f.dir /\ g.released = f.released
  BY <1>1, CountedIs
<1>5. Tombstone(d, a, h) = g
  BY DEF Tombstone, f
<1> HIDE DEF g
<1>6. Written(d, g, a)
  BY <1>3, <1>4, WrittenTwice
<1> QED BY <1>2, <1>4, <1>5, <1>6

\* DeregisterTx leaves nothing of the row, and takes no agent out of the quarantine.
LEMMA DeregisteredIs ==
  ASSUME NEW d \in LooseDb, NEW a \in AIDs, d.reg[a] # None
  PROVE  LET e == Deregistered(d, a)
         IN  /\ Written(d, e, a) /\ e.n = d.n + 1
             /\ e.reg[a] = None /\ e.notice[a] = None /\ e.dir[a] = None /\ a \notin e.released
<1> DEFINE t == Tombstone(d, a, d.reg[a])
           f == [t EXCEPT !.keys = Put(t.keys, a, None), !.dir = Put(t.dir, a, None),
                          !.released = t.released \ {a}, !.reg = Put(t.reg, a, None)]
           g == [f EXCEPT !.notice = Put(f.notice, a, None)]
<1>1. d.reg[a] \in KELs
  BY DEF LooseDb
<1>2. /\ Written(d, t, a) /\ t.n = d.n + 1
  BY <1>1, TombstoneIs
<1>3. Deregistered(d, a) = g
  BY DEF Deregistered, ForgetNotice
<1> HIDE DEF t
<1>4. t \in LooseDb /\ t.n \in Nat
  BY <1>2 DEF Written, LooseDb
<1>5. f \in LooseDb
  BY <1>4 DEF LooseDb, Put
<1>6. /\ f.reg[a] = None /\ f.dir[a] = None /\ a \notin f.released /\ f.n = t.n /\ f.quar = t.quar
      /\ f.notice = t.notice
      /\ \A b \in AIDs \ {a} : /\ f.reg[b] = t.reg[b] /\ f.keys[b] = t.keys[b] /\ f.dir[b] = t.dir[b]
                               /\ (b \in f.released <=> b \in t.released)
  BY <1>4 DEF LooseDb, Put
<1> HIDE DEF f
<1>7. Written(t, f, a)
  BY <1>4, <1>5, <1>6 DEF Written, SameAt
<1>8. /\ Written(f, g, a) /\ g.notice[a] = None /\ g.reg = f.reg /\ g.dir = f.dir /\ g.released = f.released
      /\ g.n = f.n
  BY <1>5, PutNotice
<1> HIDE DEF g
<1>9. Written(d, g, a)
  BY <1>2, <1>5, <1>7, <1>8, <1>4, WrittenTwice
<1> QED BY <1>2, <1>3, <1>6, <1>8, <1>9

-----------------------------------------------------------------------------
(* The transactions of the hub and the operator.                            *)

\* A transaction leaves the row of a sound, with the notice it had or none.
Sound(d, e, a) == Written(d, e, a) /\ GoodAt(e, a) /\ e.notice[a] \in {None, d.notice[a]}

\* putAgent: nothing is released unless the history is longer.
LEMMA RegisteredIs ==
  ASSUME db \in LooseDb, Good(db), NEW a \in AIDs, NEW h \in KELs
  PROVE  LET e == Registered(a, h)
         IN  /\ Sound(db, e, a) /\ e.n <= db.n + 1
             /\ ~Longer(Known(a), h) => (a \in e.released <=> a \in db.released)
<1> DEFINE changed == db.reg[a] # None /\ db.reg[a] # h
           row     == [db EXCEPT !.reg = Put(db.reg, a, h)]
           noted    == IF changed THEN KelChanged(row, a) ELSE row
           counted == IF db.reg[a] # h THEN Counted(noted) ELSE noted
           last    == IF Longer(Known(a), h) THEN Release(counted, a) ELSE counted
           e       == Refreshed(last, a)
<1>0. Registered(a, h) = e
  BY DEF Registered
<1>a. h # None /\ db.n \in Nat /\ GoodAt(db, a)
  BY HistoriesAssumption DEF LooseDb, Good
<1>1. /\ Written(db, row, a) /\ row.reg[a] = h /\ row.notice = db.notice /\ row.dir = db.dir
      /\ row.released = db.released /\ row.n = db.n
  BY PutReg
<1> HIDE DEF row
<1>b. row \in LooseDb
  BY <1>1 DEF Written
<1>2. /\ Written(db, noted, a) /\ noted.reg = row.reg /\ noted.dir = row.dir /\ noted.released = row.released
      /\ noted.n = row.n /\ noted.notice[a] = IF changed THEN None ELSE row.notice[a]
  <2>1. CASE changed
    <3> DEFINE k == KelChanged(row, a)
    <3>1. noted = k
      BY <2>1
    <3>2. /\ Written(row, k, a) /\ k.notice[a] = None
          /\ k.reg = row.reg /\ k.dir = row.dir /\ k.released = row.released /\ k.n = row.n
      BY <1>b, KelChangedIs
    <3> HIDE DEF k
    <3>3. Written(db, k, a)
      BY <1>1, <3>2, WrittenTwice
    <3> QED BY <2>1, <3>1, <3>2, <3>3
  <2>2. CASE ~changed
    BY <2>2, <1>1
  <2> QED BY <2>1, <2>2
<1>3. noted.notice[a] # None => noted.notice[a].tip = h
  BY <1>1, <1>2, <1>a DEF GoodAt
<1>4. noted.notice[a] \in {None, db.notice[a]}
  BY <1>1, <1>2
<1> HIDE DEF noted, changed
<1>c. noted \in LooseDb
  BY <1>2 DEF Written
<1>5. /\ Written(db, counted, a) /\ counted.reg = noted.reg /\ counted.dir = noted.dir
      /\ counted.released = noted.released /\ counted.notice = noted.notice /\ counted.n <= noted.n + 1
  <2>1. CASE db.reg[a] # h
    <3> DEFINE k == Counted(noted)
    <3>1. counted = k
      BY <2>1
    <3>2. /\ Written(noted, k, a) /\ k.n = noted.n + 1
          /\ k.reg = noted.reg /\ k.notice = noted.notice /\ k.dir = noted.dir /\ k.released = noted.released
      BY <1>c, CountedIs
    <3> HIDE DEF k
    <3>3. Written(db, k, a)
      BY <1>2, <3>2, WrittenTwice
    <3> QED BY <3>1, <3>2, <3>3, <1>a, <1>1, <1>2
  <2>2. CASE db.reg[a] = h
    <3>1. counted = noted
      BY <2>2
    <3> QED BY <3>1, <1>2, <1>1, <1>a
  <2> QED BY <2>1, <2>2
<1> HIDE DEF counted
<1>d. counted \in LooseDb
  BY <1>5 DEF Written
<1>6. /\ Written(db, last, a) /\ last.reg = counted.reg /\ last.dir = counted.dir /\ last.n = counted.n
      /\ last.notice[a] \in {None, counted.notice[a]}
      /\ ~Longer(Known(a), h) => last.released = counted.released
  <2>1. CASE Longer(Known(a), h)
    <3> DEFINE k == Release(counted, a)
    <3>1. last = k
      BY <2>1
    <3>2. /\ Written(counted, k, a) /\ k.notice[a] \in {None, counted.notice[a]}
          /\ k.reg = counted.reg /\ k.dir = counted.dir /\ k.n = counted.n
      BY <1>d, ReleaseIs
    <3> HIDE DEF k
    <3>3. Written(db, k, a)
      BY <1>5, <3>2, WrittenTwice
    <3> QED BY <2>1, <3>1, <3>2, <3>3
  <2>2. CASE ~Longer(Known(a), h)
    BY <2>2, <1>5
  <2> QED BY <2>1, <2>2
<1> HIDE DEF last
<1>e. last \in LooseDb
  BY <1>6 DEF Written
<1>7. /\ Written(last, e, a) /\ e.notice = last.notice /\ e.released = last.released /\ e.n = last.n
  BY <1>e, RefreshedIs
<1>8. GoodAt(e, a)
  BY <1>e, <1>1, <1>2, <1>3, <1>5, <1>6, <1>a, RefreshedIsGood
<1> HIDE DEF e
<1>9. Written(db, e, a)
  BY <1>6, <1>7, WrittenTwice
<1>10. e.notice[a] \in {None, db.notice[a]}
  BY <1>4, <1>5, <1>6, <1>7
<1>11. e.n <= db.n + 1
  BY <1>1, <1>2, <1>5, <1>6, <1>7, <1>a
<1>12. ~Longer(Known(a), h) => (a \in e.released <=> a \in db.released)
  BY <1>1, <1>2, <1>5, <1>6, <1>7
<1> QED BY <1>0, <1>8, <1>9, <1>10, <1>11, <1>12 DEF Sound

\* DeregisterTx leaves a sound row.
LEMMA DeregisteredIsSound ==
  ASSUME NEW d \in LooseDb, NEW a \in AIDs, d.reg[a] # None
  PROVE  LET e == Deregistered(d, a)
         IN  Sound(d, e, a) /\ e.n = d.n + 1 /\ e.reg[a] = None /\ e.notice[a] = None /\ a \notin e.released
<1> DEFINE e == Deregistered(d, a)
<1>1. /\ Written(d, e, a) /\ e.n = d.n + 1
      /\ e.reg[a] = None /\ e.notice[a] = None /\ e.dir[a] = None /\ a \notin e.released
  BY DeregisteredIs
<1> HIDE DEF e
<1>2. Sound(d, e, a)
  BY <1>1 DEF Sound, GoodAt
<1> QED BY <1>1, <1>2 DEF e

\* pushKELLocked leaves a sound row and no notice.
LEMMA PushedIs ==
  ASSUME db \in LooseDb, NEW a \in AIDs, NEW h \in KELs
  PROVE  LET e == Pushed(a, h) IN Sound(db, e, a) /\ e.n <= db.n + 2
<1> DEFINE put == [db EXCEPT !.reg = Put(db.reg, a, h)]
           row == Counted(put)
<1>a. h # None /\ db.n \in Nat
  BY HistoriesAssumption DEF LooseDb
<1>1. /\ Written(db, put, a) /\ put.reg[a] = h /\ put.n = db.n
  BY PutReg
<1>0. Pushed(a, h) = IF IsDip(h) THEN Deregistered(row, a)
                     ELSE Refreshed(Release(KelChanged(row, a), a), a)
  BY DEF Pushed
<1> HIDE DEF put
<1>b. put \in LooseDb
  BY <1>1 DEF Written
<1>2. /\ Written(put, row, a) /\ row.reg = put.reg /\ row.n = put.n + 1
  BY <1>b, CountedIs
<1> HIDE DEF row
<1>c. row \in LooseDb /\ Written(db, row, a)
  BY <1>1, <1>2, WrittenTwice DEF Written
<1>3. CASE IsDip(h)
  <2> DEFINE e == Deregistered(row, a)
  <2>1. Sound(row, e, a) /\ e.n = row.n + 1 /\ e.notice[a] = None
    BY <1>1, <1>2, <1>a, <1>c, DeregisteredIsSound
  <2>2. Pushed(a, h) = e
    BY <1>0, <1>3
  <2> HIDE DEF e
  <2>3. Written(db, e, a)
    BY <1>c, <2>1, WrittenTwice DEF Sound
  <2> QED BY <1>1, <1>2, <1>a, <2>1, <2>2, <2>3 DEF Sound
<1>4. CASE ~IsDip(h)
  <2> DEFINE k == KelChanged(row, a)
             r == Release(k, a)
             e == Refreshed(r, a)
  <2>0. Pushed(a, h) = e
    BY <1>0, <1>4
  <2>1. /\ Written(row, k, a) /\ k.notice[a] = None /\ k.reg = row.reg /\ k.n = row.n
    BY <1>c, KelChangedIs
  <2> HIDE DEF k
  <2>2. k \in LooseDb /\ Written(db, k, a)
    BY <1>c, <2>1, WrittenTwice DEF Written
  <2>3. /\ Written(k, r, a) /\ r.notice[a] = None /\ r.reg = k.reg /\ r.n = k.n
    BY <2>1, <2>2, ReleaseIs
  <2> HIDE DEF r
  <2>4. r \in LooseDb /\ Written(db, r, a)
    BY <2>2, <2>3, WrittenTwice DEF Written
  <2>5. /\ Written(r, e, a) /\ e.notice = r.notice /\ e.n = r.n
    BY <2>4, RefreshedIs
  <2>6. GoodAt(e, a)
    BY <2>3, <2>4, <2>1, <1>1, <1>2, <1>a, RefreshedIsGood
  <2> HIDE DEF e
  <2>7. Written(db, e, a)
    BY <2>4, <2>5, WrittenTwice
  <2>8. e.notice[a] = None /\ e.n <= db.n + 2
    BY <2>1, <2>3, <2>5, <1>1, <1>2, <1>a
  <2> QED BY <2>0, <2>6, <2>7, <2>8 DEF Sound
<1> QED BY <1>3, <1>4

\* A tombstone that grows leaves the row alone.
LEMMA DepartedIs ==
  ASSUME NEW d \in LooseDb, Good(d), NEW a \in AIDs, NEW h \in KELs
  PROVE  LET e == Tombstone(d, a, h) IN Sound(d, e, a) /\ SameAt(d, e, a) /\ e.n = d.n + 1
<1> DEFINE e == Tombstone(d, a, h)
<1>1. /\ Written(d, e, a) /\ e.n = d.n + 1
      /\ e.reg = d.reg /\ e.keys = d.keys /\ e.notice = d.notice /\ e.dir = d.dir
      /\ e.released = d.released
  BY TombstoneIs
<1> HIDE DEF e
<1>2. SameAt(d, e, a) /\ GoodAt(d, a)
  BY <1>1 DEF SameAt, Good
<1>3. GoodAt(e, a)
  BY <1>1, <1>2, SameIsGood DEF Written
<1> QED BY <1>1, <1>2, <1>3 DEF Sound, e

\* PublishKeys leaves a sound row and the notice.
LEMMA KeysPublishedIs ==
  ASSUME NEW d \in LooseDb, Good(d), NEW a \in AIDs, NEW h \in KELs
  PROVE  LET e == Refreshed([d EXCEPT !.keys = Put(d.keys, a, h)], a)
         IN  Sound(d, e, a) /\ e.released = d.released /\ e.reg = d.reg /\ e.n = d.n
<1> DEFINE f == [d EXCEPT !.keys = Put(d.keys, a, h)]
           e == Refreshed(f, a)
<1>1. /\ Written(d, f, a)
      /\ f.reg = d.reg /\ f.notice = d.notice /\ f.dir = d.dir /\ f.released = d.released /\ f.n = d.n
  BY PutKeys
<1> HIDE DEF f
<1>2. f \in LooseDb /\ GoodAt(d, a)
  BY <1>1 DEF Written, Good
<1>3. /\ Written(f, e, a) /\ e.reg = f.reg /\ e.notice = f.notice /\ e.released = f.released /\ e.n = f.n
  BY <1>2, RefreshedIs
<1>4. GoodAt(e, a)
  BY <1>1, <1>2, RefreshedIsGood DEF GoodAt
<1> HIDE DEF e
<1>5. Written(d, e, a)
  BY <1>1, <1>3, WrittenTwice
<1> QED BY <1>1, <1>3, <1>4, <1>5 DEF Sound, e, f

\* releaseOnCurrentKey leaves a sound row.
LEMMA ReleasedIs ==
  ASSUME NEW d \in LooseDb, Good(d), NEW a \in AIDs
  PROVE  LET e == Refreshed(Release(d, a), a) IN Sound(d, e, a) /\ e.n = d.n
<1> DEFINE f == Release(d, a)
           e == Refreshed(f, a)
<1>1. /\ Written(d, f, a) /\ f.notice[a] \in {None, d.notice[a]}
      /\ f.reg = d.reg /\ f.dir = d.dir /\ f.n = d.n
  BY ReleaseIs
<1> HIDE DEF f
<1>2. f \in LooseDb /\ GoodAt(d, a)
  BY <1>1 DEF Written, Good
<1>3. /\ Written(f, e, a) /\ e.notice = f.notice /\ e.n = f.n
  BY <1>2, RefreshedIs
<1>4. GoodAt(e, a)
  BY <1>1, <1>2, RefreshedIsGood DEF GoodAt
<1> HIDE DEF e
<1>5. Written(d, e, a)
  BY <1>1, <1>3, WrittenTwice
<1> QED BY <1>1, <1>3, <1>4, <1>5 DEF Sound, e, f

\* noticeFor leaves a sound row with a notice about the tip held.
LEMMA StatedIs ==
  ASSUME NEW d \in LooseDb, Good(d), NEW a \in AIDs, d.reg[a] # None,
         NEW x \in Notice, x.tip = d.reg[a]
  PROVE  LET e == Refreshed([d EXCEPT !.notice = Put(d.notice, a, x)], a)
         IN  Written(d, e, a) /\ GoodAt(e, a) /\ e.notice[a] = x /\ e.n = d.n
<1> DEFINE f == [d EXCEPT !.notice = Put(d.notice, a, x)]
           e == Refreshed(f, a)
<1>1. /\ Written(d, f, a) /\ f.notice[a] = x /\ f.reg = d.reg /\ f.dir = d.dir /\ f.n = d.n
  BY PutNotice
<1> HIDE DEF f
<1>2. f \in LooseDb /\ GoodAt(d, a)
  BY <1>1 DEF Written, Good
<1>3. /\ Written(f, e, a) /\ e.notice = f.notice /\ e.n = f.n
  BY <1>2, RefreshedIs
<1>4. GoodAt(e, a)
  BY <1>1, <1>2, RefreshedIsGood DEF GoodAt
<1> HIDE DEF e
<1>5. Written(d, e, a)
  BY <1>1, <1>3, WrittenTwice
<1> QED BY <1>1, <1>3, <1>4, <1>5 DEF e, f

\* startQuarantineTx leaves no notice, no entry and nobody released.
LEMMA QuarantinedIs ==
  ASSUME NEW d \in LooseDb, NEW why \in {"restore", "rollback"}
  PROVE  LET e == Quarantined(d, why)
         IN  /\ e \in LooseDb /\ e.n = d.n /\ e.event = d.event /\ Good(e)
             /\ e.quar = [why |-> why, serving |-> None]
             /\ \A a \in AIDs : InQuarantine(e, a) /\ e.notice[a] = None
<1> DEFINE e == Quarantined(d, why)
           q == [why |-> why, serving |-> None]
<1>1. q \in Quarantine /\ q # None /\ q.serving = None
  BY NoneAssumption DEF Quarantine
<1> HIDE DEF q
<1>2. e = [d EXCEPT !.released = {}, !.notice = [a \in AIDs |-> None], !.dir = [a \in AIDs |-> None],
                    !.quar = q]
  BY DEF Quarantined, q
<1> HIDE DEF e
<1>3. e \in LooseDb
  BY <1>1, <1>2 DEF LooseDb
<1>4. /\ e.n = d.n /\ e.event = d.event /\ e.quar = q /\ e.released = {}
      /\ \A a \in AIDs : e.notice[a] = None /\ e.dir[a] = None
  BY <1>2 DEF LooseDb
<1>5. Good(e)
  BY <1>1, <1>4 DEF Good, GoodAt
<1>6. \A a \in AIDs : InQuarantine(e, a)
  BY <1>1, <1>4 DEF InQuarantine
<1> QED BY <1>3, <1>4, <1>5, <1>6 DEF e, q

\* The database with another count or event.
LEMMA CountIsApart ==
  ASSUME NEW d \in LooseDb, NEW e \in LooseDb, e.reg = d.reg, e.keys = d.keys, e.notice = d.notice,
         e.dir = d.dir, e.released = d.released, e.quar = d.quar
  PROVE  /\ Good(d) => Good(e)
         /\ \A a \in AIDs, w \in BOOLEAN : HeldAt(d, a, w) => HeldAt(e, a, w)
<1>1. \A a \in AIDs : SameAt(d, e, a)
  BY DEF SameAt
<1>2. Good(d) => Good(e)
  BY <1>1, SameIsGood DEF Good
<1> QED BY <1>2 DEF HeldAt, InQuarantine

\* ForgetNoticesOfAnotherKey leaves a sound table and no notice of another key.
LEMMA ForgottenIs ==
  ASSUME NEW d \in LooseDb, Good(d)
  PROVE  LET e == Forgotten(d)
         IN  /\ e \in LooseDb /\ e.n = d.n /\ e.reg = d.reg /\ e.released = d.released /\ e.quar = d.quar
             /\ \A a \in AIDs : /\ e.notice[a] \in {None, d.notice[a]}
                                /\ e.notice[a] # None => e.notice[a].by = key
             /\ Good(e)
<1> DEFINE stale(a) == d.notice[a] # None /\ d.notice[a].by # key
           m == [a \in AIDs |-> IF stale(a) THEN None ELSE d.notice[a]]
           n == [d EXCEPT !.notice = m]
           r == [a \in AIDs |-> IF stale(a) /\ d.reg[a] # None THEN EntryOf(n, a) ELSE d.dir[a]]
           e == [n EXCEPT !.dir = r]
<1>0. Forgotten(d) = e
  BY DEF Forgotten
<1>1. /\ m \in [AIDs -> Notice \cup {None}]
      /\ \A a \in AIDs : /\ m[a] \in {None, d.notice[a]} /\ (m[a] # None => m[a].by = key)
                         /\ ~stale(a) => m[a] = d.notice[a]
  BY DEF LooseDb
<1> HIDE DEF m
<1>2. /\ n \in LooseDb /\ n.n = d.n /\ n.reg = d.reg /\ n.keys = d.keys /\ n.released = d.released
      /\ n.quar = d.quar /\ n.dir = d.dir /\ n.notice = m
  BY <1>1 DEF LooseDb
<1> HIDE DEF n
<1>3. \A a \in AIDs : d.reg[a] # None => EntryOf(n, a) \in Entry \cup {None}
  BY <1>2, EntryIsOne
<1>4. r \in [AIDs -> Entry \cup {None}]
  BY <1>3 DEF LooseDb
<1>5. \A a \in AIDs : r[a] = IF stale(a) /\ d.reg[a] # None THEN EntryOf(n, a) ELSE d.dir[a]
  OBVIOUS
<1> HIDE DEF r
<1>6. /\ e \in LooseDb /\ e.n = d.n /\ e.reg = d.reg /\ e.keys = d.keys /\ e.released = d.released
      /\ e.quar = d.quar /\ e.notice = m /\ e.dir = r
  BY <1>2, <1>4 DEF LooseDb
<1> HIDE DEF e
<1>7. ASSUME NEW a \in AIDs PROVE GoodAt(e, a)
  <2>1. GoodAt(d, a)
    BY DEF Good
  <2>2. EntryOf(e, a) = EntryOf(n, a)
    BY <1>2, <1>6 DEF EntryOf, TipNotice
  <2>3. CASE stale(a)
    <3>1. d.reg[a] # None
      BY <2>1, <2>3 DEF GoodAt
    <3>2. e.dir[a] = EntryOf(e, a)
      BY <1>5, <1>6, <2>2, <2>3, <3>1
    <3>3. e.notice[a] # None => e.notice[a].tip = e.reg[a]
      BY <1>1, <1>6, <2>1 DEF GoodAt
    <3> QED BY <1>6, <3>1, <3>2, <3>3 DEF GoodAt
  <2>4. CASE ~stale(a)
    <3>1. SameAt(d, e, a)
      BY <1>1, <1>5, <1>6, <2>4 DEF SameAt
    <3> QED BY <1>6, <2>1, <3>1, SameIsGood
  <2> QED BY <2>3, <2>4
<1>8. Good(e)
  BY <1>7 DEF Good
<1> QED BY <1>0, <1>1, <1>6, <1>8

\* BeginServing starts the wait, and every entry is refreshed.
LEMMA ServingIs ==
  ASSUME NEW d \in LooseDb, Good(d), d.quar # None, NEW t \in Times
  PROVE  LET f == [d EXCEPT !.quar.serving = t]
             e == [f EXCEPT !.dir = [a \in AIDs |-> Refreshed(f, a).dir[a]]]
         IN  /\ e \in LooseDb /\ e.n = d.n /\ e.reg = d.reg /\ e.released = d.released
             /\ e.notice = d.notice /\ e.quar # None /\ e.quar.serving = t /\ Good(e)
<1> DEFINE q == [d.quar EXCEPT !.serving = t]
           f == [d EXCEPT !.quar.serving = t]
           r == [a \in AIDs |-> Refreshed(f, a).dir[a]]
           e == [f EXCEPT !.dir = r]
<1>1. q \in Quarantine /\ q # None /\ q.serving = t
  BY NoneAssumption DEF Quarantine, LooseDb
<1> HIDE DEF q
<1>2. f = [d EXCEPT !.quar = q]
  BY DEF q
<1> HIDE DEF f
<1>3. /\ f \in LooseDb /\ f.n = d.n /\ f.reg = d.reg /\ f.keys = d.keys /\ f.released = d.released
      /\ f.notice = d.notice /\ f.dir = d.dir /\ f.quar = q
  BY <1>1, <1>2 DEF LooseDb
<1>4. ASSUME NEW a \in AIDs
      PROVE  /\ Refreshed(f, a).dir[a] \in Entry \cup {None}
             /\ Refreshed(f, a).dir[a] = IF f.reg[a] = None THEN f.dir[a] ELSE EntryOf(f, a)
  <2> DEFINE x == Refreshed(f, a)
  <2>1. Written(f, x, a) /\ x.dir[a] = IF f.reg[a] = None THEN f.dir[a] ELSE EntryOf(f, a)
    BY <1>3, RefreshedIs
  <2> HIDE DEF x
  <2>2. x.dir[a] \in Entry \cup {None}
    BY <2>1 DEF Written, LooseDb
  <2> QED BY <2>1, <2>2 DEF x
<1>5. /\ r \in [AIDs -> Entry \cup {None}]
      /\ \A a \in AIDs : r[a] = IF f.reg[a] = None THEN f.dir[a] ELSE EntryOf(f, a)
  BY <1>4
<1> HIDE DEF r
<1>6. /\ e \in LooseDb /\ e.n = d.n /\ e.reg = d.reg /\ e.keys = d.keys /\ e.released = d.released
      /\ e.notice = d.notice /\ e.dir = r /\ e.quar = q
  BY <1>3, <1>5 DEF LooseDb
<1> HIDE DEF e
<1>7. ASSUME NEW a \in AIDs PROVE GoodAt(e, a)
  <2>1. GoodAt(d, a)
    BY DEF Good
  <2>2. EntryOf(e, a) = EntryOf(f, a)
    BY <1>3, <1>6 DEF EntryOf, TipNotice
  <2> QED BY <1>3, <1>5, <1>6, <2>1, <2>2 DEF GoodAt
<1>8. Good(e)
  BY <1>7 DEF Good
<1> QED BY <1>1, <1>6, <1>8 DEF e, r, f

-----------------------------------------------------------------------------
(* The actions on the row of one agent.                                     *)

Asked == [of: {"register", "other"}, tip: KELs, pc: {"signed", "judged", "read"}]

\* A transaction of process p on the row of a.
RowStep(p, a) ==
  /\ proc[p].pc \in {"opened", "up"}
  /\ Written(db, db', a) /\ GoodAt(db', a) /\ db'.n \in Counts
  /\ db'.notice[a] # None => db'.notice[a] = db.notice[a] \/ db'.notice[a].by = key
  /\ sync' = IF db'.n # db.n THEN [sync EXCEPT ![p].due = TRUE] ELSE sync
  /\ held' \subseteq held /\ (StayHeld /\ a \in held' => HeldAt(db', a, WaitedOut))
  /\ req' \in [AIDs -> {None} \cup Asked]
  /\ UNCHANGED <<file, copy, proc, mem, key, now, back, replaced>>

\* What the actions on a row start from.
LEMMA StartsFrom ==
  ASSUME HInv
  PROVE  /\ db \in LooseDb /\ db \in Database /\ db.n \in Counts /\ db.n \in Nat /\ Good(db)
         /\ req \in [AIDs -> {None} \cup Asked]
         /\ \A a \in AIDs : GoodAt(db, a)
         /\ Counts \subseteq Nat
<1>1. db \in Database
  BY DEF HInv, HistoriesTypeOK
<1>2. db \in LooseDb /\ db.n \in Counts /\ Counts \subseteq Nat
  BY <1>1, DatabaseIsLoose, HistoriesAssumption DEF Database, Counts
<1>3. Good(db)
  BY DEF HInv, TableInv
<1>4. req \in [AIDs -> {None} \cup Asked]
  BY DEF HInv, HistoriesTypeOK, Asked
<1> QED BY <1>1, <1>2, <1>3, <1>4 DEF Good

\* What a sound transaction on the row of an agent does not release leaves it held.
LEMMA HeldStays ==
  ASSUME NEW d \in LooseDb, NEW e, NEW a \in AIDs, NEW w, Sound(d, e, a),
         a \in e.released => a \in d.released, e.reg[a] = d.reg[a] \/ ~w \/ e.reg[a] = None,
         HeldAt(d, a, w)
  PROVE  HeldAt(e, a, w)
BY DEF HeldAt, InQuarantine, Sound, Written

\* The hub's wait is over only once the agents' is.
LEMMA WaitIsOut ==
  ASSUME HInv, StayHeld, WaitOver
  PROVE  WaitedOut
<1>1. Since(mem.since) /\ mem.since # None /\ now - mem.since >= Wait
  BY DEF StayHeld, WaitOver
<1>2. back # None /\ back <= mem.since
  BY <1>1 DEF Since
<1>3. mem.since \in Nat /\ back \in Nat /\ now \in Nat /\ Wait \in Nat
  BY <1>1, <1>2, HistoriesAssumption DEF HInv, HistoriesTypeOK, Times
<1> QED BY <1>1, <1>2, <1>3 DEF WaitedOut

\* hRegister.
LEMMA RegisterRow ==
  ASSUME HInv, NEW a \in AIDs, NEW h \in KELs, Register(a, h), db'.n <= MaxN
  PROVE  RowStep("hub", a)
<1>0. db \in LooseDb /\ Good(db) /\ db.n \in Nat
  BY StartsFrom
<1>1. db' = Registered(a, h)
  BY DEF Register, Committed
<1> DEFINE e == Registered(a, h)
<1>2. /\ Sound(db, e, a) /\ e.n <= db.n + 1
      /\ ~Longer(Known(a), h) => (a \in e.released <=> a \in db.released)
  BY <1>0, RegisteredIs
<1>3. /\ Sound(db, db', a)
      /\ ~Longer(Known(a), h) => (a \in db'.released <=> a \in db.released)
  BY <1>1, <1>2
<1>4. /\ sync' = IF db'.n # db.n THEN [sync EXCEPT !["hub"].due = TRUE] ELSE sync
      /\ held' = IF Longer(Known(a), h) \/ WaitedOut THEN held \ {a} ELSE held
      /\ proc["hub"].pc = "up"
      /\ UNCHANGED <<file, copy, proc, mem, key, now, back, replaced>>
  BY <1>1 DEF Register, Committed, Spoken, Up
<1>5. db'.n \in Counts
  BY <1>3, HistoriesAssumption DEF Sound, Written, LooseDb, Counts
<1>6. req' \in [AIDs -> {None} \cup Asked]
  BY StartsFrom DEF Register, Asked
<1>7. StayHeld /\ a \in held' => HeldAt(db', a, WaitedOut)
  <2>1. SUFFICES ASSUME StayHeld, a \in held' PROVE HeldAt(db', a, WaitedOut)
    OBVIOUS
  <2>2. ~Longer(Known(a), h) /\ ~WaitedOut /\ a \in held
    BY <1>4, <2>1
  <2>3. HeldAt(db, a, WaitedOut)
    BY <2>1, <2>2 DEF StayHeld
  <2> QED BY <1>0, <1>3, <2>2, <2>3, HeldStays
<1>8. held' \subseteq held
  BY <1>4
<1> QED BY <1>3, <1>4, <1>5, <1>6, <1>7, <1>8 DEF RowStep, Sound

\* hKELPush.
LEMMA PushRow ==
  ASSUME HInv, NEW a \in AIDs, NEW h \in KELs, Push(a, h), db'.n <= MaxN
  PROVE  RowStep("hub", a)
<1>0. db \in LooseDb /\ Good(db) /\ db.n \in Nat
  BY StartsFrom
<1>1. db' = IF db.reg[a] # None THEN Pushed(a, h) ELSE Tombstone(db, a, h)
  BY DEF Push, Committed
<1>2. /\ sync' = IF db'.n # db.n THEN [sync EXCEPT !["hub"].due = TRUE] ELSE sync
      /\ held' = IF db.reg[a] # None THEN held \ {a} ELSE held
      /\ proc["hub"].pc = "up"
      /\ UNCHANGED <<file, copy, proc, mem, key, now, back, replaced>>
      /\ req' \in [AIDs -> {None} \cup Asked]
  BY <1>1, StartsFrom DEF Push, Committed, Spoken, Up
<1>3. Sound(db, db', a) /\ (StayHeld /\ a \in held' => HeldAt(db', a, WaitedOut))
  <2>1. CASE db.reg[a] # None
    <3> DEFINE e == Pushed(a, h)
    <3>1. Sound(db, e, a)
      BY <1>0, PushedIs
    <3> QED BY <1>1, <1>2, <2>1, <3>1
  <2>2. CASE db.reg[a] = None
    <3> DEFINE e == Tombstone(db, a, h)
    <3>1. Sound(db, e, a) /\ SameAt(db, e, a)
      BY <1>0, DepartedIs
    <3>2. Sound(db, db', a) /\ SameAt(db, db', a)
      BY <1>1, <2>2, <3>1
    <3> QED BY <1>0, <1>2, <2>2, <3>2, HeldStays DEF SameAt, StayHeld
  <2> QED BY <2>1, <2>2
<1>5. db'.n \in Counts
  BY <1>3, HistoriesAssumption DEF Sound, Written, LooseDb, Counts
<1>8. held' \subseteq held
  BY <1>2
<1> QED BY <1>2, <1>3, <1>5, <1>8 DEF RowStep, Sound

\* An agent leaves the hub.
LEMMA LeaveRow ==
  ASSUME HInv, NEW a \in AIDs, LeaveHub(a), db'.n <= MaxN
  PROVE  RowStep("hub", a)
<1>0. db \in LooseDb /\ Good(db) /\ db.n \in Nat
  BY StartsFrom
<1>1. db' = Deregistered(db, a) /\ db.reg[a] # None
  BY DEF LeaveHub, Committed
<1>2. /\ sync' = IF db'.n # db.n THEN [sync EXCEPT !["hub"].due = TRUE] ELSE sync
      /\ held' = held
      /\ proc["hub"].pc = "up"
      /\ UNCHANGED <<file, copy, proc, mem, key, now, back, replaced>>
      /\ req' \in [AIDs -> {None} \cup Asked]
  BY <1>1, StartsFrom DEF LeaveHub, Committed, Up, ghosts
<1> DEFINE e == Deregistered(db, a)
<1>3. Sound(db, e, a) /\ e.reg[a] = None /\ a \notin e.released
  BY <1>0, <1>1, DeregisteredIsSound
<1>4. Sound(db, db', a) /\ db'.reg[a] = None /\ a \notin db'.released
  BY <1>1, <1>3
<1>5. db'.n \in Counts
  BY <1>4, HistoriesAssumption DEF Sound, Written, LooseDb, Counts
<1>6. StayHeld /\ a \in held' => HeldAt(db', a, WaitedOut)
  BY <1>0, <1>2, <1>4, HeldStays DEF StayHeld
<1> QED BY <1>2, <1>4, <1>5, <1>6 DEF RowStep, Sound

\* anet-hub revoke.
LEMMA RevokeRow ==
  ASSUME HInv, NEW a \in AIDs, Revoke(a), db.n < MaxN
  PROVE  RowStep("operator", a)
<1>0. db \in LooseDb /\ Good(db) /\ db.n \in Nat
  BY StartsFrom
<1> DEFINE d == Deregistered(db, a)
           e == [d EXCEPT !.event = TRUE]
<1>1. db' = e /\ db.reg[a] # None
  BY DEF Revoke, Committed
<1>2. /\ sync' = IF db'.n # db.n THEN [sync EXCEPT !["operator"].due = TRUE] ELSE sync
      /\ held' = held
      /\ proc["operator"].pc = "opened"
      /\ UNCHANGED <<file, copy, proc, mem, key, now, back, replaced>>
      /\ req' \in [AIDs -> {None} \cup Asked]
  BY <1>1, StartsFrom DEF Revoke, Committed, ghosts
<1>3. Sound(db, d, a) /\ d.reg[a] = None /\ a \notin d.released /\ d.n = db.n + 1
  BY <1>0, <1>1, DeregisteredIsSound
<1> HIDE DEF d
<1>4. /\ db' \in LooseDb /\ db'.reg = d.reg /\ db'.keys = d.keys /\ db'.notice = d.notice
      /\ db'.dir = d.dir /\ db'.released = d.released /\ db'.quar = d.quar /\ db'.n = d.n
  BY <1>1, <1>3 DEF Sound, Written, LooseDb
<1>5. /\ \A b \in AIDs : SameAt(d, db', b)
      /\ Written(d, db', a)
  BY <1>3, <1>4, <1>0 DEF SameAt, Written
<1>6. GoodAt(db', a)
  BY <1>3, <1>4, <1>5, SameIsGood DEF Sound
<1>7. Written(db, db', a)
  BY <1>0, <1>3, <1>5, WrittenTwice DEF Sound
<1>8. Sound(db, db', a)
  BY <1>3, <1>4, <1>6, <1>7 DEF Sound
<1>9. db'.n \in Counts
  BY <1>0, <1>3, <1>4, HistoriesAssumption DEF Counts
<1>10. StayHeld /\ a \in held' => HeldAt(db', a, WaitedOut)
  BY <1>0, <1>2, <1>3, <1>4, <1>8, HeldStays DEF StayHeld
<1> QED BY <1>2, <1>8, <1>9, <1>10 DEF RowStep, Sound

\* PublishKeys.
LEMMA PublishRow ==
  ASSUME HInv, NEW a \in AIDs, PublishKeySet(a)
  PROVE  RowStep("hub", a)
<1>0. db \in LooseDb /\ Good(db) /\ db.n \in Counts
  BY StartsFrom
<1> DEFINE h == req[a].tip
           e == Refreshed([db EXCEPT !.keys = Put(db.keys, a, h)], a)
<1>1. db' = e
  BY DEF PublishKeySet, Committed
<1>2. h \in KELs
  BY StartsFrom DEF PublishKeySet, Asked
<1> HIDE DEF h
<1>3. Sound(db, e, a) /\ e.released = db.released /\ e.reg = db.reg /\ e.n = db.n
  BY <1>0, <1>2, KeysPublishedIs
<1>4. Sound(db, db', a) /\ db'.released = db.released /\ db'.reg = db.reg /\ db'.n = db.n
  BY <1>1, <1>3
<1> HIDE DEF e
<1>5. /\ sync' = IF db'.n # db.n THEN [sync EXCEPT !["hub"].due = TRUE] ELSE sync
      /\ held' = held
      /\ proc["hub"].pc = "up"
      /\ UNCHANGED <<file, copy, proc, mem, key, now, back, replaced>>
      /\ req' \in [AIDs -> {None} \cup Asked]
  BY <1>1, StartsFrom DEF PublishKeySet, Committed, Up, ghosts, e, h
<1>6. StayHeld /\ a \in held' => HeldAt(db', a, WaitedOut)
  BY <1>0, <1>4, <1>5, HeldStays DEF StayHeld
<1> QED BY <1>0, <1>4, <1>5, <1>6 DEF RowStep, Sound

\* releaseOnCurrentKey.
LEMMA CurrentKeyRow ==
  ASSUME HInv, NEW a \in AIDs, OnCurrentKey(a)
  PROVE  RowStep("hub", a)
<1>0. db \in LooseDb /\ Good(db) /\ db.n \in Counts /\ db.n \in Nat /\ GoodAt(db, a)
  BY StartsFrom
<1> DEFINE over == WaitOver /\ db.reg[a] # None /\ InQuarantine(db, a)
           e == Refreshed(Release(db, a), a)
<1>1. /\ held' = IF WaitedOut THEN held \ {a} ELSE held
      /\ proc["hub"].pc = "up"
      /\ UNCHANGED <<file, copy, proc, mem, key, now, back, replaced>>
      /\ req' \in [AIDs -> {None} \cup Asked]
  <2>1. req' = [req EXCEPT ![a].pc = "judged"] /\ req[a] # None
    BY DEF OnCurrentKey
  <2>2. req' \in [AIDs -> {None} \cup Asked]
    BY <2>1, StartsFrom DEF Asked
  <2> QED BY <2>2 DEF OnCurrentKey, Spoken, Up
<1>2. CASE over
  <2>1. db' = e /\ sync' = IF e.n # db.n THEN [sync EXCEPT !["hub"].due = TRUE] ELSE sync
    BY <1>2 DEF OnCurrentKey, Committed
  <2>2. Sound(db, e, a) /\ e.n = db.n
    BY <1>0, ReleasedIs
  <2> HIDE DEF e
  <2>3. StayHeld => a \notin held'
    BY <1>1, <1>2, WaitIsOut
  <2> QED BY <1>0, <1>1, <2>1, <2>2, <2>3 DEF RowStep, Sound
<1>3. CASE ~over
  <2>1. db' = db /\ sync' = sync
    BY <1>3 DEF OnCurrentKey
  <2>2. Written(db, db', a)
    BY <1>0, <2>1 DEF Written, SameAt
  <2>3. StayHeld /\ a \in held' => HeldAt(db', a, WaitedOut)
    BY <1>1, <2>1 DEF StayHeld
  <2>4. held' \subseteq held
    BY <1>1
  <2> QED BY <1>0, <1>1, <2>1, <2>2, <2>3, <2>4 DEF RowStep
<1> QED BY <1>2, <1>3

\* noticeFor states nothing about an agent held.
LEMMA NoticeRow ==
  ASSUME HInv, NEW a \in AIDs, NoticeFor(a)
  PROVE  RowStep("hub", a)
<1>0. db \in LooseDb /\ Good(db) /\ db.n \in Counts
  BY StartsFrom
<1> DEFINE x == [tip |-> db.reg[a], at |-> now, by |-> key]
           e == Refreshed([db EXCEPT !.notice = Put(db.notice, a, x)], a)
<1>1. db' = e /\ db.reg[a] # None /\ ~InQuarantine(db, a)
  BY DEF NoticeFor, Committed, MayState
<1>2. x \in Notice /\ x.tip = db.reg[a] /\ x.by = key
  <2>1. db.reg[a] \in KELs /\ now \in Times /\ key \in 0..MaxKey
    BY <1>0, <1>1 DEF LooseDb, HInv, HistoriesTypeOK
  <2> QED BY <2>1 DEF Notice
<1> HIDE DEF x
<1>3. Written(db, e, a) /\ GoodAt(e, a) /\ e.notice[a] = x /\ e.n = db.n
  BY <1>0, <1>1, <1>2, StatedIs
<1>5. /\ sync' = IF db'.n # db.n THEN [sync EXCEPT !["hub"].due = TRUE] ELSE sync
      /\ held' = held
      /\ proc["hub"].pc = "up"
      /\ UNCHANGED <<file, copy, proc, mem, key, now, back, replaced>>
      /\ req' \in [AIDs -> {None} \cup Asked]
  BY <1>1, StartsFrom DEF NoticeFor, Committed, Up, ghosts, x
<1>4. Written(db, db', a) /\ GoodAt(db', a) /\ db'.notice[a] = x /\ db'.n = db.n
  BY <1>1, <1>3
<1> HIDE DEF e
<1>6. StayHeld => a \notin held'
  BY <1>1, <1>5 DEF StayHeld, HeldAt
<1> QED BY <1>0, <1>2, <1>4, <1>5, <1>6 DEF RowStep

-----------------------------------------------------------------------------
(* The steps, by what they touch.                                           *)

Rows == \E p \in Processes, a \in AIDs : RowStep(p, a)
Asks == \E a \in AIDs : SignedRequest(a) \/ ReadKEL(a) \/ Answered(a)
Asides == TakeCopy \/ Damage \/ RotateHub \/ Tick

\* Every step of the specification is one of these.
LEMMA StepsAre ==
  ASSUME HInv, HistoriesNext
  PROVE  \/ Rows \/ Asks \/ Asides
         \/ BeginServing \/ EndQuarantine \/ Drain \/ Serve \/ RollBack \/ Restore
         \/ \E p \in Processes : ProcessStep(p)
<1>0. "hub" \in Processes /\ "operator" \in Processes
  BY DEF Processes
<1>1. CASE HubStep
  <2>1. CASE \E a \in AIDs : \/ SignedRequest(a) \/ OnCurrentKey(a) \/ ReadKEL(a) \/ PublishKeySet(a)
                             \/ Answered(a) \/ NoticeFor(a)
    <3>1. PICK a \in AIDs : \/ SignedRequest(a) \/ OnCurrentKey(a) \/ ReadKEL(a) \/ PublishKeySet(a)
                            \/ Answered(a) \/ NoticeFor(a)
      BY <2>1
    <3>2. CASE SignedRequest(a) \/ ReadKEL(a) \/ Answered(a)
      BY <3>2 DEF Asks
    <3>3. CASE OnCurrentKey(a) \/ PublishKeySet(a) \/ NoticeFor(a)
      BY <1>0, <3>3, CurrentKeyRow, PublishRow, NoticeRow DEF Rows
    <3> QED BY <3>1, <3>2, <3>3
  <2>2. CASE BeginServing \/ EndQuarantine \/ Drain \/ Serve
    BY <2>2
  <2>3. ASSUME \E a \in AIDs : LeaveHub(a) \/ \E h \in KELs : Register(a, h) \/ Push(a, h), db'.n <= MaxN
        PROVE  Rows
    BY <1>0, <2>3, LeaveRow, RegisterRow, PushRow DEF Rows
  <2> QED BY <1>1, <2>1, <2>2, <2>3 DEF HubStep
<1>2. CASE OperatorStep
  BY <1>0, <1>2, RevokeRow DEF OperatorStep, Rows, Asides
<1>3. CASE Tick
  BY <1>3 DEF Asides
<1>4. CASE \E p \in Processes : ProcessStep(p)
  BY <1>4
<1> QED BY <1>1, <1>2, <1>3, <1>4 DEF HistoriesNext

Pcs == {"down", "read", "begin", "filed", "opened", "up"}
Process == [pc: Pcs, seen: File, n: Counts, written: Counts]
Sync == [due: BOOLEAN, pc: {"idle", "counted", "read"}, n: Counts]
Memory == [active: BOOLEAN, since: Times \cup {None}, served: BOOLEAN]

\* The types, under their names.
LEMMA TypesAre ==
  HistoriesTypeOK <=>
    /\ db \in Database /\ copy \in Database \cup {None} /\ file \in File
    /\ proc \in [Processes -> Process] /\ sync \in [Processes -> Sync] /\ mem \in Memory
    /\ key \in 0..MaxKey /\ now \in Times /\ req \in [AIDs -> {None} \cup Asked]
    /\ held \subseteq AIDs /\ back \in Times \cup {None} /\ replaced \in BOOLEAN
BY DEF HistoriesTypeOK, Process, Sync, Memory, Asked, Pcs

\* A write of a row leaves the database, and where the processes are, of their types.
LEMMA RowTypes ==
  ASSUME HInv, Rows
  PROVE  HistoriesTypeOK'
<1>1. PICK p \in Processes, a \in AIDs : RowStep(p, a)
  BY DEF Rows
<1>2. db' \in Database
  BY <1>1, DatabaseIsLoose DEF RowStep, Written
<1>3. sync' \in [Processes -> Sync]
  BY <1>1, TypesAre DEF RowStep, HInv, Sync
<1>4. held' \subseteq AIDs /\ req' \in [AIDs -> {None} \cup Asked]
  BY <1>1 DEF RowStep, HInv, HistoriesTypeOK
<1>5. UNCHANGED <<file, copy, proc, mem, key, now, back, replaced>>
  BY <1>1 DEF RowStep
<1> QED BY <1>2, <1>3, <1>4, <1>5 DEF HInv, HistoriesTypeOK, Sync, Asked

\* A process's count and the file's are counts.
LEMMA SeenIsCount ==
  ASSUME HistoriesTypeOK, NEW p \in Processes
  PROVE  /\ SeenCount(p) \in Counts /\ (proc[p].seen \in Nat => proc[p].seen \in Counts)
         /\ FileCount \in Counts /\ (file \in Nat => file \in Counts)
         /\ Counts \subseteq Nat
<1>1. Counts \subseteq Nat /\ 0 \in Counts
  BY HistoriesAssumption DEF Counts
<1>2. proc[p].seen \in File /\ file \in File
  BY TypesAre DEF Process
<1> QED BY <1>1, <1>2, HistoriesAssumption DEF File, SeenCount, FileCount

\* The greater of two counts is a count.
LEMMA MaxCountIs ==
  ASSUME NEW x \in Nat, NEW y \in Nat
  PROVE  /\ MaxCount(x, y) \in Nat /\ MaxCount(x, y) >= x /\ MaxCount(x, y) >= y
         /\ MaxCount(x, y) \in {x, y}
BY DEF MaxCount

\* Another count leaves the database of its type and its tables as they are.
LEMMA CountSet ==
  ASSUME NEW d \in LooseDb, NEW k \in Nat
  PROVE  LET e == [d EXCEPT !.n = k]
         IN  /\ e \in LooseDb /\ e.n = k /\ e.reg = d.reg /\ e.keys = d.keys /\ e.notice = d.notice
             /\ e.dir = d.dir /\ e.released = d.released /\ e.quar = d.quar
BY DEF LooseDb

\* The database after a quarantine was begun at a count.
LEMMA BegunIs ==
  ASSUME NEW d \in LooseDb, NEW why \in {"restore", "rollback"}, NEW k \in Counts
  PROVE  LET e == [Quarantined(d, why) EXCEPT !.n = k]
         IN  /\ e \in Database /\ e.n = k /\ Good(e) /\ e.quar = [why |-> why, serving |-> None]
             /\ \A a \in AIDs : InQuarantine(e, a) /\ e.notice[a] = None
<1> DEFINE q == Quarantined(d, why)
           e == [q EXCEPT !.n = k]
<1>1. /\ q \in LooseDb /\ Good(q) /\ q.quar = [why |-> why, serving |-> None]
      /\ \A a \in AIDs : InQuarantine(q, a) /\ q.notice[a] = None
  BY QuarantinedIs
<1> HIDE DEF q
<1>2. k \in Nat
  BY HistoriesAssumption DEF Counts
<1>3. /\ e \in LooseDb /\ e.n = k /\ e.reg = q.reg /\ e.keys = q.keys /\ e.notice = q.notice
      /\ e.dir = q.dir /\ e.released = q.released /\ e.quar = q.quar
  BY <1>1, <1>2, CountSet
<1> HIDE DEF e
<1>4. e \in Database
  BY <1>3, DatabaseIsLoose
<1>5. Good(e)
  BY <1>1, <1>3, CountIsApart
<1>6. \A a \in AIDs : InQuarantine(e, a) /\ e.notice[a] = None
  BY <1>1, <1>3 DEF InQuarantine
<1> QED BY <1>1, <1>3, <1>4, <1>5, <1>6 DEF e, q

\* The database anet-hub restore puts in place.
LEMMA RestoredIs ==
  ASSUME NEW d \in LooseDb, NEW k \in Counts
  PROVE  LET e == [Quarantined(d, "restore") EXCEPT !.n = k, !.event = FALSE]
         IN  /\ e \in Database /\ e.n = k /\ Good(e) /\ e.quar = [why |-> "restore", serving |-> None]
             /\ \A a \in AIDs : InQuarantine(e, a) /\ e.notice[a] = None
<1> DEFINE q == Quarantined(d, "restore")
           e == [q EXCEPT !.n = k, !.event = FALSE]
<1>1. /\ q \in LooseDb /\ Good(q) /\ q.quar = [why |-> "restore", serving |-> None]
      /\ \A a \in AIDs : InQuarantine(q, a) /\ q.notice[a] = None
  BY QuarantinedIs
<1> HIDE DEF q
<1>2. k \in Nat
  BY HistoriesAssumption DEF Counts
<1>3. /\ e \in LooseDb /\ e.n = k /\ e.reg = q.reg /\ e.keys = q.keys /\ e.notice = q.notice
      /\ e.dir = q.dir /\ e.released = q.released /\ e.quar = q.quar
  BY <1>1, <1>2 DEF LooseDb
<1> HIDE DEF e
<1>4. e \in Database
  BY <1>3, DatabaseIsLoose
<1>5. Good(e)
  BY <1>1, <1>3, CountIsApart
<1>6. \A a \in AIDs : InQuarantine(e, a) /\ e.notice[a] = None
  BY <1>1, <1>3 DEF InQuarantine
<1> QED BY <1>1, <1>3, <1>4, <1>5, <1>6 DEF e, q

\* What Begin makes of the database.
LEMMA BeginIs ==
  ASSUME HInv, NEW p \in Processes, Begin(p), StillOlder(p)
  PROVE  /\ db' \in Database /\ Good(db') /\ db'.quar = Begun
         /\ db'.n >= db.n /\ db'.n >= SeenCount(p) /\ db'.n \in {db.n, SeenCount(p)}
         /\ \A a \in AIDs : InQuarantine(db', a) /\ db'.notice[a] = None
<1> DEFINE k == MaxCount(db.n, SeenCount(p))
           e == [Quarantined(db, "rollback") EXCEPT !.n = k]
<1>1. db \in LooseDb /\ db.n \in Counts /\ SeenCount(p) \in Counts /\ Counts \subseteq Nat
  BY StartsFrom, SeenIsCount DEF HInv
<1>2. /\ k \in Counts /\ k >= db.n /\ k >= SeenCount(p) /\ k \in {db.n, SeenCount(p)}
  BY <1>1, MaxCountIs
<1>3. db' = e
  BY DEF Begin
<1> HIDE DEF k
<1>4. /\ e \in Database /\ e.n = k /\ Good(e) /\ e.quar = Begun
      /\ \A a \in AIDs : InQuarantine(e, a) /\ e.notice[a] = None
  BY <1>1, <1>2, BegunIs DEF Begun
<1> HIDE DEF e
<1> QED BY <1>2, <1>3, <1>4

\* What Restore makes of the database.
LEMMA RestoreIs ==
  ASSUME HInv, Restore
  PROVE  /\ db' \in Database /\ Good(db') /\ db'.quar = [why |-> "restore", serving |-> None]
         /\ db'.n \in Nat /\ file' \in {db'.n, file} /\ file' \in File
         /\ \A a \in AIDs : InQuarantine(db', a) /\ db'.notice[a] = None
         /\ db'.n >= FileCount
<1> DEFINE k == MaxCount(copy.n, FileCount)
           e == [Quarantined(copy, "restore") EXCEPT !.n = k, !.event = FALSE]
<1>1. copy \in LooseDb /\ copy.n \in Counts /\ FileCount \in Counts /\ Counts \subseteq Nat
  <2>1. copy \in Database /\ "hub" \in Processes
    BY DEF HInv, HistoriesTypeOK, Restore, Processes
  <2> QED BY <2>1, DatabaseIsLoose, SeenIsCount DEF HInv, Database
<1>2. k \in Counts /\ k >= FileCount
  BY <1>1, MaxCountIs
<1>3. db' = e /\ file' \in {k, file}
  BY DEF Restore
<1> HIDE DEF k
<1>4. /\ e \in Database /\ e.n = k /\ Good(e) /\ e.quar = [why |-> "restore", serving |-> None]
      /\ \A a \in AIDs : InQuarantine(e, a) /\ e.notice[a] = None
  BY <1>1, <1>2, RestoredIs
<1> HIDE DEF e
<1>5. file' \in File
  BY <1>2, <1>3 DEF HInv, HistoriesTypeOK, File
<1> QED BY <1>1, <1>2, <1>3, <1>4, <1>5

\* What the hub's rounds make of the database.
LEMMA RoundsAre ==
  ASSUME HInv, BeginServing \/ EndQuarantine \/ Drain \/ Serve
  PROVE  /\ db' \in Database /\ Good(db') /\ db'.n = db.n /\ db'.reg = db.reg
         /\ \A a \in AIDs : db'.notice[a] \in {None, db.notice[a]}
         /\ \/ db'.quar = db.quar /\ db'.released = db.released
            \/ BeginServing /\ db'.released = db.released /\ db'.quar # None /\ db'.quar.serving = now
            \/ EndQuarantine /\ db'.quar = None
         /\ Serve => \A a \in AIDs : db'.notice[a] # None => db'.notice[a].by = key
<1>0. /\ db \in LooseDb /\ db \in Database /\ Good(db) /\ db.n \in Counts
      /\ now \in Times /\ mem \in Memory
  BY StartsFrom, TypesAre DEF HInv
<1>1. CASE BeginServing
  <2>1. CASE db.quar # None /\ db.quar.serving = None
    <3> DEFINE f == [db EXCEPT !.quar.serving = now]
               e == [f EXCEPT !.dir = [a \in AIDs |-> Refreshed(f, a).dir[a]]]
    <3>1. db' = e
      BY <1>1, <2>1 DEF BeginServing
    <3>2. /\ e \in LooseDb /\ e.n = db.n /\ e.reg = db.reg /\ e.released = db.released
          /\ e.notice = db.notice /\ e.quar # None /\ e.quar.serving = now /\ Good(e)
      BY <1>0, <2>1, ServingIs
    <3> HIDE DEF e
    <3>3. e \in Database
      BY <1>0, <3>2, DatabaseIsLoose
    <3>4. ~Serve
      BY <1>1 DEF BeginServing, Serve, Up
    <3> QED BY <1>1, <3>1, <3>2, <3>3, <3>4
  <2>2. CASE ~(db.quar # None /\ db.quar.serving = None)
    <3>1. db' = db /\ ~Serve
      BY <1>1, <2>2 DEF BeginServing, Serve, Up
    <3> QED BY <1>0, <3>1
  <2> QED BY <2>1, <2>2
<1>2. CASE EndQuarantine
  <2> DEFINE e == [db EXCEPT !.quar = None, !.released = {}]
  <2>1. db' = e /\ StillHeld(db) = {} /\ ~Serve
    BY <1>2 DEF EndQuarantine, Serve, Up
  <2>2. /\ e \in LooseDb /\ e.n = db.n /\ e.reg = db.reg /\ e.keys = db.keys /\ e.notice = db.notice
        /\ e.dir = db.dir /\ e.quar = None
    BY <1>0 DEF LooseDb
  <2> HIDE DEF e
  <2>3. ASSUME NEW a \in AIDs PROVE GoodAt(e, a)
    <3>1. GoodAt(db, a) /\ ~(db.reg[a] # None /\ InQuarantine(db, a))
      BY <1>0, <2>1 DEF Good, StillHeld
    <3>2. EntryOf(e, a) = EntryOf(db, a)
      BY <2>2 DEF EntryOf, TipNotice
    <3> QED BY <2>2, <3>1, <3>2 DEF GoodAt, InQuarantine
  <2>4. Good(e) /\ e \in Database
    BY <1>0, <2>2, <2>3, DatabaseIsLoose DEF Good
  <2> QED BY <1>2, <2>1, <2>2, <2>4
<1>3. CASE Drain
  <2> DEFINE e == [db EXCEPT !.event = FALSE]
  <2>1. db' = e /\ ~Serve
    BY <1>3 DEF Drain, Serve, Up
  <2>2. /\ e \in LooseDb /\ e.n = db.n /\ e.reg = db.reg /\ e.keys = db.keys /\ e.notice = db.notice
        /\ e.dir = db.dir /\ e.released = db.released /\ e.quar = db.quar
    BY <1>0 DEF LooseDb
  <2> HIDE DEF e
  <2>3. Good(e) /\ e \in Database
    BY <1>0, <2>2, DatabaseIsLoose, CountIsApart
  <2> QED BY <2>1, <2>2, <2>3
<1>4. CASE Serve
  <2> DEFINE e == Forgotten(db)
  <2>1. db' = e
    BY <1>4 DEF Serve
  <2>2. /\ e \in LooseDb /\ e.n = db.n /\ e.reg = db.reg /\ e.released = db.released /\ e.quar = db.quar
        /\ \A a \in AIDs : /\ e.notice[a] \in {None, db.notice[a]}
                           /\ e.notice[a] # None => e.notice[a].by = key
        /\ Good(e)
    BY <1>0, ForgottenIs
  <2> HIDE DEF e
  <2>3. e \in Database
    BY <1>0, <2>2, DatabaseIsLoose
  <2> QED BY <2>1, <2>2, <2>3
<1> QED BY <1>1, <1>2, <1>3, <1>4

-----------------------------------------------------------------------------
(* The types and the processes.                                             *)

\* The types are kept.
LEMMA TypesKept ==
  ASSUME HInv, HistoriesNext
  PROVE  HistoriesTypeOK'
<1>0. /\ db \in Database /\ copy \in Database \cup {None} /\ file \in File
      /\ proc \in [Processes -> Process] /\ sync \in [Processes -> Sync] /\ mem \in Memory
      /\ key \in 0..MaxKey /\ now \in Times /\ req \in [AIDs -> {None} \cup Asked]
      /\ held \subseteq AIDs /\ back \in Times \cup {None} /\ replaced \in BOOLEAN
  BY TypesAre DEF HInv
<1>z. /\ db.n \in Counts /\ Counts \subseteq Nat /\ 0 \in Counts /\ Counts \subseteq File
      /\ "hub" \in Processes
  BY StartsFrom, HistoriesAssumption DEF Counts, File, Processes
<1>g. SUFFICES /\ db' \in Database /\ copy' \in Database \cup {None} /\ file' \in File
               /\ proc' \in [Processes -> Process] /\ sync' \in [Processes -> Sync] /\ mem' \in Memory
               /\ key' \in 0..MaxKey /\ now' \in Times /\ req' \in [AIDs -> {None} \cup Asked]
               /\ held' \subseteq AIDs /\ back' \in Times \cup {None} /\ replaced' \in BOOLEAN
  BY DEF HistoriesTypeOK, Process, Sync, Memory, Asked, Pcs
<1>1. CASE Rows
  BY <1>1, RowTypes DEF HistoriesTypeOK, Process, Sync, Memory, Asked, Pcs
<1>2. CASE Asks
  <2>1. PICK a \in AIDs : SignedRequest(a) \/ ReadKEL(a) \/ Answered(a)
    BY <1>2 DEF Asks
  <2>2. req' \in [AIDs -> {None} \cup Asked]
    <3>1. CASE SignedRequest(a)
      <4>1. db.reg[a] \in KELs
        BY <1>0, <3>1 DEF SignedRequest, Database
      <4> QED BY <1>0, <3>1, <4>1 DEF SignedRequest, Asked
    <3>2. CASE ReadKEL(a)
      BY <1>0, <3>2 DEF ReadKEL, Asked
    <3>3. CASE Answered(a)
      BY <1>0, <3>3 DEF Answered
    <3> QED BY <2>1, <3>1, <3>2, <3>3
  <2>3. UNCHANGED <<db, file, copy, proc, sync, mem, key, now, held, back, replaced>>
    BY <2>1 DEF SignedRequest, ReadKEL, Answered, ghosts
  <2> QED BY <1>0, <2>2, <2>3
<1>3. CASE Asides
  <2>1. CASE TakeCopy
    BY <1>0, <2>1 DEF TakeCopy, ghosts
  <2>2. CASE Damage
    BY <1>0, <2>2 DEF Damage, ghosts, File
  <2>3. CASE RotateHub
    <3>1. key' \in 0..MaxKey
      BY <1>0, <2>3, HistoriesAssumption DEF RotateHub
    <3> QED BY <1>0, <2>3, <3>1 DEF RotateHub, ghosts
  <2>4. CASE Tick
    <3>1. now' \in Times
      BY <1>0, <2>4, HistoriesAssumption DEF Tick, Times
    <3> QED BY <1>0, <2>4, <3>1 DEF Tick, ghosts
  <2> QED BY <1>3, <2>1, <2>2, <2>3, <2>4 DEF Asides
<1>4. ASSUME BeginServing \/ EndQuarantine \/ Drain \/ Serve
      PROVE  /\ db' \in Database /\ mem' \in Memory /\ back' \in Times \cup {None}
             /\ proc' \in [Processes -> Process] /\ sync' \in [Processes -> Sync]
             /\ UNCHANGED <<file, copy, key, req, now, held, replaced>>
  <2>1. db' \in Database
    BY <1>4, RoundsAre
  <2>2. CASE BeginServing
    <3>1. \/ mem' = [active |-> TRUE, since |-> now, served |-> TRUE]
          \/ mem' = [mem EXCEPT !.served = TRUE]
      BY <2>2 DEF BeginServing
    <3>2. mem' \in Memory
      <4>1. CASE mem' = [active |-> TRUE, since |-> now, served |-> TRUE]
        BY <1>0, <4>1 DEF Memory
      <4>2. CASE mem' = [mem EXCEPT !.served = TRUE]
        BY <1>0, <4>2 DEF Memory
      <4> QED BY <3>1, <4>1, <4>2
    <3> QED BY <1>0, <2>1, <2>2, <3>2 DEF BeginServing, ghosts
  <2>3. CASE EndQuarantine
    BY <1>0, <2>1, <2>3 DEF EndQuarantine, ghosts, Memory
  <2>4. CASE Drain
    BY <1>0, <1>z, <2>1, <2>4 DEF Drain, ghosts, Sync
  <2>5. CASE Serve
    <3>1. db.quar # None => db.quar.serving \in Times \cup {None}
      BY <1>0 DEF Database, Quarantine
    <3>2. mem' \in Memory /\ back' \in Times \cup {None}
      BY <1>0, <2>5, <3>1 DEF Serve, Memory
    <3>3. proc' \in [Processes -> Process]
      BY <1>0, <1>z, <2>5 DEF Serve, Process, Pcs
    <3> QED BY <1>0, <2>1, <2>5, <3>2, <3>3 DEF Serve
  <2> QED BY <1>4, <2>2, <2>3, <2>4, <2>5
<1>5. CASE RollBack
  <2>1. copy \in Database /\ held' \subseteq AIDs
    BY <1>0, <1>5 DEF RollBack
  <2> QED BY <1>0, <1>5, <2>1 DEF RollBack
<1>6. CASE Restore
  <2>1. db' \in Database /\ file' \in File
    BY <1>6, RestoreIs
  <2> QED BY <1>0, <1>6, <2>1 DEF Restore
<1>7. ASSUME NEW p \in Processes, ProcessStep(p)
      PROVE  /\ db' \in Database /\ file' \in File /\ proc' \in [Processes -> Process]
             /\ sync' \in [Processes -> Sync] /\ mem' \in Memory
             /\ req' \in [AIDs -> {None} \cup Asked] /\ replaced' \in BOOLEAN
             /\ UNCHANGED <<copy, key, now, held, back>>
  <2>0. SeenCount(p) \in Counts /\ sync[p].n \in Counts /\ proc[p].n \in Counts /\ proc[p] \in Process
    BY <1>0, SeenIsCount DEF HInv, Sync, Process
  <2>1. CASE SyncCount(p)
    <3>1. sync' \in [Processes -> Sync]
      BY <1>0, <1>z, <2>1 DEF SyncCount, Sync
    <3> QED BY <1>0, <2>1, <3>1 DEF SyncCount, ghosts
  <2>2. CASE SyncRead(p)
    <3>1. sync' \in [Processes -> Sync]
      BY <1>0, <1>z, <2>2 DEF SyncRead, Sync, NoSync
    <3>2. proc' \in [Processes -> Process]
      <4>1. file \in Nat => file \in Counts
        BY SeenIsCount DEF HInv
      <4> QED BY <1>0, <2>2, <4>1 DEF SyncRead, Process
    <3> QED BY <1>0, <2>2, <3>1, <3>2 DEF SyncRead, ghosts
  <2>3. CASE SyncWrite(p)
    <3>1. sync' \in [Processes -> Sync]
      BY <1>0, <1>z, <2>3 DEF SyncWrite, Sync, NoSync
    <3>2. proc' \in [Processes -> Process] /\ file' \in File
      BY <1>0, <1>z, <2>0, <2>3 DEF SyncWrite, Process
    <3> QED BY <1>0, <2>3, <3>1, <3>2 DEF SyncWrite, ghosts
  <2>4. CASE OpenRead(p)
    <3>1. proc' \in [Processes -> Process]
      BY <1>0, <1>z, <2>4 DEF OpenRead, Process, Down, Pcs
    <3> QED BY <1>0, <2>4, <3>1 DEF OpenRead, ghosts
  <2>5. CASE OpenCount(p)
    <3> DEFINE x == IF db.n < SeenCount(p) \/ proc[p].seen = Unreadable THEN "begin" ELSE "filed"
    <3>0. x \in Pcs /\ proc' = [proc EXCEPT ![p].n = db.n, ![p].pc = x]
      BY <2>5 DEF OpenCount, Pcs
    <3> HIDE DEF x
    <3>1. proc' \in [Processes -> Process]
      BY <1>0, <1>z, <3>0 DEF Process
    <3> QED BY <1>0, <2>5, <3>1 DEF OpenCount, ghosts
  <2>6. CASE Begin(p)
    <3>1. proc' \in [Processes -> Process]
      BY <1>0, <2>6 DEF Begin, Process, Pcs
    <3>2. db' \in Database /\ replaced' \in BOOLEAN
      BY <1>0, <2>6, BeginIs DEF Begin
    <3> QED BY <1>0, <2>6, <3>1, <3>2 DEF Begin
  <2>7. CASE OpenFile(p)
    <3> DEFINE k == MaxCount(proc[p].n, SeenCount(p))
    <3>1. k \in Counts
      BY <1>z, <2>0, MaxCountIs
    <3>2. proc[p].seen \in Nat => proc[p].seen \in Counts
      BY SeenIsCount DEF HInv
    <3>3. \/ proc' = [proc EXCEPT ![p].pc = "opened", ![p].written = proc[p].seen]
             /\ proc[p].seen \in Nat /\ file' = file
          \/ proc' = [proc EXCEPT ![p].pc = "opened", ![p].written = k] /\ file' = k
          \/ proc' = [proc EXCEPT ![p].pc = "opened"] /\ file' = file
      BY <2>7 DEF OpenFile
    <3> HIDE DEF k
    <3>4. proc' \in [Processes -> Process] /\ file' \in File
      BY <1>0, <1>z, <3>1, <3>2, <3>3 DEF Process, Pcs
    <3>5. sync' \in [Processes -> Sync]
      BY <1>0, <2>7 DEF OpenFile, Sync
    <3> QED BY <1>0, <2>7, <3>4, <3>5 DEF OpenFile, ghosts
  <2>8. CASE Stop(p)
    <3>1. Down \in Process /\ NoSync \in Sync /\ NoMem \in Memory
      BY <1>z DEF Down, NoSync, NoMem, Process, Sync, Memory, Pcs
    <3>2. mem' \in Memory /\ req' \in [AIDs -> {None} \cup Asked]
      BY <1>0, <2>8, <3>1 DEF Stop
    <3> QED BY <1>0, <2>8, <3>1, <3>2 DEF Stop, ghosts
  <2> QED BY <1>7, <2>1, <2>2, <2>3, <2>4, <2>5, <2>6, <2>7, <2>8 DEF ProcessStep
<1>8. Rows \/ Asks \/ Asides \/ BeginServing \/ EndQuarantine \/ Drain \/ Serve \/ RollBack \/ Restore
      \/ \E p \in Processes : ProcessStep(p)
  BY StepsAre
<1> QED BY <1>0, <1>1, <1>2, <1>3, <1>4, <1>5, <1>6, <1>7, <1>8

\* A process that has not opened the database owes the file nothing, and a hub that is not
\* up remembers nothing.
LEMMA ProcKept ==
  ASSUME HInv, HistoriesNext
  PROVE  ProcInv'
<1>0. /\ ProcInv /\ now \in Nat /\ proc \in [Processes -> Process] /\ sync \in [Processes -> Sync]
      /\ back \in Nat \cup {None} /\ "hub" \in Processes /\ "operator" \in Processes
  BY TypesAre, HistoriesAssumption DEF HInv, Times, Processes
<1>p. \A q \in Processes : /\ proc[q].pc = "down" => proc[q] = Down
                           /\ proc[q].pc \in {"down", "read", "begin", "filed"} => sync[q] = NoSync
  BY <1>0 DEF ProcInv
<1>a. /\ ~Up => mem = NoMem
      /\ Up => back # None
      /\ back # None => back <= now
  BY <1>0 DEF ProcInv
<1>d. Down.pc = "down" /\ NoSync.pc = "idle" /\ NoSync.due = FALSE
  BY DEF Down, NoSync
<1> DEFINE PN == \A q \in Processes :
                   /\ proc'[q].pc = "down" => proc'[q] = Down
                   /\ proc'[q].pc \in {"down", "read", "begin", "filed"} => sync'[q] = NoSync
           MN == /\ ~Up' => mem' = NoMem
                 /\ Up' => back' # None
                 /\ back' # None => back' <= now'
<1>g. SUFFICES PN /\ MN
  BY DEF ProcInv
<1>1. CASE Rows
  <2>1. PICK p \in Processes, a \in AIDs : RowStep(p, a)
    BY <1>1 DEF Rows
  <2>2. /\ proc' = proc /\ UNCHANGED <<mem, now, back>>
        /\ proc[p].pc \in {"opened", "up"}
        /\ \A q \in Processes \ {p} : sync'[q] = sync[q]
    BY <1>0, <2>1 DEF RowStep
  <2> QED BY <1>p, <1>a, <2>2 DEF Up
<1>2. CASE Asks \/ TakeCopy \/ Damage \/ RotateHub
  <2>1. UNCHANGED <<proc, sync, mem, now, back>>
    BY <1>2 DEF Asks, SignedRequest, ReadKEL, Answered, TakeCopy, Damage, RotateHub, ghosts
  <2> QED BY <1>p, <1>a, <2>1 DEF Up
<1>3. CASE Tick
  <2>1. UNCHANGED <<proc, sync, mem, back>> /\ now' = now + 1
    BY <1>3 DEF Tick, ghosts
  <2> QED BY <1>0, <1>p, <1>a, <2>1 DEF Up
<1>4. CASE BeginServing \/ EndQuarantine
  <2>1. UNCHANGED <<proc, sync, now, back>> /\ Up
    BY <1>4 DEF BeginServing, EndQuarantine, ghosts
  <2> QED BY <1>p, <1>a, <2>1 DEF Up
<1>5. CASE Drain
  <2>1. UNCHANGED <<proc, mem, now, back>> /\ Up /\ sync' = [sync EXCEPT !["hub"].due = TRUE]
    BY <1>5 DEF Drain, ghosts
  <2>2. \A q \in Processes \ {"hub"} : sync'[q] = sync[q]
    BY <1>0, <2>1
  <2> QED BY <1>p, <1>a, <2>1, <2>2 DEF Up
<1>6. CASE Serve
  <2>1. /\ proc' = [proc EXCEPT !["hub"].pc = "up"] /\ UNCHANGED <<sync, now>>
        /\ back' = IF back = None THEN now ELSE back
    BY <1>6 DEF Serve
  <2>2. /\ proc'["hub"].pc = "up"
        /\ \A q \in Processes \ {"hub"} : proc'[q] = proc[q]
    BY <1>0, <2>1 DEF Process
  <2>3. back' # None /\ back' <= now'
    BY <1>0, <1>a, <2>1, HistoriesAssumption
  <2> QED BY <1>p, <2>1, <2>2, <2>3 DEF Up
<1>7. CASE RollBack \/ Restore
  <2>1. UNCHANGED <<proc, sync, mem>> /\ back' = None
    BY <1>7 DEF RollBack, Restore
  <2>2. ~Up
    BY <1>0, <1>7 DEF RollBack, Restore, AllDown, Up
  <2> QED BY <1>p, <1>a, <2>1, <2>2 DEF Up
<1>8. ASSUME NEW p \in Processes, ProcessStep(p) PROVE PN /\ MN
  <2>1. CASE SyncCount(p)
    <3>1. /\ UNCHANGED <<proc, mem, now, back>> /\ sync[p].due
          /\ \A q \in Processes \ {p} : sync'[q] = sync[q]
      BY <1>0, <2>1 DEF SyncCount, ghosts
    <3> QED BY <1>p, <1>a, <1>d, <3>1 DEF Up
  <2>2. CASE SyncRead(p) \/ SyncWrite(p)
    <3>1. /\ UNCHANGED <<mem, now, back>> /\ sync[p].pc # "idle"
          /\ \A q \in Processes \ {p} : sync'[q] = sync[q] /\ proc'[q] = proc[q]
          /\ proc'[p].pc = proc[p].pc
      BY <1>0, <2>2 DEF SyncRead, SyncWrite, ghosts, Process
    <3>2. ~(proc[p].pc \in {"down", "read", "begin", "filed"})
      BY <1>p, <1>d, <3>1
    <3>3. Up' = Up
      BY <1>0, <3>1 DEF Up
    <3> QED BY <1>p, <1>a, <3>1, <3>2, <3>3
  <2>3. CASE OpenRead(p) \/ OpenCount(p) \/ Begin(p)
    <3>1. /\ UNCHANGED <<sync, mem, now, back>>
          /\ proc[p].pc \in {"down", "read", "begin"}
          /\ \A q \in Processes \ {p} : proc'[q] = proc[q]
          /\ proc'[p].pc \in {"read", "begin", "filed"}
      <4>1. CASE OpenRead(p)
        BY <1>0, <4>1 DEF OpenRead, ghosts, Down
      <4>2. CASE OpenCount(p)
        BY <1>0, <4>2 DEF OpenCount, ghosts, Process
      <4>3. CASE Begin(p)
        BY <1>0, <4>3 DEF Begin, Process
      <4> QED BY <2>3, <4>1, <4>2, <4>3
    <3>2. Up' = Up
      BY <1>0, <3>1 DEF Up
    <3> QED BY <1>p, <1>a, <3>1, <3>2
  <2>4. CASE OpenFile(p)
    <3>1. /\ UNCHANGED <<mem, now, back>> /\ proc[p].pc = "filed"
          /\ \A q \in Processes \ {p} : proc'[q] = proc[q] /\ sync'[q] = sync[q]
          /\ proc'[p].pc = "opened"
      BY <1>0, <2>4 DEF OpenFile, ghosts, Process
    <3>2. Up' = Up
      BY <1>0, <3>1 DEF Up
    <3> QED BY <1>p, <1>a, <3>1, <3>2
  <2>5. CASE Stop(p)
    <3>1. /\ UNCHANGED <<now, back>>
          /\ \A q \in Processes \ {p} : proc'[q] = proc[q] /\ sync'[q] = sync[q]
          /\ proc'[p] = Down /\ sync'[p] = NoSync
          /\ mem' = IF p = "hub" THEN NoMem ELSE mem
      BY <1>0, <2>5 DEF Stop, ghosts
    <3>2. CASE p = "hub"
      BY <1>p, <1>a, <1>d, <3>1, <3>2 DEF Up
    <3>3. CASE p # "hub"
      BY <1>0, <1>p, <1>a, <1>d, <3>1, <3>3 DEF Up
    <3> QED BY <3>2, <3>3
  <2> QED BY <1>8, <2>1, <2>2, <2>3, <2>4, <2>5 DEF ProcessStep
<1>9. Rows \/ Asks \/ Asides \/ BeginServing \/ EndQuarantine \/ Drain \/ Serve \/ RollBack \/ Restore
      \/ \E p \in Processes : ProcessStep(p)
  BY StepsAre
<1> QED BY <1>1, <1>2, <1>3, <1>4, <1>5, <1>6, <1>7, <1>8, <1>9 DEF Asides

-----------------------------------------------------------------------------
(* The tables.                                                              *)

\* The tables stay sound, in the database and in the copy.
LEMMA TableKept ==
  ASSUME HInv, HistoriesNext
  PROVE  TableInv'
<1>0. /\ Good(db) /\ (copy # None => Good(copy)) /\ proc \in [Processes -> Process]
      /\ "hub" \in Processes
  BY TypesAre DEF HInv, TableInv, Processes
<1>a. Up => \A a \in AIDs : db.notice[a] # None => db.notice[a].by = key
  BY DEF HInv, TableInv
<1> DEFINE CN == copy' # None => Good(copy')
           KN == Up' => \A a \in AIDs : db'.notice[a] # None => db'.notice[a].by = key'
<1>g. SUFFICES Good(db') /\ CN /\ KN
  BY DEF TableInv
<1>1. CASE Rows
  <2>1. PICK p \in Processes, a \in AIDs : RowStep(p, a)
    BY <1>1 DEF Rows
  <2>2. /\ Written(db, db', a) /\ GoodAt(db', a) /\ UNCHANGED <<copy, proc, key>>
        /\ db'.notice[a] # None => db'.notice[a] = db.notice[a] \/ db'.notice[a].by = key
    BY <2>1 DEF RowStep
  <2>3. Good(db')
    BY <1>0, <2>2, RowsApart
  <2>4. \A b \in AIDs \ {a} : db'.notice[b] = db.notice[b]
    BY <2>2 DEF Written, SameAt
  <2> QED BY <1>0, <1>a, <2>2, <2>3, <2>4 DEF Up
<1>2. CASE Asks \/ Damage \/ Tick
  <2>1. UNCHANGED <<db, copy, proc, key>>
    BY <1>2 DEF Asks, SignedRequest, ReadKEL, Answered, Damage, Tick
  <2> QED BY <1>0, <1>a, <2>1 DEF Up
<1>3. CASE TakeCopy
  BY <1>0, <1>a, <1>3 DEF TakeCopy, Up
<1>4. CASE RotateHub
  BY <1>0, <1>4 DEF RotateHub, Up
<1>5. CASE BeginServing \/ EndQuarantine \/ Drain \/ Serve
  <2>1. /\ Good(db') /\ \A a \in AIDs : db'.notice[a] \in {None, db.notice[a]}
        /\ Serve => \A a \in AIDs : db'.notice[a] # None => db'.notice[a].by = key
    BY <1>5, RoundsAre
  <2>2. copy' = copy /\ key' = key
    BY <1>5 DEF BeginServing, EndQuarantine, Drain, Serve
  <2>3. ~Serve => Up
    BY <1>5 DEF BeginServing, EndQuarantine, Drain
  <2> QED BY <1>0, <1>a, <2>1, <2>2, <2>3
<1>6. CASE RollBack
  <2>1. db' = copy /\ copy # None /\ copy' = copy /\ ~Up'
    BY <1>0, <1>6 DEF RollBack, AllDown, Up
  <2> QED BY <1>0, <2>1
<1>7. CASE Restore
  <2>1. Good(db')
    BY <1>7, RestoreIs
  <2>2. copy' = copy /\ ~Up'
    BY <1>0, <1>7 DEF Restore, AllDown, Up
  <2> QED BY <1>0, <2>1, <2>2
<1>8. ASSUME NEW p \in Processes, ProcessStep(p) PROVE Good(db') /\ CN /\ KN
  <2>0. copy' = copy /\ key' = key
    BY <1>8 DEF ProcessStep, SyncCount, SyncRead, SyncWrite, OpenRead, OpenCount, Begin, OpenFile, Stop
  <2>1. Up' => Up
    <3>1. /\ \A q \in Processes \ {p} : proc'[q] = proc[q]
          /\ proc'[p].pc = proc[p].pc \/ proc'[p].pc # "up"
      <4>1. CASE SyncCount(p)
        BY <1>0, <4>1 DEF SyncCount
      <4>2. CASE SyncRead(p) \/ SyncWrite(p)
        BY <1>0, <4>2 DEF SyncRead, SyncWrite, Process
      <4>3. CASE OpenRead(p)
        BY <1>0, <4>3 DEF OpenRead, Down
      <4>4. CASE OpenCount(p) \/ Begin(p)
        BY <1>0, <4>4 DEF OpenCount, Begin, Process
      <4>5. CASE OpenFile(p)
        BY <1>0, <4>5 DEF OpenFile, Process
      <4>6. CASE Stop(p)
        BY <1>0, <4>6 DEF Stop, Down
      <4> QED BY <1>8, <4>1, <4>2, <4>3, <4>4, <4>5, <4>6 DEF ProcessStep
    <3> QED BY <1>0, <3>1 DEF Up
  <2>2. CASE Begin(p) /\ StillOlder(p)
    <3>1. Good(db') /\ \A a \in AIDs : db'.notice[a] = None
      BY <2>2, BeginIs
    <3> QED BY <1>0, <2>0, <3>1
  <2>3. CASE ~(Begin(p) /\ StillOlder(p))
    <3>1. db' = db
      BY <1>8, <2>3 DEF ProcessStep, SyncCount, SyncRead, SyncWrite, OpenRead, OpenCount, Begin, OpenFile, Stop
    <3> QED BY <1>0, <1>a, <2>0, <2>1, <3>1
  <2> QED BY <2>2, <2>3
<1>9. Rows \/ Asks \/ Asides \/ BeginServing \/ EndQuarantine \/ Drain \/ Serve \/ RollBack \/ Restore
      \/ \E p \in Processes : ProcessStep(p)
  BY StepsAre
<1> QED BY <1>1, <1>2, <1>3, <1>4, <1>5, <1>6, <1>7, <1>8, <1>9 DEF Asides

-----------------------------------------------------------------------------
(* The agents held.                                                         *)

\* An older copy that nobody has looked at leaves no process at its work.
LEMMA PendingIsEarly ==
  ASSUME Pending, NEW p \in Processes
  PROVE  proc[p].pc \in {"down", "read", "begin"}
BY DEF Pending

\* The agents held stay held where the row, the wait and the quarantine do.
LEMMA StayHeldFrame ==
  ASSUME StayHeld, UNCHANGED <<now, back>>, held' = held, mem'.since \in {None, mem.since},
         \A a \in held : HeldAt(db', a, WaitedOut),
         db'.quar # None => \/ db.quar # None /\ db'.quar.serving = db.quar.serving
                            \/ Since(db'.quar.serving)
  PROVE  StayHeld'
<1>1. WaitedOut' = WaitedOut
  BY DEF WaitedOut
<1>2. \A t : Since(t) => (t # None => back' # None /\ back' <= t)
  BY DEF Since
<1>3. \A a \in held' : HeldAt(db', a, WaitedOut')
  BY <1>1
<1>4. db'.quar # None => Since(db'.quar.serving)
  BY DEF StayHeld
<1>5. Since(mem'.since)
  BY DEF StayHeld, Since
<1> QED BY <1>2, <1>3, <1>4, <1>5 DEF StayHeld, Since

\* The agents held stay held.
LEMMA HeldKept ==
  ASSUME HInv, HistoriesNext
  PROVE  HeldInv'
<1>0. /\ HeldInv /\ proc \in [Processes -> Process] /\ held \subseteq AIDs /\ "hub" \in Processes
      /\ now \in Nat /\ now \in Times /\ back \in Nat \cup {None} /\ Wait \in Nat
      /\ None \notin Times /\ None \notin Nat
  BY TypesAre, HistoriesAssumption DEF HInv, Times, Processes
<1>b. /\ Up => back # None
      /\ back # None => back <= now
      /\ ~Up => mem = NoMem
      /\ \A q \in Processes : proc[q].pc \in {"down", "read", "begin", "filed"} => sync[q] = NoSync
      /\ NoSync.due = FALSE /\ NoSync.pc = "idle" /\ NoMem.since = None
  BY DEF HInv, ProcInv, NoSync, NoMem
<1>p. Pending => ~Up /\ \A q \in Processes : proc[q].pc \notin {"filed", "opened", "up"} /\ sync[q] = NoSync
  BY <1>0, <1>b, PendingIsEarly DEF Up
<1>1. CASE Rows
  <2>1. PICK p \in Processes, a \in AIDs : RowStep(p, a)
    BY <1>1 DEF Rows
  <2>2. /\ ~Pending /\ held' \subseteq held /\ UNCHANGED <<now, back, mem>>
        /\ StayHeld /\ a \in held' => HeldAt(db', a, WaitedOut)
        /\ db'.quar = db.quar /\ \A b \in AIDs \ {a} : SameAt(db, db', b)
    BY <1>p, <2>1 DEF RowStep, Written
  <2>3. ASSUME StayHeld PROVE StayHeld'
    <3>1. WaitedOut' = WaitedOut
      BY <2>2 DEF WaitedOut
    <3>2. ASSUME NEW b \in held' PROVE HeldAt(db', b, WaitedOut)
      <4>1. CASE b = a
        BY <2>2, <2>3, <3>2, <4>1
      <4>2. CASE b # a
        <5>1. SameAt(db, db', b) /\ HeldAt(db, b, WaitedOut)
          BY <1>0, <2>2, <2>3, <3>2, <4>2 DEF StayHeld
        <5> QED BY <2>2, <5>1 DEF HeldAt, InQuarantine, SameAt
      <4> QED BY <4>1, <4>2
    <3> QED BY <2>2, <2>3, <3>1, <3>2 DEF StayHeld, Since
  <2> QED BY <1>0, <2>2, <2>3 DEF HeldInv
<1>2. CASE Asks \/ TakeCopy \/ RotateHub \/ Damage
  <2>1. /\ UNCHANGED <<db, proc, mem, now, back, held>>
        /\ file' \in {file, Unreadable}
    BY <1>2 DEF Asks, SignedRequest, ReadKEL, Answered, TakeCopy, RotateHub, Damage, ghosts
  <2>2. StayHeld => StayHeld'
    BY <2>1 DEF StayHeld, HeldAt, InQuarantine, WaitedOut, Since
  <2>3. Pending => Pending'
    BY <2>1 DEF Pending, Found, FileCount, Alarmed, SeenCount
  <2> QED BY <1>0, <2>1, <2>2, <2>3 DEF HeldInv
<1>3. CASE Tick
  <2>1. UNCHANGED <<db, file, proc, mem, back, held>> /\ now' = now + 1
    BY <1>3 DEF Tick, ghosts
  <2>2. WaitedOut => WaitedOut'
    BY <1>0, <2>1 DEF WaitedOut
  <2>3. StayHeld => StayHeld'
    BY <2>1, <2>2 DEF StayHeld, HeldAt, InQuarantine, Since
  <2>4. Pending => Pending'
    BY <2>1 DEF Pending, Found, FileCount, Alarmed, SeenCount
  <2> QED BY <1>0, <2>1, <2>3, <2>4 DEF HeldInv
<1>4. CASE BeginServing \/ EndQuarantine \/ Drain
  <2>1. Up /\ UNCHANGED <<now, back, held>>
    BY <1>4 DEF BeginServing, EndQuarantine, Drain, ghosts
  <2>2. /\ db'.reg = db.reg /\ \A a \in AIDs : db'.notice[a] \in {None, db.notice[a]}
        /\ \/ db'.quar = db.quar /\ db'.released = db.released
           \/ BeginServing /\ db'.released = db.released /\ db'.quar # None /\ db'.quar.serving = now
           \/ EndQuarantine /\ db'.quar = None
    BY <1>4, RoundsAre
  <2>3. WaitedOut' = WaitedOut /\ Since(now)
    BY <1>0, <1>b, <2>1 DEF WaitedOut, Since
  <2>4. mem'.since \in {None, mem.since, now}
    <3>1. mem \in Memory
      BY TypesAre DEF HInv
    <3>2. CASE BeginServing
      <4>1. mem' = [active |-> TRUE, since |-> now, served |-> TRUE] \/ mem' = [mem EXCEPT !.served = TRUE]
        BY <3>2 DEF BeginServing
      <4> QED BY <3>1, <4>1 DEF Memory
    <3>3. CASE EndQuarantine
      BY <3>1, <3>3 DEF EndQuarantine, Memory
    <3>4. CASE Drain
      BY <3>4 DEF Drain
    <3> QED BY <1>4, <3>2, <3>3, <3>4
  <2>5. ASSUME StayHeld PROVE StayHeld'
    <3>1. ASSUME NEW a \in held PROVE HeldAt(db', a, WaitedOut)
      <4>1. HeldAt(db, a, WaitedOut) /\ a \in AIDs
        BY <1>0, <2>5, <3>1 DEF StayHeld
      <4>2. CASE EndQuarantine
        <5>1. WaitedOut /\ StillHeld(db) = {}
          BY <2>5, <4>2, WaitIsOut DEF EndQuarantine
        <5>2. db.reg[a] = None
          BY <4>1, <5>1 DEF StillHeld, HeldAt
        <5> QED BY <2>2, <5>1, <5>2 DEF HeldAt
      <4>3. CASE ~EndQuarantine
        BY <2>2, <4>1, <4>3 DEF HeldAt, InQuarantine
      <4> QED BY <4>2, <4>3
    <3>2. db'.quar # None => Since(db'.quar.serving)
      BY <2>2, <2>3, <2>5 DEF StayHeld
    <3>3. Since(mem'.since)
      BY <2>3, <2>4, <2>5 DEF StayHeld, Since
    <3>4. \A a \in held' : HeldAt(db', a, WaitedOut')
      BY <2>1, <2>3, <3>1
    <3> QED BY <2>1, <3>2, <3>3, <3>4 DEF StayHeld, Since
  <2> QED BY <1>0, <1>p, <2>1, <2>5 DEF HeldInv
<1>5. CASE Serve
  <2>1. /\ proc["hub"].pc = "opened" /\ UNCHANGED <<now, held>>
        /\ mem'.since = IF db.quar = None THEN None ELSE db.quar.serving
        /\ back' = IF back = None THEN now ELSE back
    BY <1>5 DEF Serve
  <2>2. /\ db'.reg = db.reg /\ \A a \in AIDs : db'.notice[a] \in {None, db.notice[a]}
        /\ db'.quar = db.quar /\ db'.released = db.released
    BY <1>5, RoundsAre DEF Serve, BeginServing, EndQuarantine, Up
  <2>3. WaitedOut => WaitedOut'
    BY <2>1 DEF WaitedOut
  <2>4. ASSUME StayHeld PROVE StayHeld'
    <3>1. \A a \in held' : HeldAt(db', a, WaitedOut')
      BY <1>0, <2>1, <2>2, <2>3, <2>4 DEF StayHeld, HeldAt, InQuarantine
    <3>2. db.quar # None => (db.quar.serving # None => back' # None /\ back' <= db.quar.serving)
      BY <2>1, <2>4 DEF StayHeld, Since
    <3> QED BY <2>1, <2>2, <3>1, <3>2 DEF StayHeld, Since
  <2> QED BY <1>0, <1>p, <2>1, <2>4 DEF HeldInv
<1>6. CASE RollBack
  <2>1. /\ db' = copy /\ held' = (IF Found(copy) THEN AIDs ELSE {}) /\ UNCHANGED <<file, proc>>
        /\ \A q \in Processes : proc[q].pc = "down"
    BY <1>6 DEF RollBack, AllDown
  <2>2. CASE Found(copy)
    <3>1. Found(db)'
      BY <2>1, <2>2 DEF Found, FileCount
    <3>2. Pending'
      BY <2>1, <3>1 DEF Pending
    <3> QED BY <3>2 DEF HeldInv
  <2>3. CASE ~Found(copy)
    BY <2>1, <2>3 DEF HeldInv
  <2> QED BY <2>2, <2>3
<1>7. CASE Restore
  <2>1. /\ db'.quar.serving = None /\ \A a \in AIDs : InQuarantine(db', a) /\ db'.notice[a] = None
    BY <1>7, RestoreIs
  <2>2. /\ held' = AIDs /\ mem' = mem /\ ~Up
    BY <1>0, <1>7 DEF Restore, AllDown, Up
  <2>3. StayHeld'
    BY <1>b, <2>1, <2>2 DEF StayHeld, HeldAt, Since
  <2> QED BY <2>3 DEF HeldInv
<1>8. ASSUME NEW p \in Processes, ProcessStep(p) PROVE HeldInv'
  <2>0. UNCHANGED <<now, held, back>>
    BY <1>8 DEF ProcessStep, SyncCount, SyncRead, SyncWrite, OpenRead, OpenCount, Begin, OpenFile, Stop, ghosts
  <2>1. mem'.since \in {None, mem.since}
    BY <1>b, <1>8 DEF ProcessStep, SyncCount, SyncRead, SyncWrite, OpenRead, OpenCount, Begin, OpenFile, Stop
  <2>2. CASE Begin(p) /\ StillOlder(p)
    <3>1. /\ db'.quar.serving = None /\ \A a \in AIDs : InQuarantine(db', a) /\ db'.notice[a] = None
          /\ db'.quar = Begun
      BY <2>2, BeginIs DEF Begun
    <3>2. mem' = mem
      BY <2>2 DEF Begin
    <3>3. held # {} => Since(mem.since)
      BY <1>0, <1>b, <1>p DEF HeldInv, StayHeld, Since
    <3>4. held # {} => StayHeld'
      BY <1>0, <2>0, <3>1, <3>2, <3>3 DEF StayHeld, HeldAt, Since
    <3> QED BY <2>0, <3>4 DEF HeldInv
  <2>3. CASE ~(Begin(p) /\ StillOlder(p))
    <3>1. db' = db
      BY <1>8, <2>3 DEF ProcessStep, SyncCount, SyncRead, SyncWrite, OpenRead, OpenCount, Begin, OpenFile, Stop
    <3>2. StayHeld => StayHeld'
      <4>1. SUFFICES ASSUME StayHeld PROVE StayHeld'
        OBVIOUS
      <4>2. \A a \in held : HeldAt(db', a, WaitedOut)
        BY <3>1, <4>1 DEF StayHeld
      <4> QED BY <2>0, <2>1, <3>1, <4>1, <4>2, StayHeldFrame
    <3>3. ASSUME Pending PROVE Pending'
      <4>0. /\ Found(db)
            /\ \A q \in Processes : /\ proc[q].pc \in {"down", "read", "begin"}
                                    /\ proc[q].pc # "down" => Alarmed(q)
        BY <3>3 DEF Pending
      <4>1. /\ file' = file /\ \A q \in Processes \ {p} : proc'[q] = proc[q]
            /\ proc'[p].pc \in {"down", "read", "begin"}
            /\ proc'[p].pc # "down" => (proc'[p].seen = Unreadable
                 \/ db.n < IF proc'[p].seen \in Nat THEN proc'[p].seen ELSE 0)
        <5>1. CASE SyncCount(p) \/ SyncRead(p) \/ SyncWrite(p) \/ OpenFile(p)
          BY <1>b, <1>p, <3>3, <5>1 DEF SyncCount, SyncRead, SyncWrite, OpenFile
        <5>2. CASE OpenRead(p)
          <6>1. /\ file' = file /\ \A q \in Processes \ {p} : proc'[q] = proc[q]
                /\ proc'[p].pc = "read" /\ proc'[p].seen = file
            BY <1>0, <5>2 DEF OpenRead, Down
          <6> QED BY <4>0, <6>1 DEF Found, FileCount
        <5>3. CASE OpenCount(p)
          <6>1. proc[p].pc = "read"
            BY <5>3 DEF OpenCount
          <6>2. Alarmed(p)
            BY <4>0, <6>1
          <6>3. /\ file' = file /\ \A q \in Processes \ {p} : proc'[q] = proc[q]
                /\ proc'[p].pc = "begin" /\ proc'[p].seen = proc[p].seen
            BY <1>0, <5>3, <6>2 DEF OpenCount, Process, Alarmed
          <6> QED BY <6>2, <6>3 DEF Alarmed, SeenCount
        <5>4. CASE Begin(p)
          <6>1. proc[p].pc = "begin"
            BY <5>4 DEF Begin
          <6>2. Alarmed(p)
            BY <4>0, <6>1
          <6> QED BY <2>3, <5>4, <6>2 DEF Alarmed, StillOlder
        <5>5. CASE Stop(p)
          BY <1>0, <5>5 DEF Stop, Down
        <5> QED BY <1>8, <5>1, <5>2, <5>3, <5>4, <5>5 DEF ProcessStep
      <4>2. Found(db)'
        BY <3>1, <4>0, <4>1 DEF Found, FileCount
      <4>3. ASSUME NEW q \in Processes
            PROVE  proc'[q].pc \in {"down", "read", "begin"} /\ (proc'[q].pc # "down" => Alarmed(q)')
        <5>1. CASE q = p
          BY <3>1, <4>1, <5>1 DEF Alarmed, SeenCount
        <5>2. CASE q # p
          BY <3>1, <4>0, <4>1, <5>2 DEF Alarmed, SeenCount
        <5> QED BY <5>1, <5>2
      <4> QED BY <4>2, <4>3 DEF Pending
    <3> QED BY <1>0, <2>0, <3>2, <3>3 DEF HeldInv
  <2> QED BY <2>2, <2>3
<1>9. Rows \/ Asks \/ Asides \/ BeginServing \/ EndQuarantine \/ Drain \/ Serve \/ RollBack \/ Restore
      \/ \E p \in Processes : ProcessStep(p)
  BY StepsAre
<1> QED BY <1>1, <1>2, <1>3, <1>4, <1>5, <1>6, <1>7, <1>8, <1>9 DEF Asides

-----------------------------------------------------------------------------
(* The counts.                                                              *)

\* Where the count does not fall, and what processes and the file hold is not higher than
\* they did, no count comes above it.
LEMMA CountsFrame ==
  ASSUME CountInv, db.n \in Nat, db'.n \in Nat, db'.n >= db.n, replaced' = replaced,
         Above(file') => file' = file,
         \A p \in Processes : /\ sync[p].n \in Nat /\ proc[p].n \in Nat
                              /\ Above(proc'[p].seen) => proc'[p].seen \in {proc[p].seen, file}
                              /\ sync'[p].n \in {sync[p].n, 0, db.n} /\ proc'[p].n \in {proc[p].n, 0, db.n}
  PROVE  CountInv'
<1>1. \A x : x \in Nat /\ x > db'.n => Above(x)
  BY DEF Above
<1>2. \A p \in Processes : sync'[p].n <= db'.n /\ proc'[p].n <= db'.n
  BY DEF CountInv
<1>3. ASSUME NEW p \in Processes
      PROVE  /\ Above(proc'[p].seen) /\ Above(file') => proc'[p].seen = file'
             /\ \A q \in Processes : Above(proc'[p].seen) /\ Above(proc'[q].seen) => proc'[p].seen = proc'[q].seen
  BY DEF CountInv
<1>4. ~replaced' => ~Above(file') /\ \A p \in Processes : ~Above(proc'[p].seen)
  BY DEF CountInv
<1>5. CountInv' = /\ \A p \in Processes : sync'[p].n <= db'.n /\ proc'[p].n <= db'.n
                  /\ \A p \in Processes :
                       /\ (proc'[p].seen \in Nat /\ proc'[p].seen > db'.n) /\ (file' \in Nat /\ file' > db'.n)
                            => proc'[p].seen = file'
                       /\ \A q \in Processes :
                            (proc'[p].seen \in Nat /\ proc'[p].seen > db'.n)
                            /\ (proc'[q].seen \in Nat /\ proc'[q].seen > db'.n) => proc'[p].seen = proc'[q].seen
                  /\ ~replaced' => /\ ~(file' \in Nat /\ file' > db'.n)
                                   /\ \A p \in Processes : ~(proc'[p].seen \in Nat /\ proc'[p].seen > db'.n)
  BY DEF CountInv, Above
<1> QED BY <1>1, <1>2, <1>3, <1>4, <1>5

\* No count comes above the database's but where an older copy was put in place.
LEMMA CountsKept ==
  ASSUME HInv, HistoriesNext
  PROVE  CountInv'
<1>0. /\ CountInv /\ proc \in [Processes -> Process] /\ sync \in [Processes -> Sync]
      /\ db.n \in Nat /\ file \in File /\ Counts \subseteq Nat /\ "hub" \in Processes
      /\ Unreadable \notin Nat /\ Missing \notin Nat
  BY TypesAre, StartsFrom, HistoriesAssumption DEF HInv, Processes
<1>t. \A p \in Processes : sync[p].n \in Nat /\ proc[p].n \in Nat
  BY <1>0 DEF Sync, Process
<1>d. Down.seen = 0 /\ Down.n = 0 /\ NoSync.n = 0 /\ ~Above(0)
  BY <1>0 DEF Down, NoSync, Above
<1>p. \A q \in Processes : /\ proc[q].pc = "down" => proc[q] = Down
                           /\ proc[q].pc \in {"down", "read", "begin", "filed"} => sync[q] = NoSync
  BY DEF HInv, ProcInv
<1>m. db'.n \in Nat
  <2>1. HistoriesTypeOK'
    BY TypesKept
  <2>2. db' \in Database
    BY <2>1 DEF HistoriesTypeOK
  <2> QED BY <1>0, <2>2 DEF Database
<1>1. CASE Rows
  <2>1. PICK p \in Processes, a \in AIDs : RowStep(p, a)
    BY <1>1 DEF Rows
  <2>2. db'.n >= db.n /\ UNCHANGED <<file, proc, replaced>> /\ \A q \in Processes : sync'[q].n = sync[q].n
    BY <1>0, <2>1 DEF RowStep, Written, Sync
  <2> QED BY <1>0, <1>t, <1>m, <2>2, CountsFrame
<1>2. CASE Asks \/ Asides
  <2>1. /\ UNCHANGED <<db, proc, sync, replaced>> /\ file' \in {file, Unreadable}
    BY <1>2 DEF Asks, SignedRequest, ReadKEL, Answered, Asides, TakeCopy, Damage, RotateHub, Tick, ghosts
  <2>2. Above(file') => file' = file
    BY <1>0, <2>1 DEF Above
  <2> QED BY <1>0, <1>t, <2>1, <2>2, CountsFrame
<1>3. CASE BeginServing \/ EndQuarantine \/ Drain \/ Serve
  <2>1. db'.n = db.n
    BY <1>3, RoundsAre
  <2>2. /\ UNCHANGED <<file, replaced>>
        /\ \A q \in Processes : /\ sync'[q].n = sync[q].n /\ proc'[q].n = proc[q].n
                                /\ proc'[q].seen = proc[q].seen
    BY <1>0, <1>3 DEF BeginServing, EndQuarantine, Drain, Serve, ghosts, Process, Sync
  <2> QED BY <1>0, <1>t, <2>1, <2>2, CountsFrame
<1>4. CASE RollBack \/ Restore
  <2>1. /\ UNCHANGED <<proc, sync>> /\ \A q \in Processes : proc[q] = Down /\ sync[q] = NoSync
    BY <1>4, <1>p DEF RollBack, Restore, AllDown
  <2>2. \A q \in Processes : proc'[q].seen = 0 /\ proc'[q].n = 0 /\ sync'[q].n = 0
    BY <1>d, <2>1
  <2>3. ~replaced' => ~(file' \in Nat /\ file' > db'.n)
    <3>1. CASE RollBack
      BY <3>1 DEF RollBack
    <3>2. CASE Restore
      BY <1>0, <1>m, <3>2, RestoreIs DEF FileCount
    <3> QED BY <1>4, <3>1, <3>2
  <2> QED BY <1>m, <2>2, <2>3 DEF CountInv, Above
<1>5. ASSUME NEW p \in Processes, ProcessStep(p) PROVE CountInv'
  <2>1. CASE SyncCount(p)
    <3>1. /\ UNCHANGED <<db, file, proc, replaced>>
          /\ \A q \in Processes : sync'[q].n \in {sync[q].n, db.n}
      BY <1>0, <2>1 DEF SyncCount, ghosts
    <3> QED BY <1>0, <1>t, <3>1, CountsFrame
  <2>2. CASE SyncRead(p)
    <3>1. /\ UNCHANGED <<db, file, replaced>>
          /\ \A q \in Processes : /\ sync'[q].n \in {sync[q].n, 0} /\ proc'[q].n = proc[q].n
                                  /\ proc'[q].seen = proc[q].seen
      BY <1>0, <2>2 DEF SyncRead, ghosts, NoSync, Process, Sync
    <3> QED BY <1>0, <1>t, <3>1, CountsFrame
  <2>3. CASE SyncWrite(p)
    <3>1. /\ UNCHANGED <<db, replaced>> /\ file' \in {file, sync[p].n}
          /\ \A q \in Processes : /\ sync'[q].n \in {sync[q].n, 0} /\ proc'[q].n = proc[q].n
                                  /\ proc'[q].seen = proc[q].seen
      BY <1>0, <2>3 DEF SyncWrite, ghosts, NoSync, Process, Sync
    <3>2. Above(file') => file' = file
      BY <1>0, <1>t, <3>1 DEF CountInv, Above
    <3> QED BY <1>0, <1>t, <3>1, <3>2, CountsFrame
  <2>4. CASE OpenRead(p)
    <3>1. /\ UNCHANGED <<db, file, sync, replaced>>
          /\ \A q \in Processes : proc'[q].n \in {proc[q].n, 0} /\ proc'[q].seen \in {proc[q].seen, file}
      BY <1>0, <2>4 DEF OpenRead, ghosts, Down, Process
    <3> QED BY <1>0, <1>t, <3>1, CountsFrame
  <2>5. CASE OpenCount(p)
    <3>1. /\ UNCHANGED <<db, file, sync, replaced>>
          /\ \A q \in Processes : proc'[q].n \in {proc[q].n, db.n} /\ proc'[q].seen = proc[q].seen
      BY <1>0, <2>5 DEF OpenCount, ghosts, Process
    <3> QED BY <1>0, <1>t, <3>1, CountsFrame
  <2>6. CASE Begin(p)
    <3>1. /\ UNCHANGED <<file, sync>>
          /\ \A q \in Processes : proc'[q].n = proc[q].n /\ proc'[q].seen = proc[q].seen
      BY <1>0, <2>6 DEF Begin, Process
    <3>2. CASE ~StillOlder(p)
      <4>1. UNCHANGED <<db, replaced>>
        BY <2>6, <3>2 DEF Begin
      <4> QED BY <1>0, <1>t, <3>1, <4>1, CountsFrame
    <3>3. CASE StillOlder(p) /\ proc[p].seen \notin Nat
      <4>1. proc[p].seen = Unreadable
        BY <1>0, <3>3 DEF StillOlder, SeenCount
      <4>2. (replaced' <=> replaced) /\ replaced' \in BOOLEAN /\ db'.n >= db.n
        BY <2>6, <3>3, <4>1, BeginIs DEF Begin
      <4>3. replaced' = replaced
        BY <4>2, TypesAre DEF HInv
      <4> QED BY <1>0, <1>t, <1>m, <3>1, <4>2, <4>3, CountsFrame
    <3>4. CASE StillOlder(p) /\ proc[p].seen \in Nat
      <4>1. Above(proc[p].seen) /\ SeenCount(p) = proc[p].seen
        BY <1>0, <3>4 DEF StillOlder, SeenCount, Above
      <4>2. db'.n >= proc[p].seen /\ db'.n >= db.n
        BY <2>6, <3>4, <4>1, BeginIs
      <4>3. /\ Above(file) => file = proc[p].seen
            /\ \A q \in Processes : Above(proc[q].seen) => proc[q].seen = proc[p].seen
        BY <1>0, <4>1 DEF CountInv
      <4>4. /\ ~(file' \in Nat /\ file' > db'.n)
            /\ \A q \in Processes : ~(proc'[q].seen \in Nat /\ proc'[q].seen > db'.n)
        BY <1>0, <1>m, <3>1, <4>2, <4>3 DEF Above
      <4>5. \A q \in Processes : sync'[q].n <= db'.n /\ proc'[q].n <= db'.n
        BY <1>0, <1>t, <1>m, <3>1, <4>2 DEF CountInv
      <4> QED BY <4>4, <4>5 DEF CountInv, Above
    <3> QED BY <3>2, <3>3, <3>4
  <2>7. CASE OpenFile(p)
    <3>1. /\ UNCHANGED <<db, replaced>>
          /\ \A q \in Processes : /\ sync'[q].n = sync[q].n /\ proc'[q].n = proc[q].n
                                  /\ proc'[q].seen = proc[q].seen
          /\ file' = file \/ (proc[p].seen \notin Nat /\ file' = MaxCount(proc[p].n, SeenCount(p)))
      BY <1>0, <2>7 DEF OpenFile, ghosts, Process, Sync
    <3>2. proc[p].seen \notin Nat => MaxCount(proc[p].n, SeenCount(p)) = proc[p].n
      BY <1>t DEF MaxCount, SeenCount
    <3>3. Above(file') => file' = file
      BY <1>0, <1>t, <3>1, <3>2 DEF CountInv, Above
    <3> QED BY <1>0, <1>t, <3>1, <3>3, CountsFrame
  <2>8. CASE Stop(p)
    <3>1. /\ UNCHANGED <<db, file, replaced>>
          /\ \A q \in Processes : /\ sync'[q].n \in {sync[q].n, 0} /\ proc'[q].n \in {proc[q].n, 0}
                                  /\ proc'[q].seen \in {proc[q].seen, 0}
      BY <1>0, <1>d, <2>8 DEF Stop, ghosts
    <3> QED BY <1>0, <1>t, <1>d, <3>1, CountsFrame
  <2> QED BY <1>5, <2>1, <2>2, <2>3, <2>4, <2>5, <2>6, <2>7, <2>8 DEF ProcessStep
<1>6. Rows \/ Asks \/ Asides \/ BeginServing \/ EndQuarantine \/ Drain \/ Serve \/ RollBack \/ Restore
      \/ \E p \in Processes : ProcessStep(p)
  BY StepsAre
<1> QED BY <1>1, <1>2, <1>3, <1>4, <1>5, <1>6

-----------------------------------------------------------------------------
(* The theorems.                                                            *)

\* The invariant holds of an empty database.
LEMMA HInvInitially ==
  ASSUME HistoriesInit
  PROVE  HInv
<1>0. 0 \in Counts /\ 0 \in Times /\ 0 \in 0..MaxKey /\ Missing \in File
  BY HistoriesAssumption DEF Counts, Times, File
<1>1. Empty \in Database
  BY <1>0 DEF Empty, Database
<1>2. Down \in Process /\ NoSync \in Sync /\ NoMem \in Memory
  BY <1>0 DEF Down, NoSync, NoMem, Process, Sync, Memory, Pcs, File
<1>3. HistoriesTypeOK
  BY <1>0, <1>1, <1>2, TypesAre DEF HistoriesInit
<1>4. ProcInv
  BY DEF HistoriesInit, ProcInv, Up, Down, Processes
<1>5. Good(Empty)
  BY DEF Good, GoodAt, Empty
<1>6. TableInv
  BY <1>5 DEF HistoriesInit, TableInv, Up, Down, Processes
<1>7. HeldInv
  BY DEF HistoriesInit, HeldInv
<1>8. CountInv
  <2>1. /\ db.n = 0 /\ file = Missing
        /\ \A p \in Processes : sync[p].n = 0 /\ proc[p].n = 0 /\ proc[p].seen = 0
    BY DEF HistoriesInit, Empty, Down, NoSync
  <2> QED BY <2>1, HistoriesAssumption DEF CountInv, Above
<1> QED BY <1>3, <1>4, <1>6, <1>7, <1>8 DEF HInv

\* The invariant the properties of key histories rest on: the types, what each process
\* owes the file, sound tables in the database and in the copies, agents held until they
\* may be stated about, and no count above the database's that nobody put there.
THEOREM HistoriesInvariant == HistoriesSpec => []HInv
<1>1. HistoriesInit => HInv
  BY HInvInitially
<1>2. HInv /\ [HistoriesNext]_historyVars => HInv'
  <2>1. CASE HInv /\ HistoriesNext
    BY <2>1, TypesKept, ProcKept, TableKept, HeldKept, CountsKept DEF HInv
  <2>2. ASSUME HInv, UNCHANGED historyVars PROVE HInv'
    <3>1. UNCHANGED <<db, file, copy, proc, sync, mem, key, req, now, held, back, replaced>>
      BY <2>2 DEF historyVars
    <3>2. HistoriesTypeOK'
      BY <2>2, <3>1 DEF HInv, HistoriesTypeOK
    <3>3. ProcInv'
      BY <2>2, <3>1 DEF HInv, ProcInv, Up
    <3>4. TableInv'
      BY <2>2, <3>1 DEF HInv, TableInv, Up
    <3>5. HeldInv'
      <4>1. StayHeld => StayHeld'
        BY <3>1 DEF StayHeld, WaitedOut, Since
      <4>2. Pending => Pending'
        BY <3>1 DEF Pending, Found, FileCount, Alarmed, SeenCount
      <4> QED BY <2>2, <3>1, <4>1, <4>2 DEF HInv, HeldInv
    <3>6. CountInv'
      BY <2>2, <3>1 DEF HInv, CountInv, Above
    <3> QED BY <3>2, <3>3, <3>4, <3>5, <3>6 DEF HInv
  <2> QED BY <2>1, <2>2
<1> QED BY <1>1, <1>2, PTL DEF HistoriesSpec

\* Since the database went back and the hub could tell, it states nothing about an agent
\* held, in the cache or in the directory (mayIssueNotice, releaseTx, startQuarantineTx).
THEOREM HeldSaysNothingEver == HistoriesSpec => []HeldSaysNothing
<1>1. HInv => HeldSaysNothing
  <2>1. SUFFICES ASSUME HInv, Up, NEW a \in held
                 PROVE  db.notice[a] = None /\ (db.dir[a] # None => db.dir[a].notice = None)
    BY DEF HeldSaysNothing
  <2>2. ~Pending /\ a \in AIDs
    <3>1. "hub" \in Processes
      BY DEF Processes
    <3> QED BY <2>1, <3>1, PendingIsEarly DEF Up, HInv, HistoriesTypeOK
  <2>3. HeldAt(db, a, WaitedOut) /\ GoodAt(db, a)
    BY <2>1, <2>2, StartsFrom DEF HInv, HeldInv, StayHeld
  <2>4. db.notice[a] = None
    BY <2>3 DEF HeldAt, GoodAt
  <2>5. db.dir[a] # None => db.dir[a] = EntryOf(db, a) /\ EntryOf(db, a).notice = None
    <3>1. TipNotice(db, a) = None
      BY <2>4 DEF TipNotice
    <3>2. db.dir[a] # None => db.dir[a] = EntryOf(db, a) /\ db.keys[a] # None
      BY <2>3 DEF GoodAt, EntryOf
    <3> QED BY <3>1, <3>2 DEF EntryOf
  <2> QED BY <2>4, <2>5
<1> QED BY <1>1, HistoriesInvariant, PTL

\* A hub that serves carries in a directory entry the history, the key set and the notice
\* it holds, and only notices of its current key (refreshDirTx, ForgetNoticesOfAnotherKey).
THEOREM HistoriesAreSound == HistoriesSpec => []HistoriesSound
<1>1. HInv => HistoriesSound
  <2>1. SUFFICES ASSUME HInv PROVE HistoriesTypeOK /\ ServesWhatItHolds
    BY DEF HistoriesSound
  <2>2. ServesWhatItHolds
    BY <2>1 DEF HInv, TableInv, Good, GoodAt, ServesWhatItHolds
  <2> QED BY <2>1, <2>2 DEF HInv
<1> QED BY <1>1, HistoriesInvariant, PTL

\* No process begins a rollback quarantine unless an older copy was put in place or the
\* file was damaged (checkKELHighWater, beginRollbackQuarantine).
THEOREM NoQuarantineUndueEver == HistoriesSpec => NoQuarantineUndue
<1> DEFINE Due == replaced \/ replaced' \/ file = Unreadable \/ \E p \in Processes : proc[p].seen = Unreadable
           Undue == db.quar # Begun /\ db'.quar = Begun => Due
<1>1. HInv /\ [HistoriesNext]_historyVars => Undue
  <2>1. SUFFICES ASSUME HInv, HistoriesNext, db.quar # Begun, db'.quar = Begun PROVE Due
    BY DEF historyVars
  <2>0. Begun # None /\ Begun.serving = None /\ Begun.why = "rollback"
    BY NoneAssumption DEF Begun, Quarantine
  <2>2. CASE Rows
    BY <2>1, <2>2 DEF Rows, RowStep, Written
  <2>3. CASE Asks \/ Asides
    BY <2>1, <2>3 DEF Asks, SignedRequest, ReadKEL, Answered, Asides, TakeCopy, Damage, RotateHub, Tick
  <2>4. CASE BeginServing \/ EndQuarantine \/ Drain \/ Serve
    <3>1. now # None
      BY <2>1, TypesAre, HistoriesAssumption DEF HInv, Times
    <3> QED BY <2>0, <2>1, <2>4, <3>1, RoundsAre
  <2>5. CASE RollBack
    BY <2>5 DEF RollBack
  <2>6. CASE Restore
    BY <2>0, <2>1, <2>6, RestoreIs
  <2>7. ASSUME NEW p \in Processes, ProcessStep(p) PROVE Due
    <3>1. Begin(p) /\ StillOlder(p)
      BY <2>1, <2>7 DEF ProcessStep, SyncCount, SyncRead, SyncWrite, OpenRead, OpenCount, Begin, OpenFile, Stop
    <3>2. CASE proc[p].seen = Unreadable
      BY <3>2
    <3>3. CASE proc[p].seen # Unreadable
      <4>1. db.n < SeenCount(p) /\ db.n \in Nat
        BY <2>1, <3>1, <3>3, StartsFrom DEF StillOlder
      <4>2. Above(proc[p].seen)
        BY <4>1 DEF SeenCount, Above
      <4> QED BY <2>1, <4>2 DEF HInv, CountInv
    <3> QED BY <3>2, <3>3
  <2> QED BY <2>1, <2>2, <2>3, <2>4, <2>5, <2>6, <2>7, StepsAre
<1>2. HInv /\ [HistoriesNext]_historyVars => [Undue]_historyVars
  BY <1>1
<1> QED BY <1>2, HistoriesInvariant, PTL DEF HistoriesSpec, NoQuarantineUndue
=============================================================================
