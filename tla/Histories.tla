----------------------------- MODULE Histories -----------------------------
(***************************************************************************)
(* The key histories a hub holds, what it states about them, and what a     *)
(* hub whose database went back to an older copy may state (internal/aghub: *)
(* kelpush.go, notice.go, directory.go, hubrotation.go, restore.go).        *)
(*                                                                         *)
(* A history is the sequence of an agent's rotations, each naming its       *)
(* witness; a deactivation ends it.  The hub signs a notice about the tip   *)
(* it holds, caches it, and files it in the agent's directory entry.  Each  *)
(* change of a history is counted in the database, and the count follows    *)
(* into a file beside it, by whichever process made the change.  A process  *)
(* that opens a database with a lower count than the file begins a          *)
(* quarantine, as does anet-hub restore: no notice for an agent until it    *)
(* brings a longer history, or signs with the key held once the wait is     *)
(* over.                                                                   *)
(*                                                                         *)
(* Every action is one transaction of the database, or one access to the    *)
(* file, so that processes interleave and stop between them.                *)
(***************************************************************************)
EXTENDS Integers, Sequences, FiniteSets, SequencesExt

CONSTANTS
  None, Missing, Unreadable,
  AIDs,
  KELs,      \* the histories agents may have: sequences of "here", "away", "dip"
  Reissue,        \* NoticeReissue
  Wait,           \* RestoreQuarantine
  LastTime, MaxN,  \* bounds of the model: the last instant, the changes counted
  MaxKey          \* and the rotations of the hub's identity

Processes == {"hub", "operator"}

ASSUME HistoriesAssumption ==
  /\ KELs \subseteq Seq({"here", "away", "dip"}) /\ <<>> \notin KELs
  /\ None \notin KELs /\ None \notin Nat /\ Missing \notin Nat /\ Unreadable \notin Nat
  /\ Reissue \in Nat /\ Wait \in Nat /\ LastTime \in Nat /\ MaxN \in Nat /\ MaxKey \in Nat

Times == 0..LastTime
Counts == 0..MaxN

VARIABLES
  db,        \* hub.db: what a transaction reads and writes, and a copy of the file holds
  file,      \* kel_hwm
  copy,      \* a copy of the database someone keeps, or None
  proc,      \* each process: where it is, the file as it read it, the count it last wrote
  sync,      \* its write of kel_hwm under way
  mem,       \* quarantineState of the hub process
  key,       \* the key state of the hub's identity
  req,       \* a signed request of each agent under way
  now,
  held,      \* history: the agents nothing may be stated about since the database went back
  back,      \*   when the hub first served again since then, or None
  replaced   \*   an older copy was put in place, and its count not yet raised to the file's

historyVars == <<db, file, copy, proc, sync, mem, key, req, now, held, back, replaced>>
ghosts == <<held, back, replaced>>

Notice == [tip: KELs, at: Times, by: 0..MaxKey]
Entry == [kel: KELs, keys: KELs, notice: Notice \cup {None}]
Quarantine == [why: {"restore", "rollback"}, serving: Times \cup {None}]

\* None stands for no row.
ASSUME NoneAssumption == None \notin Quarantine

\* reg and departed: the agent table and the tombstones; keys: the history a key set was
\* signed under; notice: notice_cache; dir: the directory entry; event: a row of dereg_event
\* the hub has not drained; n: kel_hwm's row.
Database ==
  [reg: [AIDs -> KELs \cup {None}], departed: [AIDs -> KELs \cup {None}],
   keys: [AIDs -> KELs \cup {None}], notice: [AIDs -> Notice \cup {None}],
   dir: [AIDs -> Entry \cup {None}], quar: Quarantine \cup {None}, released: SUBSET AIDs,
   event: BOOLEAN, n: Counts]

File == Counts \cup {Missing, Unreadable}

HistoriesTypeOK ==
  /\ db \in Database /\ copy \in Database \cup {None} /\ file \in File
  /\ proc \in [Processes -> [pc: {"down", "read", "begin", "filed", "opened", "up"}, seen: File,
                             n: Counts, written: Counts]]
  /\ sync \in [Processes -> [due: BOOLEAN, pc: {"idle", "counted", "read"}, n: Counts]]
  /\ mem \in [active: BOOLEAN, since: Times \cup {None}, served: BOOLEAN]
  /\ key \in 0..MaxKey /\ now \in Times
  /\ req \in [AIDs -> {None} \cup [of: {"register", "other"}, tip: KELs, pc: {"signed", "judged", "read"}]]
  /\ held \subseteq AIDs /\ back \in Times \cup {None} /\ replaced \in BOOLEAN

Down == [pc |-> "down", seen |-> 0, n |-> 0, written |-> 0]
NoSync == [due |-> FALSE, pc |-> "idle", n |-> 0]
NoMem == [active |-> FALSE, since |-> None, served |-> FALSE]

Empty ==
  [reg |-> [a \in AIDs |-> None], departed |-> [a \in AIDs |-> None],
   keys |-> [a \in AIDs |-> None], notice |-> [a \in AIDs |-> None],
   dir |-> [a \in AIDs |-> None], quar |-> None, released |-> {}, event |-> FALSE, n |-> 0]

HistoriesInit ==
  /\ db = Empty /\ file = Missing /\ copy = None
  /\ proc = [p \in Processes |-> Down] /\ sync = [p \in Processes |-> NoSync]
  /\ mem = NoMem /\ key = 0 /\ req = [a \in AIDs |-> None] /\ now = 0
  /\ held = {} /\ back = None /\ replaced = FALSE

Up == proc["hub"].pc = "up"

-----------------------------------------------------------------------------
(* What a transaction makes of the database.                               *)

Put(f, a, x) == [f EXCEPT ![a] = x]

\* identity.ExtendsKEL.
Extends(old, new) == IsPrefix(old, new)

IsDip(h) == Last(h) = "dip"

\* judgeNotice 3 and 4: the tip names this hub and is not a deactivation.
WitnessedHere(h) == Last(h) = "here"

\* inQuarantine.
InQuarantine(d, a) == d.quar # None /\ a \notin d.released

\* cachedNoticeOf: the notice cached while it states the tip held.
TipNotice(d, a) == IF d.notice[a] # None /\ d.notice[a].tip = d.reg[a] THEN d.notice[a] ELSE None

\* sealDirEntry: without a key set there is none.
EntryOf(d, a) ==
  IF d.keys[a] = None THEN None
  ELSE [kel |-> d.reg[a], keys |-> d.keys[a], notice |-> TipNotice(d, a)]

\* refreshDirTx.
Refreshed(d, a) == IF d.reg[a] = None THEN d ELSE [d EXCEPT !.dir = Put(d.dir, a, EntryOf(d, a))]

\* countKELChangeTx.
Counted(d) == [d EXCEPT !.n = d.n + 1]

ForgetNotice(d, a) == [d EXCEPT !.notice = Put(d.notice, a, None)]

\* kelChangedTx: a key set of another tip goes, and the notice.
KelChanged(d, a) ==
  ForgetNotice([d EXCEPT !.keys = IF d.keys[a] = d.reg[a] THEN d.keys ELSE Put(d.keys, a, None)], a)

\* releaseTx.
Release(d, a) ==
  IF InQuarantine(d, a) THEN ForgetNotice([d EXCEPT !.released = d.released \cup {a}], a) ELSE d

\* writeTombstone refuses a history that does not extend the tombstone.
TombstoneFits(d, a, h) == d.departed[a] # None => Extends(d.departed[a], h)

Tombstone(d, a, h) == Counted([d EXCEPT !.departed = Put(d.departed, a, h)])

\* DeregisterTx.
Deregistered(d, a) ==
  LET t == Tombstone(d, a, d.reg[a])
  IN  ForgetNotice([t EXCEPT !.keys = Put(t.keys, a, None), !.dir = Put(t.dir, a, None),
                             !.released = t.released \ {a}, !.reg = Put(t.reg, a, None)], a)

\* startQuarantineTx.
Quarantined(d, why) ==
  [d EXCEPT !.released = {}, !.notice = [a \in AIDs |-> None], !.dir = [a \in AIDs |-> None],
            !.quar = [why |-> why, serving |-> None]]

MaxCount(x, y) == IF x >= y THEN x ELSE y

-----------------------------------------------------------------------------
(* kel_hwm.                                                                *)

\* A change committed by process p: its count is due in the file (syncKELHighWater).
Committed(p, d) ==
  /\ db' = d
  /\ sync' = IF d.n # db.n THEN [sync EXCEPT ![p].due = TRUE] ELSE sync

\* The count in the database.
SyncCount(p) ==
  /\ sync[p].due /\ sync[p].pc = "idle"
  /\ sync' = [sync EXCEPT ![p] = [due |-> FALSE, n |-> db.n,
                                  pc |-> IF db.n <= proc[p].written THEN "idle" ELSE "counted"]]
  /\ UNCHANGED <<db, file, copy, proc, mem, key, req, now, ghosts>>

\* The file, in case another process wrote a higher one: it is left then.
SyncRead(p) ==
  /\ sync[p].pc = "counted"
  /\ IF file \in Nat /\ file >= sync[p].n
     THEN /\ proc' = [proc EXCEPT ![p].written = file]
          /\ sync' = [sync EXCEPT ![p] = [NoSync EXCEPT !.due = sync[p].due]]
     ELSE /\ sync' = [sync EXCEPT ![p].pc = "read"]
          /\ UNCHANGED proc
  /\ UNCHANGED <<db, file, copy, mem, key, req, now, ghosts>>

\* It is written, or that fails and is tried at the next change.
SyncWrite(p) ==
  /\ sync[p].pc = "read"
  /\ \/ file' = sync[p].n /\ proc' = [proc EXCEPT ![p].written = sync[p].n]
     \/ UNCHANGED <<file, proc>>
  /\ sync' = [sync EXCEPT ![p] = [NoSync EXCEPT !.due = sync[p].due]]
  /\ UNCHANGED <<db, copy, mem, key, req, now, ghosts>>

-----------------------------------------------------------------------------
(* A process opens the database (Open, checkKELHighWater).                  *)

OpenRead(p) ==
  /\ proc[p].pc = "down"
  /\ proc' = [proc EXCEPT ![p] = [Down EXCEPT !.pc = "read", !.seen = file]]
  /\ UNCHANGED <<db, file, copy, sync, mem, key, req, now, ghosts>>

SeenCount(p) == IF proc[p].seen \in Nat THEN proc[p].seen ELSE 0

\* The count is read after the file: a change counted meanwhile is no rollback.
OpenCount(p) ==
  /\ proc[p].pc = "read"
  /\ proc' = [proc EXCEPT ![p].n = db.n,
                          ![p].pc = IF db.n < SeenCount(p) \/ proc[p].seen = Unreadable THEN "begin" ELSE "filed"]
  /\ UNCHANGED <<db, file, copy, sync, mem, key, req, now, ghosts>>

\* Mutant: the count is not read again in the transaction.
StillOlder_Read(p) == TRUE

StillOlder(p) == db.n < SeenCount(p) \/ proc[p].seen = Unreadable

\* beginRollbackQuarantine.
Begin(p) ==
  /\ proc[p].pc = "begin"
  /\ proc' = [proc EXCEPT ![p].pc = "filed"]
  /\ IF StillOlder(p)
     THEN /\ db' = [Quarantined(db, "rollback") EXCEPT !.n = MaxCount(db.n, SeenCount(p))]
          /\ replaced' = (replaced /\ proc[p].seen = Unreadable)
     ELSE UNCHANGED <<db, replaced>>
  /\ UNCHANGED <<file, copy, sync, mem, key, req, now, held, back>>

\* A file that was missing or does not read is written now; then it follows the count.
OpenFile(p) ==
  /\ proc[p].pc = "filed"
  /\ \/ /\ proc[p].seen \in Nat
        /\ proc' = [proc EXCEPT ![p].pc = "opened", ![p].written = proc[p].seen] /\ UNCHANGED file
     \/ /\ proc[p].seen \notin Nat
        /\ file' = MaxCount(proc[p].n, SeenCount(p))
        /\ proc' = [proc EXCEPT ![p].pc = "opened", ![p].written = MaxCount(proc[p].n, SeenCount(p))]
     \/ /\ proc[p].seen \notin Nat
        /\ proc' = [proc EXCEPT ![p].pc = "opened"] /\ UNCHANGED file
  /\ sync' = [sync EXCEPT ![p].due = TRUE]
  /\ UNCHANGED <<db, copy, mem, key, req, now, ghosts>>

\* Mutant: the directory entries keep them.
Forgotten_CacheOnly(d) ==
  [d EXCEPT !.notice = [a \in AIDs |-> IF d.notice[a] # None /\ d.notice[a].by # key THEN None ELSE d.notice[a]]]

\* ForgetNoticesOfAnotherKey: before it serves, the hub drops what it signed under
\* another key.
Forgotten(d) ==
  LET stale(a) == d.notice[a] # None /\ d.notice[a].by # key
      n == [d EXCEPT !.notice = [a \in AIDs |-> IF stale(a) THEN None ELSE d.notice[a]]]
  IN  [n EXCEPT !.dir = [a \in AIDs |-> IF stale(a) /\ d.reg[a] # None THEN EntryOf(n, a) ELSE d.dir[a]]]

\* loadQuarantine and startIdentity: the hub serves.
Serve ==
  /\ proc["hub"].pc = "opened" /\ ~sync["hub"].due /\ sync["hub"].pc = "idle"
  /\ proc' = [proc EXCEPT !["hub"].pc = "up"]
  /\ mem' = [active |-> db.quar # None, served |-> FALSE,
             since |-> IF db.quar = None THEN None ELSE db.quar.serving]
  /\ db' = Forgotten(db)
  /\ back' = IF back = None THEN now ELSE back
  /\ UNCHANGED <<file, copy, sync, key, req, now, held, replaced>>

\* A process ends, or dies wherever it is.
Stop(p) ==
  /\ proc[p].pc # "down"
  /\ proc' = [proc EXCEPT ![p] = Down] /\ sync' = [sync EXCEPT ![p] = NoSync]
  /\ IF p = "hub" THEN mem' = NoMem /\ req' = [a \in AIDs |-> None] ELSE UNCHANGED <<mem, req>>
  /\ UNCHANGED <<db, file, copy, key, now, ghosts>>

-----------------------------------------------------------------------------
(* Requests to the hub.                                                    *)

WaitOver == mem.active /\ mem.since # None /\ now - mem.since >= Wait

\* What H-20 b lets a request release, whatever the hub remembers.
WaitedOut == back # None /\ now - back >= Wait

Spoken(a, spoke) == held' = IF spoke THEN held \ {a} ELSE held

\* knownKEL: the history of the row, else of the tombstone.
Known(a) == IF db.reg[a] # None THEN db.reg[a] ELSE db.departed[a]

Longer(old, new) == old # None /\ Len(new) > Len(old)

\* putAgent: h replaces the history held.
Registered(a, h) ==
  LET changed == db.reg[a] # None /\ db.reg[a] # h
      row     == [db EXCEPT !.reg = Put(db.reg, a, h)]
      told    == IF changed THEN KelChanged(row, a) ELSE row
      counted == IF db.reg[a] # h THEN Counted(told) ELSE told
  IN  Refreshed(IF Longer(Known(a), h) THEN Release(counted, a) ELSE counted, a)

\* hRegister, up to its transaction: signed under the tip of h.
Register(a, h) ==
  /\ Up /\ req[a] = None /\ WitnessedHere(h)
  /\ Known(a) # None => Extends(Known(a), h)
  /\ Committed("hub", Registered(a, h))
  /\ req' = [req EXCEPT ![a] = [of |-> "register", tip |-> h, pc |-> "signed"]]
  /\ Spoken(a, Longer(Known(a), h) \/ WaitedOut)
  /\ UNCHANGED <<file, copy, proc, mem, key, now, back, replaced>>

\* authRegistered: a request verified under the history held now.
SignedRequest(a) ==
  /\ Up /\ req[a] = None /\ db.reg[a] # None
  /\ req' = [req EXCEPT ![a] = [of |-> "other", tip |-> db.reg[a], pc |-> "signed"]]
  /\ UNCHANGED <<db, file, copy, proc, sync, mem, key, now, ghosts>>

\* releaseOnCurrentKey.
OnCurrentKey(a) ==
  /\ Up /\ req[a] # None /\ req[a].pc = "signed"
  /\ IF WaitOver /\ db.reg[a] # None /\ InQuarantine(db, a)
     THEN Committed("hub", Refreshed(Release(db, a), a)) ELSE UNCHANGED <<db, sync>>
  /\ req' = [req EXCEPT ![a].pc = "judged"]
  /\ Spoken(a, WaitedOut)
  /\ UNCHANGED <<file, copy, proc, mem, key, now, back, replaced>>

\* hKeysPost reads the history again: the set, signed with the key of the request, has to
\* verify against it.
ReadKEL(a) ==
  /\ Up /\ req[a] # None /\ req[a].pc = "judged" /\ req[a].of = "other" /\ db.reg[a] = req[a].tip
  /\ req' = [req EXCEPT ![a].pc = "read"]
  /\ UNCHANGED <<db, file, copy, proc, sync, mem, key, now, ghosts>>

\* PublishKeys, with the history hKeysPost read or hRegister was sent.
PublishKeySet(a) ==
  /\ Up /\ req[a] # None
  /\ req[a].pc = IF req[a].of = "register" THEN "judged" ELSE "read"
  /\ Committed("hub", Refreshed([db EXCEPT !.keys = Put(db.keys, a, req[a].tip)], a))
  /\ req' = [req EXCEPT ![a] = None]
  /\ UNCHANGED <<file, copy, proc, mem, key, now, ghosts>>

Answered(a) ==
  /\ Up /\ req[a] # None /\ req[a].pc = "judged"
  /\ req' = [req EXCEPT ![a] = None]
  /\ UNCHANGED <<db, file, copy, proc, sync, mem, key, now, ghosts>>

\* pushKELLocked, for a row: a history that ends in a dip deregisters the agent.
Pushed(a, h) ==
  LET row == Counted([db EXCEPT !.reg = Put(db.reg, a, h)])
  IN  IF IsDip(h) THEN Deregistered(row, a) ELSE Refreshed(Release(KelChanged(row, a), a), a)

\* hKELPush: anyone sends a longer history of a, registered or departed.
Push(a, h) ==
  /\ Up /\ Longer(Known(a), h) /\ Extends(Known(a), h)
  /\ Committed("hub", IF db.reg[a] # None THEN Pushed(a, h) ELSE Tombstone(db, a, h))
  /\ Spoken(a, db.reg[a] # None)
  /\ UNCHANGED <<file, copy, proc, mem, key, req, now, back, replaced>>

\* An agent leaves, or the hub removes it.
LeaveHub(a) ==
  /\ Up /\ db.reg[a] # None /\ TombstoneFits(db, a, db.reg[a])
  /\ Committed("hub", Deregistered(db, a))
  /\ UNCHANGED <<file, copy, proc, mem, key, req, now, ghosts>>

\* judgeNotice: the conditions of H-10, and no notice cached that is fresh.
Fresh(a) ==
  /\ TipNotice(db, a) # None
  /\ now - TipNotice(db, a).at \in 0..Reissue

MayState(a) == db.reg[a] # None /\ WitnessedHere(db.reg[a]) /\ ~InQuarantine(db, a)

\* NoticeFor: for a poll, a registration, the directory, or the refresher.
NoticeFor(a) ==
  /\ Up /\ MayState(a) /\ ~Fresh(a)
  /\ LET notice == [tip |-> db.reg[a], at |-> now, by |-> key]
     IN  Committed("hub", Refreshed([db EXCEPT !.notice = Put(db.notice, a, notice)], a))
  /\ UNCHANGED <<file, copy, proc, mem, key, req, now, ghosts>>

-----------------------------------------------------------------------------
(* The hub process's rounds (RunNoticeRefresher, drainDeregEvents).         *)

\* BeginServing: once in each run of the hub.
BeginServing ==
  /\ Up /\ ~mem.served
  /\ IF db.quar # None /\ db.quar.serving = None
     THEN LET d == [db EXCEPT !.quar.serving = now]
          IN  /\ db' = [d EXCEPT !.dir = [a \in AIDs |-> Refreshed(d, a).dir[a]]]
              /\ mem' = [active |-> TRUE, since |-> now, served |-> TRUE]
     ELSE mem' = [mem EXCEPT !.served = TRUE] /\ UNCHANGED db
  /\ UNCHANGED <<file, copy, proc, sync, key, req, now, ghosts>>

\* Mutant: the wait alone ends it.
StillHeld_None(d) == {}

\* The agents the quarantine still holds.
StillHeld(d) == {a \in AIDs : d.reg[a] # None /\ InQuarantine(d, a)}

EndQuarantine ==
  /\ Up /\ mem.served /\ WaitOver /\ StillHeld(db) = {}
  /\ db' = [db EXCEPT !.quar = None, !.released = {}]
  /\ mem' = [mem EXCEPT !.active = FALSE, !.since = None]
  /\ UNCHANGED <<file, copy, proc, sync, key, req, now, ghosts>>

\* What another process deregistered reaches the hub (afterDereg).
Drain ==
  /\ Up /\ db.event
  /\ db' = [db EXCEPT !.event = FALSE] /\ sync' = [sync EXCEPT !["hub"].due = TRUE]
  /\ UNCHANGED <<file, copy, proc, mem, key, req, now, ghosts>>

-----------------------------------------------------------------------------
(* The operator: another process beside the hub, copies, and the machine.   *)

\* anet-hub revoke.
Revoke(a) ==
  /\ proc["operator"].pc = "opened" /\ db.reg[a] # None /\ TombstoneFits(db, a, db.reg[a])
  /\ Committed("operator", [Deregistered(db, a) EXCEPT !.event = TRUE])
  /\ UNCHANGED <<file, copy, proc, mem, key, req, now, ghosts>>

TakeCopy ==
  /\ copy = None /\ copy' = db
  /\ UNCHANGED <<db, file, proc, sync, mem, key, req, now, ghosts>>

AllDown == \A p \in Processes : proc[p].pc = "down"

FileCount == IF file \in Nat THEN file ELSE 0

Found(d) == file = Unreadable \/ d.n < FileCount

\* Someone puts an older copy in the place of hub.db.
RollBack ==
  /\ AllDown /\ copy # None
  /\ db' = copy
  /\ held' = IF Found(copy) THEN AIDs ELSE {}
  /\ back' = None /\ replaced' = TRUE
  /\ UNCHANGED <<file, copy, proc, sync, mem, key, req, now>>

\* anet-hub restore (Restore, quarantineCopy): the copy is older, whatever its count.
Restore ==
  /\ AllDown /\ copy # None
  /\ LET n == MaxCount(copy.n, FileCount)
     IN  /\ db' = [Quarantined(copy, "restore") EXCEPT !.n = n, !.event = FALSE]
         /\ file' \in {n, file}
  /\ held' = AIDs /\ back' = None /\ replaced' = FALSE
  /\ UNCHANGED <<copy, proc, sync, mem, key, req, now>>

\* kel_hwm is damaged.
Damage ==
  /\ file \in Nat /\ file' = Unreadable
  /\ UNCHANGED <<db, copy, proc, sync, mem, key, req, now, ghosts>>

\* anet-hub identity rotate.
RotateHub ==
  /\ proc["hub"].pc = "down" /\ key < MaxKey /\ key' = key + 1
  /\ UNCHANGED <<db, file, copy, proc, sync, mem, req, now, ghosts>>

Tick ==
  /\ now < LastTime /\ now' = now + 1
  /\ UNCHANGED <<db, file, copy, proc, sync, mem, key, req, ghosts>>

HubStep ==
  \/ \E a \in AIDs : \/ SignedRequest(a) \/ OnCurrentKey(a) \/ ReadKEL(a) \/ PublishKeySet(a)
                     \/ Answered(a) \/ NoticeFor(a)
  \/ BeginServing \/ EndQuarantine \/ Drain \/ Serve
  \/ /\ \E a \in AIDs : LeaveHub(a) \/ \E h \in KELs : Register(a, h) \/ Push(a, h)
     /\ db'.n <= MaxN

ProcessStep(p) ==
  SyncCount(p) \/ SyncRead(p) \/ SyncWrite(p) \/ OpenRead(p) \/ OpenCount(p) \/ Begin(p) \/ OpenFile(p) \/ Stop(p)

OperatorStep ==
  \/ db.n < MaxN /\ \E a \in AIDs : Revoke(a)
  \/ TakeCopy \/ RollBack \/ Restore \/ Damage \/ RotateHub

HistoriesNext == HubStep \/ OperatorStep \/ Tick \/ \E p \in Processes : ProcessStep(p)

HistoriesSpec == HistoriesInit /\ [][HistoriesNext]_historyVars

-----------------------------------------------------------------------------
(* Properties.                                                             *)

\* Since the database went back and the hub could tell, it states nothing about an agent,
\* in the cache or in the directory, until the agent brought a longer history or signed
\* with the key held once the wait was over (H-20): through restarts, crashes at any step,
\* agents that leave and come back, and further rollbacks.
HeldSaysNothing ==
  Up => \A a \in held : /\ db.notice[a] = None
                        /\ db.dir[a] # None => db.dir[a].notice = None

\* A hub that serves carries in a directory entry the history, the key set and the notice
\* it holds, and only notices of its own current key; entries are missing only between the
\* start of a quarantine and the hub's first round (refreshDirTx, ForgetNoticesOfAnotherKey).
ServesWhatItHolds ==
  Up => \A a \in AIDs :
    /\ db.notice[a] # None => db.notice[a].by = key /\ db.notice[a].tip = db.reg[a]
    /\ db.reg[a] = None => db.notice[a] = None /\ db.dir[a] = None
    /\ \/ db.reg[a] = None \/ db.dir[a] = EntryOf(db, a)
       \/ db.dir[a] = None /\ db.quar # None /\ db.quar.serving = None

Begun == [why |-> "rollback", serving |-> None]

\* No process begins a rollback quarantine unless an older copy was put in place or the
\* file was damaged: not a change another process commits while this one opens the
\* database, nor one whose count a crash kept from the file (checkKELHighWater).
NoQuarantineUndue ==
  [][db.quar # Begun /\ db'.quar = Begun
       => replaced \/ replaced' \/ file = Unreadable \/ \E p \in Processes : proc[p].seen = Unreadable]_historyVars

\* A key set held is a statement of the current key only (aghub.go:842).
KeysOfCurrentKey == \A a \in AIDs : db.reg[a] # None /\ db.keys[a] # None => db.keys[a] = db.reg[a]

\* kel_hwm is never lowered (restore.go:506).
FileNeverLowered == [][{file, file'} \subseteq Nat => file' >= file]_historyVars

\* The tables and what is served from them agree.
HistoriesSound == HistoriesTypeOK /\ ServesWhatItHolds
============================================================================
