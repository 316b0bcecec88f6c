------------------------------- MODULE Members -------------------------------
(***************************************************************************)
(* Who is registered at a hub (internal/aghub: admission.go, server.go     *)
(* hRegister, aghub.go putAgent, deregister.go, session.go).               *)
(*                                                                         *)
(* A newcomer comes in through the operator's list, a sign-up window or    *)
(* open registration; its account is on probation, earns a trial credit,   *)
(* and leaves on its own, by a dip, by the sweep of inactive accounts, or  *)
(* when the operator revokes it from another process.  First-contact       *)
(* sessions live in the hub process alone and must end with the            *)
(* registration or the key they were opened under.                         *)
(*                                                                         *)
(* A request is a record with a phase: every action is one database access *)
(* or one critical section of the process's memory.  Days are the unit of  *)
(* time.  A key history is its length: histories that fork are refused     *)
(* before they get here (module Histories).                             *)
(***************************************************************************)
EXTENDS Integers, Sequences, FiniteSets

CONSTANTS
  Agents,
  Slots,               \* bound of the model: requests in flight at once
  Levels, LevelsOf,    \* the network levels, and those of the client of each slot
  SignupMax,           \* signupQuota: open registrations a day, per level
  TrialMax,            \* trialBudget: trial credits a day, per level
  TrialHub,            \* trialBudgetHub: trial credits a day of the whole hub
  TrialCredits, Grant, \* the trial credit, and the grant an operator may give
  ProbationPeriod, InactiveAfter,   \* in days
  WindowMax,           \* the places of a sign-up window
  MaxSessions,         \* MaxSessionsPerAID
  MaxOpens,            \* MaxSessionOpensPerHour
  MaxDay, MaxWindows, MaxHistory, MaxLeaves   \* bounds of the model

ASSUME MembersAssumption ==
  /\ IsFiniteSet(Slots) /\ LevelsOf \in [Slots -> SUBSET Levels]
  /\ SignupMax \in [Levels -> Nat] /\ TrialMax \in [Levels -> Nat] /\ TrialHub \in Nat
  /\ TrialCredits \in Nat \ {0, 1} /\ Grant \in Nat \ {0}
  /\ ProbationPeriod \in Nat \ {0} /\ InactiveAfter \in Nat \ {0}
  /\ WindowMax \in Nat \ {0} /\ MaxSessions \in Nat \ {0} /\ MaxOpens \in Nat \ {0}
  /\ MaxDay \in Nat /\ MaxWindows \in Nat /\ MaxHistory \in Nat /\ MaxLeaves \in Nat

VARIABLES
  day,        \* the hub's clock, in days
  mode,       \* hub_meta admission_mode
  admitted,   \* the admission list: [on, grant, granted] of each AID
  windows,    \* admission_window, by id
  agent,      \* the agent table
  departed,   \* departed_kel: the tombstone's length, 0 for none
  balance,    \* credit_balance
  reviewed,   \* the AIDs with a row in review or fed_review
  events,     \* dereg_event: the stamp of the AID's row, 0 for none
  left,       \* how often each AID was deregistered (the stamp of its last event)
  lost,       \* the AIDs whose last event was deleted before any callback heard of it
  gate,       \* admissionGate: the process's counters
  today,      \* what of gate's counters is paid or registered, not just reserved,
              \*   and whether the gate has gone back to an earlier day
  sessions,   \* sessionTable.byAID, oldest first
  opens,      \* sessionTable.opens: how many openings of the last hour
  after,      \* afterDereg calls not finished
  changed,    \* AIDs whose OnKELExtended callbacks have not run yet
  drain,      \* drainDeregEvents: the events it read and has not done with
  sweep,      \* SweepInactive: the accounts listed and not yet done, and its cutoff
  call        \* call[s]: the request in slot s

accountVars == <<admitted, agent, departed, balance, reviewed>>
eventVars == <<events, left, lost, after, changed, drain>>
sessionVars == <<sessions, opens>>
vars == <<day, mode, windows, accountVars, gate, today, eventVars, sessionVars, sweep, call>>

-----------------------------------------------------------------------------
(* Types. *)

Days == 0..MaxDay
Via == {"list", "window", "open", "registered"}

\* No row.  since is registered_at, until is probation_until.
Nobody == [in |-> FALSE, kel |-> 0, via |-> "list", since |-> 0, until |-> 0, trial |-> "none", seen |-> FALSE]

AgentType ==
  [in: BOOLEAN, kel: 0..MaxHistory, via: Via, since: Days, until: Nat,
   trial: {"none", "pending", "granted"}, seen: BOOLEAN]

NotListed == [on |-> FALSE, grant |-> 0, granted |-> FALSE]

Idle == [pc |-> "idle"]

\* via, kel and win are what the request found, on is the day it read when it
\* came; held is its gateHold, and key the day key of the gate it was taken under.
CallType ==
  [pc: {"reserve", "check", "write", "commit", "release", "trial", "pay", "open", "look"},
   aid: Agents, kel: 0..MaxHistory, via: Via, win: 0..MaxWindows, used: 0..WindowMax,
   held: {"none", "signup", "window", "trial"}, on: Days, key: Nat]

Request(pc, a, k, via) ==
  [pc |-> pc, aid |-> a, kel |-> k, via |-> via, win |-> 0, used |-> 0, held |-> "none",
   on |-> day, key |-> 0]

Zero == [l \in Levels |-> 0]

\* by is the request that opened it, new until that is answered.
SessionType == [kel: 0..MaxHistory, by: Slots, new: BOOLEAN]

MembersTypeOK ==
  /\ day \in Days /\ mode \in {"closed", "open"}
  /\ admitted \in [Agents -> [on: BOOLEAN, grant: {0, Grant}, granted: BOOLEAN]]
  /\ windows \in Seq([closes: Days, used: 0..WindowMax]) /\ Len(windows) <= MaxWindows
  /\ agent \in [Agents -> AgentType] /\ departed \in [Agents -> 0..MaxHistory]
  /\ balance \in [Agents -> Nat] /\ reviewed \in SUBSET Agents
  /\ events \in [Agents -> 0..MaxLeaves] /\ left \in [Agents -> 0..MaxLeaves] /\ lost \in SUBSET Agents
  /\ gate \in [day: Days \cup {-1}, key: Nat, signup: [Levels -> Nat], trials: [Levels -> Nat], hub: Nat,
               window: [1..MaxWindows -> Nat]]
  /\ today \in [signup: [Levels -> Nat], trials: [Levels -> Nat], hub: Nat, rewound: BOOLEAN]
  /\ sessions \in [Agents -> Seq(SessionType)] /\ opens \in [Agents -> 0..MaxOpens]
  /\ after \in SUBSET [aid: Agents, stamp: 1..MaxLeaves, pc: {"hooks", "clear"}]
  /\ changed \in SUBSET Agents
  /\ drain \in SUBSET [aid: Agents, stamp: 1..MaxLeaves, pc: {"hooks", "clear"}]
  /\ sweep \in [aids: SUBSET Agents, cutoff: Int]
  /\ call \in [Slots -> CallType \cup {Idle}]

-----------------------------------------------------------------------------
(* The initial state: a new hub is closed, its list empty. *)

FreshGate == [day |-> -1, key |-> 0, signup |-> Zero, trials |-> Zero, hub |-> 0,
              window |-> [w \in 1..MaxWindows |-> 0]]
NothingYet == [signup |-> Zero, trials |-> Zero, hub |-> 0, rewound |-> FALSE]

MembersInit ==
  /\ day = 0 /\ mode = "closed" /\ windows = <<>>
  /\ admitted = [a \in Agents |-> NotListed]
  /\ agent = [a \in Agents |-> Nobody] /\ departed = [a \in Agents |-> 0]
  /\ balance = [a \in Agents |-> 0] /\ reviewed = {}
  /\ events = [a \in Agents |-> 0] /\ left = [a \in Agents |-> 0] /\ lost = {}
  /\ gate = FreshGate /\ today = NothingYet
  /\ sessions = [a \in Agents |-> <<>>] /\ opens = [a \in Agents |-> 0]
  /\ after = {} /\ changed = {} /\ drain = {} /\ sweep = [aids |-> {}, cutoff |-> 0]
  /\ call = [s \in Slots |-> Idle]

-----------------------------------------------------------------------------
(* The admission list, the mode and the sign-up windows: the operator's     *)
(* commands, in a process of their own beside the hub.                      *)

SetAdmissionMode ==
  /\ mode' \in {"closed", "open"} \ {mode}
  /\ UNCHANGED <<day, windows, accountVars, gate, today, eventVars, sessionVars, sweep, call>>

\* payListGrantTx: the grant on the list, when it is positive and not yet paid.
PaysGrant(row) == row.on /\ row.grant > 0 /\ ~row.granted

\* admitTx: a grant replaces the one on the list until that is paid.  An account
\* registered already is off probation, loses a trial credit that is pending, and
\* is paid its grant now.
Admit(a, grant) ==
  LET had == admitted[a]
      row == [on |-> TRUE, granted |-> had.granted,
              grant |-> IF grant > 0 /\ ~had.granted THEN grant ELSE had.grant]
      pays == agent[a].in /\ PaysGrant(row)
  IN  /\ admitted' = [admitted EXCEPT ![a] = [row EXCEPT !.granted = row.granted \/ pays]]
      /\ balance' = [balance EXCEPT ![a] = @ + IF pays THEN row.grant ELSE 0]
      /\ agent' = [agent EXCEPT ![a] =
           IF ~agent[a].in THEN agent[a]
           ELSE [agent[a] EXCEPT !.via = "list", !.until = IF @ > day THEN day ELSE @,
                   !.trial = IF agent[a].trial = "pending" THEN "none" ELSE agent[a].trial]]
      /\ UNCHANGED <<day, mode, windows, departed, reviewed, gate, today, eventVars,
                     sessionVars, sweep, call>>

IsOpen(w) == windows[w].closes > day

\* One window at a time (OpenWindow).
OpenWindow(closes) ==
  /\ Len(windows) < MaxWindows /\ closes > day
  /\ \A w \in DOMAIN windows : ~IsOpen(w)
  /\ windows' = Append(windows, [closes |-> closes, used |-> 0])
  /\ UNCHANGED <<day, mode, accountVars, gate, today, eventVars, sessionVars, sweep, call>>

CloseWindow ==
  \E w \in DOMAIN windows :
    /\ IsOpen(w)
    /\ windows' = [windows EXCEPT ![w].closes = day]
    /\ UNCHANGED <<day, mode, accountVars, gate, today, eventVars, sessionVars, sweep, call>>

-----------------------------------------------------------------------------
(* Registration (hRegister, PAY-A1).  A request that is refused before it   *)
(* holds anything leaves no trace and is not a step.                        *)

\* Mutant: the counters start again at every call.
Rolled_Always(d) ==
  [gate EXCEPT !.day = d, !.key = gate.key + 1, !.signup = Zero, !.trials = Zero, !.hub = 0]

\* rollDay: any other day than the gate's starts new counters under a new day
\* key, also an earlier one, which a request brings that read its day before
\* midnight and reaches the gate after a request of the new day.  The counters
\* of a network are found by the day key, and none is found by an older one.
Rolled(d) ==
  IF gate.day = d THEN gate
  ELSE [gate EXCEPT !.day = d, !.key = gate.key + 1, !.signup = Zero, !.trials = Zero, !.hub = 0]

TodayRolled(d) ==
  IF gate.day = d THEN today ELSE [NothingYet EXCEPT !.rewound = today.rewound \/ d < gate.day]

Take(count, levels) == [l \in Levels |-> IF l \in levels THEN count[l] + 1 ELSE count[l]]
Give(count, levels) == [l \in Levels |-> IF l \in levels THEN count[l] - 1 ELSE count[l]]

\* Steps 1 to 4: a registered AID passes; the list passes; open registration and an
\* open window that is not full pass with a proof of work and reserve a place next.
\* The window's used column is read here and compared when the place is taken.
StartRegister(s, a, k) ==
  /\ call[s] = Idle /\ k > 0
  /\ \/ agent[a].in /\ call' = [call EXCEPT ![s] = Request("check", a, k, "registered")]
     \/ ~agent[a].in /\ admitted[a].on /\ call' = [call EXCEPT ![s] = Request("check", a, k, "list")]
     \/ ~agent[a].in /\ ~admitted[a].on /\ mode = "open"
          /\ call' = [call EXCEPT ![s] = Request("reserve", a, k, "open")]
     \/ \E w \in DOMAIN windows :
          /\ ~agent[a].in /\ ~admitted[a].on /\ mode = "closed"
          /\ IsOpen(w) /\ windows[w].used < WindowMax
          /\ call' = [call EXCEPT ![s] = [Request("reserve", a, k, "window")
                                            EXCEPT !.win = w, !.used = windows[w].used]]
  /\ UNCHANGED <<day, mode, windows, accountVars, gate, today, eventVars, sessionVars, sweep>>

\* reserveSignup takes a place at every level of the client's network, or none.
ReserveSignup(s) ==
  LET g == Rolled(call[s].on)
      full == \E l \in LevelsOf[s] : g.signup[l] >= SignupMax[l]
  IN  /\ call[s] # Idle /\ call[s].pc = "reserve" /\ call[s].via = "open"
      /\ gate' = IF full THEN g ELSE [g EXCEPT !.signup = Take(g.signup, LevelsOf[s])]
      /\ call' = [call EXCEPT ![s] =
           IF full THEN Idle ELSE [call[s] EXCEPT !.pc = "check", !.held = "signup", !.key = g.key]]
      /\ today' = TodayRolled(call[s].on)
      /\ UNCHANGED <<day, mode, windows, accountVars, eventVars, sessionVars, sweep>>

\* reserveWindow counts the places of registrations in progress on top of the used
\* column as the request read it.
ReserveWindow(s) ==
  /\ call[s] # Idle /\ call[s].pc = "reserve" /\ call[s].via = "window"
  /\ LET w == call[s].win
         full == call[s].used + gate.window[w] >= WindowMax
     IN  /\ gate' = IF full THEN gate ELSE [gate EXCEPT !.window[w] = @ + 1]
         /\ call' = [call EXCEPT ![s] =
              IF full THEN Idle ELSE [call[s] EXCEPT !.pc = "check", !.held = "window"]]
  /\ UNCHANGED <<day, mode, windows, accountVars, today, eventVars, sessionVars, sweep>>

\* knownKEL: the registration's key history, or the tombstone's.
Known(a) == IF agent[a].in THEN agent[a].kel ELSE departed[a]

\* Steps 5 to 9: the key history, the signature, the witness, the key set.  Any of
\* them may refuse; a history shorter than the one held is always refused.
CheckRequest(s) ==
  /\ call[s] # Idle /\ call[s].pc = "check"
  /\ \/ call[s].kel >= Known(call[s].aid) /\ call' = [call EXCEPT ![s].pc = "write"]
     \/ call' = [call EXCEPT ![s].pc = "release"]
  /\ UNCHANGED <<day, mode, windows, accountVars, gate, today, eventVars, sessionVars, sweep>>

\* putAgent: a history extends the registration's or the tombstone's.
Extends(c) == c.kel >= Known(c.aid)

\* Mutant: the list is not looked at again.
WayIn_List(c) == c.via = "window" => windows[c.win].used < WindowMax

\* writeAdmissionTx: the way in is still open to a newcomer.
WayIn(c) ==
  /\ c.via = "list" => admitted[c.aid].on
  /\ c.via = "window" => windows[c.win].used < WindowMax

Written(c) == Extends(c) /\ (agent[c.aid].in \/ (c.via # "registered" /\ WayIn(c)))

\* The row a first registration writes; the probation runs from the day that the
\* request read.
Newcomer(c) ==
  [in |-> TRUE, kel |-> c.kel, via |-> c.via, since |-> day, seen |-> FALSE,
   until |-> IF c.via = "list" THEN 0 ELSE c.on + ProbationPeriod,
   trial |-> IF c.via = "list" THEN "none" ELSE "pending"]

\* Step 10, one transaction.  A row that exists is updated and nothing of admission
\* is written: the request's place goes back.
WriteRegistration(s) ==
  LET c == call[s]
      a == c.aid
      new == ~agent[a].in
      pays == new /\ c.via = "list" /\ PaysGrant(admitted[a])
  IN  /\ c # Idle /\ c.pc = "write" /\ Written(c)
      /\ agent' = [agent EXCEPT ![a] = IF new THEN Newcomer(c) ELSE [agent[a] EXCEPT !.kel = c.kel]]
      /\ windows' = IF new /\ c.via = "window" THEN [windows EXCEPT ![c.win].used = @ + 1] ELSE windows
      /\ admitted' = [admitted EXCEPT ![a].granted = admitted[a].granted \/ pays]
      /\ balance' = [balance EXCEPT ![a] = @ + IF pays THEN admitted[a].grant ELSE 0]
      /\ changed' = IF ~new /\ c.kel # agent[a].kel THEN changed \cup {a} ELSE changed
      /\ call' = [call EXCEPT ![s].pc = IF new THEN "commit" ELSE "release"]
      /\ UNCHANGED <<day, mode, departed, reviewed, gate, today, events, left, lost, after, drain,
                     sessionVars, sweep>>

\* The transaction refuses, or the database fails.
WriteRefused(s) ==
  /\ call[s] # Idle /\ call[s].pc = "write"
  /\ call' = [call EXCEPT ![s].pc = "release"]
  /\ UNCHANGED <<day, mode, windows, accountVars, gate, today, eventVars, sessionVars, sweep>>

\* committed: the used column holds a window's place now; a network's place stays taken.
CommitPlace(s) ==
  LET c == call[s]
      counts == c.held = "signup" /\ c.key = gate.key
  IN  /\ c # Idle /\ c.pc = "commit"
      /\ gate' = IF c.held = "window" THEN [gate EXCEPT !.window[c.win] = @ - 1] ELSE gate
      /\ today' = IF counts THEN [today EXCEPT !.signup = Take(today.signup, LevelsOf[s])] ELSE today
      /\ call' = [call EXCEPT ![s] = Idle]
      /\ UNCHANGED <<day, mode, windows, accountVars, eventVars, sessionVars, sweep>>

\* Mutant: yesterday's places are given back today.
OfToday_Any(c) == TRUE

OfToday(c) == c.on = gate.day

\* release: a day's counters are given back on that day only, a window place always.
\* A network's counters of an older day key are not found any more; the hub's goes
\* down all the same.
ReleasePlace(s) ==
  LET c == call[s]
      found == c.key = gate.key
  IN  /\ c # Idle /\ c.pc = "release"
      /\ gate' = CASE c.held = "window" -> [gate EXCEPT !.window[c.win] = @ - 1]
                   [] c.held = "signup" /\ OfToday(c) /\ found ->
                        [gate EXCEPT !.signup = Give(gate.signup, LevelsOf[s])]
                   [] c.held = "trial" /\ OfToday(c) ->
                        [gate EXCEPT !.trials = IF found THEN Give(gate.trials, LevelsOf[s]) ELSE @,
                                     !.hub = IF @ > 0 THEN @ - 1 ELSE 0]
                   [] OTHER -> gate
      /\ call' = [call EXCEPT ![s] = Idle]
      /\ UNCHANGED <<day, mode, windows, accountVars, today, eventVars, sessionVars, sweep>>

-----------------------------------------------------------------------------
(* The trial credit (maybeGrantTrial), after any signed request of an       *)
(* account: looked at, reserved from the day's budget, paid.                *)

TrialDue(a, d) == agent[a].in /\ agent[a].trial = "pending" /\ agent[a].until <= d

LookAtTrial(s, a) ==
  /\ call[s] = Idle /\ TrialDue(a, day)
  /\ call' = [call EXCEPT ![s] = Request("trial", a, 0, "registered")]
  /\ UNCHANGED <<day, mode, windows, accountVars, gate, today, eventVars, sessionVars, sweep>>

\* reserveTrial, under the day that the look read.
ReserveTrial(s) ==
  LET g == Rolled(call[s].on)
      spent == g.hub >= TrialHub \/ \E l \in LevelsOf[s] : g.trials[l] >= TrialMax[l]
  IN  /\ call[s] # Idle /\ call[s].pc = "trial"
      /\ gate' = IF spent THEN g ELSE [g EXCEPT !.trials = Take(g.trials, LevelsOf[s]), !.hub = @ + 1]
      /\ call' = [call EXCEPT ![s] =
           IF spent THEN Idle ELSE [call[s] EXCEPT !.pc = "pay", !.held = "trial", !.key = g.key]]
      /\ today' = TodayRolled(call[s].on)
      /\ UNCHANGED <<day, mode, windows, accountVars, eventVars, sessionVars, sweep>>

\* Mutant: the transaction trusts the look before it.
StillDue_Read(c) == agent[c.aid].in

StillDue(c) == TrialDue(c.aid, c.on)

\* The transaction looks again: pending, and the probation over.
PayTrial(s) ==
  LET c == call[s]
      a == c.aid
  IN  /\ c # Idle /\ c.pc = "pay" /\ StillDue(c)
      /\ agent' = [agent EXCEPT ![a].trial = "granted"]
      /\ balance' = [balance EXCEPT ![a] = @ + TrialCredits]
      /\ today' = IF c.key = gate.key
                  THEN [today EXCEPT !.trials = Take(today.trials, LevelsOf[s]), !.hub = @ + 1]
                  ELSE today
      /\ call' = [call EXCEPT ![s] = Idle]
      /\ UNCHANGED <<day, mode, windows, admitted, departed, reviewed, gate, eventVars, sessionVars, sweep>>

\* It is not due any more, or the database fails: the reservation goes back.
TrialNotPaid(s) ==
  /\ call[s] # Idle /\ call[s].pc = "pay"
  /\ call' = [call EXCEPT ![s].pc = "release"]
  /\ UNCHANGED <<day, mode, windows, accountVars, gate, today, eventVars, sessionVars, sweep>>

-----------------------------------------------------------------------------
(* First-contact sessions (hRelaySession): the signature is checked against  *)
(* the key history stored, the session recorded in memory, and the           *)
(* registration looked at again.                                             *)

AuthSession(s, a) ==
  /\ call[s] = Idle /\ agent[a].in /\ opens[a] < MaxOpens
  /\ call' = [call EXCEPT ![s] = Request("open", a, agent[a].kel, "registered")]
  /\ UNCHANGED <<day, mode, windows, accountVars, gate, today, eventVars, sessionVars, sweep>>

\* The oldest sessions end when the agent holds MaxSessions.
Newest(held) == SubSeq(held, Len(held) - MaxSessions + 2, Len(held))
Room(held) == IF Len(held) < MaxSessions THEN held ELSE Newest(held)

\* open: refused when the hour's openings were used up meanwhile.
OpenSession(s) ==
  LET c == call[s]
      refused == opens[c.aid] >= MaxOpens
  IN  /\ c # Idle /\ c.pc = "open"
      /\ sessions' = IF refused THEN sessions
                     ELSE [sessions EXCEPT ![c.aid] =
                             Append(Room(sessions[c.aid]), [kel |-> c.kel, by |-> s, new |-> TRUE])]
      /\ opens' = IF refused THEN opens ELSE [opens EXCEPT ![c.aid] = @ + 1]
      /\ call' = [call EXCEPT ![s] = IF refused THEN Idle ELSE [c EXCEPT !.pc = "look"]]
      /\ UNCHANGED <<day, mode, windows, accountVars, gate, today, eventVars, sweep>>

Mine(s, x) == x.new /\ x.by = s

Without(held, i) == [j \in 1..(Len(held) - 1) |-> IF j < i THEN held[j] ELSE held[j + 1]]

\* cancel ends the session, when it is still there, and does not count the opening.
Cancelled(s, a) ==
  /\ \/ /\ \A i \in DOMAIN sessions[a] : ~Mine(s, sessions[a][i])
        /\ UNCHANGED sessions
     \/ \E i \in DOMAIN sessions[a] :
          /\ Mine(s, sessions[a][i])
          /\ sessions' = [sessions EXCEPT ![a] = Without(sessions[a], i)]
  /\ opens' = [opens EXCEPT ![a] = @ - 1]

Answered(s, a) ==
  /\ sessions' = [sessions EXCEPT ![a] =
       [i \in DOMAIN sessions[a] |->
          IF Mine(s, sessions[a][i]) THEN [sessions[a][i] EXCEPT !.new = FALSE] ELSE sessions[a][i]]]
  /\ UNCHANGED opens

\* Mutant: only the registration is looked at again.
StillSigns_Registered(c) == agent[c.aid].in

StillSigns(c) == agent[c.aid].in /\ agent[c.aid].kel = c.kel

\* registeredKEL, once the session exists: the AID left or its key changed, and the
\* session ends at once.
LookAgain(s) ==
  LET c == call[s]
  IN  /\ c # Idle /\ c.pc = "look"
      /\ IF StillSigns(c) THEN Answered(s, c.aid) ELSE Cancelled(s, c.aid)
      /\ call' = [call EXCEPT ![s] = Idle]
      /\ UNCHANGED <<day, mode, windows, accountVars, gate, today, eventVars, sweep>>

\* dropSessions, run by the callbacks.
Dropped(a) == sessions' = [sessions EXCEPT ![a] = <<>>] /\ UNCHANGED opens

\* A key history pushed by its agent (kelpush): the callbacks run after the commit.
PushKEL(a) ==
  /\ agent[a].in /\ agent[a].kel < MaxHistory
  /\ agent' = [agent EXCEPT ![a].kel = @ + 1]
  /\ changed' = changed \cup {a}
  /\ UNCHANGED <<day, mode, windows, admitted, departed, balance, reviewed, gate, today,
                 events, left, lost, after, drain, sessionVars, sweep, call>>

KelHook(a) ==
  /\ a \in changed /\ changed' = changed \ {a} /\ Dropped(a) /\ lost' = lost \ {a}
  /\ UNCHANGED <<day, mode, windows, accountVars, gate, today, events, left, after, drain, sweep, call>>

-----------------------------------------------------------------------------
(* Deregistration (DeregisterTx): the row goes, its key history stays as a   *)
(* tombstone, and dereg_event tells the hub process.                         *)

\* writeTombstone refuses a history that does not extend the tombstone.
Deregistered(a, revoked) ==
  /\ agent[a].in /\ agent[a].kel >= departed[a] /\ left[a] < MaxLeaves
  /\ agent' = [agent EXCEPT ![a] = Nobody]
  /\ departed' = [departed EXCEPT ![a] = agent[a].kel]
  /\ admitted' = IF revoked THEN [admitted EXCEPT ![a] = NotListed] ELSE admitted
  /\ left' = [left EXCEPT ![a] = @ + 1]
  /\ events' = [events EXCEPT ![a] = left[a] + 1]
  /\ UNCHANGED <<balance, reviewed>>

\* Deregister in the hub process (on the agent's request, or by a dip): afterDereg follows.
Leave(a) ==
  /\ Deregistered(a, FALSE)
  /\ after' = after \cup {[aid |-> a, stamp |-> left[a] + 1, pc |-> "hooks"]}
  /\ UNCHANGED <<day, mode, windows, gate, today, lost, changed, drain, sessionVars, sweep, call>>

\* RevokeAdmission, in a process of its own: an AID that is only listed leaves the list.
Revoke(a) ==
  /\ \/ Deregistered(a, TRUE)
     \/ /\ ~agent[a].in /\ admitted[a].on
        /\ admitted' = [admitted EXCEPT ![a] = NotListed]
        /\ UNCHANGED <<agent, departed, balance, reviewed, events, left>>
  /\ UNCHANGED <<day, mode, windows, gate, today, lost, after, changed, drain, sessionVars, sweep, call>>

\* The row of e's AID is of a later departure, which no call or reading of the
\* events knows of.
Unheard(e) ==
  /\ events[e.aid] \notin {0, e.stamp}
  /\ \A f \in after \cup drain : f.aid = e.aid => f.stamp # events[e.aid]

\* afterDereg: the callbacks, then the row of dereg_event goes, whichever it is.
AfterHooks(e) ==
  /\ e \in after /\ e.pc = "hooks" /\ Dropped(e.aid) /\ lost' = lost \ {e.aid}
  /\ after' = (after \ {e}) \cup {[e EXCEPT !.pc = "clear"]}
  /\ UNCHANGED <<day, mode, windows, accountVars, gate, today, events, left, changed, drain, sweep, call>>

AfterClear(e) ==
  /\ e \in after /\ e.pc = "clear"
  /\ after' = after \ {e} /\ events' = [events EXCEPT ![e.aid] = 0]
  /\ lost' = IF Unheard(e) THEN lost \cup {e.aid} ELSE lost
  /\ UNCHANGED <<day, mode, windows, accountVars, gate, today, left, changed, drain, sessionVars, sweep, call>>

\* drainDeregEvents: the rows are read, then each AID's callbacks run and its row goes
\* unless it was written again meanwhile.
ReadEvents ==
  /\ drain = {} /\ \E a \in Agents : events[a] # 0
  /\ drain' = {[aid |-> a, stamp |-> events[a], pc |-> "hooks"] : a \in {b \in Agents : events[b] # 0}}
  /\ UNCHANGED <<day, mode, windows, accountVars, gate, today, events, left, lost, after, changed,
                 sessionVars, sweep, call>>

DrainHooks(e) ==
  /\ e \in drain /\ e.pc = "hooks" /\ Dropped(e.aid) /\ lost' = lost \ {e.aid}
  /\ drain' = (drain \ {e}) \cup {[e EXCEPT !.pc = "clear"]}
  /\ UNCHANGED <<day, mode, windows, accountVars, gate, today, events, left, after, changed, sweep, call>>

\* Mutant: the row goes even when it was written again.
SameEvent_Any(e) == TRUE

SameEvent(e) == events[e.aid] = e.stamp

DrainClear(e) ==
  /\ e \in drain /\ e.pc = "clear"
  /\ drain' = drain \ {e}
  /\ events' = IF SameEvent(e) THEN [events EXCEPT ![e.aid] = 0] ELSE events
  /\ UNCHANGED <<day, mode, windows, accountVars, gate, today, left, lost, after, changed,
                 sessionVars, sweep, call>>

-----------------------------------------------------------------------------
(* The sweep of inactive accounts (SweepInactive).                          *)

Inactive(a, cutoff) ==
  /\ agent[a].in /\ agent[a].since <= cutoff /\ ~agent[a].seen
  /\ balance[a] = 0 /\ a \notin reviewed

SweepScan ==
  LET cutoff == day - InactiveAfter
      found == {a \in Agents : Inactive(a, cutoff)}
  IN  /\ sweep.aids = {} /\ found # {}
      /\ sweep' = [aids |-> found, cutoff |-> cutoff]
      /\ UNCHANGED <<day, mode, windows, accountVars, gate, today, eventVars, sessionVars, call>>

\* Mutant: the transaction trusts the scan.
StillInactive_Scanned(a) == agent[a].in

StillInactive(a) == Inactive(a, sweep.cutoff)

\* sweepOne: looked at again in the transaction that deregisters it.
SweepOne(a) ==
  /\ a \in sweep.aids /\ sweep' = [sweep EXCEPT !.aids = @ \ {a}]
  /\ IF StillInactive(a)
     THEN /\ Deregistered(a, FALSE)
          /\ after' = after \cup {[aid |-> a, stamp |-> left[a] + 1, pc |-> "hooks"]}
     ELSE UNCHANGED <<accountVars, events, left, after>>
  /\ UNCHANGED <<day, mode, windows, gate, today, lost, changed, drain, sessionVars, call>>

\* What keeps an account: its mail was collected, it was paid, it was reviewed.
Poll(a) ==
  /\ agent[a].in /\ ~agent[a].seen /\ agent' = [agent EXCEPT ![a].seen = TRUE]
  /\ UNCHANGED <<day, mode, windows, admitted, departed, balance, reviewed, gate, today,
                 eventVars, sessionVars, sweep, call>>

Earn(a) ==
  /\ balance[a] = 0 /\ balance' = [balance EXCEPT ![a] = 1]
  /\ UNCHANGED <<day, mode, windows, admitted, agent, departed, reviewed, gate, today,
                 eventVars, sessionVars, sweep, call>>

Review(a) ==
  /\ a \notin reviewed /\ reviewed' = reviewed \cup {a}
  /\ UNCHANGED <<day, mode, windows, admitted, agent, departed, balance, gate, today,
                 eventVars, sessionVars, sweep, call>>

-----------------------------------------------------------------------------
(* Time, and the process.                                                   *)

\* A request for a session is over within the hour a session lasts.
NoSessionRequest == \A s \in Slots : call[s] # Idle => call[s].pc \notin {"open", "look"}

\* An hour passes: every session has ended and no opening counts.
Hour ==
  /\ NoSessionRequest /\ \E a \in Agents : opens[a] # 0 \/ sessions[a] # <<>>
  /\ sessions' = [a \in Agents |-> <<>>] /\ opens' = [a \in Agents |-> 0]
  /\ lost' = {}
  /\ UNCHANGED <<day, mode, windows, accountVars, gate, today, events, left, after, changed, drain,
                 sweep, call>>

NextDay ==
  /\ day < MaxDay /\ NoSessionRequest /\ day' = day + 1
  /\ sessions' = [a \in Agents |-> <<>>] /\ opens' = [a \in Agents |-> 0]
  /\ lost' = {}
  /\ UNCHANGED <<mode, windows, accountVars, gate, today, events, left, after, changed, drain, sweep, call>>

\* The process restarts: its memory is gone, and StartDeregWatcher clears dereg_event.
Restart ==
  /\ gate' = FreshGate /\ today' = NothingYet
  /\ sessions' = [a \in Agents |-> <<>>] /\ opens' = [a \in Agents |-> 0]
  /\ call' = [s \in Slots |-> Idle] /\ sweep' = [aids |-> {}, cutoff |-> 0]
  /\ events' = [a \in Agents |-> 0] /\ after' = {} /\ changed' = {} /\ drain' = {} /\ lost' = {}
  /\ UNCHANGED <<day, mode, windows, accountVars, left>>

-----------------------------------------------------------------------------
RequestSteps(s) ==
  \/ ReserveSignup(s) \/ ReserveWindow(s) \/ CheckRequest(s) \/ WriteRegistration(s) \/ WriteRefused(s)
  \/ CommitPlace(s) \/ ReleasePlace(s) \/ ReserveTrial(s) \/ PayTrial(s) \/ TrialNotPaid(s)
  \/ OpenSession(s) \/ LookAgain(s)

MembersNext ==
  \/ SetAdmissionMode \/ CloseWindow \/ \E d \in Days : OpenWindow(d)
  \/ \E a \in Agents, g \in {0, Grant} : Admit(a, g)
  \/ \E s \in Slots, a \in Agents :
       \/ \E k \in 1..MaxHistory : StartRegister(s, a, k)
       \/ LookAtTrial(s, a) \/ AuthSession(s, a)
  \/ \E s \in Slots : RequestSteps(s)
  \/ \E a \in Agents : PushKEL(a) \/ KelHook(a) \/ Leave(a) \/ Revoke(a) \/ SweepOne(a)
                       \/ Poll(a) \/ Earn(a) \/ Review(a)
  \/ \E e \in after : AfterHooks(e) \/ AfterClear(e)
  \/ \E e \in drain : DrainHooks(e) \/ DrainClear(e)
  \/ ReadEvents \/ SweepScan \/ Hour \/ NextDay \/ Restart

\* What the hub process goes on doing once begun: callbacks, and the watcher.
Callbacks ==
  \/ \E a \in Agents : KelHook(a)
  \/ \E e \in after : AfterHooks(e) \/ AfterClear(e)
  \/ \E e \in drain : DrainHooks(e) \/ DrainClear(e)
  \/ ReadEvents

MembersFairness == WF_vars(Callbacks) /\ \A s \in Slots : WF_vars(OpenSession(s) \/ LookAgain(s))

MembersSpec == MembersInit /\ [][MembersNext]_vars

FairMembersSpec == MembersSpec /\ MembersFairness

-----------------------------------------------------------------------------
(* Properties. *)

\* The hub still owes the AID's sessions a drop.
DropOwed(a) ==
  \/ events[a] # 0 \/ a \in changed
  \/ \E e \in after \cup drain : e.aid = a /\ e.pc = "hooks"

Owned(a, x) == agent[a].in /\ agent[a].kel = x.kel

\* A session that was answered belongs to an AID that is registered with the key it
\* was opened under, or the hub still owes it a drop, or afterDereg has deleted the
\* event of another process's departure unheard: whatever left, came back or changed
\* its key between the signature check and the answer (hRelaySession step 6,
\* OnDeregistered, OnKELExtended, dereg_event).
SessionsOwned ==
  \A a \in Agents : \A i \in DOMAIN sessions[a] :
    LET x == sessions[a][i] IN x.new \/ Owned(a, x) \/ DropOwed(a) \/ a \in lost

\* What the hub would promise if afterDereg deleted only the event it has run the
\* callbacks for, as drainDeregEvents does; it does not, and this is violated.
SessionsAlwaysOwned ==
  \A a \in Agents : \A i \in DOMAIN sessions[a] :
    LET x == sessions[a][i] IN x.new \/ Owned(a, x) \/ DropOwed(a)

\* A session whose registration or key is gone ends, unless the event that says so
\* was deleted unheard (the callbacks run within a second of another process's
\* commit, PAY-O2).
Orphaned(a) == \E i \in DOMAIN sessions[a] : ~Owned(a, sessions[a][i])
SessionsEnd == \A a \in Agents : Orphaned(a) ~> (~Orphaned(a) \/ a \in lost)

\* The requests that hold a place under the gate's day key.
KeyHolders(held) == {s \in Slots : call[s] # Idle /\ call[s].held = held /\ call[s].key = gate.key}
InFlight(held, l) == Cardinality({s \in KeyHolders(held) : l \in LevelsOf[s]})

\* Every place the gate counts is a registration committed since it took its day
\* key, a trial paid since then or a request that still holds it, through refusals,
\* failures, restarts and midnight, and no level counts more than it has.  The
\* hub's count of trials may fall behind once the gate has gone back to an earlier
\* day, and never runs ahead (admissionGate).
PlacesAccounted ==
  /\ \A l \in Levels :
       /\ gate.signup[l] = today.signup[l] + InFlight("signup", l) /\ gate.signup[l] <= SignupMax[l]
       /\ gate.trials[l] = today.trials[l] + InFlight("trial", l) /\ gate.trials[l] <= TrialMax[l]
  /\ gate.hub <= today.hub + Cardinality(KeyHolders("trial")) /\ gate.hub <= TrialHub
  /\ today.rewound \/ gate.hub = today.hub + Cardinality(KeyHolders("trial"))
  /\ \A w \in 1..MaxWindows :
       gate.window[w] = Cardinality({s \in Slots : /\ call[s] # Idle /\ call[s].held = "window"
                                                   /\ call[s].win = w})

\* A registration appears only for an AID on the list at that moment, with a place
\* of a window taken in the same step, or under a place of the day's open
\* registrations that its request holds (hRegister, writeAdmissionTx).
Entitled(a) ==
  \/ admitted[a].on
  \/ \E w \in DOMAIN windows : windows'[w].used = windows[w].used + 1 /\ windows'[w].used <= WindowMax
  \/ \E s \in Slots : call[s] # Idle /\ call[s].aid = a /\ call[s].held = "signup"
NoEntryUngated == [][\A a \in Agents : ~agent[a].in /\ agent'[a].in => Entitled(a)]_vars

\* A trial credit or a grant is added once for the registration or the listing it
\* belongs to, the trial after the probation, whatever two requests and the
\* operator do between the look, the reservation and the payment (maybeGrantTrial,
\* payListGrantTx).
GiftsPaidOnce ==
  [][\A a \in Agents : balance'[a] >= balance[a] + TrialCredits =>
       \/ TrialDue(a, day) /\ agent'[a].trial = "granted"
       \/ ~admitted[a].granted /\ admitted'[a].granted]_vars

\* The sweep takes no account that collected mail, was paid or was reviewed between
\* its scan and the deregistration (sweepOne).
Used(a) == agent[a].seen \/ balance[a] # 0 \/ a \in reviewed
SweepSparesUsed ==
  [][\A a \in Agents : sweep'.aids # sweep.aids /\ left'[a] # left[a] => ~Used(a)]_vars

\* The longest key history the hub accepted for an AID is never shortened, by no
\* sequence of registering, leaving, being revoked and registering again
\* (writeTombstone, knownKEL, putAgent).
HistoryOnlyGrows == [][\A a \in Agents : Known(a)' >= Known(a)]_vars

\* The gate's books: what its counters stand for.
MembersSound == MembersTypeOK /\ PlacesAccounted

\* An AID comes in through the gate, and brings the history it left with or a
\* longer one.
EntersByTheRules == NoEntryUngated /\ HistoryOnlyGrows
=============================================================================
