---------------------------- MODULE MembersProofs ----------------------------
(***************************************************************************)
(* Proofs about who is registered at a hub: that the gate's counters stand  *)
(* for places taken and held, that nobody comes in past the gate or with a  *)
(* shorter history, that gifts are paid once, that the sweep spares who is  *)
(* active, and that an answered session belongs to a registration.          *)
(*                                                                         *)
(* The counters need to know what a request holds at each of its phases,    *)
(* and that a place was taken under the gate's day key or an earlier one    *)
(* (HoldsInv).  The sessions need two facts about departures: once the      *)
(* callbacks of the last one have run, only its row keeps a drop owed, so   *)
(* every session left is owned or owed for another reason (ClearedInv), for *)
(* the process's own departures and for those the watcher read; and a       *)
(* session not yet answered is of the request that will look again (NewInv).*)
(***************************************************************************)
EXTENDS Members, SequenceTheorems, FiniteSetTheorems, TLAPS

Phases == {"reserve", "check", "write", "commit", "release", "trial", "pay", "open", "look"}
Window == [closes: Days, used: 0..WindowMax]
Departure == [aid: Agents, stamp: 1..MaxLeaves, pc: {"hooks", "clear"}]

ClockTypes == /\ day \in Days /\ mode \in {"closed", "open"}
              /\ windows \in Seq(Window) /\ Len(windows) <= MaxWindows
AccountTypes ==
  /\ admitted \in [Agents -> [on: BOOLEAN, grant: {0, Grant}, granted: BOOLEAN]]
  /\ agent \in [Agents -> AgentType] /\ departed \in [Agents -> 0..MaxHistory]
  /\ balance \in [Agents -> Nat] /\ reviewed \in SUBSET Agents
GateType == [day: Days \cup {-1}, key: Nat, signup: [Levels -> Nat], trials: [Levels -> Nat], hub: Nat,
             window: [1..MaxWindows -> Nat]]
TodayType == [signup: [Levels -> Nat], trials: [Levels -> Nat], hub: Nat, rewound: BOOLEAN]
GateTypes == gate \in GateType /\ today \in TodayType
EventTypes ==
  /\ events \in [Agents -> 0..MaxLeaves] /\ left \in [Agents -> 0..MaxLeaves] /\ lost \in SUBSET Agents
  /\ after \in SUBSET Departure /\ changed \in SUBSET Agents /\ drain \in SUBSET Departure
SessionTypes == sessions \in [Agents -> Seq(SessionType)] /\ opens \in [Agents -> 0..MaxOpens]
CallTypes == sweep \in [aids: SUBSET Agents, cutoff: Int] /\ call \in [Slots -> CallType \cup {Idle}]

\* The requests that opened a session of a and will look again.
Looking(a) == {s \in Slots : call[s] # Idle /\ call[s].pc = "look" /\ call[s].aid = a}
LooksInv == \A a \in Agents : Cardinality(Looking(a)) <= opens[a]

\* What a request c holds in each phase, when there are n windows.
Holding(c, n) ==
  /\ c.pc \in {"reserve", "trial", "open", "look"} => c.held = "none"
  /\ c.pc \in {"check", "write", "commit"} =>
       /\ c.via = "open" => c.held = "signup"
       /\ c.via = "window" => c.held = "window"
       /\ c.via \in {"list", "registered"} => c.held = "none"
  /\ c.pc = "pay" => c.held = "trial"
  /\ c.held = "window" => c.via = "window"
  /\ c.via = "window" => c.win \in 1..n

\* A place of a network under the key of the gate g is of the gate's day; and until
\* the gate goes back to an earlier day (t.rewound), a place of its day is under its
\* key, and no place is of a later day.
Placed(c, g, t, now) ==
  /\ c.on <= now /\ c.key <= g.key
  /\ c.held \in {"signup", "trial"} =>
       /\ c.key = g.key => c.on = g.day
       /\ t.rewound \/ (c.on <= g.day /\ (c.on = g.day => c.key = g.key))

HoldsInv ==
  /\ gate.day <= day
  /\ \A s \in Slots : call[s] # Idle =>
       Holding(call[s], Len(windows)) /\ Placed(call[s], gate, today, day)

GateInv == MembersTypeOK /\ HoldsInv /\ PlacesAccounted /\ LooksInv

-----------------------------------------------------------------------------
(* Types.                                                                   *)

LEMMA TypeParts ==
  MembersTypeOK <=> /\ ClockTypes /\ AccountTypes /\ GateTypes /\ EventTypes /\ SessionTypes /\ CallTypes
BY DEF MembersTypeOK, ClockTypes, AccountTypes, GateTypes, EventTypes, SessionTypes, CallTypes,
       Window, Departure, GateType, TodayType

\* The fields of a request.
LEMMA CallFields ==
  ASSUME CallTypes, NEW s \in Slots, call[s] # Idle
  PROVE  /\ call[s] \in CallType
         /\ call[s].pc \in Phases /\ call[s].aid \in Agents /\ call[s].kel \in 0..MaxHistory
         /\ call[s].via \in Via /\ call[s].win \in 0..MaxWindows /\ call[s].used \in 0..WindowMax
         /\ call[s].held \in {"none", "signup", "window", "trial"}
         /\ call[s].on \in Days /\ call[s].key \in Nat
<1>1. call[s] \in CallType
  BY DEF CallTypes
<1> QED BY <1>1 DEF CallType, Phases

\* What a new request is.
LEMMA RequestFields ==
  ASSUME ClockTypes, NEW pc \in Phases, NEW a \in Agents, NEW k \in 0..MaxHistory, NEW via \in Via
  PROVE  /\ Request(pc, a, k, via) \in CallType /\ Request(pc, a, k, via) # Idle
         /\ Request(pc, a, k, via).pc = pc /\ Request(pc, a, k, via).aid = a
         /\ Request(pc, a, k, via).kel = k /\ Request(pc, a, k, via).via = via
         /\ Request(pc, a, k, via).win = 0 /\ Request(pc, a, k, via).held = "none"
         /\ Request(pc, a, k, via).on = day /\ Request(pc, a, k, via).key = 0
<1>1. Request(pc, a, k, via) \in CallType
  BY MembersAssumption DEF Request, CallType, Phases, ClockTypes
<1>2. Request(pc, a, k, via) # Idle
  BY DEF Request, Idle
<1> QED BY <1>1, <1>2 DEF Request

LEMMA ClockStep ==
  ASSUME ClockTypes, CallTypes, HoldsInv, MembersNext
  PROVE  ClockTypes'
<1>w. windows \in Seq(Window) /\ Len(windows) \in Nat /\ DOMAIN windows = 1..Len(windows)
      /\ \A w \in 1..Len(windows) : windows[w] \in Window
  BY LenProperties, ElementOfSeq DEF ClockTypes
<1>d. day \in Nat /\ MaxDay \in Nat /\ MaxWindows \in Nat /\ WindowMax \in Nat
  BY MembersAssumption DEF ClockTypes, Days
<1>1. CASE SetAdmissionMode
  BY <1>1 DEF SetAdmissionMode, ClockTypes
<1>2. ASSUME NEW d \in Days, OpenWindow(d) PROVE ClockTypes'
  <2>1. [closes |-> d, used |-> 0] \in Window
    BY <1>d DEF Window
  <2>2. windows' \in Seq(Window) /\ Len(windows') = Len(windows) + 1
    BY <1>2, <1>w, <2>1, AppendProperties DEF OpenWindow
  <2> QED BY <1>2, <1>w, <1>d, <2>2 DEF OpenWindow, ClockTypes
<1>3. CASE CloseWindow
  <2>1. PICK w \in 1..Len(windows) : windows' = [windows EXCEPT ![w].closes = day]
    BY <1>3, <1>w DEF CloseWindow
  <2>2. windows' = [windows EXCEPT ![w] = [windows[w] EXCEPT !.closes = day]]
    BY <2>1
  <2>3. [windows[w] EXCEPT !.closes = day] \in Window
    BY <1>w DEF ClockTypes, Window
  <2>4. windows' \in Seq(Window) /\ Len(windows') = Len(windows)
    BY <1>w, <2>2, <2>3, ExceptSeq
  <2> QED BY <1>3, <2>4 DEF CloseWindow, ClockTypes
<1>4. ASSUME NEW s \in Slots, WriteRegistration(s) PROVE ClockTypes'
  <2> DEFINE c == call[s]
  <2>1. CASE windows' = windows
    BY <1>4, <2>1 DEF WriteRegistration, ClockTypes
  <2>2. CASE windows' # windows
    <3>1. /\ c # Idle /\ c.pc = "write" /\ c.via = "window" /\ windows[c.win].used < WindowMax
          /\ windows' = [windows EXCEPT ![c.win].used = @ + 1]
      BY <1>4, <2>2 DEF WriteRegistration, Written, WayIn
    <3>2. c.win \in 1..Len(windows)
      BY <3>1 DEF HoldsInv, Holding
    <3>3. windows' = [windows EXCEPT ![c.win] = [windows[c.win] EXCEPT !.used = windows[c.win].used + 1]]
      BY <3>1
    <3>4. windows[c.win] \in Window /\ windows[c.win].used \in 0..WindowMax
      BY <1>w, <3>2 DEF Window
    <3>5. windows[c.win].used + 1 \in 0..WindowMax
      BY <3>1, <3>4, <1>d
    <3>6. [windows[c.win] EXCEPT !.used = windows[c.win].used + 1] \in Window
      BY <3>4, <3>5 DEF Window
    <3>7. windows' \in Seq(Window) /\ Len(windows') = Len(windows)
      BY <1>w, <3>2, <3>3, <3>6, ExceptSeq
    <3> QED BY <1>4, <3>7 DEF WriteRegistration, ClockTypes
  <2> QED BY <2>1, <2>2
<1>5. CASE NextDay
  BY <1>5, <1>d DEF NextDay, ClockTypes, Days
<1>6. ASSUME UNCHANGED <<day, mode, windows>> PROVE ClockTypes'
  BY <1>6 DEF ClockTypes
<1>7. ASSUME NEW s \in Slots, RequestSteps(s), ~WriteRegistration(s) PROVE UNCHANGED <<day, mode, windows>>
  BY <1>7 DEF RequestSteps, ReserveSignup, ReserveWindow, CheckRequest, WriteRefused, CommitPlace,
     ReleasePlace, ReserveTrial, PayTrial, TrialNotPaid, OpenSession, LookAgain
<1>8. ASSUME NEW a \in Agents,
             \/ PushKEL(a) \/ KelHook(a) \/ Leave(a) \/ Revoke(a) \/ SweepOne(a) \/ Poll(a) \/ Earn(a) \/ Review(a)
      PROVE UNCHANGED <<day, mode, windows>>
  BY <1>8 DEF PushKEL, KelHook, Leave, Revoke, SweepOne, Poll, Earn, Review
<1>9. ASSUME NEW e, AfterHooks(e) \/ AfterClear(e) \/ DrainHooks(e) \/ DrainClear(e)
      PROVE UNCHANGED <<day, mode, windows>>
  BY <1>9 DEF AfterHooks, AfterClear, DrainHooks, DrainClear
<1>10. ASSUME ReadEvents \/ SweepScan \/ Hour \/ Restart PROVE UNCHANGED <<day, mode, windows>>
  BY <1>10 DEF ReadEvents, SweepScan, Hour, Restart
<1>11. ASSUME NEW s \in Slots, NEW a \in Agents,
              \/ \E k \in 1..MaxHistory : StartRegister(s, a, k)
              \/ LookAtTrial(s, a) \/ AuthSession(s, a)
       PROVE UNCHANGED <<day, mode, windows>>
  BY <1>11 DEF StartRegister, LookAtTrial, AuthSession
<1>12. ASSUME NEW a \in Agents, NEW g \in {0, Grant}, Admit(a, g) PROVE UNCHANGED <<day, mode, windows>>
  BY <1>12 DEF Admit
<1> QED
  BY <1>1, <1>2, <1>3, <1>4, <1>5, <1>6, <1>7, <1>8, <1>9, <1>10, <1>11, <1>12 DEF MembersNext

LEMMA AgentForms ==
  ASSUME NEW r \in AgentType
  PROVE  /\ \A k \in 0..MaxHistory : [r EXCEPT !.kel = k] \in AgentType
         /\ \A t \in {"none", "pending", "granted"} :
              /\ [r EXCEPT !.trial = t] \in AgentType
              /\ \A u \in Nat : [r EXCEPT !.via = "list", !.until = u, !.trial = t] \in AgentType
         /\ [r EXCEPT !.seen = TRUE] \in AgentType
         /\ r.kel \in 0..MaxHistory /\ r.trial \in {"none", "pending", "granted"}
         /\ r.since \in Days /\ r.via \in Via /\ r.until \in Nat
BY DEF AgentType, Via

LEMMA NobodyTyped == Nobody \in AgentType /\ NotListed \in [on: BOOLEAN, grant: {0, Grant}, granted: BOOLEAN]
<1>1. 0 \in 0..MaxHistory /\ 0 \in Days
  BY MembersAssumption DEF Days
<1>2. Nobody \in AgentType
  BY <1>1 DEF Nobody, AgentType, Via
<1>3. NotListed \in [on: BOOLEAN, grant: {0, Grant}, granted: BOOLEAN]
  BY DEF NotListed
<1> QED BY <1>2, <1>3

Listing == [on: BOOLEAN, grant: {0, Grant}, granted: BOOLEAN]

LEMMA ListingForms ==
  ASSUME NEW r \in Listing, NEW p \in BOOLEAN
  PROVE  /\ [r EXCEPT !.granted = p] \in Listing
         /\ r.grant \in {0, Grant} /\ r.grant \in Nat /\ r.granted \in BOOLEAN
BY MembersAssumption DEF Listing

\* What a deregistration does to the account tables.
LEMMA DeregisteredTypes ==
  ASSUME AccountTypes, NEW a \in Agents, NEW revoked \in BOOLEAN, Deregistered(a, revoked)
  PROVE  AccountTypes'
<1>1. agent' \in [Agents -> AgentType]
  BY NobodyTyped DEF Deregistered, AccountTypes
<1>2. departed' \in [Agents -> 0..MaxHistory]
  <2>1. agent[a].kel \in 0..MaxHistory
    BY AgentForms DEF AccountTypes
  <2> QED BY <2>1 DEF Deregistered, AccountTypes
<1>3. admitted' \in [Agents -> [on: BOOLEAN, grant: {0, Grant}, granted: BOOLEAN]]
  BY NobodyTyped DEF Deregistered, AccountTypes
<1> QED BY <1>1, <1>2, <1>3 DEF Deregistered, AccountTypes

LEMMA AccountStep ==
  ASSUME ClockTypes, AccountTypes, EventTypes, CallTypes, MembersNext
  PROVE  AccountTypes'
<1>a. /\ \A a \in Agents : agent[a] \in AgentType /\ admitted[a] \in Listing /\ balance[a] \in Nat
      /\ admitted \in [Agents -> Listing]
  BY DEF AccountTypes, Listing
<1>1. ASSUME NEW a \in Agents, NEW g \in {0, Grant}, Admit(a, g) PROVE AccountTypes'
  <2> DEFINE had == admitted[a]
             row == [on |-> TRUE, granted |-> had.granted,
                     grant |-> IF g > 0 /\ ~had.granted THEN g ELSE had.grant]
             pays == agent[a].in /\ PaysGrant(row)
             kept == IF agent[a].trial = "pending" THEN "none" ELSE agent[a].trial
             until == IF agent[a].until > day THEN day ELSE agent[a].until
  <2>1. had.grant \in {0, Grant} /\ had.granted \in BOOLEAN
    BY <1>a, ListingForms
  <2>2. row \in Listing /\ row.grant \in Nat /\ row.granted \in BOOLEAN
    BY <2>1, MembersAssumption DEF Listing
  <2>3. [row EXCEPT !.granted = row.granted \/ pays] \in Listing
    BY <2>2, ListingForms
  <2>4. admitted' \in [Agents -> Listing]
    <3>1. admitted' = [admitted EXCEPT ![a] = [row EXCEPT !.granted = row.granted \/ pays]]
      BY <1>1 DEF Admit
    <3> HIDE DEF row, pays
    <3> QED BY <3>1, <2>3, <1>a
  <2>5. balance' \in [Agents -> Nat]
    <3>1. balance' = [balance EXCEPT ![a] = balance[a] + IF pays THEN row.grant ELSE 0]
      BY <1>1 DEF Admit
    <3> HIDE DEF row, pays
    <3>2. balance[a] + (IF pays THEN row.grant ELSE 0) \in Nat
      BY <1>a, <2>2
    <3> QED BY <3>1, <3>2 DEF AccountTypes
  <2>6. agent' \in [Agents -> AgentType]
    <3>1. [agent[a] EXCEPT !.via = "list", !.until = until, !.trial = kept] \in AgentType
      <4>1. kept \in {"none", "pending", "granted"}
        BY <1>a, AgentForms
      <4>2. until \in Nat
        <5>1. agent[a].until \in Nat
          BY <1>a, AgentForms
        <5>2. day \in Nat
          BY MembersAssumption DEF ClockTypes, Days
        <5> QED BY <5>1, <5>2
      <4> HIDE DEF kept, until
      <4> QED BY <1>a, <4>1, <4>2, AgentForms
    <3>2. agent' = [agent EXCEPT ![a] = IF ~agent[a].in THEN agent[a]
                                         ELSE [agent[a] EXCEPT !.via = "list", !.until = until, !.trial = kept]]
      BY <1>1 DEF Admit
    <3> HIDE DEF kept, until
    <3> QED BY <3>1, <3>2 DEF AccountTypes
  <2> QED BY <1>1, <2>4, <2>5, <2>6 DEF Admit, AccountTypes, Listing
<1>2. ASSUME NEW s \in Slots, WriteRegistration(s) PROVE AccountTypes'
  <2> DEFINE c == call[s]
             a == c.aid
             new == ~agent[a].in
             pays == new /\ c.via = "list" /\ PaysGrant(admitted[a])
  <2>0. c # Idle /\ Written(c)
    BY <1>2 DEF WriteRegistration
  <2>1. c \in CallType /\ a \in Agents /\ c.kel \in 0..MaxHistory /\ c.via \in Via
    BY <2>0, CallFields
  <2>2. Newcomer(c) \in AgentType
    <3>1. (IF c.via = "list" THEN 0 ELSE c.on + ProbationPeriod) \in Nat
      BY <2>0, CallFields, MembersAssumption DEF Days
    <3> QED BY <2>1, <3>1 DEF Newcomer, AgentType, ClockTypes
  <2>3. [agent[a] EXCEPT !.kel = c.kel] \in AgentType
    BY <2>1, <1>a, AgentForms
  <2>4. agent' \in [Agents -> AgentType]
    <3>1. agent' = [agent EXCEPT ![a] = IF new THEN Newcomer(c) ELSE [agent[a] EXCEPT !.kel = c.kel]]
      BY <1>2 DEF WriteRegistration
    <3> QED BY <3>1, <2>2, <2>3 DEF AccountTypes
  <2>5. admitted' \in [Agents -> Listing]
    <3>1. admitted' = [admitted EXCEPT ![a] = [admitted[a] EXCEPT !.granted = admitted[a].granted \/ pays]]
      BY <1>2 DEF WriteRegistration
    <3>2. [admitted[a] EXCEPT !.granted = admitted[a].granted \/ pays] \in Listing
      BY <2>1, <1>a, ListingForms
    <3> HIDE DEF pays
    <3> QED BY <3>1, <3>2, <1>a
  <2>6. balance' \in [Agents -> Nat]
    <3>1. balance' = [balance EXCEPT ![a] = balance[a] + IF pays THEN admitted[a].grant ELSE 0]
      BY <1>2 DEF WriteRegistration
    <3>2. admitted[a].grant \in Nat /\ balance[a] \in Nat
      BY <2>1, <1>a, ListingForms
    <3> HIDE DEF pays
    <3> QED BY <3>1, <3>2, <2>1 DEF AccountTypes
  <2> QED BY <1>2, <2>4, <2>5, <2>6 DEF WriteRegistration, AccountTypes, Listing
<1>3. ASSUME NEW s \in Slots, PayTrial(s) PROVE AccountTypes'
  <2> DEFINE a == call[s].aid
  <2>1. call[s] # Idle /\ a \in Agents
    BY <1>3, CallFields DEF PayTrial
  <2>2. agent' = [agent EXCEPT ![a] = [agent[a] EXCEPT !.trial = "granted"]]
        /\ balance' = [balance EXCEPT ![a] = balance[a] + TrialCredits]
    BY <1>3 DEF PayTrial
  <2>3. [agent[a] EXCEPT !.trial = "granted"] \in AgentType
    BY <2>1, <1>a, AgentForms
  <2>4. balance[a] + TrialCredits \in Nat
    BY <2>1, <1>a, MembersAssumption
  <2> QED BY <1>3, <2>2, <2>3, <2>4 DEF PayTrial, AccountTypes
<1>4. ASSUME NEW a \in Agents, PushKEL(a) PROVE AccountTypes'
  <2>1. agent[a].kel + 1 \in 0..MaxHistory
    <3>1. agent[a].kel \in 0..MaxHistory /\ agent[a].kel < MaxHistory
      BY <1>a, <1>4, AgentForms DEF PushKEL
    <3> QED BY <3>1, MembersAssumption
  <2>2. [agent[a] EXCEPT !.kel = agent[a].kel + 1] \in AgentType
    BY <2>1, <1>a, AgentForms
  <2>3. agent' = [agent EXCEPT ![a] = [agent[a] EXCEPT !.kel = agent[a].kel + 1]]
    BY <1>4 DEF PushKEL
  <2> QED BY <1>4, <2>2, <2>3 DEF PushKEL, AccountTypes
<1>5. ASSUME NEW a \in Agents, Leave(a) \/ Revoke(a) \/ SweepOne(a) PROVE AccountTypes'
  <2>1. \/ \E revoked \in BOOLEAN : Deregistered(a, revoked)
        \/ admitted' = [admitted EXCEPT ![a] = NotListed] /\ UNCHANGED <<agent, departed, balance, reviewed>>
        \/ UNCHANGED accountVars
    BY <1>5 DEF Leave, Revoke, SweepOne
  <2>2. CASE \E revoked \in BOOLEAN : Deregistered(a, revoked)
    BY <2>2, DeregisteredTypes
  <2>3. CASE admitted' = [admitted EXCEPT ![a] = NotListed] /\ UNCHANGED <<agent, departed, balance, reviewed>>
    BY <2>3, NobodyTyped DEF AccountTypes
  <2>4. CASE UNCHANGED accountVars
    BY <2>4 DEF accountVars, AccountTypes
  <2> QED BY <2>1, <2>2, <2>3, <2>4
<1>6. ASSUME NEW a \in Agents, Poll(a) PROVE AccountTypes'
  <2>1. agent' = [agent EXCEPT ![a] = [agent[a] EXCEPT !.seen = TRUE]]
    BY <1>6 DEF Poll
  <2>2. [agent[a] EXCEPT !.seen = TRUE] \in AgentType
    BY <1>a, AgentForms
  <2> QED BY <1>6, <2>1, <2>2 DEF Poll, AccountTypes
<1>7. ASSUME NEW a \in Agents, Earn(a) \/ Review(a) PROVE AccountTypes'
  BY <1>7 DEF Earn, Review, AccountTypes
<1>8. ASSUME UNCHANGED accountVars PROVE AccountTypes'
  BY <1>8 DEF accountVars, AccountTypes
<1>9. ASSUME NEW s \in Slots, RequestSteps(s), ~WriteRegistration(s), ~PayTrial(s) PROVE UNCHANGED accountVars
  BY <1>9 DEF RequestSteps, ReserveSignup, ReserveWindow, CheckRequest, WriteRefused, CommitPlace,
     ReleasePlace, ReserveTrial, TrialNotPaid, OpenSession, LookAgain
<1>10. ASSUME NEW e, AfterHooks(e) \/ AfterClear(e) \/ DrainHooks(e) \/ DrainClear(e) PROVE UNCHANGED accountVars
  BY <1>10 DEF AfterHooks, AfterClear, DrainHooks, DrainClear
<1>11. ASSUME \/ ReadEvents \/ SweepScan \/ Hour \/ NextDay \/ Restart \/ SetAdmissionMode \/ CloseWindow
              \/ \E d \in Days : OpenWindow(d)
       PROVE UNCHANGED accountVars
  BY <1>11 DEF ReadEvents, SweepScan, Hour, NextDay, Restart, SetAdmissionMode, CloseWindow, OpenWindow
<1>12. ASSUME NEW s \in Slots, NEW a \in Agents,
              \/ \E k \in 1..MaxHistory : StartRegister(s, a, k)
              \/ LookAtTrial(s, a) \/ AuthSession(s, a)
       PROVE UNCHANGED accountVars
  BY <1>12 DEF StartRegister, LookAtTrial, AuthSession
<1>13. ASSUME NEW a \in Agents, KelHook(a) PROVE UNCHANGED accountVars
  BY <1>13 DEF KelHook
<1> QED
  BY <1>1, <1>2, <1>3, <1>4, <1>5, <1>6, <1>7, <1>8, <1>9, <1>10, <1>11, <1>12, <1>13 DEF MembersNext

LEMMA EventStep ==
  ASSUME EventTypes, CallTypes, MembersNext
  PROVE  EventTypes'
<1>a. /\ \A a \in Agents : events[a] \in 0..MaxLeaves /\ left[a] \in 0..MaxLeaves
      /\ 0 \in 0..MaxLeaves
  BY MembersAssumption DEF EventTypes
<1>b. /\ \A e \in after : e \in Departure /\ e.aid \in Agents /\ [e EXCEPT !.pc = "clear"] \in Departure
      /\ \A e \in drain : e \in Departure /\ e.aid \in Agents /\ [e EXCEPT !.pc = "clear"] \in Departure
  BY DEF EventTypes, Departure
<1>1. ASSUME NEW a \in Agents, NEW revoked \in BOOLEAN, Deregistered(a, revoked)
      PROVE  /\ events' \in [Agents -> 0..MaxLeaves] /\ left' \in [Agents -> 0..MaxLeaves]
             /\ [aid |-> a, stamp |-> left[a] + 1, pc |-> "hooks"] \in Departure
  <2>1. left[a] + 1 \in 1..MaxLeaves /\ left[a] + 1 \in 0..MaxLeaves
    BY <1>1, <1>a, MembersAssumption DEF Deregistered
  <2> QED BY <1>1, <2>1 DEF Deregistered, EventTypes, Departure
<1>2. ASSUME NEW a \in Agents, Leave(a) \/ Revoke(a) \/ SweepOne(a) PROVE EventTypes'
  <2>1. \/ /\ \E revoked \in BOOLEAN : Deregistered(a, revoked)
           /\ after' \in {after, after \cup {[aid |-> a, stamp |-> left[a] + 1, pc |-> "hooks"]}}
        \/ UNCHANGED <<events, left, after>>
    BY <1>2 DEF Leave, Revoke, SweepOne
  <2>2. UNCHANGED <<lost, changed, drain>>
    BY <1>2 DEF Leave, Revoke, SweepOne
  <2> QED BY <1>1, <2>1, <2>2 DEF EventTypes
<1>3. ASSUME NEW e \in after, AfterHooks(e) \/ AfterClear(e) PROVE EventTypes'
  BY <1>3, <1>a, <1>b DEF AfterHooks, AfterClear, EventTypes
<1>4. ASSUME NEW e \in drain, DrainHooks(e) \/ DrainClear(e) PROVE EventTypes'
  BY <1>4, <1>a, <1>b DEF DrainHooks, DrainClear, EventTypes
<1>5. CASE ReadEvents
  <2>1. ASSUME NEW a \in Agents, events[a] # 0
        PROVE [aid |-> a, stamp |-> events[a], pc |-> "hooks"] \in Departure
    <3>1. events[a] \in 1..MaxLeaves
      BY <2>1, <1>a, MembersAssumption
    <3> QED BY <3>1 DEF Departure
  <2>2. drain' \in SUBSET Departure
    BY <1>5, <2>1 DEF ReadEvents
  <2> QED BY <1>5, <2>2 DEF ReadEvents, EventTypes
<1>6. ASSUME NEW a \in Agents, KelHook(a) \/ PushKEL(a) PROVE EventTypes'
  BY <1>6 DEF KelHook, PushKEL, EventTypes
<1>7. CASE Restart \/ Hour \/ NextDay
  BY <1>7, <1>a DEF Restart, Hour, NextDay, EventTypes
<1>8. ASSUME NEW s \in Slots, WriteRegistration(s) PROVE EventTypes'
  <2>1. call[s].aid \in Agents
    BY <1>8, CallFields DEF WriteRegistration
  <2> QED BY <1>8, <2>1 DEF WriteRegistration, EventTypes
<1>9. ASSUME UNCHANGED eventVars PROVE EventTypes'
  BY <1>9 DEF eventVars, EventTypes
<1>10. ASSUME NEW s \in Slots, RequestSteps(s), ~WriteRegistration(s) PROVE UNCHANGED eventVars
  BY <1>10 DEF RequestSteps, ReserveSignup, ReserveWindow, CheckRequest, WriteRefused, CommitPlace,
     ReleasePlace, ReserveTrial, PayTrial, TrialNotPaid, OpenSession, LookAgain
<1>11. ASSUME \/ SweepScan \/ SetAdmissionMode \/ CloseWindow
              \/ \E d \in Days : OpenWindow(d)
       PROVE UNCHANGED eventVars
  BY <1>11 DEF SweepScan, SetAdmissionMode, CloseWindow, OpenWindow
<1>12. ASSUME NEW s \in Slots, NEW a \in Agents,
              \/ \E k \in 1..MaxHistory : StartRegister(s, a, k)
              \/ LookAtTrial(s, a) \/ AuthSession(s, a)
       PROVE UNCHANGED eventVars
  BY <1>12 DEF StartRegister, LookAtTrial, AuthSession
<1>13. ASSUME NEW a \in Agents, \/ Poll(a) \/ Earn(a) \/ Review(a)
                                \/ \E g \in {0, Grant} : Admit(a, g) PROVE UNCHANGED eventVars
  BY <1>13 DEF Poll, Earn, Review, Admit
<1> QED
  BY <1>2, <1>3, <1>4, <1>5, <1>6, <1>7, <1>8, <1>9, <1>10, <1>11, <1>12, <1>13 DEF MembersNext

-----------------------------------------------------------------------------
(* What a step does to the requests.                                        *)

\* The gate, rolled to a day: its key, its counters.
LEMMA RolledType ==
  ASSUME GateTypes, NEW d \in Days
  PROVE  /\ Rolled(d) \in GateType /\ TodayRolled(d) \in TodayType
         /\ Rolled(d).day = d /\ Rolled(d).window = gate.window
         /\ Rolled(d).key = IF gate.day = d THEN gate.key ELSE gate.key + 1
         /\ TodayRolled(d).rewound = (today.rewound \/ (gate.day # d /\ d < gate.day))
<1>1. gate \in GateType /\ today \in TodayType /\ Zero \in [Levels -> Nat]
  BY DEF GateTypes, Zero
<1>2. CASE gate.day = d
  <2>1. Rolled(d) = gate /\ TodayRolled(d) = today
    BY <1>2 DEF Rolled, TodayRolled
  <2>2. today.rewound \in BOOLEAN
    BY <1>1 DEF TodayType
  <2>3. TodayRolled(d).rewound = (today.rewound \/ (gate.day # d /\ d < gate.day))
    BY <1>2, <2>1, <2>2
  <2>4. Rolled(d) \in GateType /\ TodayRolled(d) \in TodayType
    BY <1>1, <2>1
  <2> QED BY <1>2, <2>1, <2>3, <2>4
<1>3. CASE gate.day # d
  <2>1. /\ Rolled(d) = [gate EXCEPT !.day = d, !.key = gate.key + 1, !.signup = Zero, !.trials = Zero, !.hub = 0]
        /\ TodayRolled(d) = [NothingYet EXCEPT !.rewound = today.rewound \/ d < gate.day]
    BY <1>3 DEF Rolled, TodayRolled
  <2>2. gate.key \in Nat /\ today.rewound \in BOOLEAN
    BY <1>1 DEF GateType, TodayType
  <2>3. NothingYet \in TodayType
    BY <1>1 DEF NothingYet, TodayType
  <2>4. /\ TodayRolled(d) \in TodayType
        /\ TodayRolled(d).rewound = (today.rewound \/ d < gate.day)
    BY <2>1, <2>3 DEF TodayType
  <2>5. /\ Rolled(d) \in GateType /\ Rolled(d).day = d /\ Rolled(d).window = gate.window
        /\ Rolled(d).key = gate.key + 1
    <3> DEFINE g == [gate EXCEPT !.day = d, !.key = gate.key + 1, !.signup = Zero, !.trials = Zero, !.hub = 0]
    <3>1. gate.key + 1 \in Nat /\ d \in Days \cup {-1} /\ 0 \in Nat
      BY <2>2
    <3>2. ASSUME NEW k \in Nat, NEW e \in Days \cup {-1}
          PROVE  LET x == [gate EXCEPT !.day = e, !.key = k, !.signup = Zero, !.trials = Zero, !.hub = 0]
                 IN  x \in GateType /\ x.day = e /\ x.window = gate.window /\ x.key = k
      BY <1>1 DEF GateType
    <3>3. g \in GateType /\ g.day = d /\ g.window = gate.window /\ g.key = gate.key + 1
      BY <3>1, <3>2
    <3> QED BY <2>1, <3>3
  <2> QED BY <1>3, <2>4, <2>5
<1> QED BY <1>2, <1>3

\* The slot's request moves on, and no other.
Only(s, c) == call' = [call EXCEPT ![s] = c]

LEMMA CallStep ==
  ASSUME ClockTypes, AccountTypes, GateTypes, CallTypes, MembersNext
  PROVE  CallTypes'
<1>a. /\ \A a \in Agents : agent[a].kel \in 0..MaxHistory
      /\ day \in Days /\ 0 \in 0..MaxHistory /\ 1..MaxHistory \subseteq 0..MaxHistory
  <2>1. \A a \in Agents : agent[a] \in AgentType
    BY DEF AccountTypes
  <2>2. \A a \in Agents : agent[a].kel \in 0..MaxHistory
    BY <2>1, AgentForms
  <2> QED BY <2>2, MembersAssumption DEF ClockTypes
<1>b. \A s \in Slots, c \in CallType \cup {Idle} : Only(s, c) => call' \in [Slots -> CallType \cup {Idle}]
  BY DEF Only, CallTypes
<1>1. ASSUME NEW s \in Slots, NEW a \in Agents,
              \/ \E k \in 1..MaxHistory : StartRegister(s, a, k)
              \/ LookAtTrial(s, a) \/ AuthSession(s, a)
       PROVE  CallTypes'
  <2>1. UNCHANGED sweep
    BY <1>1 DEF StartRegister, LookAtTrial, AuthSession
  <2>2. ASSUME NEW k \in 1..MaxHistory, StartRegister(s, a, k)
        PROVE  \E c \in CallType \cup {Idle} : Only(s, c)
    <3>1. ASSUME NEW pc \in Phases, NEW via \in Via
          PROVE  Request(pc, a, k, via) \in CallType
      BY <1>a, <3>1, RequestFields
    <3>2. ASSUME NEW w \in DOMAIN windows
          PROVE  [Request("reserve", a, k, "window") EXCEPT !.win = w, !.used = windows[w].used] \in CallType
      <4>1. w \in 0..MaxWindows /\ windows[w].used \in 0..WindowMax
        <5>1. windows \in Seq(Window) /\ Len(windows) \in Nat /\ DOMAIN windows = 1..Len(windows)
          BY LenProperties DEF ClockTypes
        <5>2. windows[w] \in Window
          BY <5>1, <3>2, ElementOfSeq
        <5> QED BY <5>1, <5>2, <3>2, MembersAssumption DEF ClockTypes, Window
      <4>2. Request("reserve", a, k, "window") \in CallType
        BY <3>1 DEF Phases, Via
      <4> QED BY <4>1, <4>2 DEF CallType
    <3>3. "check" \in Phases /\ "reserve" \in Phases /\ {"registered", "list", "open", "window"} \subseteq Via
      BY DEF Phases, Via
    <3>4. \/ \E pc \in Phases, via \in Via : Only(s, Request(pc, a, k, via))
          \/ \E w \in DOMAIN windows :
               Only(s, [Request("reserve", a, k, "window") EXCEPT !.win = w, !.used = windows[w].used])
      BY <2>2, <3>3 DEF StartRegister, Only
    <3> QED BY <3>1, <3>2, <3>4
  <2>3. ASSUME LookAtTrial(s, a) \/ AuthSession(s, a) PROVE \E c \in CallType \cup {Idle} : Only(s, c)
    <3>1. /\ Request("trial", a, 0, "registered") \in CallType
          /\ Request("open", a, agent[a].kel, "registered") \in CallType
      BY <1>a, RequestFields DEF Phases, Via
    <3> QED BY <2>3, <3>1 DEF LookAtTrial, AuthSession, Only
  <2> QED BY <1>1, <1>b, <2>1, <2>2, <2>3 DEF CallTypes
<1>2. ASSUME NEW s \in Slots, RequestSteps(s) PROVE CallTypes'
  <2>1. /\ UNCHANGED sweep /\ call[s] # Idle
    BY <1>2 DEF RequestSteps, ReserveSignup, ReserveWindow, CheckRequest, WriteRegistration, WriteRefused,
       CommitPlace, ReleasePlace, ReserveTrial, PayTrial, TrialNotPaid, OpenSession, LookAgain
  <2>2. call[s] \in CallType
    BY <2>1, CallFields
  <2>3. /\ \A pc \in Phases : [call[s] EXCEPT !.pc = pc] \in CallType
        /\ \A pc \in Phases, h \in {"signup", "window", "trial"} :
             /\ [call[s] EXCEPT !.pc = pc, !.held = h] \in CallType
             /\ \A k \in Nat : [call[s] EXCEPT !.pc = pc, !.held = h, !.key = k] \in CallType
    BY <2>2 DEF CallType, Phases
  <2>4. \/ Only(s, Idle)
        \/ \E pc \in Phases : Only(s, [call[s] EXCEPT !.pc = pc])
        \/ \E pc \in Phases, h \in {"signup", "window", "trial"} :
             \/ Only(s, [call[s] EXCEPT !.pc = pc, !.held = h])
             \/ \E k \in Nat : Only(s, [call[s] EXCEPT !.pc = pc, !.held = h, !.key = k])
    <3>k. Rolled(call[s].on).key \in Nat
      BY RolledType, <2>1, CallFields DEF GateType
    <3>1. ASSUME ReserveSignup(s) \/ ReserveTrial(s)
          PROVE  \/ Only(s, Idle)
                 \/ \E pc \in Phases, h \in {"signup", "trial"}, k \in Nat :
                      Only(s, [call[s] EXCEPT !.pc = pc, !.held = h, !.key = k])
      BY <3>1, <3>k DEF ReserveSignup, ReserveTrial, Only, Phases
    <3>2. ASSUME ReserveWindow(s)
          PROVE  Only(s, Idle) \/ Only(s, [call[s] EXCEPT !.pc = "check", !.held = "window"])
      BY <3>2 DEF ReserveWindow, Only
    <3>3. ASSUME CheckRequest(s) \/ WriteRefused(s) \/ TrialNotPaid(s)
          PROVE  \E pc \in Phases : Only(s, [call[s] EXCEPT !.pc = pc])
      BY <3>3 DEF CheckRequest, WriteRefused, TrialNotPaid, Only, Phases
    <3>4. ASSUME WriteRegistration(s) PROVE \E pc \in Phases : Only(s, [call[s] EXCEPT !.pc = pc])
      <4>1. CASE ~agent[call[s].aid].in
        <5>1. Only(s, [call[s] EXCEPT !.pc = "commit"])
          BY <3>4, <4>1 DEF WriteRegistration, Only
        <5> QED BY <5>1 DEF Phases
      <4>2. CASE agent[call[s].aid].in
        <5>1. Only(s, [call[s] EXCEPT !.pc = "release"])
          BY <3>4, <4>2 DEF WriteRegistration, Only
        <5> QED BY <5>1 DEF Phases
      <4> QED BY <4>1, <4>2
    <3>5. ASSUME CommitPlace(s) \/ ReleasePlace(s) \/ PayTrial(s) \/ LookAgain(s) PROVE Only(s, Idle)
      BY <3>5 DEF CommitPlace, ReleasePlace, PayTrial, LookAgain, Only
    <3>6. ASSUME OpenSession(s) PROVE Only(s, Idle) \/ Only(s, [call[s] EXCEPT !.pc = "look"])
      BY <3>6 DEF OpenSession, Only
    <3> QED BY <1>2, <3>1, <3>2, <3>3, <3>4, <3>5, <3>6 DEF RequestSteps, Phases
  <2> QED BY <1>b, <2>1, <2>3, <2>4 DEF CallTypes
<1>3. CASE Restart
  BY <1>3 DEF Restart, CallTypes
<1>4. CASE SweepScan
  <2>1. day - InactiveAfter \in Int
    BY <1>a, MembersAssumption DEF Days
  <2> QED BY <1>4, <2>1 DEF SweepScan, CallTypes
<1>5. ASSUME NEW a \in Agents, SweepOne(a) PROVE CallTypes'
  <2>1. [sweep EXCEPT !.aids = sweep.aids \ {a}] \in [aids: SUBSET Agents, cutoff: Int]
    BY DEF CallTypes
  <2> QED BY <1>5, <2>1 DEF SweepOne, CallTypes
<1>6. ASSUME UNCHANGED <<sweep, call>> PROVE CallTypes'
  BY <1>6 DEF CallTypes
<1>7. ASSUME \/ Hour \/ NextDay \/ SetAdmissionMode \/ CloseWindow \/ ReadEvents
             \/ \E d \in Days : OpenWindow(d)
      PROVE UNCHANGED <<sweep, call>>
  BY <1>7 DEF Hour, NextDay, SetAdmissionMode, CloseWindow, OpenWindow, ReadEvents
<1>8. ASSUME NEW a \in Agents,
             \/ PushKEL(a) \/ KelHook(a) \/ Leave(a) \/ Revoke(a) \/ Poll(a) \/ Earn(a) \/ Review(a)
             \/ \E g \in {0, Grant} : Admit(a, g)
      PROVE UNCHANGED <<sweep, call>>
  BY <1>8 DEF PushKEL, KelHook, Leave, Revoke, Poll, Earn, Review, Admit
<1>9. ASSUME NEW e, AfterHooks(e) \/ AfterClear(e) \/ DrainHooks(e) \/ DrainClear(e) PROVE UNCHANGED <<sweep, call>>
  BY <1>9 DEF AfterHooks, AfterClear, DrainHooks, DrainClear
<1> QED
  BY <1>1, <1>2, <1>3, <1>4, <1>5, <1>6, <1>7, <1>8, <1>9 DEF MembersNext

-----------------------------------------------------------------------------
(* What a request holds.                                                    *)

\* The gate g is rolled to day d and becomes g2, and t becomes t2.
RolledTo(g, t, g2, t2, d) ==
  /\ g2.day = d /\ g2.key = (IF g.day = d THEN g.key ELSE g.key + 1)
  /\ t2.rewound = (t.rewound \/ (g.day # d /\ d < g.day))

\* Windows are only added, and the gate is rolled to a day that has come, if at
\* all, short of a restart.
LEMMA WindowsAndDays ==
  ASSUME ClockTypes, GateTypes, CallTypes, HoldsInv, MembersNext
  PROVE  /\ Len(windows) \in Nat /\ Len(windows') \in Nat /\ Len(windows) <= Len(windows')
         /\ gate'.day <= day' /\ day \in Int /\ day' \in Int /\ day <= day'
         /\ Restart \/ \E d \in Days \cup {-1} : d <= day /\ RolledTo(gate, today, gate', today', d)
<1>a. /\ Len(windows) \in Nat /\ gate.day \in Int /\ day \in Int
      /\ \A w \in 1..Len(windows), x \in Window : Len([windows EXCEPT ![w] = x]) = Len(windows)
      /\ gate \in GateType /\ today \in TodayType /\ gate.day \in Days \cup {-1} /\ gate.day <= day
  BY LenProperties, ExceptSeq, MembersAssumption DEF ClockTypes, GateTypes, GateType, Days, HoldsInv
<1>1. Len(windows') \in Nat /\ Len(windows) <= Len(windows')
  <2>1. ClockTypes'
    BY ClockStep
  <2>2. Len(windows') \in Nat
    BY <2>1, LenProperties DEF ClockTypes
  <2>w. DOMAIN windows = 1..Len(windows)
    BY LenProperties DEF ClockTypes
  <2>w2. DOMAIN windows' = 1..Len(windows')
    BY <2>1, LenProperties DEF ClockTypes
  <2>3. CASE DOMAIN windows' = DOMAIN windows
    BY <2>w, <2>w2, <2>2, <2>3, <1>a
  <2>4. ASSUME NEW d \in Days, OpenWindow(d) PROVE Len(windows') = Len(windows) + 1
    <3>1. 0 \in 0..WindowMax
      BY MembersAssumption
    <3>2. [closes |-> d, used |-> 0] \in Window
      BY <3>1 DEF Window
    <3> QED BY <2>4, <3>2, AppendProperties DEF OpenWindow, ClockTypes
  <2>5. ASSUME CloseWindow \/ \E s \in Slots : WriteRegistration(s) PROVE DOMAIN windows' = DOMAIN windows
    BY <2>5 DEF CloseWindow, WriteRegistration
  <2>6. ASSUME NEW s \in Slots, RequestSteps(s), ~WriteRegistration(s) PROVE windows' = windows
    BY <2>6 DEF RequestSteps, ReserveSignup, ReserveWindow, CheckRequest, WriteRefused, CommitPlace,
       ReleasePlace, ReserveTrial, PayTrial, TrialNotPaid, OpenSession, LookAgain
  <2>7. ASSUME NEW a \in Agents,
               \/ PushKEL(a) \/ KelHook(a) \/ Leave(a) \/ Revoke(a) \/ SweepOne(a) \/ Poll(a) \/ Earn(a)
               \/ Review(a) \/ \E g \in {0, Grant} : Admit(a, g)
               \/ \E s \in Slots : \/ \E k \in 1..MaxHistory : StartRegister(s, a, k)
                                   \/ LookAtTrial(s, a) \/ AuthSession(s, a)
        PROVE windows' = windows
    BY <2>7 DEF PushKEL, KelHook, Leave, Revoke, SweepOne, Poll, Earn, Review, Admit, StartRegister,
       LookAtTrial, AuthSession
  <2>8. ASSUME \/ ReadEvents \/ SweepScan \/ Hour \/ NextDay \/ Restart \/ SetAdmissionMode
               \/ \E e \in after : AfterHooks(e) \/ AfterClear(e)
               \/ \E e \in drain : DrainHooks(e) \/ DrainClear(e)
        PROVE windows' = windows
    BY <2>8 DEF ReadEvents, SweepScan, Hour, NextDay, Restart, SetAdmissionMode, AfterHooks, AfterClear,
       DrainHooks, DrainClear
  <2> QED BY <2>2, <2>3, <2>4, <2>5, <2>6, <2>7, <2>8, <1>a DEF MembersNext
<1>2. /\ gate'.day <= day' /\ day' \in Int /\ day <= day'
      /\ Restart \/ \E d \in Days \cup {-1} : d <= day /\ RolledTo(gate, today, gate', today', d)
  <2>1. CASE Restart
    <3>1. gate'.day = -1 /\ day' = day /\ day \in 0..MaxDay
      BY <2>1 DEF Restart, FreshGate, ClockTypes, Days
    <3> QED BY <2>1, <3>1, <1>a, MembersAssumption
  <2>r. RolledTo(gate, today, gate, today, gate.day)
    BY <1>a DEF RolledTo, TodayType
  <2>2. CASE NextDay
    BY <2>2, <2>r, <1>a DEF NextDay
  <2>3. CASE RolledTo(gate, today, gate', today', gate.day) /\ day' = day
    BY <2>3, <1>a DEF RolledTo
  <2>4. ASSUME NEW s \in Slots, ReserveSignup(s) \/ ReserveTrial(s)
        PROVE  /\ day' = day /\ call[s].on \in Days /\ call[s].on <= day
               /\ RolledTo(gate, today, gate', today', call[s].on)
    <3> DEFINE d == call[s].on
               g == Rolled(d)
    <3>1. call[s] # Idle /\ day' = day /\ today' = TodayRolled(d)
      BY <2>4 DEF ReserveSignup, ReserveTrial
    <3>2. d \in Days /\ d <= day
      BY <3>1, CallFields DEF HoldsInv, Placed
    <3>3. g \in GateType /\ g.day = d /\ g.key = (IF gate.day = d THEN gate.key ELSE gate.key + 1)
      BY <3>2, RolledType
    <3>4. today'.rewound = (today.rewound \/ (gate.day # d /\ d < gate.day))
      BY <3>1, <3>2, RolledType
    <3>5. gate' = g \/ (\E f : gate' = [g EXCEPT !.signup = f])
                  \/ (\E f, n : gate' = [g EXCEPT !.trials = f, !.hub = n])
      BY <2>4 DEF ReserveSignup, ReserveTrial
    <3> HIDE DEF g
    <3>6. gate'.day = g.day /\ gate'.key = g.key
      BY <3>3, <3>5 DEF GateType
    <3> HIDE DEF d
    <3>7. RolledTo(gate, today, gate', today', d)
      BY <3>3, <3>4, <3>6 DEF RolledTo
    <3> QED BY <3>1, <3>2, <3>7 DEF d
  <2>5. ASSUME NEW s \in Slots, ReserveWindow(s) \/ CommitPlace(s) \/ ReleasePlace(s)
        PROVE  RolledTo(gate, today, gate', today', gate.day) /\ day' = day
    <3>1. gate'.day = gate.day /\ gate'.key = gate.key /\ day' = day
      <4>1. CASE ReserveWindow(s) \/ CommitPlace(s)
        BY <4>1, <1>a DEF ReserveWindow, CommitPlace, GateType
      <4>2. CASE ReleasePlace(s)
        <5>1. gate' = gate \/ (\E f : gate' = [gate EXCEPT !.window = f]) \/ (\E f : gate' = [gate EXCEPT !.signup = f])
                 \/ (\E f, n : gate' = [gate EXCEPT !.trials = f, !.hub = n])
          BY <4>2 DEF ReleasePlace
        <5>2. day' = day
          BY <4>2 DEF ReleasePlace
        <5> QED BY <5>1, <5>2, <1>a DEF GateType
      <4> QED BY <2>5, <4>1, <4>2
    <3>2. today'.rewound = today.rewound
      BY <2>5, <1>a DEF ReserveWindow, CommitPlace, ReleasePlace, TodayType
    <3> QED BY <3>1, <3>2, <1>a DEF RolledTo, TodayType
  <2>t. ASSUME NEW s \in Slots, PayTrial(s)
        PROVE  RolledTo(gate, today, gate', today', gate.day) /\ day' = day
    <3>1. gate' = gate /\ day' = day /\ today'.rewound = today.rewound
      BY <2>t, <1>a DEF PayTrial, TodayType
    <3> QED BY <3>1, <1>a DEF RolledTo, TodayType
  <2>6. ASSUME NEW s \in Slots, RequestSteps(s),
               ~(ReserveSignup(s) \/ ReserveTrial(s) \/ ReserveWindow(s) \/ CommitPlace(s) \/ ReleasePlace(s)),
               ~PayTrial(s)
        PROVE gate' = gate /\ today' = today /\ day' = day
    BY <2>6 DEF RequestSteps, CheckRequest, WriteRegistration, WriteRefused, TrialNotPaid,
       OpenSession, LookAgain
  <2>7. ASSUME NEW a \in Agents,
               \/ PushKEL(a) \/ KelHook(a) \/ Leave(a) \/ Revoke(a) \/ SweepOne(a) \/ Poll(a) \/ Earn(a)
               \/ Review(a) \/ \E g \in {0, Grant} : Admit(a, g)
               \/ \E s \in Slots : \/ \E k \in 1..MaxHistory : StartRegister(s, a, k)
                                   \/ LookAtTrial(s, a) \/ AuthSession(s, a)
        PROVE gate' = gate /\ today' = today /\ day' = day
    BY <2>7 DEF PushKEL, KelHook, Leave, Revoke, SweepOne, Poll, Earn, Review, Admit, StartRegister,
       LookAtTrial, AuthSession
  <2>8. ASSUME \/ ReadEvents \/ SweepScan \/ Hour \/ SetAdmissionMode \/ CloseWindow
               \/ \E d \in Days : OpenWindow(d)
               \/ \E e \in after : AfterHooks(e) \/ AfterClear(e)
               \/ \E e \in drain : DrainHooks(e) \/ DrainClear(e)
        PROVE gate' = gate /\ today' = today /\ day' = day
    BY <2>8 DEF ReadEvents, SweepScan, Hour, SetAdmissionMode, CloseWindow, OpenWindow, AfterHooks,
       AfterClear, DrainHooks, DrainClear
  <2>9. CASE gate' = gate /\ today' = today /\ day' = day
    BY <2>9, <2>r, <1>a
  <2>10. ASSUME NEW s \in Slots, ReserveSignup(s) \/ ReserveTrial(s)
         PROVE  /\ gate'.day <= day' /\ day' \in Int /\ day <= day'
                /\ \E d \in Days \cup {-1} : d <= day /\ RolledTo(gate, today, gate', today', d)
    <3>1. /\ day' = day /\ call[s].on \in Days /\ call[s].on <= day
          /\ RolledTo(gate, today, gate', today', call[s].on)
      BY <2>4, <2>10
    <3> QED BY <3>1, <1>a DEF RolledTo
  <2> QED BY <2>1, <2>2, <2>3, <2>10, <2>5, <2>t, <2>6, <2>7, <2>8, <2>9 DEF MembersNext
<1> QED BY <1>1, <1>2, <1>a

\* The ways a request moves on.
LEMMA Moves ==
  ASSUME CallTypes, NEW s \in Slots, RequestSteps(s)
  PROVE  /\ call[s] # Idle /\ call[s] \in CallType
         /\ \/ Only(s, Idle) /\ ~OpenSession(s)
            \/ OpenSession(s) /\ Only(s, Idle)
            \/ /\ ReserveSignup(s) /\ call[s].via = "open"
               /\ Only(s, [call[s] EXCEPT !.pc = "check", !.held = "signup", !.key = Rolled(call[s].on).key])
            \/ /\ ReserveWindow(s) /\ call[s].via = "window"
               /\ Only(s, [call[s] EXCEPT !.pc = "check", !.held = "window"])
            \/ CheckRequest(s) /\ call[s].pc = "check" /\ Only(s, [call[s] EXCEPT !.pc = "write"])
            \/ /\ CheckRequest(s) \/ WriteRegistration(s) \/ WriteRefused(s) \/ TrialNotPaid(s)
               /\ call[s].pc \in {"check", "write", "pay"} /\ Only(s, [call[s] EXCEPT !.pc = "release"])
            \/ WriteRegistration(s) /\ call[s].pc = "write" /\ Only(s, [call[s] EXCEPT !.pc = "commit"])
            \/ /\ ReserveTrial(s) /\ call[s].pc = "trial"
               /\ Only(s, [call[s] EXCEPT !.pc = "pay", !.held = "trial", !.key = Rolled(call[s].on).key])
            \/ OpenSession(s) /\ call[s].pc = "open" /\ Only(s, [call[s] EXCEPT !.pc = "look"])
<1>1. call[s] # Idle
  BY DEF RequestSteps, ReserveSignup, ReserveWindow, CheckRequest, WriteRegistration, WriteRefused,
     CommitPlace, ReleasePlace, ReserveTrial, PayTrial, TrialNotPaid, OpenSession, LookAgain
<1>2. call[s] \in CallType
  BY <1>1, CallFields
<1>3. CASE ReserveSignup(s)
  BY <1>1, <1>2, <1>3 DEF ReserveSignup, OpenSession, Only
<1>4. CASE ReserveWindow(s)
  BY <1>1, <1>2, <1>4 DEF ReserveWindow, OpenSession, Only
<1>5. CASE CheckRequest(s) \/ WriteRefused(s) \/ TrialNotPaid(s)
  BY <1>1, <1>2, <1>5 DEF CheckRequest, WriteRefused, TrialNotPaid, Only
<1>6. CASE WriteRegistration(s)
  <2>1. CASE ~agent[call[s].aid].in
    <3>1. call[s].pc = "write" /\ Only(s, [call[s] EXCEPT !.pc = "commit"])
      BY <1>6, <2>1 DEF WriteRegistration, Only
    <3> QED BY <1>1, <1>2, <1>6, <3>1
  <2>2. CASE agent[call[s].aid].in
    <3>1. call[s].pc = "write" /\ Only(s, [call[s] EXCEPT !.pc = "release"])
      BY <1>6, <2>2 DEF WriteRegistration, Only
    <3> QED BY <1>1, <1>2, <1>6, <3>1
  <2> QED BY <2>1, <2>2
<1>7. CASE CommitPlace(s) \/ ReleasePlace(s) \/ PayTrial(s) \/ LookAgain(s)
  BY <1>1, <1>2, <1>7 DEF CommitPlace, ReleasePlace, PayTrial, LookAgain, OpenSession, Only
<1>8. CASE ReserveTrial(s)
  BY <1>1, <1>2, <1>8 DEF ReserveTrial, OpenSession, Only
<1>9. CASE OpenSession(s)
  BY <1>1, <1>2, <1>9 DEF OpenSession, Only
<1> QED BY <1>3, <1>4, <1>5, <1>6, <1>7, <1>8, <1>9 DEF RequestSteps

\* A request that has just begun.
LEMMA Begins ==
  ASSUME ClockTypes, AccountTypes, CallTypes, NEW s \in Slots, NEW a \in Agents,
         \/ \E k \in 1..MaxHistory : StartRegister(s, a, k)
         \/ LookAtTrial(s, a) \/ AuthSession(s, a)
  PROVE  /\ call[s] = Idle
         /\ \E c \in CallType :
              /\ Only(s, c) /\ c # Idle /\ c.held = "none" /\ c.pc # "look"
              /\ c.pc \in {"check", "write", "commit"} => c.via \in {"list", "registered"}
              /\ c.pc # "pay" /\ (c.via = "window" => c.win \in 1..Len(windows))
              /\ c.on = day /\ c.key = 0
<1> DEFINE Good(c) == /\ Only(s, c) /\ c \in CallType /\ c # Idle /\ c.held = "none" /\ c.pc # "look"
                      /\ c.pc \in {"check", "write", "commit"} => c.via \in {"list", "registered"}
                      /\ c.pc # "pay" /\ (c.via = "window" => c.win \in 1..Len(windows))
                      /\ c.on = day /\ c.key = 0
<1>a. /\ \A b \in Agents : agent[b].kel \in 0..MaxHistory
      /\ 0 \in 0..MaxHistory /\ 1..MaxHistory \subseteq 0..MaxHistory
  <2>1. \A b \in Agents : agent[b] \in AgentType
    BY DEF AccountTypes
  <2>2. \A b \in Agents : agent[b].kel \in 0..MaxHistory
    BY <2>1, AgentForms
  <2> QED BY <2>2, MembersAssumption
<1>0. call[s] = Idle
  BY DEF StartRegister, LookAtTrial, AuthSession
<1> SUFFICES \E c : Good(c)
  BY <1>0
<1>1. ASSUME NEW k \in 1..MaxHistory, StartRegister(s, a, k) PROVE \E c : Good(c)
  <2>1. ASSUME Only(s, Request("check", a, k, "registered")) PROVE \E c : Good(c)
    <3> DEFINE c == Request("check", a, k, "registered")
    <3>1. c \in CallType /\ c # Idle /\ c.pc = "check" /\ c.via = "registered" /\ c.held = "none"
          /\ c.on = day /\ c.key = 0
      BY <1>a, RequestFields DEF Phases, Via
    <3>2. Good(c)
      BY <2>1, <3>1
    <3> QED BY <3>2
  <2>2. ASSUME Only(s, Request("check", a, k, "list")) PROVE \E c : Good(c)
    <3> DEFINE c == Request("check", a, k, "list")
    <3>1. c \in CallType /\ c # Idle /\ c.pc = "check" /\ c.via = "list" /\ c.held = "none"
          /\ c.on = day /\ c.key = 0
      BY <1>a, RequestFields DEF Phases, Via
    <3>2. Good(c)
      BY <2>2, <3>1
    <3> QED BY <3>2
  <2>3. ASSUME Only(s, Request("reserve", a, k, "open")) PROVE \E c : Good(c)
    <3> DEFINE c == Request("reserve", a, k, "open")
    <3>1. c \in CallType /\ c # Idle /\ c.pc = "reserve" /\ c.via = "open" /\ c.held = "none"
          /\ c.on = day /\ c.key = 0
      BY <1>a, RequestFields DEF Phases, Via
    <3>2. Good(c)
      BY <2>3, <3>1
    <3> QED BY <3>2
  <2>4. ASSUME NEW w \in DOMAIN windows,
               Only(s, [Request("reserve", a, k, "window") EXCEPT !.win = w, !.used = windows[w].used])
        PROVE  \E c : Good(c)
    <3> DEFINE r == Request("reserve", a, k, "window")
               c == [r EXCEPT !.win = w, !.used = windows[w].used]
    <3>1. r \in CallType /\ r.pc = "reserve" /\ r.via = "window" /\ r.held = "none"
          /\ r.on = day /\ r.key = 0
      BY <1>a, RequestFields DEF Phases, Via
    <3>2. /\ windows \in Seq(Window) /\ Len(windows) \in Nat /\ DOMAIN windows = 1..Len(windows)
          /\ Len(windows) <= MaxWindows
      BY LenProperties DEF ClockTypes
    <3>3. w \in 1..Len(windows) /\ w \in 0..MaxWindows
      BY <3>2, MembersAssumption
    <3>4. windows[w].used \in 0..WindowMax
      <4>1. windows[w] \in Window
        BY <3>2, <3>3, ElementOfSeq
      <4> QED BY <4>1 DEF Window
    <3>5. c \in CallType /\ c.win = w /\ c.pc = "reserve" /\ c.held = "none"
          /\ c.on = day /\ c.key = 0
      <4> HIDE DEF r
      <4> QED BY <3>1, <3>3, <3>4 DEF CallType
    <3>6. c # Idle
      BY <3>5 DEF Idle
    <3>7. Good(c)
      BY <2>4, <3>3, <3>5, <3>6
    <3> QED BY <3>7
  <2> QED BY <1>1, <2>1, <2>2, <2>3, <2>4 DEF StartRegister, Only
<1>2. ASSUME LookAtTrial(s, a) PROVE \E c : Good(c)
  <2> DEFINE c == Request("trial", a, 0, "registered")
  <2>1. c \in CallType /\ c # Idle /\ c.pc = "trial" /\ c.via = "registered" /\ c.held = "none"
        /\ c.on = day /\ c.key = 0
    BY <1>a, RequestFields DEF Phases, Via
  <2>2. Only(s, c)
    BY <1>2 DEF LookAtTrial, Only
  <2> QED BY <2>1, <2>2
<1>3. ASSUME AuthSession(s, a) PROVE \E c : Good(c)
  <2> DEFINE c == Request("open", a, agent[a].kel, "registered")
  <2>1. c \in CallType /\ c # Idle /\ c.pc = "open" /\ c.via = "registered" /\ c.held = "none"
        /\ c.on = day /\ c.key = 0
    BY <1>a, RequestFields DEF Phases, Via
  <2>2. Only(s, c)
    BY <1>3 DEF AuthSession, Only
  <2> QED BY <2>1, <2>2
<1> QED BY <1>1, <1>2, <1>3

LEMMA HoldsStep ==
  ASSUME ClockTypes, AccountTypes, GateTypes, CallTypes, HoldsInv, MembersNext
  PROVE  HoldsInv'
<1> DEFINE n == Len(windows)
           GoodNext(c) == Holding(c, n') /\ Placed(c, gate', today', day')
<1>1. /\ n \in Nat /\ n' \in Nat /\ n <= n' /\ gate'.day <= day'
      /\ day \in Int /\ day' \in Int /\ day <= day'
      /\ Restart \/ \E d \in Days \cup {-1} : d <= day /\ RolledTo(gate, today, gate', today', d)
  BY WindowsAndDays
<1>g. gate.day \in Int /\ gate.key \in Nat /\ today.rewound \in BOOLEAN
  BY MembersAssumption DEF GateTypes, GateType, TodayType, Days
<1>2. ASSUME NEW c \in CallType, Holding(c, n), ~Restart PROVE Holding(c, n')
  <2>1. c.via = "window" => c.win \in 1..n'
    BY <1>1, <1>2 DEF Holding
  <2> HIDE DEF n
  <2> QED BY <1>2, <2>1 DEF Holding
<1>p. ASSUME NEW c \in CallType, Placed(c, gate, today, day), ~Restart PROVE Placed(c, gate', today', day')
  <2>1. PICK d \in Days \cup {-1} : d <= day /\ RolledTo(gate, today, gate', today', d)
    BY <1>1, <1>p
  <2>2. c.on \in Int /\ c.key \in Int /\ d \in Int
    BY MembersAssumption DEF CallType, Days
  <2>3. CASE gate.day = d
    <3>1. gate'.day = gate.day /\ gate'.key = gate.key /\ today'.rewound = today.rewound
      BY <1>g, <2>1, <2>3 DEF RolledTo
    <3> QED BY <1>1, <1>g, <1>p, <2>2, <3>1 DEF Placed
  <2>4. CASE gate.day # d
    <3>1. gate'.day = d /\ gate'.key = gate.key + 1 /\ today'.rewound = (today.rewound \/ d < gate.day)
      BY <2>1, <2>4 DEF RolledTo
    <3>2. c.key <= gate.key /\ c.on <= day
      BY <1>p DEF Placed
    <3>3. c.key # gate'.key /\ c.key <= gate'.key /\ c.on <= day'
      BY <1>1, <1>g, <2>2, <3>1, <3>2
    <3>4. ASSUME c.held \in {"signup", "trial"}, ~today'.rewound PROVE c.on < gate'.day
      <4>0. ~today.rewound /\ ~(d < gate.day)
        BY <3>1, <3>4
      <4>1. ~today.rewound /\ gate.day < d /\ c.on <= gate.day
        BY <1>g, <1>p, <2>2, <2>4, <4>0, <3>4 DEF Placed
      <4> QED BY <4>1, <1>g, <2>2, <3>1
    <3>6. gate'.day \in Int
      BY <2>2, <3>1
    <3>5. c.held \in {"signup", "trial"} => today'.rewound \/ (c.on <= gate'.day /\ c.on # gate'.day)
      BY <2>2, <3>4, <3>6
    <3> QED BY <3>3, <3>5 DEF Placed
  <2> QED BY <2>3, <2>4
<1>3. CASE Restart
  BY <1>1, <1>3 DEF Restart, HoldsInv
<1>4. ASSUME ~Restart, NEW s \in Slots, NEW c \in CallType \cup {Idle}, Only(s, c),
             c # Idle => GoodNext(c)
      PROVE  HoldsInv'
  <2> SUFFICES ASSUME NEW r \in Slots, call'[r] # Idle PROVE GoodNext(call'[r])
    BY <1>1 DEF HoldsInv
  <2>1. CASE r = s
    BY <1>4, <2>1 DEF Only, CallTypes
  <2>2. CASE r # s
    <3>1. call'[r] = call[r]
      BY <1>4, <2>2 DEF Only, CallTypes
    <3>2. call[r] \in CallType /\ Holding(call[r], n) /\ Placed(call[r], gate, today, day)
      BY <3>1, CallFields DEF HoldsInv
    <3> QED BY <1>2, <1>p, <1>4, <3>1, <3>2
  <2> QED BY <2>1, <2>2
<1>5. ASSUME ~Restart, UNCHANGED call PROVE HoldsInv'
  <2> SUFFICES ASSUME NEW r \in Slots, call[r] # Idle PROVE GoodNext(call[r])
    BY <1>1, <1>5 DEF HoldsInv
  <2>1. call[r] \in CallType /\ Holding(call[r], n) /\ Placed(call[r], gate, today, day)
    BY CallFields DEF HoldsInv
  <2> QED BY <1>2, <1>p, <1>5, <2>1
<1>6. ASSUME ~Restart, NEW s \in Slots, NEW a \in Agents,
             \/ \E k \in 1..MaxHistory : StartRegister(s, a, k)
             \/ LookAtTrial(s, a) \/ AuthSession(s, a)
      PROVE  HoldsInv'
  <2>1. PICK c \in CallType :
              /\ Only(s, c) /\ c # Idle /\ c.held = "none" /\ c.pc # "look"
              /\ c.pc \in {"check", "write", "commit"} => c.via \in {"list", "registered"}
              /\ c.pc # "pay" /\ (c.via = "window" => c.win \in 1..n)
              /\ c.on = day /\ c.key = 0
    BY <1>6, Begins
  <2>2. Holding(c, n) /\ Placed(c, gate, today, day)
    BY <1>1, <1>g, <2>1 DEF Holding, Placed
  <2>3. GoodNext(c)
    BY <1>2, <1>p, <1>6, <2>1, <2>2
  <2> QED BY <1>4, <1>6, <2>1, <2>3
<1>7. ASSUME ~Restart, NEW s \in Slots, RequestSteps(s) PROVE HoldsInv'
  <2>1. /\ call[s] # Idle /\ call[s] \in CallType /\ Holding(call[s], n) /\ Placed(call[s], gate, today, day)
    BY <1>7, Moves DEF HoldsInv
  <2>2. Holding(call[s], n') /\ Placed(call[s], gate', today', day')
    BY <1>2, <1>p, <1>7, <2>1
  <2> HIDE DEF n
  <2>3. CASE Only(s, Idle)
    BY <1>4, <1>7, <2>3
  <2>4. ASSUME ReserveSignup(s) \/ ReserveTrial(s)
        PROVE  gate'.day = call[s].on /\ gate'.key = Rolled(call[s].on).key /\ day' = day /\ gate'.key \in Nat
    <3> DEFINE g == Rolled(call[s].on)
    <3>1. g \in GateType /\ g.day = call[s].on
      BY <2>1, CallFields, RolledType
    <3>2. gate' = g \/ (\E f : gate' = [g EXCEPT !.signup = f])
                  \/ (\E f, m : gate' = [g EXCEPT !.trials = f, !.hub = m])
      BY <2>4 DEF ReserveSignup, ReserveTrial
    <3>3. day' = day
      BY <2>4 DEF ReserveSignup, ReserveTrial
    <3> HIDE DEF g
    <3>4. gate'.day = g.day /\ gate'.key = g.key /\ g.key \in Nat
      BY <3>1, <3>2 DEF GateType
    <3> QED BY <3>1, <3>3, <3>4 DEF g
  <2>5. ASSUME ReserveSignup(s), call[s].via = "open",
               Only(s, [call[s] EXCEPT !.pc = "check", !.held = "signup", !.key = Rolled(call[s].on).key])
        PROVE  HoldsInv'
    <3> DEFINE c == [call[s] EXCEPT !.pc = "check", !.held = "signup", !.key = gate'.key]
    <3>1. /\ c \in CallType /\ c.pc = "check" /\ c.held = "signup" /\ c.on = call[s].on /\ c.via = "open"
          /\ c.key = gate'.key
      BY <2>1, <2>4, <2>5 DEF CallType
    <3>2. Only(s, c)
      BY <2>4, <2>5
    <3>3. c.on \in Int /\ c.on <= day
      BY <2>1, <3>1, MembersAssumption DEF Placed, CallType, Days
    <3> HIDE DEF c
    <3>4. Holding(c, n')
      BY <2>5, <3>1 DEF Holding
    <3>5. Placed(c, gate', today', day')
      BY <1>1, <2>4, <2>5, <3>1, <3>3 DEF Placed
    <3> QED BY <1>4, <1>7, <3>1, <3>2, <3>4, <3>5
  <2>6. ASSUME ReserveWindow(s), call[s].via = "window",
               Only(s, [call[s] EXCEPT !.pc = "check", !.held = "window"])
        PROVE  HoldsInv'
    <3> DEFINE c == [call[s] EXCEPT !.pc = "check", !.held = "window"]
    <3>1. c \in CallType /\ c.pc = "check" /\ c.held = "window" /\ c.via = "window" /\ c.win = call[s].win
          /\ c.on = call[s].on /\ c.key = call[s].key
      BY <2>1, <2>6 DEF CallType
    <3>2. Only(s, c)
      BY <2>6
    <3> HIDE DEF c
    <3>3. Holding(c, n') /\ Placed(c, gate', today', day')
      BY <2>2, <2>6, <3>1 DEF Holding, Placed
    <3> QED BY <1>4, <1>7, <3>1, <3>2, <3>3
  <2>7. ASSUME call[s].pc = "trial", ReserveTrial(s),
               Only(s, [call[s] EXCEPT !.pc = "pay", !.held = "trial", !.key = Rolled(call[s].on).key])
        PROVE  HoldsInv'
    <3> DEFINE c == [call[s] EXCEPT !.pc = "pay", !.held = "trial", !.key = gate'.key]
    <3>1. /\ c \in CallType /\ c.pc = "pay" /\ c.held = "trial" /\ c.on = call[s].on
          /\ c.key = gate'.key /\ c.via = call[s].via /\ c.win = call[s].win
      BY <2>1, <2>4, <2>7 DEF CallType
    <3>2. Only(s, c)
      BY <2>4, <2>7
    <3>3. c.on \in Int /\ c.on <= day
      BY <2>1, <3>1, MembersAssumption DEF Placed, CallType, Days
    <3> HIDE DEF c
    <3>4. Holding(c, n')
      BY <2>2, <2>7, <3>1 DEF Holding
    <3>5. Placed(c, gate', today', day')
      BY <1>1, <2>4, <2>7, <3>1, <3>3 DEF Placed
    <3> QED BY <1>4, <1>7, <3>1, <3>2, <3>4, <3>5
  <2>8. ASSUME NEW pc \in Phases, Only(s, [call[s] EXCEPT !.pc = pc]),
               \/ pc = "write" /\ call[s].pc = "check"
               \/ pc = "release"
               \/ pc = "commit" /\ call[s].pc = "write"
               \/ pc = "look" /\ call[s].pc = "open"
        PROVE  HoldsInv'
    <3> DEFINE c == [call[s] EXCEPT !.pc = pc]
    <3>1. /\ c \in CallType /\ c.pc = pc /\ c.held = call[s].held /\ c.on = call[s].on /\ c.key = call[s].key
          /\ c.via = call[s].via /\ c.win = call[s].win
      BY <2>1 DEF CallType, Phases
    <3>2. Only(s, c)
      BY <2>8
    <3> HIDE DEF c
    <3>3. Holding(c, n') /\ Placed(c, gate', today', day')
      BY <2>2, <2>8, <3>1 DEF Holding, Placed
    <3> QED BY <1>4, <1>7, <3>1, <3>2, <3>3
  <2>9. {"write", "release", "commit", "look"} \subseteq Phases
    BY DEF Phases
  <2> QED BY <1>7, Moves, <2>3, <2>5, <2>6, <2>7, <2>8, <2>9
<1>8. ASSUME \/ SetAdmissionMode \/ CloseWindow \/ ReadEvents \/ SweepScan \/ Hour \/ NextDay
             \/ \E w \in Days : OpenWindow(w)
             \/ \E e \in after : AfterHooks(e) \/ AfterClear(e)
             \/ \E e \in drain : DrainHooks(e) \/ DrainClear(e)
      PROVE UNCHANGED call
  BY <1>8 DEF SetAdmissionMode, CloseWindow, ReadEvents, SweepScan, Hour, NextDay, OpenWindow, AfterHooks,
     AfterClear, DrainHooks, DrainClear
<1>9. ASSUME NEW a \in Agents,
             \/ PushKEL(a) \/ KelHook(a) \/ Leave(a) \/ Revoke(a) \/ SweepOne(a) \/ Poll(a) \/ Earn(a)
             \/ Review(a) \/ \E g \in {0, Grant} : Admit(a, g)
      PROVE UNCHANGED call
  BY <1>9 DEF PushKEL, KelHook, Leave, Revoke, SweepOne, Poll, Earn, Review, Admit
<1> QED BY <1>3, <1>5, <1>6, <1>7, <1>8, <1>9 DEF MembersNext

-----------------------------------------------------------------------------
(* The counters.                                                            *)

\* The requests of P that hold a place under key k, and those that hold one of window w.
Holders(h, k, P) == {s \in P : call[s] # Idle /\ call[s].held = h /\ call[s].key = k}
InWindow(w) == {s \in Slots : call[s] # Idle /\ call[s].held = "window" /\ call[s].win = w}

\* The same after the step.
HoldersNext(h, k, P) == {s \in P : call'[s] # Idle /\ call'[s].held = h /\ call'[s].key = k}
InWindowNext(w) == {s \in Slots : call'[s] # Idle /\ call'[s].held = "window" /\ call'[s].win = w}

\* The slots whose client is of the network of a level.
At(l) == {s \in Slots : l \in LevelsOf[s]}

LEMMA OneMore ==
  ASSUME NEW S \in SUBSET Slots, NEW s \in Slots
  PROVE  /\ IsFiniteSet(S) /\ Cardinality(S) \in Nat
         /\ s \notin S => Cardinality(S \cup {s}) = Cardinality(S) + 1
         /\ s \in S => Cardinality(S \ {s}) = Cardinality(S) - 1
<1>1. IsFiniteSet(S)
  BY MembersAssumption, FS_Subset
<1>2. Cardinality(S) \in Nat
  BY <1>1, FS_CardinalityType
<1>3. s \notin S => Cardinality(S \cup {s}) = Cardinality(S) + 1
  BY <1>1, FS_AddElement
<1>4. s \in S => Cardinality(S \ {s}) = Cardinality(S) - 1
  BY <1>1, FS_RemoveElement
<1> QED BY <1>1, <1>2, <1>3, <1>4

\* The gate g stands for what is taken, t, and what is held: m and n places of a
\* level, and n trials of the hub.
LevelSound(g, t, l, m, n) ==
  /\ g.signup[l] = t.signup[l] + m /\ g.signup[l] <= SignupMax[l]
  /\ g.trials[l] = t.trials[l] + n /\ g.trials[l] <= TrialMax[l]
HubSound(g, t, n) ==
  /\ g.hub <= t.hub + n /\ g.hub <= TrialHub
  /\ t.rewound \/ g.hub = t.hub + n

Counted(g, t) ==
  /\ \A l \in Levels : LevelSound(g, t, l, Cardinality(Holders("signup", g.key, At(l))),
                                          Cardinality(Holders("trial", g.key, At(l))))
  /\ HubSound(g, t, Cardinality(Holders("trial", g.key, Slots)))
CountedWindows(g) == \A w \in 1..MaxWindows : g.window[w] = Cardinality(InWindow(w))

CountedNext(g, t) ==
  /\ \A l \in Levels : LevelSound(g, t, l, Cardinality(HoldersNext("signup", g.key, At(l))),
                                          Cardinality(HoldersNext("trial", g.key, At(l))))
  /\ HubSound(g, t, Cardinality(HoldersNext("trial", g.key, Slots)))
CountedWindowsNext(g) == \A w \in 1..MaxWindows : g.window[w] = Cardinality(InWindowNext(w))

LEMMA AccountedParts == PlacesAccounted <=> Counted(gate, today) /\ CountedWindows(gate)
<1>1. \A h, l : {s \in KeyHolders(h) : l \in LevelsOf[s]} = Holders(h, gate.key, At(l))
  BY DEF KeyHolders, Holders, At
<1>2. \A h : KeyHolders(h) = Holders(h, gate.key, Slots)
  BY DEF KeyHolders, Holders
<1>3. \A h, l : InFlight(h, l) = Cardinality(Holders(h, gate.key, At(l)))
  BY <1>1 DEF InFlight
<1> QED
  BY <1>2, <1>3 DEF PlacesAccounted, Counted, LevelSound, HubSound, CountedWindows, InWindow

\* The gate's books after a step, from what the counters and the sets have become.
LEMMA Accounts ==
  ASSUME gate' \in GateType, today' \in TodayType, CountedNext(gate', today'), CountedWindowsNext(gate')
  PROVE  GateTypes' /\ PlacesAccounted'
<1>1. GateTypes'
  BY DEF GateTypes
<1>2. \A h, l : {s \in KeyHolders(h)' : l \in LevelsOf[s]} = HoldersNext(h, gate'.key, At(l))
  BY DEF KeyHolders, HoldersNext, At
<1>3. \A h : KeyHolders(h)' = HoldersNext(h, gate'.key, Slots)
  BY DEF KeyHolders, HoldersNext
<1>4. \A h, l : InFlight(h, l)' = Cardinality(HoldersNext(h, gate'.key, At(l)))
  BY <1>2 DEF InFlight
<1>5. PlacesAccounted'
  BY <1>3, <1>4 DEF PlacesAccounted, CountedNext, LevelSound, HubSound, CountedWindowsNext, InWindowNext
<1> QED BY <1>1, <1>5

\* What a step does to the holders when one request moves on.
LEMMA HoldersMove ==
  ASSUME CallTypes, NEW s \in Slots, NEW c, Only(s, c), NEW h, NEW k, NEW P \in SUBSET Slots
  PROVE  HoldersNext(h, k, P) = IF c # Idle /\ c.held = h /\ c.key = k /\ s \in P
                                THEN Holders(h, k, P) \cup {s} ELSE Holders(h, k, P) \ {s}
<1>1. \A r \in Slots : call'[r] = IF r = s THEN c ELSE call[r]
  BY DEF Only, CallTypes
<1>2. ASSUME NEW r \in Slots, r # s PROVE r \in HoldersNext(h, k, P) <=> r \in Holders(h, k, P)
  BY <1>1, <1>2 DEF Holders, HoldersNext
<1>3. s \in HoldersNext(h, k, P) <=> c # Idle /\ c.held = h /\ c.key = k /\ s \in P
  BY <1>1 DEF HoldersNext
<1>4. HoldersNext(h, k, P) \subseteq Slots /\ Holders(h, k, P) \subseteq Slots
  BY DEF Holders, HoldersNext
<1> QED BY <1>2, <1>3, <1>4

LEMMA InWindowMove ==
  ASSUME CallTypes, NEW s \in Slots, NEW c, Only(s, c), NEW w
  PROVE  InWindowNext(w) = IF c # Idle /\ c.held = "window" /\ c.win = w
                        THEN InWindow(w) \cup {s} ELSE InWindow(w) \ {s}
<1>1. \A r \in Slots : call'[r] = IF r = s THEN c ELSE call[r]
  BY DEF Only, CallTypes
<1>2. ASSUME NEW r \in Slots, r # s PROVE r \in InWindowNext(w) <=> r \in InWindow(w)
  BY <1>1, <1>2 DEF InWindow, InWindowNext
<1>3. s \in InWindowNext(w) <=> c # Idle /\ c.held = "window" /\ c.win = w
  BY <1>1 DEF InWindowNext
<1>4. InWindowNext(w) \subseteq Slots /\ InWindow(w) \subseteq Slots
  BY DEF InWindow, InWindowNext
<1> QED BY <1>2, <1>3, <1>4

\* A request that holds as before changes no count.
SameHold(c, e) ==
  \/ (c = Idle \/ c.held = "none") /\ (e = Idle \/ e.held = "none")
  \/ c # Idle /\ e # Idle /\ c.held = e.held /\ c.key = e.key /\ c.win = e.win

LEMMA CountsKept ==
  ASSUME CallTypes, NEW s \in Slots, NEW c, Only(s, c), SameHold(call[s], c)
  PROVE  /\ \A h \in {"signup", "trial"} : \A k : \A P \in SUBSET Slots : HoldersNext(h, k, P) = Holders(h, k, P)
         /\ \A w : InWindowNext(w) = InWindow(w)
<1>1. ASSUME NEW h \in {"signup", "trial"}, NEW k, NEW P \in SUBSET Slots
      PROVE  HoldersNext(h, k, P) = Holders(h, k, P)
  <2>1. s \in Holders(h, k, P) <=> c # Idle /\ c.held = h /\ c.key = k /\ s \in P
    BY DEF Holders, SameHold
  <2> QED BY <2>1, HoldersMove
<1>2. ASSUME NEW w PROVE InWindowNext(w) = InWindow(w)
  <2>1. s \in InWindow(w) <=> c # Idle /\ c.held = "window" /\ c.win = w
    BY DEF InWindow, SameHold
  <2> QED BY <2>1, InWindowMove
<1> QED BY <1>1, <1>2

LEMMA AccountsKept ==
  ASSUME CallTypes, NEW s \in Slots, NEW c, Only(s, c), SameHold(call[s], c),
         gate' \in GateType, today' \in TodayType, Counted(gate', today'), CountedWindows(gate')
  PROVE  GateTypes' /\ PlacesAccounted'
<1>1. /\ \A h \in {"signup", "trial"} : \A k : \A P \in SUBSET Slots : HoldersNext(h, k, P) = Holders(h, k, P)
      /\ \A w : InWindowNext(w) = InWindow(w)
  BY CountsKept
<1>2. ASSUME NEW k
      PROVE  /\ HoldersNext("trial", k, Slots) = Holders("trial", k, Slots)
             /\ \A l : /\ HoldersNext("signup", k, At(l)) = Holders("signup", k, At(l))
                       /\ HoldersNext("trial", k, At(l)) = Holders("trial", k, At(l))
  BY <1>1 DEF At
<1>3. CountedNext(gate', today')
  BY <1>2 DEF Counted, CountedNext
<1>4. CountedWindowsNext(gate')
  BY <1>1 DEF CountedWindows, CountedWindowsNext
<1> QED BY <1>3, <1>4, Accounts

\* A new day starts with no place taken and none held under its key.
LEMMA RolledCounts ==
  ASSUME ClockTypes, GateTypes, CallTypes, HoldsInv, PlacesAccounted, NEW d \in Days
  PROVE  /\ Rolled(d) \in GateType /\ TodayRolled(d) \in TodayType
         /\ Counted(Rolled(d), TodayRolled(d)) /\ CountedWindows(Rolled(d))
<1>1. /\ gate \in GateType /\ today \in TodayType
      /\ Counted(gate, today) /\ CountedWindows(gate)
  BY AccountedParts DEF GateTypes
<1>t. /\ Rolled(d) \in GateType /\ TodayRolled(d) \in TodayType /\ Rolled(d).window = gate.window
      /\ Rolled(d).key = IF gate.day = d THEN gate.key ELSE gate.key + 1
  BY RolledType
<1>2. CASE gate.day = d
  <2>1. Rolled(d) = gate /\ TodayRolled(d) = today
    BY <1>2 DEF Rolled, TodayRolled
  <2> QED BY <1>1, <1>t, <2>1
<1>3. CASE gate.day # d
  <2> DEFINE g == Rolled(d)
             t == TodayRolled(d)
  <2>1. g.signup = Zero /\ g.trials = Zero /\ g.hub = 0
    BY <1>1, <1>3 DEF Rolled, GateType
  <2>2. t.signup = Zero /\ t.trials = Zero /\ t.hub = 0
    BY <1>3 DEF TodayRolled, NothingYet
  <2>3. g.key = gate.key + 1 /\ gate.key \in Nat
    BY <1>1, <1>t, <1>3 DEF GateType
  <2>4. ASSUME NEW h, NEW P \in SUBSET Slots PROVE Holders(h, g.key, P) = {}
    <3>1. ASSUME NEW s \in Slots, call[s] # Idle PROVE call[s].key # gate.key + 1
      <4>1. call[s].key <= gate.key
        BY <3>1 DEF HoldsInv, Placed
      <4>2. call[s].key \in Nat
        BY <3>1, CallFields
      <4> QED BY <2>3, <4>1, <4>2
    <3> QED BY <2>3, <3>1 DEF Holders
  <2> HIDE DEF g, t
  <2>5. Cardinality({}) = 0
    BY FS_EmptySet
  <2>6. ASSUME NEW l \in Levels
        PROVE  LevelSound(g, t, l, Cardinality(Holders("signup", g.key, At(l))),
                                   Cardinality(Holders("trial", g.key, At(l))))
    <3>1. Holders("signup", g.key, At(l)) = {} /\ Holders("trial", g.key, At(l)) = {}
      BY <2>4 DEF At
    <3>2. Zero[l] = 0 /\ SignupMax[l] \in Nat /\ TrialMax[l] \in Nat
      BY MembersAssumption DEF Zero
    <3>3. LevelSound(g, t, l, 0, 0)
      BY <2>1, <2>2, <3>2 DEF LevelSound
    <3> QED BY <2>5, <3>1, <3>3
  <2>7. HubSound(g, t, Cardinality(Holders("trial", g.key, Slots)))
    <3>1. Holders("trial", g.key, Slots) = {}
      BY <2>4
    <3>2. HubSound(g, t, 0)
      BY <2>1, <2>2, MembersAssumption DEF HubSound
    <3> QED BY <2>5, <3>1, <3>2
  <2>8. CountedWindows(g)
    BY <1>1, <1>t DEF CountedWindows, g
  <2>9. Counted(g, t)
    BY <2>6, <2>7 DEF Counted
  <2> QED BY <1>t, <2>8, <2>9 DEF g, t
<1> QED BY <1>2, <1>3

\* A request that ends gives up the place it holds.
LEMMA HoldersEnd ==
  ASSUME CallTypes, NEW s \in Slots, call[s] # Idle, Only(s, Idle)
  PROVE  /\ \A h, k : \A P \in SUBSET Slots :
              /\ Cardinality(Holders(h, k, P)) \in Nat
              /\ Cardinality(HoldersNext(h, k, P)) =
                   IF call[s].held = h /\ call[s].key = k /\ s \in P
                   THEN Cardinality(Holders(h, k, P)) - 1 ELSE Cardinality(Holders(h, k, P))
              /\ call[s].held = h /\ call[s].key = k /\ s \in P => Cardinality(Holders(h, k, P)) > 0
         /\ \A w :
              /\ Cardinality(InWindow(w)) \in Nat
              /\ Cardinality(InWindowNext(w)) =
                   IF call[s].held = "window" /\ call[s].win = w
                   THEN Cardinality(InWindow(w)) - 1 ELSE Cardinality(InWindow(w))
              /\ call[s].held = "window" /\ call[s].win = w => Cardinality(InWindow(w)) > 0
<1>1. ASSUME NEW S \in SUBSET Slots, s \in S
      PROVE  Cardinality(S) > 0 /\ Cardinality(S) \in Nat /\ Cardinality(S \ {s}) = Cardinality(S) - 1
  <2>1. Cardinality(S) \in Nat /\ Cardinality(S \ {s}) \in Nat /\ Cardinality(S \ {s}) = Cardinality(S) - 1
    BY <1>1, OneMore
  <2> QED BY <2>1
<1>2. ASSUME NEW h, NEW k, NEW P \in SUBSET Slots
      PROVE  /\ Cardinality(Holders(h, k, P)) \in Nat
             /\ Cardinality(HoldersNext(h, k, P)) =
                  IF call[s].held = h /\ call[s].key = k /\ s \in P
                  THEN Cardinality(Holders(h, k, P)) - 1 ELSE Cardinality(Holders(h, k, P))
             /\ call[s].held = h /\ call[s].key = k /\ s \in P => Cardinality(Holders(h, k, P)) > 0
  <2>1. HoldersNext(h, k, P) = Holders(h, k, P) \ {s}
    BY HoldersMove
  <2>2. s \in Holders(h, k, P) <=> call[s].held = h /\ call[s].key = k /\ s \in P
    BY DEF Holders
  <2>3. Holders(h, k, P) \in SUBSET Slots
    BY DEF Holders
  <2>4. Cardinality(Holders(h, k, P)) \in Nat
    BY <2>3, OneMore
  <2>5. s \notin Holders(h, k, P) => Holders(h, k, P) \ {s} = Holders(h, k, P)
    OBVIOUS
  <2> QED BY <1>1, <2>1, <2>2, <2>3, <2>4, <2>5
<1>3. ASSUME NEW w
      PROVE  /\ Cardinality(InWindow(w)) \in Nat
             /\ Cardinality(InWindowNext(w)) =
                  IF call[s].held = "window" /\ call[s].win = w
                  THEN Cardinality(InWindow(w)) - 1 ELSE Cardinality(InWindow(w))
             /\ call[s].held = "window" /\ call[s].win = w => Cardinality(InWindow(w)) > 0
  <2>1. InWindowNext(w) = InWindow(w) \ {s}
    BY InWindowMove
  <2>2. s \in InWindow(w) <=> call[s].held = "window" /\ call[s].win = w
    BY DEF InWindow
  <2>3. InWindow(w) \in SUBSET Slots
    BY DEF InWindow
  <2>4. Cardinality(InWindow(w)) \in Nat
    BY <2>3, OneMore
  <2>5. s \notin InWindow(w) => InWindow(w) \ {s} = InWindow(w)
    OBVIOUS
  <2> QED BY <1>1, <2>1, <2>2, <2>3, <2>4, <2>5
<1> QED BY <1>2, <1>3

\* A request that held nothing takes a place.
LEMMA HoldersBegin ==
  ASSUME CallTypes, NEW s \in Slots, call[s] # Idle, call[s].held = "none", NEW c, c # Idle, Only(s, c)
  PROVE  /\ \A h \in {"signup", "trial"} : \A k : \A P \in SUBSET Slots :
              /\ Cardinality(Holders(h, k, P)) \in Nat
              /\ Cardinality(HoldersNext(h, k, P)) =
                   IF c.held = h /\ c.key = k /\ s \in P
                   THEN Cardinality(Holders(h, k, P)) + 1 ELSE Cardinality(Holders(h, k, P))
         /\ \A w :
              /\ Cardinality(InWindow(w)) \in Nat
              /\ Cardinality(InWindowNext(w)) =
                   IF c.held = "window" /\ c.win = w
                   THEN Cardinality(InWindow(w)) + 1 ELSE Cardinality(InWindow(w))
<1>1. ASSUME NEW h \in {"signup", "trial"}, NEW k, NEW P \in SUBSET Slots
      PROVE  /\ Cardinality(Holders(h, k, P)) \in Nat
             /\ Cardinality(HoldersNext(h, k, P)) =
                  IF c.held = h /\ c.key = k /\ s \in P
                  THEN Cardinality(Holders(h, k, P)) + 1 ELSE Cardinality(Holders(h, k, P))
  <2>1. HoldersNext(h, k, P) = IF c.held = h /\ c.key = k /\ s \in P
                            THEN Holders(h, k, P) \cup {s} ELSE Holders(h, k, P) \ {s}
    BY HoldersMove
  <2>2. s \notin Holders(h, k, P) /\ Holders(h, k, P) \in SUBSET Slots
    BY DEF Holders
  <2>3. Holders(h, k, P) \ {s} = Holders(h, k, P)
    BY <2>2
  <2>4. /\ Cardinality(Holders(h, k, P)) \in Nat
        /\ Cardinality(Holders(h, k, P) \cup {s}) = Cardinality(Holders(h, k, P)) + 1
    BY <2>2, OneMore
  <2> QED BY <2>1, <2>3, <2>4
<1>2. ASSUME NEW w
      PROVE  /\ Cardinality(InWindow(w)) \in Nat
             /\ Cardinality(InWindowNext(w)) =
                  IF c.held = "window" /\ c.win = w
                  THEN Cardinality(InWindow(w)) + 1 ELSE Cardinality(InWindow(w))
  <2>1. InWindowNext(w) = IF c.held = "window" /\ c.win = w THEN InWindow(w) \cup {s} ELSE InWindow(w) \ {s}
    BY InWindowMove
  <2>2. s \notin InWindow(w) /\ InWindow(w) \in SUBSET Slots
    BY DEF InWindow
  <2>3. InWindow(w) \ {s} = InWindow(w)
    BY <2>2
  <2>4. /\ Cardinality(InWindow(w)) \in Nat
        /\ Cardinality(InWindow(w) \cup {s}) = Cardinality(InWindow(w)) + 1
    BY <2>2, OneMore
  <2> QED BY <2>1, <2>3, <2>4
<1> QED BY <1>1, <1>2

LEMMA TakeGive ==
  ASSUME NEW f \in [Levels -> Nat], NEW L
  PROVE  /\ Take(f, L) \in [Levels -> Nat]
         /\ (\A l \in Levels : l \in L => f[l] > 0) => Give(f, L) \in [Levels -> Nat]
BY DEF Take, Give

LEMMA PlacesStep ==
  ASSUME ClockTypes, AccountTypes, GateTypes, CallTypes, HoldsInv, PlacesAccounted, MembersNext
  PROVE  GateTypes' /\ PlacesAccounted'
<1>a. /\ gate \in GateType /\ today \in TodayType /\ Counted(gate, today) /\ CountedWindows(gate)
  BY AccountedParts DEF GateTypes
<1>b. /\ gate.signup \in [Levels -> Nat] /\ gate.trials \in [Levels -> Nat]
      /\ gate.window \in [1..MaxWindows -> Nat]
      /\ today.signup \in [Levels -> Nat] /\ today.trials \in [Levels -> Nat]
      /\ gate.hub \in Nat /\ today.hub \in Nat /\ gate.key \in Nat
  BY <1>a DEF GateType, TodayType
<1>c. /\ SignupMax \in [Levels -> Nat] /\ TrialMax \in [Levels -> Nat] /\ MaxWindows \in Nat
      /\ WindowMax \in Nat /\ TrialHub \in Nat
  BY MembersAssumption
<1>n. Len(windows) \in Nat /\ Len(windows) <= MaxWindows
  BY LenProperties DEF ClockTypes
<1>1. ASSUME UNCHANGED <<gate, today, call>> PROVE GateTypes' /\ PlacesAccounted'
  BY <1>1 DEF GateTypes, PlacesAccounted, InFlight, KeyHolders
<1>2. ASSUME NEW s \in Slots, NEW c, Only(s, c), SameHold(call[s], c), UNCHANGED <<gate, today>>
      PROVE  GateTypes' /\ PlacesAccounted'
  <2>1. gate' = gate /\ today' = today
    BY <1>2
  <2>2. gate' \in GateType /\ today' \in TodayType /\ Counted(gate', today') /\ CountedWindows(gate')
    BY <2>1, <1>a
  <2> QED BY <1>2, <2>2, AccountsKept
<1>3. ASSUME NEW s \in Slots, NEW a \in Agents,
             \/ \E k \in 1..MaxHistory : StartRegister(s, a, k)
             \/ LookAtTrial(s, a) \/ AuthSession(s, a)
      PROVE  GateTypes' /\ PlacesAccounted'
  <2>1. PICK c : Only(s, c) /\ c.held = "none" /\ call[s] = Idle
    BY <1>3, Begins
  <2>2. SameHold(call[s], c)
    BY <2>1 DEF SameHold
  <2>3. UNCHANGED <<gate, today>>
    BY <1>3 DEF StartRegister, LookAtTrial, AuthSession
  <2> QED BY <1>2, <2>1, <2>2, <2>3
<1>4. ASSUME NEW s \in Slots, \/ CheckRequest(s) \/ WriteRegistration(s) \/ WriteRefused(s) \/ TrialNotPaid(s)
      PROVE  GateTypes' /\ PlacesAccounted'
  <2>1. call[s] # Idle /\ call[s] \in CallType
    BY <1>4, CallFields DEF CheckRequest, WriteRegistration, WriteRefused, TrialNotPaid
  <2>2. PICK pc \in Phases : Only(s, [call[s] EXCEPT !.pc = pc])
    <3>1. ASSUME WriteRegistration(s)
          PROVE  Only(s, [call[s] EXCEPT !.pc = "commit"]) \/ Only(s, [call[s] EXCEPT !.pc = "release"])
      BY <3>1 DEF WriteRegistration, Only
    <3>2. ASSUME CheckRequest(s) \/ WriteRefused(s) \/ TrialNotPaid(s)
          PROVE  Only(s, [call[s] EXCEPT !.pc = "write"]) \/ Only(s, [call[s] EXCEPT !.pc = "release"])
      BY <3>2 DEF CheckRequest, WriteRefused, TrialNotPaid, Only
    <3> QED BY <1>4, <3>1, <3>2 DEF Phases
  <2>3. SameHold(call[s], [call[s] EXCEPT !.pc = pc])
    <3> DEFINE c == [call[s] EXCEPT !.pc = pc]
    <3>1. c.held = call[s].held /\ c.key = call[s].key /\ c.win = call[s].win /\ c \in CallType
      BY <2>1 DEF CallType, Phases
    <3>2. c # Idle
      BY <3>1 DEF CallType, Idle
    <3> SUFFICES SameHold(call[s], c)
      OBVIOUS
    <3> HIDE DEF c
    <3> QED BY <2>1, <3>1, <3>2 DEF SameHold
  <2>4. UNCHANGED <<gate, today>>
    BY <1>4 DEF CheckRequest, WriteRegistration, WriteRefused, TrialNotPaid
  <2> QED BY <1>2, <2>2, <2>3, <2>4
<1>5. ASSUME NEW s \in Slots, OpenSession(s) \/ LookAgain(s) PROVE GateTypes' /\ PlacesAccounted'
  <2>1. call[s] # Idle /\ call[s].pc \in {"open", "look"} /\ UNCHANGED <<gate, today>>
    BY <1>5 DEF OpenSession, LookAgain
  <2>2. call[s].held = "none" /\ call[s] \in CallType
    BY <2>1, CallFields DEF HoldsInv, Holding
  <2>3. Only(s, Idle) \/ Only(s, [call[s] EXCEPT !.pc = "look"])
    BY <1>5 DEF OpenSession, LookAgain, Only
  <2>4. SameHold(call[s], Idle) /\ SameHold(call[s], [call[s] EXCEPT !.pc = "look"])
    <3>1. [call[s] EXCEPT !.pc = "look"].held = "none"
      BY <2>2 DEF CallType
    <3> QED BY <2>2, <3>1 DEF SameHold
  <2> QED BY <1>2, <2>1, <2>3, <2>4
<1>6. ASSUME NEW s \in Slots, ReserveSignup(s) PROVE GateTypes' /\ PlacesAccounted'
  <2>1. call[s] # Idle /\ call[s].pc = "reserve" /\ call[s] \in CallType /\ call[s].held = "none"
    BY <1>6, CallFields DEF ReserveSignup, HoldsInv, Holding
  <2> DEFINE g == Rolled(call[s].on)
             t == TodayRolled(call[s].on)
             full == \E l \in LevelsOf[s] : g.signup[l] >= SignupMax[l]
  <2>r. g \in GateType /\ t \in TodayType /\ Counted(g, t) /\ CountedWindows(g) /\ today' = t
    <3>1. call[s].on \in Days
      BY <2>1, CallFields
    <3> QED BY <1>6, <3>1, RolledCounts DEF ReserveSignup
  <2>2. CASE full
    <3>1. gate' = g /\ Only(s, Idle)
      BY <1>6, <2>2 DEF ReserveSignup, Only
    <3>2. SameHold(call[s], Idle)
      BY <2>1 DEF SameHold
    <3> HIDE DEF g, t, full
    <3>3. gate' \in GateType /\ today' \in TodayType /\ Counted(gate', today') /\ CountedWindows(gate')
      BY <3>1, <2>r
    <3> QED BY <3>1, <3>2, <3>3, AccountsKept
  <2>3. CASE ~full
    <3> DEFINE c == [call[s] EXCEPT !.pc = "check", !.held = "signup", !.key = g.key]
               taken == Take(g.signup, LevelsOf[s])
    <3>1. gate' = [g EXCEPT !.signup = taken] /\ Only(s, c)
      BY <1>6, <2>3 DEF ReserveSignup, Only
    <3>n. ~full
      BY <2>3
    <3> HIDE DEF g, t
    <3>2. /\ g.signup \in [Levels -> Nat] /\ t.signup \in [Levels -> Nat] /\ t.trials \in [Levels -> Nat]
          /\ g.hub \in Nat /\ t.hub \in Nat /\ g.key \in Nat
      BY <2>r DEF GateType, TodayType
    <3>t. taken \in [Levels -> Nat]
      BY <3>2, TakeGive
    <3>v. \A l \in Levels : taken[l] = IF l \in LevelsOf[s] THEN g.signup[l] + 1 ELSE g.signup[l]
      BY DEF Take
    <3>4. c # Idle /\ c.held = "signup" /\ c.key = g.key
      BY <2>1 DEF CallType, Idle
    <3>5. \A l \in LevelsOf[s] : l \in Levels /\ g.signup[l] < SignupMax[l]
      BY <3>n, <3>2, MembersAssumption
    <3>u. TRUE
      BY <3>n, <3>2, <1>c
    <3> HIDE DEF taken, c, full
    <3>3. /\ gate' \in GateType /\ gate'.key = g.key /\ gate'.signup = taken
          /\ gate'.trials = g.trials /\ gate'.window = g.window /\ gate'.hub = g.hub
      <4>1. g.hub + 1 \in Nat
        BY <3>2
      <4> QED BY <3>1, <3>t, <2>r, <4>1 DEF GateType
    <3>6. ASSUME NEW l \in Levels
          PROVE  LevelSound(gate', today', l, Cardinality(HoldersNext("signup", gate'.key, At(l))),
                                              Cardinality(HoldersNext("trial", gate'.key, At(l))))
      <4>0. At(l) \in SUBSET Slots /\ (s \in At(l) <=> l \in LevelsOf[s])
        BY DEF At
      <4>1. /\ g.signup[l] = t.signup[l] + Cardinality(Holders("signup", g.key, At(l))) /\ g.signup[l] <= SignupMax[l]
            /\ g.trials[l] = t.trials[l] + Cardinality(Holders("trial", g.key, At(l)))
            /\ g.trials[l] <= TrialMax[l]
        BY <2>r DEF Counted, LevelSound
      <4>2. /\ Cardinality(Holders("signup", g.key, At(l))) \in Nat
            /\ Cardinality(HoldersNext("signup", g.key, At(l))) =
                 IF l \in LevelsOf[s] THEN Cardinality(Holders("signup", g.key, At(l))) + 1
                 ELSE Cardinality(Holders("signup", g.key, At(l)))
            /\ Cardinality(HoldersNext("trial", g.key, At(l))) = Cardinality(Holders("trial", g.key, At(l)))
        BY <2>1, <3>1, <3>4, <4>0, HoldersBegin
      <4>3. gate'.signup[l] = IF l \in LevelsOf[s] THEN g.signup[l] + 1 ELSE g.signup[l]
        BY <3>v, <3>3
      <4>4. g.signup[l] \in Nat /\ t.signup[l] \in Nat /\ SignupMax[l] \in Nat
        BY <3>2, <1>c
      <4>5. gate'.signup[l] = t.signup[l] + Cardinality(HoldersNext("signup", g.key, At(l)))
        BY <4>1, <4>2, <4>3, <4>4
      <4>6. gate'.signup[l] <= SignupMax[l]
        BY <3>5, <4>1, <4>3, <4>4
      <4>7. /\ gate'.trials[l] = t.trials[l] + Cardinality(HoldersNext("trial", g.key, At(l)))
            /\ gate'.trials[l] <= TrialMax[l]
        BY <3>3, <4>1, <4>2
      <4> QED BY <2>r, <3>3, <4>5, <4>6, <4>7 DEF LevelSound
    <3>h. HubSound(gate', today', Cardinality(HoldersNext("trial", gate'.key, Slots)))
      <4> DEFINE n == Cardinality(Holders("trial", g.key, Slots))
                 m == Cardinality(HoldersNext("trial", g.key, Slots))
      <4>1. n \in Nat /\ m = n
        BY <2>1, <3>1, <3>4, HoldersBegin
      <4>2. HubSound(g, t, n)
        BY <2>r DEF Counted
      <4> HIDE DEF n, m
      <4>3. HubSound(gate', t, m)
        BY <1>c, <3>2, <3>3, <3>u, <4>1, <4>2 DEF HubSound
      <4> QED BY <2>r, <3>3, <4>3 DEF m
    <3>7. CountedWindowsNext(gate')
      <4> SUFFICES ASSUME NEW w \in 1..MaxWindows PROVE gate'.window[w] = Cardinality(InWindowNext(w))
        BY DEF CountedWindowsNext
      <4>1. Cardinality(InWindowNext(w)) = Cardinality(InWindow(w))
        BY <2>1, <3>1, <3>4, HoldersBegin
      <4> QED BY <4>1, <2>r, <3>3 DEF CountedWindows
    <3>8. CountedNext(gate', today')
      BY <3>6, <3>h DEF CountedNext
    <3> QED BY <2>r, <3>3, <3>7, <3>8, Accounts
  <2> QED BY <2>2, <2>3
<1>7. ASSUME NEW s \in Slots, ReserveTrial(s) PROVE GateTypes' /\ PlacesAccounted'
  <2>1. call[s] # Idle /\ call[s].pc = "trial" /\ call[s] \in CallType /\ call[s].held = "none"
    BY <1>7, CallFields DEF ReserveTrial, HoldsInv, Holding
  <2> DEFINE g == Rolled(call[s].on)
             t == TodayRolled(call[s].on)
             spent == g.hub >= TrialHub \/ \E l \in LevelsOf[s] : g.trials[l] >= TrialMax[l]
  <2>r. g \in GateType /\ t \in TodayType /\ Counted(g, t) /\ CountedWindows(g) /\ today' = t
    <3>1. call[s].on \in Days
      BY <2>1, CallFields
    <3> QED BY <1>7, <3>1, RolledCounts DEF ReserveTrial
  <2>2. CASE spent
    <3>1. gate' = g /\ Only(s, Idle)
      BY <1>7, <2>2 DEF ReserveTrial, Only
    <3>2. SameHold(call[s], Idle)
      BY <2>1 DEF SameHold
    <3> HIDE DEF g, t, spent
    <3>3. gate' \in GateType /\ today' \in TodayType /\ Counted(gate', today') /\ CountedWindows(gate')
      BY <3>1, <2>r
    <3> QED BY <3>1, <3>2, <3>3, AccountsKept
  <2>3. CASE ~spent
    <3> DEFINE c == [call[s] EXCEPT !.pc = "pay", !.held = "trial", !.key = g.key]
               taken == Take(g.trials, LevelsOf[s])
    <3>1. gate' = [g EXCEPT !.trials = taken, !.hub = g.hub + 1] /\ Only(s, c)
      BY <1>7, <2>3 DEF ReserveTrial, Only
    <3>n. ~spent
      BY <2>3
    <3> HIDE DEF g, t
    <3>2. /\ g.trials \in [Levels -> Nat] /\ t.signup \in [Levels -> Nat] /\ t.trials \in [Levels -> Nat]
          /\ g.hub \in Nat /\ t.hub \in Nat /\ g.key \in Nat
      BY <2>r DEF GateType, TodayType
    <3>t. taken \in [Levels -> Nat]
      BY <3>2, TakeGive
    <3>v. \A l \in Levels : taken[l] = IF l \in LevelsOf[s] THEN g.trials[l] + 1 ELSE g.trials[l]
      BY DEF Take
    <3>4. c # Idle /\ c.held = "trial" /\ c.key = g.key
      BY <2>1 DEF CallType, Idle
    <3>5. \A l \in LevelsOf[s] : l \in Levels /\ g.trials[l] < TrialMax[l]
      BY <3>n, <3>2, MembersAssumption
    <3>u. g.hub < TrialHub
      BY <3>n, <3>2, <1>c
    <3> HIDE DEF taken, c, spent
    <3>3. /\ gate' \in GateType /\ gate'.key = g.key /\ gate'.trials = taken
          /\ gate'.signup = g.signup /\ gate'.window = g.window /\ gate'.hub = g.hub + 1
      <4>1. g.hub + 1 \in Nat
        BY <3>2
      <4> QED BY <3>1, <3>t, <2>r, <4>1 DEF GateType
    <3>6. ASSUME NEW l \in Levels
          PROVE  LevelSound(gate', today', l, Cardinality(HoldersNext("signup", gate'.key, At(l))),
                                              Cardinality(HoldersNext("trial", gate'.key, At(l))))
      <4>0. At(l) \in SUBSET Slots /\ (s \in At(l) <=> l \in LevelsOf[s])
        BY DEF At
      <4>1. /\ g.trials[l] = t.trials[l] + Cardinality(Holders("trial", g.key, At(l))) /\ g.trials[l] <= TrialMax[l]
            /\ g.signup[l] = t.signup[l] + Cardinality(Holders("signup", g.key, At(l)))
            /\ g.signup[l] <= SignupMax[l]
        BY <2>r DEF Counted, LevelSound
      <4>2. /\ Cardinality(Holders("trial", g.key, At(l))) \in Nat
            /\ Cardinality(HoldersNext("trial", g.key, At(l))) =
                 IF l \in LevelsOf[s] THEN Cardinality(Holders("trial", g.key, At(l))) + 1
                 ELSE Cardinality(Holders("trial", g.key, At(l)))
            /\ Cardinality(HoldersNext("signup", g.key, At(l))) = Cardinality(Holders("signup", g.key, At(l)))
        BY <2>1, <3>1, <3>4, <4>0, HoldersBegin
      <4>3. gate'.trials[l] = IF l \in LevelsOf[s] THEN g.trials[l] + 1 ELSE g.trials[l]
        BY <3>v, <3>3
      <4>4. g.trials[l] \in Nat /\ t.trials[l] \in Nat /\ TrialMax[l] \in Nat
        BY <3>2, <1>c
      <4>5. gate'.trials[l] = t.trials[l] + Cardinality(HoldersNext("trial", g.key, At(l)))
        BY <4>1, <4>2, <4>3, <4>4
      <4>6. gate'.trials[l] <= TrialMax[l]
        BY <3>5, <4>1, <4>3, <4>4
      <4>7. /\ gate'.signup[l] = t.signup[l] + Cardinality(HoldersNext("signup", g.key, At(l)))
            /\ gate'.signup[l] <= SignupMax[l]
        BY <3>3, <4>1, <4>2
      <4> QED BY <2>r, <3>3, <4>5, <4>6, <4>7 DEF LevelSound
    <3>h. HubSound(gate', today', Cardinality(HoldersNext("trial", gate'.key, Slots)))
      <4> DEFINE n == Cardinality(Holders("trial", g.key, Slots))
                 m == Cardinality(HoldersNext("trial", g.key, Slots))
      <4>1. n \in Nat /\ m = n + 1
        BY <2>1, <3>1, <3>4, HoldersBegin
      <4>2. HubSound(g, t, n)
        BY <2>r DEF Counted
      <4> HIDE DEF n, m
      <4>3. HubSound(gate', t, m)
        BY <1>c, <3>2, <3>3, <3>u, <4>1, <4>2 DEF HubSound
      <4> QED BY <2>r, <3>3, <4>3 DEF m
    <3>7. CountedWindowsNext(gate')
      <4> SUFFICES ASSUME NEW w \in 1..MaxWindows PROVE gate'.window[w] = Cardinality(InWindowNext(w))
        BY DEF CountedWindowsNext
      <4>1. Cardinality(InWindowNext(w)) = Cardinality(InWindow(w))
        BY <2>1, <3>1, <3>4, HoldersBegin
      <4> QED BY <4>1, <2>r, <3>3 DEF CountedWindows
    <3>8. CountedNext(gate', today')
      BY <3>6, <3>h DEF CountedNext
    <3> QED BY <2>r, <3>3, <3>7, <3>8, Accounts
  <2> QED BY <2>2, <2>3
<1>8. ASSUME NEW s \in Slots, ReserveWindow(s) PROVE GateTypes' /\ PlacesAccounted'
  <2>1. /\ call[s] # Idle /\ call[s].pc = "reserve" /\ call[s].via = "window"
        /\ call[s] \in CallType /\ call[s].held = "none" /\ today' = today
    BY <1>8, CallFields DEF ReserveWindow, HoldsInv, Holding
  <2> DEFINE u == call[s].win
  <2>2. u \in 1..MaxWindows
    <3>1. u \in 1..Len(windows)
      BY <2>1 DEF HoldsInv, Holding
    <3> QED BY <3>1, <1>n, <1>c
  <2>3. CASE gate' = gate /\ Only(s, Idle)
    <3>1. SameHold(call[s], Idle)
      BY <2>1 DEF SameHold
    <3> QED BY <2>1, <2>3, <3>1, <1>2
  <2>4. ASSUME gate' = [gate EXCEPT !.window[u] = @ + 1],
               Only(s, [call[s] EXCEPT !.pc = "check", !.held = "window"])
        PROVE  GateTypes' /\ PlacesAccounted'
    <3> DEFINE c == [call[s] EXCEPT !.pc = "check", !.held = "window"]
               counts == [gate.window EXCEPT ![u] = gate.window[u] + 1]
    <3>1. gate' = [gate EXCEPT !.window = counts] /\ Only(s, c)
      BY <2>4
    <3>2. counts \in [1..MaxWindows -> Nat] /\ \A w \in 1..MaxWindows :
            counts[w] = IF w = u THEN gate.window[w] + 1 ELSE gate.window[w]
      <4>1. gate.window[u] + 1 \in Nat
        <5>1. gate.window[u] \in Nat
          BY <1>b, <2>2
        <5> QED BY <5>1
      <4> QED BY <4>1, <1>b
    <3>4. c # Idle /\ c.held = "window" /\ c.win = u
      BY <2>1 DEF CallType, Idle
    <3> HIDE DEF c, counts
    <3>3. /\ gate' \in GateType /\ gate'.key = gate.key /\ gate'.hub = gate.hub /\ gate'.signup = gate.signup
          /\ gate'.trials = gate.trials /\ gate'.window = counts
      BY <1>a, <3>1, <3>2 DEF GateType
    <3>5. CountedNext(gate', today')
      <4>1. \A P \in SUBSET Slots :
              /\ Cardinality(HoldersNext("signup", gate.key, P)) = Cardinality(Holders("signup", gate.key, P))
              /\ Cardinality(HoldersNext("trial", gate.key, P)) = Cardinality(Holders("trial", gate.key, P))
        BY <2>1, <3>1, <3>4, HoldersBegin
      <4>2. \A l : At(l) \in SUBSET Slots
        BY DEF At
      <4> QED BY <4>1, <4>2, <3>3, <2>1, <1>a DEF Counted, CountedNext, LevelSound, HubSound
    <3>6. ASSUME NEW w \in 1..MaxWindows PROVE gate'.window[w] = Cardinality(InWindowNext(w))
      <4>1. Cardinality(InWindowNext(w)) =
              IF w = u THEN Cardinality(InWindow(w)) + 1 ELSE Cardinality(InWindow(w))
        BY <2>1, <3>1, <3>4, HoldersBegin
      <4>2. gate.window[w] = Cardinality(InWindow(w))
        BY <1>a DEF CountedWindows
      <4> QED BY <3>2, <3>3, <4>1, <4>2
    <3>7. today' \in TodayType
      BY <1>a, <2>1
    <3> QED BY <3>3, <3>5, <3>6, <3>7, Accounts DEF CountedWindowsNext
  <2>5. \/ gate' = gate /\ Only(s, Idle)
        \/ /\ gate' = [gate EXCEPT !.window[u] = @ + 1]
           /\ Only(s, [call[s] EXCEPT !.pc = "check", !.held = "window"])
    BY <1>8 DEF ReserveWindow, Only
  <2> QED BY <2>3, <2>4, <2>5
\* A request ends: its window's place goes back, or a place of a network, counted or not.
<1>9. ASSUME NEW s \in Slots, call[s] # Idle, Only(s, Idle), call[s].held = "window",
             gate' = [gate EXCEPT !.window[call[s].win] = @ - 1], today' = today
      PROVE  GateTypes' /\ PlacesAccounted'
  <2> DEFINE u == call[s].win
             counts == [gate.window EXCEPT ![u] = gate.window[u] - 1]
  <2>1. u \in 1..MaxWindows
    <3>1. u \in 1..Len(windows)
      BY <1>9 DEF HoldsInv, Holding
    <3> QED BY <3>1, <1>n, <1>c
  <2>2. /\ \A w : /\ Cardinality(InWindow(w)) \in Nat
                  /\ Cardinality(InWindowNext(w)) =
                       IF w = u THEN Cardinality(InWindow(w)) - 1 ELSE Cardinality(InWindow(w))
        /\ Cardinality(InWindow(u)) > 0
    BY <1>9, HoldersEnd
  <2>3. \A P \in SUBSET Slots :
          /\ Cardinality(HoldersNext("signup", gate.key, P)) = Cardinality(Holders("signup", gate.key, P))
          /\ Cardinality(HoldersNext("trial", gate.key, P)) = Cardinality(Holders("trial", gate.key, P))
    BY <1>9, HoldersEnd
  <2>4. gate.window[u] - 1 \in Nat
    <3>1. gate.window[u] = Cardinality(InWindow(u))
      BY <1>a, <2>1 DEF CountedWindows
    <3>2. Cardinality(InWindow(u)) \in Nat
      BY <2>2
    <3> QED BY <2>2, <3>1, <3>2
  <2>5. counts \in [1..MaxWindows -> Nat] /\ \A w \in 1..MaxWindows :
          counts[w] = IF w = u THEN gate.window[w] - 1 ELSE gate.window[w]
    BY <1>b, <2>1, <2>4
  <2>7. gate' = [gate EXCEPT !.window = counts]
    BY <1>9
  <2> HIDE DEF counts
  <2>6. /\ gate' \in GateType /\ gate'.key = gate.key /\ gate'.hub = gate.hub /\ gate'.signup = gate.signup
        /\ gate'.trials = gate.trials /\ gate'.window = counts
    BY <1>a, <2>5, <2>7 DEF GateType
  <2>8. CountedNext(gate', today')
    <3>1. \A l : At(l) \in SUBSET Slots
      BY DEF At
    <3> QED BY <2>3, <2>6, <3>1, <1>9, <1>a DEF Counted, CountedNext, LevelSound, HubSound
  <2>9. ASSUME NEW w \in 1..MaxWindows PROVE gate'.window[w] = Cardinality(InWindowNext(w))
    <3>1. gate.window[w] = Cardinality(InWindow(w))
      BY <1>a DEF CountedWindows
    <3> QED BY <2>2, <2>5, <2>6, <3>1
  <2>10. today' \in TodayType
    BY <1>a, <1>9
  <2> QED BY <2>6, <2>8, <2>9, <2>10, Accounts DEF CountedWindowsNext
<1>10. ASSUME NEW s \in Slots, call[s] # Idle, Only(s, Idle), call[s].held # "window",
              gate' \in GateType, today' \in TodayType, gate'.key = gate.key, gate'.window = gate.window,
              \A l \in Levels :
                /\ gate'.signup[l] - today'.signup[l] = gate.signup[l] - today.signup[l]
                     - (IF call[s].held = "signup" /\ call[s].key = gate.key /\ l \in LevelsOf[s] THEN 1 ELSE 0)
                /\ gate'.trials[l] - today'.trials[l] = gate.trials[l] - today.trials[l]
                     - (IF call[s].held = "trial" /\ call[s].key = gate.key /\ l \in LevelsOf[s] THEN 1 ELSE 0)
                /\ gate'.signup[l] <= gate.signup[l] /\ gate'.trials[l] <= gate.trials[l],
              HubSound(gate', today', Cardinality(HoldersNext("trial", gate.key, Slots)))
       PROVE  GateTypes' /\ PlacesAccounted'
  <2>0. /\ gate'.signup \in [Levels -> Nat] /\ gate'.trials \in [Levels -> Nat]
        /\ today'.signup \in [Levels -> Nat] /\ today'.trials \in [Levels -> Nat]
    BY <1>10 DEF GateType, TodayType
  <2>3. ASSUME NEW l \in Levels
        PROVE  LevelSound(gate', today', l, Cardinality(HoldersNext("signup", gate'.key, At(l))),
                                            Cardinality(HoldersNext("trial", gate'.key, At(l))))
    <3>0. At(l) \in SUBSET Slots /\ (s \in At(l) <=> l \in LevelsOf[s])
      BY DEF At
    <3>1. /\ Cardinality(Holders("signup", gate.key, At(l))) \in Nat
          /\ Cardinality(HoldersNext("signup", gate.key, At(l))) =
               IF call[s].held = "signup" /\ call[s].key = gate.key /\ l \in LevelsOf[s]
               THEN Cardinality(Holders("signup", gate.key, At(l))) - 1
               ELSE Cardinality(Holders("signup", gate.key, At(l)))
      BY <1>10, <3>0, HoldersEnd
    <3>b. /\ Cardinality(Holders("trial", gate.key, At(l))) \in Nat
          /\ Cardinality(HoldersNext("trial", gate.key, At(l))) =
               IF call[s].held = "trial" /\ call[s].key = gate.key /\ l \in LevelsOf[s]
               THEN Cardinality(Holders("trial", gate.key, At(l))) - 1
               ELSE Cardinality(Holders("trial", gate.key, At(l)))
      BY <1>10, <3>0, HoldersEnd
    <3>2. /\ gate.signup[l] = today.signup[l] + Cardinality(Holders("signup", gate.key, At(l)))
          /\ gate.signup[l] <= SignupMax[l]
          /\ gate.trials[l] = today.trials[l] + Cardinality(Holders("trial", gate.key, At(l)))
          /\ gate.trials[l] <= TrialMax[l]
      BY <1>a DEF Counted, LevelSound
    <3>3. /\ gate.signup[l] \in Nat /\ today.signup[l] \in Nat
          /\ gate'.signup[l] \in Nat /\ today'.signup[l] \in Nat
          /\ gate.trials[l] \in Nat /\ today.trials[l] \in Nat
          /\ gate'.trials[l] \in Nat /\ today'.trials[l] \in Nat
          /\ SignupMax[l] \in Nat /\ TrialMax[l] \in Nat
      BY <1>b, <1>c, <2>0
    <3>c. /\ gate'.signup[l] - today'.signup[l] = gate.signup[l] - today.signup[l]
               - (IF call[s].held = "signup" /\ call[s].key = gate.key /\ l \in LevelsOf[s] THEN 1 ELSE 0)
          /\ gate'.trials[l] - today'.trials[l] = gate.trials[l] - today.trials[l]
               - (IF call[s].held = "trial" /\ call[s].key = gate.key /\ l \in LevelsOf[s] THEN 1 ELSE 0)
          /\ gate'.signup[l] <= gate.signup[l] /\ gate'.trials[l] <= gate.trials[l]
      BY <1>10
    <3>4. /\ gate'.signup[l] = today'.signup[l] + Cardinality(HoldersNext("signup", gate.key, At(l)))
          /\ gate'.signup[l] <= SignupMax[l]
      BY <3>c, <3>1, <3>2, <3>3
    <3>5. /\ gate'.trials[l] = today'.trials[l] + Cardinality(HoldersNext("trial", gate.key, At(l)))
          /\ gate'.trials[l] <= TrialMax[l]
      BY <3>c, <3>b, <3>2, <3>3
    <3>6. gate'.key = gate.key
      BY <1>10
    <3> QED BY <3>6, <3>4, <3>5 DEF LevelSound
  <2>4. CountedWindowsNext(gate')
    <3> SUFFICES ASSUME NEW w \in 1..MaxWindows PROVE gate'.window[w] = Cardinality(InWindowNext(w))
      BY DEF CountedWindowsNext
    <3>1. Cardinality(InWindowNext(w)) = Cardinality(InWindow(w))
      BY <1>10, HoldersEnd
    <3>2. gate'.window[w] = gate.window[w]
      BY <1>10
    <3> QED BY <3>1, <3>2, <1>a DEF CountedWindows
  <2>5. CountedNext(gate', today')
    BY <1>10, <2>3 DEF CountedNext
  <2> QED BY <1>10, <2>4, <2>5, Accounts
<1>h. ASSUME NEW s \in Slots, call[s] # Idle, Only(s, Idle)
      PROVE  \E n, m \in Nat :
               /\ m = Cardinality(HoldersNext("trial", gate.key, Slots)) /\ HubSound(gate, today, n)
               /\ call[s].held = "trial" /\ call[s].key = gate.key => m = n - 1
               /\ ~(call[s].held = "trial" /\ call[s].key = gate.key) => m = n
  <2> DEFINE n == Cardinality(Holders("trial", gate.key, Slots))
             m == Cardinality(HoldersNext("trial", gate.key, Slots))
  <2>1. /\ n \in Nat /\ m = IF call[s].held = "trial" /\ call[s].key = gate.key THEN n - 1 ELSE n
        /\ call[s].held = "trial" /\ call[s].key = gate.key => n > 0
    BY <1>h, HoldersEnd
  <2>2. HubSound(gate, today, n)
    BY <1>a DEF Counted
  <2> HIDE DEF n
  <2>3. m \in Nat
    BY <2>1
  <2> QED BY <2>1, <2>2, <2>3
<1>e. ASSUME NEW s \in Slots, call[s] # Idle, Only(s, Idle), call[s].held # "window",
             UNCHANGED <<gate, today>>,
             ~(call[s].held \in {"signup", "trial"} /\ call[s].key = gate.key)
      PROVE  GateTypes' /\ PlacesAccounted'
  <2>1. gate' = gate /\ today' = today
    BY <1>e
  <2>2. ASSUME NEW l \in Levels
        PROVE  /\ gate'.signup[l] - today'.signup[l] = gate.signup[l] - today.signup[l]
                    - (IF call[s].held = "signup" /\ call[s].key = gate.key /\ l \in LevelsOf[s] THEN 1 ELSE 0)
               /\ gate'.trials[l] - today'.trials[l] = gate.trials[l] - today.trials[l]
                    - (IF call[s].held = "trial" /\ call[s].key = gate.key /\ l \in LevelsOf[s] THEN 1 ELSE 0)
               /\ gate'.signup[l] <= gate.signup[l] /\ gate'.trials[l] <= gate.trials[l]
    <3>1. gate.signup[l] \in Nat /\ today.signup[l] \in Nat /\ gate.trials[l] \in Nat /\ today.trials[l] \in Nat
      BY <1>b
    <3> QED BY <1>e, <2>1, <3>1
  <2>3. gate' \in GateType /\ today' \in TodayType /\ gate'.key = gate.key /\ gate'.window = gate.window
    BY <2>1, <1>a
  <2>4. HubSound(gate', today', Cardinality(HoldersNext("trial", gate.key, Slots)))
    BY <1>e, <1>h, <2>1
  <2> QED BY <1>e, <1>10, <2>2, <2>3, <2>4
<1>11. ASSUME NEW s \in Slots, CommitPlace(s) PROVE GateTypes' /\ PlacesAccounted'
  <2>1. /\ call[s] # Idle /\ call[s].pc = "commit" /\ call[s] \in CallType /\ Only(s, Idle)
        /\ call[s].via \in Via
    BY <1>11, CallFields DEF CommitPlace, Only
  <2>2. call[s].held # "trial"
    <3>1. Holding(call[s], Len(windows))
      BY <2>1 DEF HoldsInv
    <3> QED BY <2>1, <3>1 DEF Holding, Via
  <2>3. CASE call[s].held = "window"
    <3>1. gate' = [gate EXCEPT !.window[call[s].win] = @ - 1] /\ today' = today
      BY <1>11, <2>3 DEF CommitPlace
    <3> QED BY <1>9, <2>1, <2>3, <3>1
  <2>4. CASE call[s].held = "signup" /\ call[s].key = gate.key
    <3> DEFINE ts == Take(today.signup, LevelsOf[s])
    <3>1. gate' = gate /\ today' = [today EXCEPT !.signup = ts]
      BY <1>11, <2>4 DEF CommitPlace
    <3>2. ts \in [Levels -> Nat]
      BY <1>b, TakeGive
    <3>u. today.hub + 1 \in Nat
      BY <1>b
    <3>3. \A l \in Levels : ts[l] = IF l \in LevelsOf[s] THEN today.signup[l] + 1 ELSE today.signup[l]
      BY DEF Take
    <3> HIDE DEF ts
    <3>4. /\ today' \in TodayType /\ today'.signup = ts /\ today'.trials = today.trials /\ today'.rewound = today.rewound
          /\ today'.hub = today.hub
      BY <1>a, <3>1, <3>2, <3>u DEF TodayType
    <3>5. ASSUME NEW l \in Levels
          PROVE  /\ gate'.signup[l] - today'.signup[l] = gate.signup[l] - today.signup[l]
                      - (IF call[s].held = "signup" /\ call[s].key = gate.key /\ l \in LevelsOf[s] THEN 1 ELSE 0)
                 /\ gate'.trials[l] - today'.trials[l] = gate.trials[l] - today.trials[l]
                      - (IF call[s].held = "trial" /\ call[s].key = gate.key /\ l \in LevelsOf[s] THEN 1 ELSE 0)
                 /\ gate'.signup[l] <= gate.signup[l] /\ gate'.trials[l] <= gate.trials[l]
      <4>1. gate.signup[l] \in Nat /\ today.signup[l] \in Nat /\ gate.trials[l] \in Nat /\ today.trials[l] \in Nat
        BY <1>b
      <4>2. ts[l] = IF l \in LevelsOf[s] THEN today.signup[l] + 1 ELSE today.signup[l]
        BY <3>3
      <4> QED BY <2>4, <3>1, <3>4, <4>1, <4>2
    <3>6. gate' \in GateType /\ gate'.key = gate.key /\ gate'.window = gate.window /\ gate'.hub = gate.hub
      BY <1>a, <3>1
    <3>7. call[s].held # "window"
      BY <2>4
    <3>8. HubSound(gate', today', Cardinality(HoldersNext("trial", gate.key, Slots)))
      <4>1. PICK n, m \in Nat :
               /\ m = Cardinality(HoldersNext("trial", gate.key, Slots)) /\ HubSound(gate, today, n)
               /\ call[s].held = "trial" /\ call[s].key = gate.key => m = n - 1
               /\ ~(call[s].held = "trial" /\ call[s].key = gate.key) => m = n
        BY <1>h, <2>1
      <4>2. HubSound(gate', today', m)
        BY <1>b, <1>c, <2>4, <3>4, <3>6, <4>1 DEF HubSound
      <4> QED BY <4>1, <4>2
    <3> QED BY <1>10, <2>1, <3>4, <3>5, <3>6, <3>7, <3>8
  <2>5. CASE call[s].held # "window" /\ ~(call[s].held = "signup" /\ call[s].key = gate.key)
    <3>1. UNCHANGED <<gate, today>>
      BY <1>11, <2>5 DEF CommitPlace
    <3> QED BY <1>e, <2>1, <2>2, <2>5, <3>1
  <2> QED BY <2>3, <2>4, <2>5
<1>12. ASSUME NEW s \in Slots, PayTrial(s) PROVE GateTypes' /\ PlacesAccounted'
  <2>1. call[s] # Idle /\ call[s].pc = "pay" /\ Only(s, Idle) /\ gate' = gate
    BY <1>12 DEF PayTrial, Only
  <2>2. call[s].held = "trial"
    BY <2>1 DEF HoldsInv, Holding
  <2>3. CASE call[s].key # gate.key
    <3>1. today' = today
      BY <1>12, <2>3 DEF PayTrial
    <3> QED BY <1>e, <2>1, <2>2, <2>3, <3>1
  <2>4. CASE call[s].held = "trial" /\ call[s].key = gate.key
    <3> DEFINE ts == Take(today.trials, LevelsOf[s])
    <3>1. gate' = gate /\ today' = [today EXCEPT !.trials = ts, !.hub = today.hub + 1]
      BY <1>12, <2>4 DEF PayTrial
    <3>2. ts \in [Levels -> Nat]
      BY <1>b, TakeGive
    <3>u. today.hub + 1 \in Nat
      BY <1>b
    <3>3. \A l \in Levels : ts[l] = IF l \in LevelsOf[s] THEN today.trials[l] + 1 ELSE today.trials[l]
      BY DEF Take
    <3> HIDE DEF ts
    <3>4. /\ today' \in TodayType /\ today'.trials = ts /\ today'.signup = today.signup /\ today'.rewound = today.rewound
          /\ today'.hub = today.hub + 1
      BY <1>a, <3>1, <3>2, <3>u DEF TodayType
    <3>5. ASSUME NEW l \in Levels
          PROVE  /\ gate'.signup[l] - today'.signup[l] = gate.signup[l] - today.signup[l]
                      - (IF call[s].held = "signup" /\ call[s].key = gate.key /\ l \in LevelsOf[s] THEN 1 ELSE 0)
                 /\ gate'.trials[l] - today'.trials[l] = gate.trials[l] - today.trials[l]
                      - (IF call[s].held = "trial" /\ call[s].key = gate.key /\ l \in LevelsOf[s] THEN 1 ELSE 0)
                 /\ gate'.signup[l] <= gate.signup[l] /\ gate'.trials[l] <= gate.trials[l]
      <4>1. gate.signup[l] \in Nat /\ today.signup[l] \in Nat /\ gate.trials[l] \in Nat /\ today.trials[l] \in Nat
        BY <1>b
      <4>2. ts[l] = IF l \in LevelsOf[s] THEN today.trials[l] + 1 ELSE today.trials[l]
        BY <3>3
      <4> QED BY <2>4, <3>1, <3>4, <4>1, <4>2
    <3>6. gate' \in GateType /\ gate'.key = gate.key /\ gate'.window = gate.window /\ gate'.hub = gate.hub
      BY <1>a, <3>1
    <3>7. call[s].held # "window"
      BY <2>4
    <3>8. HubSound(gate', today', Cardinality(HoldersNext("trial", gate.key, Slots)))
      <4>1. PICK n, m \in Nat :
               /\ m = Cardinality(HoldersNext("trial", gate.key, Slots)) /\ HubSound(gate, today, n)
               /\ call[s].held = "trial" /\ call[s].key = gate.key => m = n - 1
               /\ ~(call[s].held = "trial" /\ call[s].key = gate.key) => m = n
        BY <1>h, <2>1
      <4>2. HubSound(gate', today', m)
        BY <1>b, <1>c, <2>4, <3>4, <3>6, <4>1 DEF HubSound
      <4> QED BY <4>1, <4>2
    <3> QED BY <1>10, <2>1, <3>4, <3>5, <3>6, <3>7, <3>8
  <2> QED BY <2>2, <2>3, <2>4
<1>13. ASSUME NEW s \in Slots, ReleasePlace(s) PROVE GateTypes' /\ PlacesAccounted'
  <2>1. /\ call[s] # Idle /\ Only(s, Idle) /\ today' = today
        /\ call[s].held \in {"none", "signup", "window", "trial"}
    BY <1>13, CallFields DEF ReleasePlace, Only
  <2>p. Placed(call[s], gate, today, day)
    BY <2>1 DEF HoldsInv
  \* Under the gate's key a place is of its day.
  <2>d. call[s].held \in {"signup", "trial"} /\ call[s].key = gate.key => OfToday(call[s])
    BY <2>p DEF Placed, OfToday
  <2>3. CASE call[s].held = "window"
    <3>1. gate' = [gate EXCEPT !.window[call[s].win] = @ - 1]
      BY <1>13, <2>3 DEF ReleasePlace
    <3> QED BY <1>9, <2>1, <2>3, <3>1
  <2>4. CASE call[s].held = "signup" /\ call[s].key = gate.key
    <3> DEFINE given == Give(gate.signup, LevelsOf[s])
    <3>1. gate' = [gate EXCEPT !.signup = given]
      BY <1>13, <2>4, <2>d DEF ReleasePlace, OfToday
    <3>2. ASSUME NEW l \in Levels, l \in LevelsOf[s] PROVE gate.signup[l] > 0
      <4>0. At(l) \in SUBSET Slots /\ s \in At(l)
        BY <3>2 DEF At
      <4>1. gate.signup[l] = today.signup[l] + Cardinality(Holders("signup", gate.key, At(l)))
        BY <1>a DEF Counted, LevelSound
      <4>2. /\ today.signup[l] \in Nat /\ Cardinality(Holders("signup", gate.key, At(l))) \in Nat
            /\ Cardinality(Holders("signup", gate.key, At(l))) > 0
        BY <1>b, <2>1, <2>4, <4>0, HoldersEnd
      <4> QED BY <4>1, <4>2
    <3>3. given \in [Levels -> Nat]
      BY <1>b, <3>2, TakeGive
    <3>v. \A l \in Levels : given[l] = IF l \in LevelsOf[s] THEN gate.signup[l] - 1 ELSE gate.signup[l]
      BY DEF Give
    <3>u. (IF gate.hub > 0 THEN gate.hub - 1 ELSE 0) \in Nat
      BY <1>b
    <3> HIDE DEF given
    <3>4. /\ gate' \in GateType /\ gate'.key = gate.key /\ gate'.window = gate.window
          /\ gate'.signup = given /\ gate'.trials = gate.trials
          /\ gate'.hub = gate.hub
      BY <1>a, <3>1, <3>3, <3>u DEF GateType
    <3>5. ASSUME NEW l \in Levels
          PROVE  /\ gate'.signup[l] - today'.signup[l] = gate.signup[l] - today.signup[l]
                      - (IF call[s].held = "signup" /\ call[s].key = gate.key /\ l \in LevelsOf[s] THEN 1 ELSE 0)
                 /\ gate'.trials[l] - today'.trials[l] = gate.trials[l] - today.trials[l]
                      - (IF call[s].held = "trial" /\ call[s].key = gate.key /\ l \in LevelsOf[s] THEN 1 ELSE 0)
                 /\ gate'.signup[l] <= gate.signup[l] /\ gate'.trials[l] <= gate.trials[l]
      <4>1. gate.signup[l] \in Nat /\ today.signup[l] \in Nat /\ gate.trials[l] \in Nat /\ today.trials[l] \in Nat
        BY <1>b
      <4>2. given[l] = IF l \in LevelsOf[s] THEN gate.signup[l] - 1 ELSE gate.signup[l]
        BY <3>v
      <4> QED BY <2>1, <2>4, <3>4, <4>1, <4>2
    <3>6. today' \in TodayType
      BY <1>a, <2>1
    <3>7. call[s].held # "window"
      BY <2>4
    <3>8. HubSound(gate', today', Cardinality(HoldersNext("trial", gate.key, Slots)))
      <4>1. PICK n, m \in Nat :
               /\ m = Cardinality(HoldersNext("trial", gate.key, Slots)) /\ HubSound(gate, today, n)
               /\ call[s].held = "trial" /\ call[s].key = gate.key => m = n - 1
               /\ ~(call[s].held = "trial" /\ call[s].key = gate.key) => m = n
        BY <1>h, <2>1
      <4>2. HubSound(gate', today', m)
        BY <1>b, <1>c, <2>1, <2>4, <3>4, <4>1 DEF HubSound
      <4> QED BY <4>1, <4>2
    <3> QED BY <1>10, <2>1, <3>4, <3>5, <3>6, <3>7, <3>8
  <2>5. CASE call[s].held = "trial" /\ call[s].key = gate.key
    <3> DEFINE given == Give(gate.trials, LevelsOf[s])
    <3>1. gate' = [gate EXCEPT !.trials = given, !.hub = IF gate.hub > 0 THEN gate.hub - 1 ELSE 0]
      BY <1>13, <2>5, <2>d DEF ReleasePlace, OfToday
    <3>2. ASSUME NEW l \in Levels, l \in LevelsOf[s] PROVE gate.trials[l] > 0
      <4>0. At(l) \in SUBSET Slots /\ s \in At(l)
        BY <3>2 DEF At
      <4>1. gate.trials[l] = today.trials[l] + Cardinality(Holders("trial", gate.key, At(l)))
        BY <1>a DEF Counted, LevelSound
      <4>2. /\ today.trials[l] \in Nat /\ Cardinality(Holders("trial", gate.key, At(l))) \in Nat
            /\ Cardinality(Holders("trial", gate.key, At(l))) > 0
        BY <1>b, <2>1, <2>5, <4>0, HoldersEnd
      <4> QED BY <4>1, <4>2
    <3>3. given \in [Levels -> Nat]
      BY <1>b, <3>2, TakeGive
    <3>v. \A l \in Levels : given[l] = IF l \in LevelsOf[s] THEN gate.trials[l] - 1 ELSE gate.trials[l]
      BY DEF Give
    <3>u. (IF gate.hub > 0 THEN gate.hub - 1 ELSE 0) \in Nat
      BY <1>b
    <3> HIDE DEF given
    <3>4. /\ gate' \in GateType /\ gate'.key = gate.key /\ gate'.window = gate.window
          /\ gate'.trials = given /\ gate'.signup = gate.signup
          /\ gate'.hub = (IF gate.hub > 0 THEN gate.hub - 1 ELSE 0)
      BY <1>a, <3>1, <3>3, <3>u DEF GateType
    <3>5. ASSUME NEW l \in Levels
          PROVE  /\ gate'.signup[l] - today'.signup[l] = gate.signup[l] - today.signup[l]
                      - (IF call[s].held = "signup" /\ call[s].key = gate.key /\ l \in LevelsOf[s] THEN 1 ELSE 0)
                 /\ gate'.trials[l] - today'.trials[l] = gate.trials[l] - today.trials[l]
                      - (IF call[s].held = "trial" /\ call[s].key = gate.key /\ l \in LevelsOf[s] THEN 1 ELSE 0)
                 /\ gate'.signup[l] <= gate.signup[l] /\ gate'.trials[l] <= gate.trials[l]
      <4>1. gate.signup[l] \in Nat /\ today.signup[l] \in Nat /\ gate.trials[l] \in Nat /\ today.trials[l] \in Nat
        BY <1>b
      <4>2. given[l] = IF l \in LevelsOf[s] THEN gate.trials[l] - 1 ELSE gate.trials[l]
        BY <3>v
      <4> QED BY <2>1, <2>5, <3>4, <4>1, <4>2
    <3>6. today' \in TodayType
      BY <1>a, <2>1
    <3>7. call[s].held # "window"
      BY <2>5
    <3>8. HubSound(gate', today', Cardinality(HoldersNext("trial", gate.key, Slots)))
      <4>1. PICK n, m \in Nat :
               /\ m = Cardinality(HoldersNext("trial", gate.key, Slots)) /\ HubSound(gate, today, n)
               /\ call[s].held = "trial" /\ call[s].key = gate.key => m = n - 1
               /\ ~(call[s].held = "trial" /\ call[s].key = gate.key) => m = n
        BY <1>h, <2>1
      <4>2. HubSound(gate', today', m)
        BY <1>b, <1>c, <2>1, <2>5, <3>4, <4>1 DEF HubSound
      <4> QED BY <4>1, <4>2
    <3> QED BY <1>10, <2>1, <3>4, <3>5, <3>6, <3>7, <3>8
  <2>6. CASE call[s].held = "none" \/ (call[s].held = "signup" /\ call[s].key # gate.key)
             \/ (call[s].held = "trial" /\ ~OfToday(call[s]))
    <3>1. gate' = gate
      BY <1>13, <2>6 DEF ReleasePlace
    <3>2. call[s].held # "window" /\ ~(call[s].held \in {"signup", "trial"} /\ call[s].key = gate.key)
      BY <2>6, <2>d
    <3> QED BY <1>e, <2>1, <3>1, <3>2
  \* A trial of the gate's day under an older key: the gate has gone back.
  <2>7. CASE call[s].held = "trial" /\ call[s].key # gate.key /\ OfToday(call[s])
    <3>1. gate' = [gate EXCEPT !.hub = IF gate.hub > 0 THEN gate.hub - 1 ELSE 0]
      <4>1. gate' = [gate EXCEPT !.trials = gate.trials, !.hub = IF gate.hub > 0 THEN gate.hub - 1 ELSE 0]
        BY <1>13, <2>7 DEF ReleasePlace
      <4> QED BY <4>1, <1>a DEF GateType
    <3>2. (IF gate.hub > 0 THEN gate.hub - 1 ELSE 0) \in Nat
      BY <1>b
    <3>3. /\ gate' \in GateType /\ gate'.key = gate.key /\ gate'.window = gate.window
          /\ gate'.signup = gate.signup /\ gate'.trials = gate.trials
          /\ gate'.hub = (IF gate.hub > 0 THEN gate.hub - 1 ELSE 0)
      BY <1>a, <3>1, <3>2 DEF GateType
    <3>4. today.rewound
      BY <2>7, <2>p DEF Placed, OfToday
    <3>5. ASSUME NEW l \in Levels
          PROVE  /\ gate'.signup[l] - today'.signup[l] = gate.signup[l] - today.signup[l]
                      - (IF call[s].held = "signup" /\ call[s].key = gate.key /\ l \in LevelsOf[s] THEN 1 ELSE 0)
                 /\ gate'.trials[l] - today'.trials[l] = gate.trials[l] - today.trials[l]
                      - (IF call[s].held = "trial" /\ call[s].key = gate.key /\ l \in LevelsOf[s] THEN 1 ELSE 0)
                 /\ gate'.signup[l] <= gate.signup[l] /\ gate'.trials[l] <= gate.trials[l]
      <4>1. gate.signup[l] \in Nat /\ today.signup[l] \in Nat /\ gate.trials[l] \in Nat /\ today.trials[l] \in Nat
        BY <1>b
      <4> QED BY <2>1, <2>7, <3>3, <4>1
    <3>6. HubSound(gate', today', Cardinality(HoldersNext("trial", gate.key, Slots)))
      <4>1. PICK n, m \in Nat :
               /\ m = Cardinality(HoldersNext("trial", gate.key, Slots)) /\ HubSound(gate, today, n)
               /\ call[s].held = "trial" /\ call[s].key = gate.key => m = n - 1
               /\ ~(call[s].held = "trial" /\ call[s].key = gate.key) => m = n
        BY <1>h, <2>1
      <4>2. HubSound(gate', today', m)
        BY <1>b, <1>c, <2>1, <2>7, <3>3, <3>4, <4>1 DEF HubSound
      <4> QED BY <4>1, <4>2
    <3>7. today' \in TodayType /\ call[s].held # "window"
      BY <1>a, <2>1, <2>7
    <3> QED BY <1>10, <2>1, <3>3, <3>5, <3>6, <3>7
  <2> QED BY <2>1, <2>3, <2>4, <2>5, <2>6, <2>7
<1>14. CASE Restart
  <2>1. gate' = FreshGate /\ today' = NothingYet /\ \A s \in Slots : call'[s] = Idle
    BY <1>14 DEF Restart
  <2>2. \A h, k : \A P \in SUBSET Slots : HoldersNext(h, k, P) = {}
    BY <2>1 DEF HoldersNext
  <2>3. \A w : InWindowNext(w) = {}
    BY <2>1 DEF InWindowNext
  <2>4. Cardinality({}) = 0
    BY FS_EmptySet
  <2>5. Zero \in [Levels -> Nat] /\ \A l \in Levels : Zero[l] = 0
    BY DEF Zero
  <2>6. /\ gate' \in GateType /\ gate'.signup = Zero /\ gate'.trials = Zero /\ gate'.hub = 0
        /\ \A w \in 1..MaxWindows : gate'.window[w] = 0
        /\ today' \in TodayType /\ today'.signup = Zero /\ today'.trials = Zero /\ today'.hub = 0
    BY <2>1, <2>5 DEF FreshGate, NothingYet, GateType, TodayType
  <2>7. ASSUME NEW l \in Levels
        PROVE  LevelSound(gate', today', l, Cardinality(HoldersNext("signup", gate'.key, At(l))),
                                            Cardinality(HoldersNext("trial", gate'.key, At(l))))
    <3>1. /\ Cardinality(HoldersNext("signup", gate'.key, At(l))) = 0
          /\ Cardinality(HoldersNext("trial", gate'.key, At(l))) = 0
      BY <2>2, <2>4 DEF At
    <3>2. SignupMax[l] \in Nat /\ TrialMax[l] \in Nat
      BY <1>c
    <3>3. LevelSound(gate', today', l, 0, 0)
      BY <2>5, <2>6, <3>2 DEF LevelSound
    <3> QED BY <3>1, <3>3
  <2>8. HubSound(gate', today', Cardinality(HoldersNext("trial", gate'.key, Slots)))
    <3>1. Cardinality(HoldersNext("trial", gate'.key, Slots)) = 0
      BY <2>2, <2>4
    <3>2. HubSound(gate', today', 0)
      BY <2>6, <1>c DEF HubSound
    <3> QED BY <3>1, <3>2
  <2>9. CountedNext(gate', today') /\ CountedWindowsNext(gate')
    BY <2>3, <2>4, <2>6, <2>7, <2>8 DEF CountedNext, CountedWindowsNext
  <2> QED BY <2>6, <2>9, Accounts
<1>15. ASSUME \/ SetAdmissionMode \/ CloseWindow \/ ReadEvents \/ SweepScan \/ Hour \/ NextDay
              \/ \E w \in Days : OpenWindow(w)
              \/ \E e \in after : AfterHooks(e) \/ AfterClear(e)
              \/ \E e \in drain : DrainHooks(e) \/ DrainClear(e)
       PROVE UNCHANGED <<gate, today, call>>
  BY <1>15 DEF SetAdmissionMode, CloseWindow, ReadEvents, SweepScan, Hour, NextDay, OpenWindow, AfterHooks,
     AfterClear, DrainHooks, DrainClear
<1>16. ASSUME NEW a \in Agents,
              \/ PushKEL(a) \/ KelHook(a) \/ Leave(a) \/ Revoke(a) \/ SweepOne(a) \/ Poll(a) \/ Earn(a)
              \/ Review(a) \/ \E g \in {0, Grant} : Admit(a, g)
       PROVE UNCHANGED <<gate, today, call>>
  BY <1>16 DEF PushKEL, KelHook, Leave, Revoke, SweepOne, Poll, Earn, Review, Admit
<1> QED
  BY <1>1, <1>3, <1>4, <1>5, <1>6, <1>7, <1>8, <1>11, <1>12, <1>13, <1>14, <1>15, <1>16
     DEF MembersNext, RequestSteps

-----------------------------------------------------------------------------
(* Sessions: their tables, and how many openings count.                     *)

LEMMA SequenceOf ==
  ASSUME NEW S, NEW n \in Nat, NEW f \in [1..n -> S]
  PROVE  f \in Seq(S) /\ Len(f) = n /\ DOMAIN f = 1..n
OBVIOUS

\* The sessions kept when one is opened are held ones, in their order.
LEMMA RoomKeeps ==
  ASSUME NEW held \in Seq(SessionType)
  PROVE  /\ Room(held) \in Seq(SessionType) /\ Len(Room(held)) \in Nat
         /\ \E o \in Nat : \A i \in 1..Len(Room(held)) :
              i + o \in 1..Len(held) /\ Room(held)[i] = held[i + o]
<1>1. Len(held) \in Nat /\ \A i \in 1..Len(held) : held[i] \in SessionType
  BY LenProperties, ElementOfSeq
<1>2. MaxSessions \in Nat \ {0}
  BY MembersAssumption
<1>3. CASE Len(held) < MaxSessions
  <2>1. Room(held) = held
    BY <1>3 DEF Room
  <2>2. \A i \in 1..Len(held) : i + 0 \in 1..Len(held) /\ held[i] = held[i + 0]
    BY <1>1
  <2> QED BY <1>1, <2>1, <2>2
<1>4. CASE ~(Len(held) < MaxSessions)
  <2> DEFINE m == Len(held) - MaxSessions + 2
             o == Len(held) - MaxSessions + 1
  <2>1. m \in Int /\ o \in Nat /\ m = o + 1 /\ m >= 1 /\ Len(held) \in Int
    BY <1>1, <1>2, <1>4
  <2>2. Room(held) = SubSeq(held, m, Len(held))
    BY <1>4 DEF Room, Newest
  <2> HIDE DEF m, o
  <2>3. \A i \in m..Len(held) : held[i] \in SessionType
    BY <1>1, <2>1
  <2>4. /\ SubSeq(held, m, Len(held)) \in Seq(SessionType)
        /\ Len(SubSeq(held, m, Len(held))) = IF m <= Len(held) THEN Len(held) - m + 1 ELSE 0
        /\ \A i \in 1..(Len(held) - m + 1) : SubSeq(held, m, Len(held))[i] = held[m + i - 1]
    BY <2>1, <2>3, SubSeqProperties
  <2>5. ASSUME NEW i \in 1..Len(Room(held))
        PROVE  i + o \in 1..Len(held) /\ Room(held)[i] = held[i + o]
    <3>1. i \in 1..(Len(held) - m + 1)
      BY <1>1, <2>1, <2>2, <2>4
    <3>2. m + i - 1 = i + o /\ i + o \in 1..Len(held)
      BY <1>1, <2>1, <3>1
    <3> QED BY <2>2, <2>4, <3>1, <3>2
  <2>6. Len(Room(held)) \in Nat
    BY <2>2, <2>4, LenProperties
  <2> QED BY <2>1, <2>2, <2>4, <2>5, <2>6
<1> QED BY <1>3, <1>4

LEMMA WithoutKeeps ==
  ASSUME NEW held \in Seq(SessionType), NEW i \in 1..Len(held)
  PROVE  /\ Without(held, i) \in Seq(SessionType) /\ Len(Without(held, i)) = Len(held) - 1
         /\ \A j \in 1..(Len(held) - 1) :
              /\ Without(held, i)[j] = held[IF j < i THEN j ELSE j + 1]
              /\ (IF j < i THEN j ELSE j + 1) \in 1..Len(held)
              /\ (IF j < i THEN j ELSE j + 1) # i
<1>1. Len(held) \in Nat /\ i \in Nat /\ \A j \in 1..Len(held) : held[j] \in SessionType
  BY LenProperties, ElementOfSeq
<1>2. Len(held) - 1 \in Nat
  BY <1>1
<1>3. \A j \in 1..(Len(held) - 1) :
        /\ Without(held, i)[j] = held[IF j < i THEN j ELSE j + 1]
        /\ (IF j < i THEN j ELSE j + 1) \in 1..Len(held)
        /\ (IF j < i THEN j ELSE j + 1) # i
  BY <1>1 DEF Without
<1>4. Without(held, i) \in [1..(Len(held) - 1) -> SessionType]
  BY <1>1 DEF Without
<1> QED BY <1>2, <1>3, <1>4, SequenceOf

LEMMA SessionFields ==
  ASSUME SessionTypes, NEW a \in Agents
  PROVE  /\ sessions[a] \in Seq(SessionType) /\ Len(sessions[a]) \in Nat
         /\ DOMAIN sessions[a] = 1..Len(sessions[a])
         /\ \A i \in DOMAIN sessions[a] :
              /\ sessions[a][i] \in SessionType
              /\ sessions[a][i].by \in Slots /\ sessions[a][i].kel \in 0..MaxHistory
         /\ opens[a] \in 0..MaxOpens
<1>1. sessions[a] \in Seq(SessionType) /\ opens[a] \in 0..MaxOpens
  BY DEF SessionTypes
<1>2. Len(sessions[a]) \in Nat /\ DOMAIN sessions[a] = 1..Len(sessions[a])
  BY <1>1, LenProperties
<1>3. \A i \in DOMAIN sessions[a] : sessions[a][i] \in SessionType
  BY <1>1, <1>2, ElementOfSeq
<1>4. \A x \in SessionType : x.by \in Slots /\ x.kel \in 0..MaxHistory
  BY DEF SessionType
<1> QED BY <1>1, <1>2, <1>3, <1>4

LookingNext(a) == {s \in Slots : call'[s] # Idle /\ call'[s].pc = "look" /\ call'[s].aid = a}

LEMMA LookingMove ==
  ASSUME CallTypes, NEW s \in Slots, NEW c, Only(s, c), NEW a
  PROVE  /\ LookingNext(a) = IF c # Idle /\ c.pc = "look" /\ c.aid = a
                             THEN Looking(a) \cup {s} ELSE Looking(a) \ {s}
         /\ Looking(a) \in SUBSET Slots /\ Cardinality(Looking(a)) \in Nat
         /\ IsFiniteSet(Looking(a))
<1>1. \A r \in Slots : call'[r] = IF r = s THEN c ELSE call[r]
  BY DEF Only, CallTypes
<1>2. ASSUME NEW r \in Slots, r # s PROVE r \in LookingNext(a) <=> r \in Looking(a)
  BY <1>1, <1>2 DEF Looking, LookingNext
<1>3. s \in LookingNext(a) <=> c # Idle /\ c.pc = "look" /\ c.aid = a
  BY <1>1 DEF LookingNext
<1>4. LookingNext(a) \subseteq Slots /\ Looking(a) \subseteq Slots
  BY DEF Looking, LookingNext
<1>5. LookingNext(a) = IF c # Idle /\ c.pc = "look" /\ c.aid = a
                       THEN Looking(a) \cup {s} ELSE Looking(a) \ {s}
  BY <1>2, <1>3, <1>4
<1>6. Cardinality(Looking(a)) \in Nat /\ IsFiniteSet(Looking(a))
  BY <1>4, OneMore
<1> QED BY <1>4, <1>5, <1>6

LEMMA LooksNext ==
  ASSUME \A a \in Agents : Cardinality(LookingNext(a)) <= opens'[a]
  PROVE  LooksInv'
BY DEF LooksInv, Looking, LookingNext

\* A request that opens no session keeps the count.
LEMMA LooksKept ==
  ASSUME CallTypes, LooksInv, NEW s \in Slots, NEW c, Only(s, c), UNCHANGED opens,
         c = Idle \/ c.pc # "look", SessionTypes
  PROVE  LooksInv'
<1> SUFFICES ASSUME NEW a \in Agents PROVE Cardinality(LookingNext(a)) <= opens[a]
  BY LooksNext
<1>1. /\ LookingNext(a) = Looking(a) \ {s} /\ Looking(a) \in SUBSET Slots
      /\ Cardinality(Looking(a)) \in Nat /\ IsFiniteSet(Looking(a))
  BY LookingMove
<1>2. Cardinality(Looking(a)) <= opens[a] /\ opens[a] \in Nat
  BY SessionFields, MembersAssumption DEF LooksInv
<1>3. Cardinality(LookingNext(a)) <= Cardinality(Looking(a)) /\ Cardinality(LookingNext(a)) \in Nat
  BY <1>1, FS_Subset, FS_CardinalityType
<1> QED BY <1>1, <1>2, <1>3

LEMMA SessionStep ==
  ASSUME ClockTypes, AccountTypes, SessionTypes, CallTypes, LooksInv, MembersNext
  PROVE  SessionTypes' /\ LooksInv'
<1>a. MaxOpens \in Nat /\ <<>> \in Seq(SessionType)
  BY MembersAssumption
<1>1. ASSUME UNCHANGED <<sessionVars, call>> PROVE SessionTypes' /\ LooksInv'
  BY <1>1 DEF sessionVars, SessionTypes, LooksInv, Looking
<1>2. ASSUME NEW s \in Slots, NEW c, Only(s, c), UNCHANGED sessionVars, c = Idle \/ c.pc # "look"
      PROVE  SessionTypes' /\ LooksInv'
  <2>1. UNCHANGED opens /\ UNCHANGED sessions
    BY <1>2 DEF sessionVars
  <2> QED BY <1>2, <2>1, LooksKept DEF SessionTypes
<1>3. ASSUME NEW s \in Slots, NEW a \in Agents,
             \/ \E k \in 1..MaxHistory : StartRegister(s, a, k)
             \/ LookAtTrial(s, a) \/ AuthSession(s, a)
      PROVE  SessionTypes' /\ LooksInv'
  <2>1. UNCHANGED sessionVars
    BY <1>3 DEF StartRegister, LookAtTrial, AuthSession
  <2>2. PICK c : Only(s, c) /\ c.pc # "look"
    BY <1>3, Begins
  <2> QED BY <1>2, <2>1, <2>2
<1>4. ASSUME NEW s \in Slots, RequestSteps(s), ~OpenSession(s), ~LookAgain(s)
      PROVE  SessionTypes' /\ LooksInv'
  <2>1. UNCHANGED sessionVars
    BY <1>4 DEF RequestSteps, ReserveSignup, ReserveWindow, CheckRequest, WriteRegistration, WriteRefused,
       CommitPlace, ReleasePlace, ReserveTrial, PayTrial, TrialNotPaid
  <2>2. call[s] # Idle /\ call[s] \in CallType
    BY <1>4, Moves
  <2>3. \E c : Only(s, c) /\ (c = Idle \/ c.pc # "look")
    <3>1. /\ \A pc \in Phases : [call[s] EXCEPT !.pc = pc].pc = pc
          /\ [call[s] EXCEPT !.pc = "check", !.held = "signup", !.key = Rolled(call[s].on).key].pc = "check"
          /\ [call[s] EXCEPT !.pc = "check", !.held = "window"].pc = "check"
          /\ [call[s] EXCEPT !.pc = "pay", !.held = "trial", !.key = Rolled(call[s].on).key].pc = "pay"
      BY <2>2 DEF CallType
    <3>2. "write" \in Phases /\ "release" \in Phases /\ "commit" \in Phases
      BY DEF Phases
    <3>3. \/ Only(s, Idle)
          \/ Only(s, [call[s] EXCEPT !.pc = "check", !.held = "signup", !.key = Rolled(call[s].on).key])
          \/ Only(s, [call[s] EXCEPT !.pc = "check", !.held = "window"])
          \/ Only(s, [call[s] EXCEPT !.pc = "write"])
          \/ Only(s, [call[s] EXCEPT !.pc = "release"])
          \/ Only(s, [call[s] EXCEPT !.pc = "commit"])
          \/ Only(s, [call[s] EXCEPT !.pc = "pay", !.held = "trial", !.key = Rolled(call[s].on).key])
      BY <1>4, Moves
    <3>4. ASSUME NEW c, Only(s, c), c = Idle \/ c.pc # "look" PROVE \E e : Only(s, e) /\ (e = Idle \/ e.pc # "look")
      BY <3>4
    <3> QED BY <3>1, <3>2, <3>3, <3>4
  <2> QED BY <1>2, <2>1, <2>3
<1>5. ASSUME NEW s \in Slots, OpenSession(s) PROVE SessionTypes' /\ LooksInv'
  <2> DEFINE a == call[s].aid
             x == [kel |-> call[s].kel, by |-> s, new |-> TRUE]
  <2>1. call[s] # Idle /\ call[s].pc = "open" /\ call[s] \in CallType /\ a \in Agents /\ call[s].kel \in 0..MaxHistory
    BY <1>5, CallFields DEF OpenSession
  <2>2. CASE opens[a] >= MaxOpens
    <3>1. UNCHANGED sessionVars /\ Only(s, Idle)
      BY <1>5, <2>2 DEF OpenSession, Only, sessionVars
    <3> QED BY <1>2, <3>1
  <2>3. CASE ~(opens[a] >= MaxOpens)
    <3>1. /\ sessions' = [sessions EXCEPT ![a] = Append(Room(sessions[a]), x)]
          /\ opens' = [opens EXCEPT ![a] = opens[a] + 1]
          /\ Only(s, [call[s] EXCEPT !.pc = "look"])
      BY <1>5, <2>3 DEF OpenSession, Only
    <3>2. x \in SessionType
      BY <2>1 DEF SessionType
    <3>3. Append(Room(sessions[a]), x) \in Seq(SessionType)
      <4>1. Room(sessions[a]) \in Seq(SessionType)
        BY <2>1, RoomKeeps, SessionFields
      <4> QED BY <3>2, <4>1, AppendProperties
    <3>4. opens[a] \in Nat /\ opens[a] + 1 \in 0..MaxOpens
      BY <2>1, <2>3, <1>a, SessionFields
    <3>5. SessionTypes'
      BY <3>1, <3>3, <3>4 DEF SessionTypes
    <3>6. ASSUME NEW b \in Agents PROVE Cardinality(LookingNext(b)) <= opens'[b]
      <4> DEFINE c == [call[s] EXCEPT !.pc = "look"]
      <4>1. c # Idle /\ c.pc = "look" /\ c.aid = a
        BY <2>1 DEF CallType, Idle
      <4>2. Only(s, c)
        BY <3>1
      <4> HIDE DEF c
      <4>3. /\ LookingNext(b) = IF b = a THEN Looking(b) \cup {s} ELSE Looking(b) \ {s}
            /\ Looking(b) \in SUBSET Slots /\ Cardinality(Looking(b)) \in Nat
        BY <4>1, <4>2, LookingMove
      <4>4. s \notin Looking(b)
        BY <2>1 DEF Looking
      <4>5. Cardinality(LookingNext(b)) = IF b = a THEN Cardinality(Looking(b)) + 1 ELSE Cardinality(Looking(b))
        <5>1. Looking(b) \ {s} = Looking(b)
          BY <4>4
        <5>2. Cardinality(Looking(b) \cup {s}) = Cardinality(Looking(b)) + 1
          BY <4>3, <4>4, OneMore
        <5> QED BY <4>3, <5>1, <5>2
      <4>6. Cardinality(Looking(b)) <= opens[b] /\ opens[b] \in Nat
        BY SessionFields, <1>a DEF LooksInv
      <4>7. opens'[b] = IF b = a THEN opens[b] + 1 ELSE opens[b]
        BY <3>1, <2>1 DEF SessionTypes
      <4> QED BY <4>3, <4>5, <4>6, <4>7
    <3> QED BY <3>5, <3>6, LooksNext
  <2> QED BY <2>2, <2>3
<1>6. ASSUME NEW s \in Slots, LookAgain(s) PROVE SessionTypes' /\ LooksInv'
  <2> DEFINE a == call[s].aid
  <2>1. call[s] # Idle /\ call[s].pc = "look" /\ call[s] \in CallType /\ a \in Agents /\ Only(s, Idle)
    BY <1>6, CallFields DEF LookAgain, Only
  <2>f. /\ sessions[a] \in Seq(SessionType) /\ Len(sessions[a]) \in Nat
        /\ DOMAIN sessions[a] = 1..Len(sessions[a])
        /\ \A i \in DOMAIN sessions[a] : sessions[a][i] \in SessionType
    BY <2>1, SessionFields
  <2>2. CASE Answered(s, a)
    <3> DEFINE f == [i \in DOMAIN sessions[a] |->
                       IF Mine(s, sessions[a][i]) THEN [sessions[a][i] EXCEPT !.new = FALSE] ELSE sessions[a][i]]
    <3>1. sessions' = [sessions EXCEPT ![a] = f] /\ UNCHANGED opens
      BY <2>2 DEF Answered
    <3>2. \A x \in SessionType : [x EXCEPT !.new = FALSE] \in SessionType
      BY DEF SessionType
    <3>3. f \in [1..Len(sessions[a]) -> SessionType]
      BY <2>f, <3>2
    <3>4. f \in Seq(SessionType)
      <4> HIDE DEF f
      <4> QED BY <2>f, <3>3, SequenceOf
    <3> HIDE DEF f
    <3>5. SessionTypes'
      BY <3>1, <3>4 DEF SessionTypes
    <3> QED BY <2>1, <3>1, <3>5, LooksKept
  <2>3. CASE Cancelled(s, a)
    <3>1. opens' = [opens EXCEPT ![a] = opens[a] - 1]
      BY <2>3 DEF Cancelled
    <3>2. \E h \in Seq(SessionType) : sessions' = [sessions EXCEPT ![a] = h]
      <4>1. CASE UNCHANGED sessions
        <5>1. sessions' = [sessions EXCEPT ![a] = sessions[a]]
          BY <4>1 DEF SessionTypes
        <5> QED BY <5>1, <2>f
      <4>2. ASSUME NEW i \in DOMAIN sessions[a], sessions' = [sessions EXCEPT ![a] = Without(sessions[a], i)]
            PROVE \E h \in Seq(SessionType) : sessions' = [sessions EXCEPT ![a] = h]
        <5>1. Without(sessions[a], i) \in Seq(SessionType)
          BY <2>f, WithoutKeeps
        <5> QED BY <4>2, <5>1
      <4> QED BY <2>3, <4>1, <4>2 DEF Cancelled
    <3>3. s \in Looking(a) /\ \A b \in Agents : b # a => s \notin Looking(b)
      BY <2>1 DEF Looking
    <3>l. ASSUME NEW b \in Agents
          PROVE  /\ LookingNext(b) = Looking(b) \ {s} /\ Looking(b) \in SUBSET Slots
                 /\ Cardinality(Looking(b)) \in Nat /\ Cardinality(Looking(b)) <= opens[b] /\ opens[b] \in 0..MaxOpens
      BY <2>1, LookingMove, SessionFields DEF LooksInv
    <3>4. /\ Cardinality(LookingNext(a)) = Cardinality(Looking(a)) - 1 /\ Cardinality(LookingNext(a)) \in Nat
      <4>1. Looking(a) \in SUBSET Slots /\ Looking(a) \ {s} \in SUBSET Slots
        BY <2>1, <3>l
      <4>2. Cardinality(Looking(a) \ {s}) = Cardinality(Looking(a)) - 1
        BY <3>3, <4>1, OneMore
      <4>3. Cardinality(Looking(a) \ {s}) \in Nat
        BY <4>1, OneMore
      <4> QED BY <2>1, <3>l, <4>2, <4>3
    <3>5. opens[a] - 1 \in 0..MaxOpens
      BY <2>1, <1>a, <3>4, <3>l
    <3>6. SessionTypes'
      BY <3>1, <3>2, <3>5 DEF SessionTypes
    <3>7. ASSUME NEW b \in Agents PROVE Cardinality(LookingNext(b)) <= opens'[b]
      <4>1. CASE b = a
        <5>1. opens'[a] = opens[a] - 1
          BY <3>1, <2>1 DEF SessionTypes
        <5> QED BY <2>1, <4>1, <5>1, <3>4, <3>l, <1>a
      <4>2. CASE b # a
        <5>1. opens'[b] = opens[b]
          BY <3>1, <4>2 DEF SessionTypes
        <5>2. LookingNext(b) = Looking(b)
          BY <3>3, <3>l, <4>2
        <5> QED BY <5>1, <5>2, <3>l
      <4> QED BY <4>1, <4>2
    <3> QED BY <3>6, <3>7, LooksNext
  <2> QED BY <1>6, <2>2, <2>3 DEF LookAgain
<1>7. ASSUME NEW a \in Agents, Dropped(a), UNCHANGED call PROVE SessionTypes' /\ LooksInv'
  BY <1>7, <1>a DEF Dropped, SessionTypes, LooksInv, Looking
<1>8. ASSUME sessions' = [a \in Agents |-> <<>>], opens' = [a \in Agents |-> 0],
             \A s \in Slots : call'[s] = Idle \/ call'[s].pc # "look"
      PROVE  SessionTypes' /\ LooksInv'
  <2>1. SessionTypes'
    BY <1>8, <1>a DEF SessionTypes
  <2>2. \A a \in Agents : LookingNext(a) = {}
    BY <1>8 DEF LookingNext
  <2>3. \A a \in Agents : Cardinality(LookingNext(a)) <= opens'[a]
    <3>1. \A a \in Agents : Cardinality(LookingNext(a)) = 0 /\ opens'[a] = 0
      BY <1>8, <2>2, FS_EmptySet
    <3> QED BY <3>1
  <2> QED BY <2>1, <2>3, LooksNext
<1>9. CASE Hour \/ NextDay \/ Restart
  <2>1. sessions' = [a \in Agents |-> <<>>] /\ opens' = [a \in Agents |-> 0]
    BY <1>9 DEF Hour, NextDay, Restart
  <2>2. \A s \in Slots : call'[s] = Idle \/ call'[s].pc # "look"
    BY <1>9 DEF Hour, NextDay, Restart, NoSessionRequest
  <2> QED BY <1>8, <2>1, <2>2
<1>10. ASSUME \/ SetAdmissionMode \/ CloseWindow \/ ReadEvents \/ SweepScan
              \/ \E w \in Days : OpenWindow(w)
              \/ \E e \in after : AfterClear(e)
              \/ \E e \in drain : DrainClear(e)
       PROVE UNCHANGED <<sessionVars, call>>
  BY <1>10 DEF SetAdmissionMode, CloseWindow, ReadEvents, SweepScan, OpenWindow, AfterClear, DrainClear
<1>11. ASSUME NEW a \in Agents,
              \/ PushKEL(a) \/ Leave(a) \/ Revoke(a) \/ SweepOne(a) \/ Poll(a) \/ Earn(a)
              \/ Review(a) \/ \E g \in {0, Grant} : Admit(a, g)
       PROVE UNCHANGED <<sessionVars, call>>
  BY <1>11 DEF PushKEL, Leave, Revoke, SweepOne, Poll, Earn, Review, Admit
<1>12. ASSUME \/ \E a \in Agents : KelHook(a)
              \/ \E e \in after : AfterHooks(e)
              \/ \E e \in drain : DrainHooks(e)
       PROVE  \E a : Dropped(a) /\ UNCHANGED call
  BY <1>12 DEF KelHook, AfterHooks, DrainHooks
<1>13. ASSUME NEW a, Dropped(a), UNCHANGED call PROVE SessionTypes' /\ LooksInv'
  <2>1. CASE a \in Agents
    BY <1>7, <1>13, <2>1
  <2>2. CASE a \notin Agents
    <3>1. UNCHANGED sessions /\ UNCHANGED opens
      BY <1>13, <2>2 DEF Dropped, SessionTypes
    <3> QED BY <1>1, <1>13, <3>1 DEF sessionVars
  <2> QED BY <2>1, <2>2
<1> QED
  BY <1>1, <1>3, <1>4, <1>5, <1>6, <1>9, <1>10, <1>11, <1>12, <1>13 DEF MembersNext

-----------------------------------------------------------------------------
(* The gate's invariant.                                                    *)

LEMMA GateInit == MembersInit => GateInv
<1> SUFFICES ASSUME MembersInit PROVE GateInv
  OBVIOUS
<1>0. /\ 0 \in Days /\ 0 \in 0..MaxLeaves /\ 0 \in 0..MaxOpens /\ 0 \in 0..MaxHistory /\ MaxWindows \in Nat
      /\ \A l \in Levels : SignupMax[l] \in Nat /\ TrialMax[l] \in Nat
  BY MembersAssumption DEF Days
<1>1. ClockTypes
  <2>1. <<>> \in Seq(Window) /\ Len(<<>>) = 0
    OBVIOUS
  <2> QED BY <1>0, <2>1 DEF MembersInit, ClockTypes
<1>2. AccountTypes
  BY <1>0, NobodyTyped DEF MembersInit, AccountTypes
<1>z. Zero \in [Levels -> Nat] /\ \A l \in Levels : Zero[l] = 0
  BY DEF Zero
<1>3. /\ GateTypes /\ gate.day = -1 /\ gate.signup = Zero /\ gate.trials = Zero /\ gate.hub = 0
      /\ \A w \in 1..MaxWindows : gate.window[w] = 0
      /\ today.signup = Zero /\ today.trials = Zero /\ today.hub = 0
  BY <1>z DEF MembersInit, FreshGate, NothingYet, GateTypes, GateType, TodayType
<1>4. EventTypes
  BY <1>0 DEF MembersInit, EventTypes
<1>5. SessionTypes
  BY <1>0 DEF MembersInit, SessionTypes
<1>6. CallTypes
  BY DEF MembersInit, CallTypes
<1>7. \A s \in Slots : call[s] = Idle
  BY DEF MembersInit
<1>8. HoldsInv
  <2>1. gate.day <= day
    BY <1>3 DEF MembersInit
  <2> QED BY <1>7, <2>1 DEF HoldsInv
<1>9. PlacesAccounted
  <2>1. \A h, k : \A P \in SUBSET Slots : Holders(h, k, P) = {}
    BY <1>7 DEF Holders
  <2>2. \A w : InWindow(w) = {}
    BY <1>7 DEF InWindow
  <2>3. Cardinality({}) = 0
    BY FS_EmptySet
  <2>4. ASSUME NEW l \in Levels
        PROVE  LevelSound(gate, today, l, Cardinality(Holders("signup", gate.key, At(l))),
                                          Cardinality(Holders("trial", gate.key, At(l))))
    <3>1. /\ Cardinality(Holders("signup", gate.key, At(l))) = 0
          /\ Cardinality(Holders("trial", gate.key, At(l))) = 0
      BY <2>1, <2>3 DEF At
    <3>2. LevelSound(gate, today, l, 0, 0)
      BY <1>0, <1>z, <1>3 DEF LevelSound
    <3> QED BY <3>1, <3>2
  <2>5. HubSound(gate, today, Cardinality(Holders("trial", gate.key, Slots)))
    <3>1. Cardinality(Holders("trial", gate.key, Slots)) = 0
      BY <2>1, <2>3
    <3>2. HubSound(gate, today, 0)
      BY <1>3, MembersAssumption DEF HubSound
    <3> QED BY <3>1, <3>2
  <2>6. CountedWindows(gate)
    BY <1>3, <2>2, <2>3 DEF CountedWindows
  <2> QED BY <2>4, <2>5, <2>6, AccountedParts DEF Counted
<1>10. LooksInv
  <2>1. \A a \in Agents : Looking(a) = {} /\ opens[a] = 0
    BY <1>7 DEF MembersInit, Looking
  <2>2. Cardinality({}) = 0
    BY FS_EmptySet
  <2>3. \A a \in Agents : Cardinality(Looking(a)) = 0 /\ opens[a] = 0
    BY <2>1, <2>2
  <2> QED BY <2>3 DEF LooksInv
<1> QED BY <1>1, <1>2, <1>3, <1>4, <1>5, <1>6, <1>8, <1>9, <1>10, TypeParts DEF GateInv

LEMMA GateStep == GateInv /\ [MembersNext]_vars => GateInv'
<1> SUFFICES ASSUME GateInv, [MembersNext]_vars PROVE GateInv'
  OBVIOUS
<1>1. CASE MembersNext
  <2>1. /\ ClockTypes /\ AccountTypes /\ GateTypes /\ EventTypes /\ SessionTypes /\ CallTypes
        /\ HoldsInv /\ PlacesAccounted /\ LooksInv
    BY TypeParts DEF GateInv
  <2>2. ClockTypes' /\ AccountTypes' /\ EventTypes' /\ CallTypes' /\ HoldsInv'
    BY <1>1, <2>1, ClockStep, AccountStep, EventStep, CallStep, HoldsStep
  <2>3. GateTypes' /\ PlacesAccounted'
    BY <1>1, <2>1, PlacesStep
  <2>4. SessionTypes' /\ LooksInv'
    BY <1>1, <2>1, SessionStep
  <2>5. MembersTypeOK'
    BY <2>2, <2>3, <2>4 DEF MembersTypeOK, ClockTypes, AccountTypes, GateTypes, GateType, TodayType, EventTypes,
       SessionTypes, CallTypes, Window, Departure
  <2> QED BY <2>2, <2>3, <2>4, <2>5 DEF GateInv
<1>2. CASE UNCHANGED vars
  <2>1. MembersTypeOK'
    BY <1>2 DEF vars, accountVars, eventVars, sessionVars, GateInv, MembersTypeOK
  <2>2. HoldsInv'
    BY <1>2 DEF vars, GateInv, HoldsInv
  <2>3. PlacesAccounted'
    BY <1>2 DEF vars, GateInv, PlacesAccounted, InFlight, KeyHolders
  <2>4. LooksInv'
    BY <1>2 DEF vars, sessionVars, GateInv, LooksInv, Looking
  <2> QED BY <2>1, <2>2, <2>3, <2>4 DEF GateInv
<1> QED BY <1>1, <1>2

\* The inductive invariant of the gate: what every request holds at each of its phases,
\* what every counter counts, and that no more openings are looked at again than the
\* hour counts.
THEOREM GateInvariant == MembersSpec => []GateInv
<1>1. MembersInit => GateInv
  BY GateInit
<1>2. GateInv /\ [MembersNext]_vars => GateInv'
  BY GateStep
<1> QED BY <1>1, <1>2, PTL DEF MembersSpec

\* The gate's counters stand for registrations, trials paid and requests that hold a
\* place since the gate took its day key, through refusals, restarts and midnights,
\* also when a request of the day before rolls the gate back, and no level counts past
\* its bound (admissionGate), for any networks, quotas and number of requests at once.
THEOREM MembersAreSound == MembersSpec => []MembersSound
<1>1. GateInv => MembersSound
  BY DEF GateInv, MembersSound
<1> QED BY <1>1, GateInvariant, PTL

-----------------------------------------------------------------------------
(* Who comes in, who is paid, who is swept.                                 *)

\* What the types say of the account of an agent.
LEMMA AccountOf ==
  ASSUME GateInv, NEW a \in Agents
  PROVE  /\ AccountTypes /\ CallTypes /\ EventTypes /\ ClockTypes
         /\ agent[a] \in AgentType /\ agent[a].kel \in Nat /\ departed[a] \in Nat /\ balance[a] \in Nat
         /\ left[a] \in Nat /\ admitted[a] \in Listing
<1>1. AccountTypes /\ CallTypes /\ EventTypes /\ ClockTypes
  BY TypeParts DEF GateInv
<1>2. agent[a] \in AgentType /\ departed[a] \in 0..MaxHistory /\ balance[a] \in Nat /\ admitted[a] \in Listing
  BY <1>1 DEF AccountTypes, Listing
<1>3. agent[a].kel \in 0..MaxHistory
  BY <1>2, AgentForms
<1>4. left[a] \in 0..MaxLeaves
  BY <1>1 DEF EventTypes
<1> QED BY <1>1, <1>2, <1>3, <1>4, MembersAssumption

\* The steps that touch the agent table, the tombstones or a balance.
LEMMA Others ==
  ASSUME MembersNext,
         \A s \in Slots : ~WriteRegistration(s) /\ ~PayTrial(s),
         \A a \in Agents : /\ ~PushKEL(a) /\ ~Leave(a) /\ ~Revoke(a) /\ ~SweepOne(a) /\ ~Poll(a) /\ ~Earn(a)
                           /\ \A g \in {0, Grant} : ~Admit(a, g)
  PROVE  UNCHANGED <<admitted, agent, departed, balance, left>>
<1>1. ASSUME NEW s \in Slots, RequestSteps(s) PROVE UNCHANGED <<admitted, agent, departed, balance, left>>
  BY <1>1 DEF RequestSteps, ReserveSignup, ReserveWindow, CheckRequest, WriteRefused, CommitPlace,
     ReleasePlace, ReserveTrial, TrialNotPaid, OpenSession, LookAgain, accountVars, eventVars
<1>2. ASSUME NEW e, AfterHooks(e) \/ AfterClear(e) \/ DrainHooks(e) \/ DrainClear(e)
      PROVE UNCHANGED <<admitted, agent, departed, balance, left>>
  BY <1>2 DEF AfterHooks, AfterClear, DrainHooks, DrainClear, accountVars
<1>3. ASSUME \/ ReadEvents \/ SweepScan \/ Hour \/ NextDay \/ Restart \/ SetAdmissionMode \/ CloseWindow
             \/ \E d \in Days : OpenWindow(d)
      PROVE UNCHANGED <<admitted, agent, departed, balance, left>>
  BY <1>3 DEF ReadEvents, SweepScan, Hour, NextDay, Restart, SetAdmissionMode, CloseWindow, OpenWindow,
     accountVars, eventVars
<1>4. ASSUME NEW a \in Agents,
             \/ KelHook(a) \/ Review(a)
             \/ \E s \in Slots : \/ \E k \in 1..MaxHistory : StartRegister(s, a, k)
                                 \/ LookAtTrial(s, a) \/ AuthSession(s, a)
      PROVE UNCHANGED <<admitted, agent, departed, balance, left>>
  BY <1>4 DEF KelHook, Review, StartRegister, LookAtTrial, AuthSession, accountVars, eventVars
<1> QED BY <1>1, <1>2, <1>3, <1>4 DEF MembersNext

LEMMA GiftsStep ==
  ASSUME GateInv, [MembersNext]_vars, NEW a \in Agents, balance'[a] >= balance[a] + TrialCredits
  PROVE  \/ TrialDue(a, day) /\ agent'[a].trial = "granted"
         \/ ~admitted[a].granted /\ admitted'[a].granted
<1> DEFINE Paid == \/ TrialDue(a, day) /\ agent'[a].trial = "granted"
                   \/ ~admitted[a].granted /\ admitted'[a].granted
<1>t. /\ AccountTypes /\ CallTypes /\ EventTypes
      /\ \A b \in Agents : balance[b] \in Nat /\ admitted[b] \in Listing
  BY AccountOf
<1>n. TrialCredits \in Nat /\ TrialCredits > 1
  BY MembersAssumption
<1>d. balance'[a] # balance[a]
  BY <1>t, <1>n
<1>1. ASSUME NEW b \in Agents, NEW g \in {0, Grant}, Admit(b, g) PROVE Paid
  <2> DEFINE had == admitted[b]
             row == [on |-> TRUE, granted |-> had.granted,
                     grant |-> IF g > 0 /\ ~had.granted THEN g ELSE had.grant]
             pays == agent[b].in /\ PaysGrant(row)
  <2>1. /\ admitted' = [admitted EXCEPT ![b] = [row EXCEPT !.granted = row.granted \/ pays]]
        /\ balance' = [balance EXCEPT ![b] = balance[b] + IF pays THEN row.grant ELSE 0]
    BY <1>1 DEF Admit
  <2>2. row.granted = had.granted /\ row \in [on: {TRUE}, granted: {had.granted}, grant: {row.grant}]
    OBVIOUS
  <2>3. b = a
    <3> HIDE DEF row, pays
    <3> QED BY <2>1, <1>d, <1>t DEF AccountTypes
  <2>4. pays
    <3> HIDE DEF row, pays
    <3>1. ~pays => balance'[b] = balance[b] + 0
      BY <2>1, <1>t DEF AccountTypes
    <3> QED BY <3>1, <2>3, <1>d, <1>t
  <2>5. ~row.granted
    BY <2>4 DEF PaysGrant
  <2>6. admitted'[b].granted
    <3>1. admitted'[b] = [row EXCEPT !.granted = row.granted \/ pays]
      <4> HIDE DEF row, pays
      <4> QED BY <2>1, <1>t DEF AccountTypes
    <3>2. [row EXCEPT !.granted = row.granted \/ pays].granted = (row.granted \/ pays)
      OBVIOUS
    <3> HIDE DEF row, pays
    <3> QED BY <2>4, <3>1, <3>2
  <2> QED BY <2>2, <2>3, <2>5, <2>6
<1>2. ASSUME NEW s \in Slots, WriteRegistration(s) PROVE Paid
  <2> DEFINE c == call[s]
             b == c.aid
             pays == ~agent[b].in /\ c.via = "list" /\ PaysGrant(admitted[b])
  <2>1. b \in Agents
    BY <1>2, <1>t, CallFields DEF WriteRegistration
  <2>2. /\ admitted' = [admitted EXCEPT ![b] = [admitted[b] EXCEPT !.granted = admitted[b].granted \/ pays]]
        /\ balance' = [balance EXCEPT ![b] = balance[b] + IF pays THEN admitted[b].grant ELSE 0]
    BY <1>2 DEF WriteRegistration
  <2>3. b = a
    <3> HIDE DEF pays
    <3> QED BY <2>2, <1>d, <1>t DEF AccountTypes
  <2>4. pays
    <3> HIDE DEF pays
    <3>1. ~pays => balance'[b] = balance[b] + 0
      BY <2>1, <2>2, <1>t DEF AccountTypes
    <3> QED BY <3>1, <2>3, <1>d, <1>t
  <2>5. ~admitted[b].granted
    BY <2>4 DEF PaysGrant
  <2>6. admitted'[b].granted
    <3>1. admitted'[b] = [admitted[b] EXCEPT !.granted = admitted[b].granted \/ pays]
      <4> HIDE DEF pays
      <4> QED BY <2>1, <2>2, <1>t DEF AccountTypes
    <3>2. admitted[b] \in Listing
      BY <2>1, <1>t
    <3>3. [admitted[b] EXCEPT !.granted = admitted[b].granted \/ pays].granted = (admitted[b].granted \/ pays)
      BY <3>2 DEF Listing
    <3> HIDE DEF pays
    <3> QED BY <2>4, <3>1, <3>3
  <2> QED BY <2>3, <2>5, <2>6
<1>3. ASSUME NEW s \in Slots, PayTrial(s) PROVE Paid
  <2> DEFINE b == call[s].aid
  <2>0. call[s] # Idle /\ TrialDue(b, call[s].on)
    BY <1>3 DEF PayTrial, StillDue
  \* The request read its day no later than now.
  <2>1. b \in Agents /\ TrialDue(b, day)
    <3>1. call[s].on <= day
      BY <2>0 DEF GateInv, HoldsInv, Placed
    <3>2. b \in Agents /\ call[s].on \in Int /\ day \in Int
      BY <1>t, <2>0, CallFields, MembersAssumption DEF Days, GateInv, MembersTypeOK
    <3>3. agent[b] \in AgentType
      BY <1>t, <3>2 DEF AccountTypes
    <3>4. agent[b].until \in Nat
      BY <3>3, AgentForms
    <3> QED BY <2>0, <3>1, <3>2, <3>4 DEF TrialDue
  <2>2. /\ agent' = [agent EXCEPT ![b] = [agent[b] EXCEPT !.trial = "granted"]]
        /\ balance' = [balance EXCEPT ![b] = balance[b] + TrialCredits]
    BY <1>3 DEF PayTrial
  <2>3. b = a
    BY <2>2, <1>d, <1>t DEF AccountTypes
  <2>4. agent'[b].trial = "granted"
    <3>1. agent'[b] = [agent[b] EXCEPT !.trial = "granted"] /\ agent[b] \in AgentType
      BY <2>1, <2>2, <1>t DEF AccountTypes
    <3> QED BY <3>1 DEF AgentType
  <2> QED BY <2>1, <2>3, <2>4
<1>4. ASSUME NEW b \in Agents, Earn(b) PROVE FALSE
  <2>1. balance[b] = 0 /\ balance' = [balance EXCEPT ![b] = 1]
    BY <1>4 DEF Earn
  <2> QED BY <2>1, <1>d, <1>n, <1>t DEF AccountTypes
<1>5. ASSUME NEW b \in Agents, PushKEL(b) \/ Leave(b) \/ Revoke(b) \/ SweepOne(b) \/ Poll(b) PROVE FALSE
  <2>1. balance' = balance
    BY <1>5 DEF PushKEL, Leave, Revoke, SweepOne, Poll, Deregistered, accountVars
  <2> QED BY <2>1, <1>d
<1>6. CASE UNCHANGED vars
  BY <1>6, <1>d DEF vars, accountVars
<1> QED BY <1>1, <1>2, <1>3, <1>4, <1>5, <1>6, <1>d, Others

\* A trial or a grant is added once for its registration or listing, the trial after
\* the probation, for any requests at once and any operator (maybeGrantTrial,
\* payListGrantTx).
THEOREM MembersGiftsPaidOnce == MembersSpec => GiftsPaidOnce
<1>1. GateInv /\ [MembersNext]_vars =>
        [\A a \in Agents : balance'[a] >= balance[a] + TrialCredits =>
           \/ TrialDue(a, day) /\ agent'[a].trial = "granted"
           \/ ~admitted[a].granted /\ admitted'[a].granted]_vars
  BY GiftsStep
<1> QED BY <1>1, GateInvariant, PTL DEF MembersSpec, GiftsPaidOnce

LEMMA SweepStep ==
  ASSUME GateInv, [MembersNext]_vars, NEW a \in Agents, sweep'.aids # sweep.aids, left'[a] # left[a]
  PROVE  ~Used(a)
<1>t. AccountTypes /\ EventTypes /\ CallTypes
  BY AccountOf
<1>1. PICK b \in Agents : Leave(b) \/ Revoke(b) \/ SweepOne(b)
  <2>1. ASSUME NEW s \in Slots, WriteRegistration(s) \/ PayTrial(s) PROVE left' = left
    BY <2>1 DEF WriteRegistration, PayTrial, eventVars
  <2>2. ASSUME NEW b \in Agents,
               PushKEL(b) \/ Poll(b) \/ Earn(b) \/ \E g \in {0, Grant} : Admit(b, g)
        PROVE left' = left
    BY <2>2 DEF PushKEL, Poll, Earn, Admit, eventVars
  <2>3. CASE UNCHANGED vars
    BY <2>3 DEF vars, eventVars
  <2> QED BY <2>1, <2>2, <2>3, Others
<1>2. ~(Leave(b) \/ Revoke(b))
  BY DEF Leave, Revoke
<1>3. SweepOne(b)
  BY <1>1, <1>2
<1>4. CASE ~StillInactive(b)
  BY <1>3, <1>4 DEF SweepOne
<1>5. CASE StillInactive(b)
  <2>1. left' = [left EXCEPT ![b] = left[b] + 1]
    BY <1>3, <1>5 DEF SweepOne, Deregistered
  <2>2. a = b
    BY <2>1, <1>t DEF EventTypes
  <2> QED BY <1>5, <2>2 DEF StillInactive, Inactive, Used
<1> QED BY <1>4, <1>5

\* The sweep deregisters no account that collected mail, holds credit or was reviewed
\* between its scan and the transaction (sweepOne), for any number of accounts.
THEOREM MembersSweepSparesUsed == MembersSpec => SweepSparesUsed
<1>1. GateInv /\ [MembersNext]_vars =>
        [\A a \in Agents : sweep'.aids # sweep.aids /\ left'[a] # left[a] => ~Used(a)]_vars
  BY SweepStep
<1> QED BY <1>1, GateInvariant, PTL DEF MembersSpec, SweepSparesUsed

\* Which steps add a row to the agent table.
LEMMA WhoEnters ==
  ASSUME GateInv, [MembersNext]_vars, NEW a \in Agents, ~agent[a].in, agent'[a].in
  PROVE  \E s \in Slots : WriteRegistration(s) /\ call[s].aid = a
<1>t. AccountTypes /\ CallTypes
  BY AccountOf
<1>f. \A r \in AgentType : /\ \A x : [r EXCEPT !.trial = x].in = r.in
                           /\ \A x : [r EXCEPT !.via = "list", !.trial = x].in = r.in
  BY DEF AgentType
<1>c. agent'[a] # agent[a]
  OBVIOUS
<1>1. ASSUME NEW s \in Slots, WriteRegistration(s) PROVE call[s].aid = a
  BY <1>1, <1>c, <1>t DEF WriteRegistration, AccountTypes
<1>2. ASSUME NEW b \in Agents, NEW g \in {0, Grant}, Admit(b, g) PROVE FALSE
  <2> DEFINE kept == IF agent[b].trial = "pending" THEN "none" ELSE agent[b].trial
             until == IF agent[b].until > day THEN day ELSE agent[b].until
  <2>1. agent' = [agent EXCEPT ![b] = IF ~agent[b].in THEN agent[b]
                                      ELSE [agent[b] EXCEPT !.via = "list", !.until = until, !.trial = kept]]
    BY <1>2 DEF Admit
  <2> HIDE DEF kept, until
  <2>2. b = a
    BY <2>1, <1>c, <1>t DEF AccountTypes
  <2>3. agent'[a] = agent[a]
    BY <2>1, <2>2, <1>t DEF AccountTypes
  <2> QED BY <2>3, <1>c
<1>3. ASSUME NEW s \in Slots, PayTrial(s) PROVE FALSE
  <2> DEFINE b == call[s].aid
  <2>1. agent[b].in /\ agent' = [agent EXCEPT ![b] = [agent[b] EXCEPT !.trial = "granted"]]
    BY <1>3 DEF PayTrial, StillDue, TrialDue
  <2>2. b = a
    BY <2>1, <1>c, <1>t DEF AccountTypes
  <2> QED BY <2>1, <2>2
<1>4. ASSUME NEW b \in Agents, PushKEL(b) \/ Poll(b) PROVE FALSE
  <2>1. agent[b].in /\ \E x : agent' = [agent EXCEPT ![b] = x]
    BY <1>4 DEF PushKEL, Poll
  <2>2. b = a
    BY <2>1, <1>c, <1>t DEF AccountTypes
  <2> QED BY <2>1, <2>2
<1>5. ASSUME NEW b \in Agents, Leave(b) \/ Revoke(b) \/ SweepOne(b) PROVE FALSE
  <2>1. agent' = agent \/ agent' = [agent EXCEPT ![b] = Nobody]
    BY <1>5 DEF Leave, Revoke, SweepOne, Deregistered, accountVars
  <2>2. ~Nobody.in
    BY DEF Nobody
  <2> QED BY <2>1, <2>2, <1>c, <1>t DEF AccountTypes
<1>6. ASSUME NEW b \in Agents, Earn(b) PROVE FALSE
  BY <1>6, <1>c DEF Earn
<1>7. CASE UNCHANGED vars
  BY <1>7, <1>c DEF vars, accountVars
<1> QED BY <1>1, <1>2, <1>3, <1>4, <1>5, <1>6, <1>7, <1>c, Others

LEMMA EntryStep ==
  ASSUME GateInv, [MembersNext]_vars, NEW a \in Agents, ~agent[a].in, agent'[a].in
  PROVE  Entitled(a)
<1>1. PICK s \in Slots : WriteRegistration(s) /\ call[s].aid = a
  BY WhoEnters
<1>2. /\ call[s] # Idle /\ call[s].pc = "write" /\ call[s].via \in Via
      /\ Holding(call[s], Len(windows)) /\ call[s].via # "registered" /\ WayIn(call[s])
  BY <1>1, AccountOf, CallFields DEF WriteRegistration, Written, GateInv, HoldsInv
<1>3. CASE call[s].via = "list"
  BY <1>1, <1>2, <1>3 DEF WayIn, Entitled
<1>4. CASE call[s].via = "open"
  BY <1>1, <1>2, <1>4 DEF Holding, Entitled
<1>5. CASE call[s].via = "window"
  <2> DEFINE w == call[s].win
  <2>1. windows' = [windows EXCEPT ![w].used = @ + 1] /\ windows[w].used < WindowMax
    BY <1>1, <1>2, <1>5 DEF WriteRegistration, WayIn
  <2>2. w \in 1..Len(windows)
    BY <1>2, <1>5 DEF Holding
  <2>3. /\ windows \in Seq(Window) /\ DOMAIN windows = 1..Len(windows) /\ windows[w] \in Window
    <3>1. windows \in Seq(Window)
      BY AccountOf DEF ClockTypes
    <3> QED BY <3>1, <2>2, LenProperties, ElementOfSeq
  <2>4. windows'[w] = [windows[w] EXCEPT !.used = windows[w].used + 1]
    BY <2>1, <2>2, <2>3
  <2>5. windows'[w].used = windows[w].used + 1 /\ windows[w].used \in 0..WindowMax
    BY <2>3, <2>4 DEF Window
  <2>6. windows'[w].used <= WindowMax
    BY <2>1, <2>5, MembersAssumption
  <2> QED BY <2>2, <2>3, <2>5, <2>6 DEF Entitled
<1> QED BY <1>2, <1>3, <1>4, <1>5 DEF Via

LEMMA HistoryStep ==
  ASSUME GateInv, [MembersNext]_vars, NEW a \in Agents
  PROVE  Known(a)' >= Known(a)
<1> DEFINE next == IF agent'[a].in THEN agent'[a].kel ELSE departed'[a]
<1>0. Known(a)' = next
  BY DEF Known
<1>t. /\ AccountTypes /\ CallTypes
      /\ \A b \in Agents : agent[b] \in AgentType /\ agent[b].kel \in Nat /\ departed[b] \in Nat
  BY AccountOf
<1>k. Known(a) \in Nat
  BY <1>t DEF Known
<1> SUFFICES next >= Known(a)
  BY <1>0
<1>f. \A r \in AgentType :
        /\ \A x : [r EXCEPT !.trial = x].in = r.in /\ [r EXCEPT !.trial = x].kel = r.kel
        /\ \A u, x : /\ [r EXCEPT !.via = "list", !.until = u, !.trial = x].in = r.in
                     /\ [r EXCEPT !.via = "list", !.until = u, !.trial = x].kel = r.kel
        /\ [r EXCEPT !.seen = TRUE].in = r.in /\ [r EXCEPT !.seen = TRUE].kel = r.kel
        /\ \A x : [r EXCEPT !.kel = x].in = r.in /\ [r EXCEPT !.kel = x].kel = x
  BY DEF AgentType
<1>s. ASSUME agent'[a].in = agent[a].in, agent'[a].kel = agent[a].kel, departed' = departed
      PROVE  next >= Known(a)
  BY <1>s, <1>k DEF Known
<1>1. ASSUME NEW s \in Slots, WriteRegistration(s) PROVE next >= Known(a)
  <2> DEFINE c == call[s]
             b == c.aid
  <2>1. c # Idle /\ Extends(c) /\ c.kel \in Int /\ b \in Agents /\ departed' = departed
    BY <1>1, <1>t, CallFields, MembersAssumption DEF WriteRegistration, Written
  <2>2. agent' = [agent EXCEPT ![b] = IF ~agent[b].in THEN Newcomer(c) ELSE [agent[b] EXCEPT !.kel = c.kel]]
    BY <1>1 DEF WriteRegistration
  <2>3. CASE b = a
    <3>1. agent'[a].in /\ agent'[a].kel = c.kel
      <4>1. Newcomer(c).in /\ Newcomer(c).kel = c.kel
        BY DEF Newcomer
      <4> QED BY <4>1, <2>1, <2>2, <2>3, <1>f, <1>t DEF AccountTypes
    <3>2. c.kel >= Known(a)
      BY <2>1, <2>3 DEF Extends
    <3> QED BY <3>1, <3>2
  <2>4. CASE b # a
    <3>1. agent'[a] = agent[a]
      BY <2>2, <2>4, <1>t DEF AccountTypes
    <3> QED BY <2>1, <3>1, <1>s
  <2> QED BY <2>3, <2>4
<1>2. ASSUME NEW b \in Agents, NEW g \in {0, Grant}, Admit(b, g) PROVE next >= Known(a)
  <2> DEFINE kept == IF agent[b].trial = "pending" THEN "none" ELSE agent[b].trial
             until == IF agent[b].until > day THEN day ELSE agent[b].until
  <2>1. agent' = [agent EXCEPT ![b] = IF ~agent[b].in THEN agent[b]
                                      ELSE [agent[b] EXCEPT !.via = "list", !.until = until, !.trial = kept]]
        /\ departed' = departed
    BY <1>2 DEF Admit
  <2> HIDE DEF kept, until
  <2>2. agent'[a].in = agent[a].in /\ agent'[a].kel = agent[a].kel
    BY <2>1, <1>f, <1>t DEF AccountTypes
  <2> QED BY <2>1, <2>2, <1>s
<1>3. ASSUME NEW s \in Slots, PayTrial(s) PROVE next >= Known(a)
  <2> DEFINE b == call[s].aid
  <2>1. agent' = [agent EXCEPT ![b] = [agent[b] EXCEPT !.trial = "granted"]] /\ departed' = departed
    BY <1>3 DEF PayTrial
  <2>2. agent'[a].in = agent[a].in /\ agent'[a].kel = agent[a].kel
    BY <2>1, <1>f, <1>t DEF AccountTypes
  <2> QED BY <2>1, <2>2, <1>s
<1>4. ASSUME NEW b \in Agents, PushKEL(b) PROVE next >= Known(a)
  <2>1. agent[b].in /\ agent' = [agent EXCEPT ![b] = [agent[b] EXCEPT !.kel = agent[b].kel + 1]] /\ departed' = departed
    BY <1>4 DEF PushKEL
  <2>2. CASE b = a
    <3>1. agent'[a].in /\ agent'[a].kel = agent[a].kel + 1 /\ agent[a].kel \in Nat /\ agent[a].in
      BY <2>1, <2>2, <1>f, <1>t DEF AccountTypes
    <3>2. next = agent[a].kel + 1 /\ Known(a) = agent[a].kel
      BY <3>1 DEF Known
    <3> HIDE DEF next
    <3> QED BY <3>1, <3>2
  <2>3. CASE b # a
    <3>1. agent'[a] = agent[a]
      BY <2>1, <2>3, <1>t DEF AccountTypes
    <3> QED BY <2>1, <3>1, <1>s
  <2> QED BY <2>2, <2>3
<1>5. ASSUME NEW b \in Agents, Poll(b) PROVE next >= Known(a)
  <2>1. agent' = [agent EXCEPT ![b] = [agent[b] EXCEPT !.seen = TRUE]] /\ departed' = departed
    BY <1>5 DEF Poll
  <2>2. agent'[a].in = agent[a].in /\ agent'[a].kel = agent[a].kel
    BY <2>1, <1>f, <1>t DEF AccountTypes
  <2> QED BY <2>1, <2>2, <1>s
<1>6. ASSUME NEW b \in Agents, Leave(b) \/ Revoke(b) \/ SweepOne(b) PROVE next >= Known(a)
  <2>1. \/ UNCHANGED <<agent, departed>>
        \/ /\ agent[b].in /\ agent' = [agent EXCEPT ![b] = Nobody]
           /\ departed' = [departed EXCEPT ![b] = agent[b].kel]
    BY <1>6 DEF Leave, Revoke, SweepOne, Deregistered, accountVars
  <2>2. CASE UNCHANGED <<agent, departed>>
    BY <2>2, <1>s
  <2>3. ASSUME agent[b].in, agent' = [agent EXCEPT ![b] = Nobody], departed' = [departed EXCEPT ![b] = agent[b].kel]
        PROVE  next >= Known(a)
    <3>1. CASE b = a
      <4>1. ~agent'[a].in /\ departed'[a] = agent[a].kel /\ Known(a) = agent[a].kel /\ agent[a].kel \in Nat
        BY <2>3, <3>1, <1>t DEF Nobody, Known, AccountTypes
      <4> QED BY <4>1
    <3>2. CASE b # a
      <4>1. agent'[a] = agent[a] /\ departed'[a] = departed[a]
        BY <2>3, <3>2, <1>t DEF AccountTypes
      <4> QED BY <4>1, <1>k DEF Known
    <3> QED BY <3>1, <3>2
  <2> QED BY <2>1, <2>2, <2>3
<1>7. ASSUME UNCHANGED <<agent, departed>> PROVE next >= Known(a)
  BY <1>7, <1>s
<1>8. ASSUME NEW b \in Agents, Earn(b) PROVE UNCHANGED <<agent, departed>>
  BY <1>8 DEF Earn
<1>9. CASE UNCHANGED vars
  BY <1>9, <1>7 DEF vars, accountVars
<1> HIDE DEF next
<1> QED BY <1>1, <1>2, <1>3, <1>4, <1>5, <1>6, <1>7, <1>8, <1>9, Others

\* An AID comes in through the list, a place of a window taken in the same step or a
\* place of the day its request holds, and the longest history the hub took from it is
\* never shortened, whatever it registers after leaving (hRegister, writeAdmissionTx,
\* writeTombstone, knownKEL).
THEOREM MembersEnterByTheRules == MembersSpec => EntersByTheRules
<1>1. GateInv /\ [MembersNext]_vars =>
        [\A a \in Agents : ~agent[a].in /\ agent'[a].in => Entitled(a)]_vars
  BY EntryStep
<1>2. GateInv /\ [MembersNext]_vars => [\A a \in Agents : Known(a)' >= Known(a)]_vars
  BY HistoryStep
<1>3. MembersSpec => NoEntryUngated
  BY <1>1, GateInvariant, PTL DEF MembersSpec, NoEntryUngated
<1>4. MembersSpec => HistoryOnlyGrows
  BY <1>2, GateInvariant, PTL DEF MembersSpec, HistoryOnlyGrows
<1> QED BY <1>3, <1>4 DEF EntersByTheRules

-----------------------------------------------------------------------------
(* The sessions of whoever left, came back or changed its key.              *)

\* A drop the callbacks owe, whatever the AID's row says.
StillOwed(a) == a \in changed \/ \E e \in after \cup drain : e.aid = a /\ e.pc = "hooks"

Cleared(a) ==
  \A i \in DOMAIN sessions[a] : LET x == sessions[a][i] IN x.new \/ Owned(a, x) \/ StillOwed(a)

\* Once the callbacks of the last departure have run, its row can go.
ClearedInv == \A e \in after \cup drain : e.pc = "clear" /\ SameEvent(e) => Cleared(e.aid)

\* A new session is of the request that will look again, and that request has no other.
Awaited(x, a, c) == c # Idle /\ c.pc = "look" /\ c.aid = a /\ c.kel = x.kel
NewInv ==
  \A a \in Agents : \A i \in DOMAIN sessions[a] : sessions[a][i].new =>
    /\ Awaited(sessions[a][i], a, call[sessions[a][i].by])
    /\ \A j \in DOMAIN sessions[a] :
         sessions[a][j].new /\ sessions[a][j].by = sessions[a][i].by => j = i

\* A row's stamp is of a departure that was, and so are those being worked on.
StampInv == /\ \A a \in Agents : events[a] <= left[a]
            /\ \A e \in after \cup drain : e.stamp <= left[e.aid]

SessionInv == GateInv /\ NewInv /\ StampInv /\ ClearedInv /\ SessionsOwned

\* What a step does to the sessions and the requests that opened them.
LEMMA SessionCases ==
  ASSUME GateInv, MembersNext
  PROVE  \/ UNCHANGED <<sessions, call>>
         \/ UNCHANGED sessions /\ \E s \in Slots : \E c : Only(s, c) /\ ~(call[s] # Idle /\ call[s].pc = "look")
         \/ \E s \in Slots : OpenSession(s) /\ opens[call[s].aid] < MaxOpens
         \/ \E s \in Slots : LookAgain(s)
         \/ UNCHANGED call /\ \E a \in Agents : sessions' = [sessions EXCEPT ![a] = <<>>]
         \/ sessions' = [a \in Agents |-> <<>>]
<1>t. /\ ClockTypes /\ AccountTypes /\ CallTypes /\ SessionTypes /\ MaxOpens \in Nat
      /\ EventTypes
  BY TypeParts, MembersAssumption DEF GateInv
<1> DEFINE Elsewhere == \E s \in Slots : \E c : Only(s, c) /\ ~(call[s] # Idle /\ call[s].pc = "look")
<1>1. ASSUME NEW s \in Slots, NEW a \in Agents,
             \/ \E k \in 1..MaxHistory : StartRegister(s, a, k)
             \/ LookAtTrial(s, a) \/ AuthSession(s, a)
      PROVE  UNCHANGED sessions /\ Elsewhere
  <2>1. UNCHANGED sessions
    BY <1>1 DEF StartRegister, LookAtTrial, AuthSession, sessionVars
  <2>2. call[s] = Idle /\ \E c : Only(s, c)
    BY <1>1, <1>t, Begins
  <2> QED BY <2>1, <2>2
<1>2. ASSUME NEW s \in Slots, RequestSteps(s), ~OpenSession(s), ~LookAgain(s)
      PROVE  UNCHANGED sessions /\ Elsewhere
  <2>1. UNCHANGED sessions
    BY <1>2 DEF RequestSteps, ReserveSignup, ReserveWindow, CheckRequest, WriteRegistration, WriteRefused,
       CommitPlace, ReleasePlace, ReserveTrial, PayTrial, TrialNotPaid, sessionVars
  <2>2. \E c : Only(s, c)
    BY <1>2, <1>t, Moves
  <2>3. call[s].pc # "look"
    BY <1>2 DEF RequestSteps, ReserveSignup, ReserveWindow, CheckRequest, WriteRegistration, WriteRefused,
       CommitPlace, ReleasePlace, ReserveTrial, PayTrial, TrialNotPaid
  <2> QED BY <2>1, <2>2, <2>3
<1>3. ASSUME NEW s \in Slots, OpenSession(s), ~(opens[call[s].aid] < MaxOpens)
      PROVE  UNCHANGED sessions /\ Elsewhere
  <2>1. call[s] # Idle /\ call[s].aid \in Agents /\ call[s].pc = "open"
    BY <1>3, <1>t, CallFields DEF OpenSession
  <2>2. opens[call[s].aid] \in 0..MaxOpens
    BY <2>1, <1>t, SessionFields
  <2>3. opens[call[s].aid] >= MaxOpens
    BY <2>2, <1>3, <1>t
  <2> QED BY <1>3, <2>1, <2>3 DEF OpenSession, Only
<1>4. CASE Hour \/ NextDay \/ Restart
  BY <1>4 DEF Hour, NextDay, Restart
<1>5. ASSUME \/ SetAdmissionMode \/ CloseWindow \/ ReadEvents \/ SweepScan
             \/ \E w \in Days : OpenWindow(w)
             \/ \E e \in after : AfterClear(e)
             \/ \E e \in drain : DrainClear(e)
      PROVE UNCHANGED <<sessions, call>>
  BY <1>5 DEF SetAdmissionMode, CloseWindow, ReadEvents, SweepScan, OpenWindow, AfterClear, DrainClear,
     sessionVars
<1>6. ASSUME NEW a \in Agents,
             \/ PushKEL(a) \/ Leave(a) \/ Revoke(a) \/ SweepOne(a) \/ Poll(a) \/ Earn(a)
             \/ Review(a) \/ \E g \in {0, Grant} : Admit(a, g)
      PROVE UNCHANGED <<sessions, call>>
  BY <1>6 DEF PushKEL, Leave, Revoke, SweepOne, Poll, Earn, Review, Admit, sessionVars
<1>7. ASSUME \/ \E a \in Agents : KelHook(a)
             \/ \E e \in after : AfterHooks(e)
             \/ \E e \in drain : DrainHooks(e)
      PROVE  UNCHANGED call /\ \E a \in Agents : sessions' = [sessions EXCEPT ![a] = <<>>]
  <2>1. \A e \in after \cup drain : e.aid \in Agents
    BY <1>t DEF EventTypes, Departure
  <2> QED BY <1>7, <2>1 DEF KelHook, AfterHooks, DrainHooks, Dropped
<1> QED
  BY <1>1, <1>2, <1>3, <1>4, <1>5, <1>6, <1>7 DEF MembersNext

\* Where the sessions of a request's answer come from: the held ones, answered or not.
LEMMA LookedAt ==
  ASSUME GateInv, NEW s \in Slots, LookAgain(s)
  PROVE  /\ call[s] # Idle /\ call[s].pc = "look" /\ call[s].aid \in Agents /\ Only(s, Idle)
         /\ UNCHANGED agent
         /\ \/ StillSigns(call[s]) /\ Answered(s, call[s].aid)
            \/ Cancelled(s, call[s].aid)
<1>1. call[s] # Idle /\ CallTypes
  BY TypeParts DEF LookAgain, GateInv
<1> QED BY <1>1, CallFields DEF LookAgain, Only, accountVars

\* The next state's new sessions, one agent at a time.
NewFor(a) ==
  \A i \in DOMAIN sessions'[a] : sessions'[a][i].new =>
    /\ Awaited(sessions'[a][i], a, call'[sessions'[a][i].by])
    /\ \A j \in DOMAIN sessions'[a] :
         sessions'[a][j].new /\ sessions'[a][j].by = sessions'[a][i].by => j = i

LEMMA NewNext == (\A a \in Agents : NewFor(a)) => NewInv'
BY DEF NewFor, NewInv, Awaited

\* Sessions that are held ones, none of which request s opened, keep to the rule.
LEMMA NewKept ==
  ASSUME GateInv, NewInv, NEW a \in Agents, NEW s \in Slots, NEW c, Only(s, c),
         NEW f, \A i \in DOMAIN sessions'[a] :
           /\ f[i] \in DOMAIN sessions[a] /\ (sessions'[a][i].new => sessions'[a][i] = sessions[a][f[i]])
           /\ sessions'[a][i].new => sessions[a][f[i]].by # s
           /\ \A j \in DOMAIN sessions'[a] : f[j] = f[i] => j = i
  PROVE  NewFor(a)
<1> SUFFICES ASSUME NEW i \in DOMAIN sessions'[a], sessions'[a][i].new
             PROVE  /\ Awaited(sessions'[a][i], a, call'[sessions'[a][i].by])
                    /\ \A j \in DOMAIN sessions'[a] :
                         sessions'[a][j].new /\ sessions'[a][j].by = sessions'[a][i].by => j = i
  BY DEF NewFor
<1> DEFINE x == sessions[a][f[i]]
<1>1. sessions'[a][i] = x /\ x.new /\ x.by # s /\ f[i] \in DOMAIN sessions[a]
  OBVIOUS
<1>2. Awaited(x, a, call[x.by])
  BY <1>1 DEF NewInv
<1>3. x.by \in Slots
  BY <1>1, TypeParts, SessionFields DEF GateInv
<1>4. call'[x.by] = call[x.by]
  BY <1>1, <1>3, TypeParts DEF Only, GateInv, CallTypes
<1>5. ASSUME NEW j \in DOMAIN sessions'[a], sessions'[a][j].new, sessions'[a][j].by = x.by
      PROVE  j = i
  <2>1. sessions'[a][j] = sessions[a][f[j]] /\ f[j] \in DOMAIN sessions[a]
    BY <1>5
  <2>2. f[j] = f[i]
    BY <2>1, <1>1, <1>5 DEF NewInv
  <2> QED BY <2>2
<1> QED BY <1>1, <1>2, <1>4, <1>5

\* An agent's sessions are held ones only, and request s opened none of them.
LEMMA NewSame ==
  ASSUME GateInv, NewInv, NEW a \in Agents, NEW s \in Slots, NEW c, Only(s, c),
         sessions'[a] = sessions[a],
         \A i \in DOMAIN sessions[a] : sessions[a][i].new => sessions[a][i].by # s
  PROVE  NewFor(a)
<1> DEFINE f == [i \in DOMAIN sessions[a] |-> i]
<1>1. \A i \in DOMAIN sessions'[a] :
        /\ f[i] \in DOMAIN sessions[a] /\ (sessions'[a][i].new => sessions'[a][i] = sessions[a][f[i]])
        /\ sessions'[a][i].new => sessions[a][f[i]].by # s
        /\ \A j \in DOMAIN sessions'[a] : f[j] = f[i] => j = i
  OBVIOUS
<1> HIDE DEF f
<1> QED BY <1>1, NewKept

LEMMA NewStep ==
  ASSUME GateInv, NewInv, MembersNext
  PROVE  NewInv'
<1>t. /\ CallTypes /\ SessionTypes
  BY TypeParts DEF GateInv
<1>1. CASE UNCHANGED <<sessions, call>>
  BY <1>1 DEF NewInv, Awaited
\* A request that does not look again at a of aid a opened none of a's sessions.
<1>n. ASSUME NEW s \in Slots, NEW a \in Agents, ~(call[s] # Idle /\ call[s].pc = "look" /\ call[s].aid = a)
      PROVE  \A i \in DOMAIN sessions[a] : sessions[a][i].new => sessions[a][i].by # s
  BY <1>n DEF NewInv, Awaited
<1>2. ASSUME UNCHANGED sessions, NEW s \in Slots, NEW c, Only(s, c), ~(call[s] # Idle /\ call[s].pc = "look")
      PROVE  NewInv'
  <2>1. \A a \in Agents : NewFor(a)
    BY <1>2, <1>n, NewSame
  <2> QED BY <2>1, NewNext
<1>3. ASSUME NEW s \in Slots, OpenSession(s), opens[call[s].aid] < MaxOpens PROVE NewInv'
  <2> DEFINE b == call[s].aid
             y == [kel |-> call[s].kel, by |-> s, new |-> TRUE]
             c == [call[s] EXCEPT !.pc = "look"]
             r == Room(sessions[b])
  <2>1. call[s] # Idle /\ call[s].pc = "open" /\ call[s] \in CallType /\ b \in Agents
    BY <1>3, <1>t, CallFields DEF OpenSession
  <2>2. opens[b] \in 0..MaxOpens /\ MaxOpens \in Nat
    BY <2>1, <1>t, SessionFields, MembersAssumption
  <2>3. ~(opens[b] >= MaxOpens)
    BY <2>2, <1>3
  <2>4. sessions' = [sessions EXCEPT ![b] = Append(r, y)] /\ Only(s, c)
    BY <1>3, <2>3 DEF OpenSession, Only
  <2>5. Awaited(y, b, c)
    BY <2>1 DEF Awaited, CallType, Idle
  <2>6. call'[s] = c
    BY <2>4, <1>t DEF Only, CallTypes
  <2>7. sessions[b] \in Seq(SessionType) /\ DOMAIN sessions[b] = 1..Len(sessions[b])
    BY <2>1, <1>t, SessionFields
  <2>8. PICK o \in Nat : /\ r \in Seq(SessionType) /\ Len(r) \in Nat
                         /\ \A i \in 1..Len(r) : i + o \in 1..Len(sessions[b]) /\ r[i] = sessions[b][i + o]
    BY <2>7, RoomKeeps
  <2>y. y \in SessionType /\ y.new /\ y.by = s
    BY <2>1, <1>t, CallFields DEF SessionType
  <2> HIDE DEF y, c, r
  <2>9. /\ DOMAIN sessions'[b] = 1..(Len(r) + 1) /\ sessions'[b][Len(r) + 1] = y
        /\ \A i \in 1..Len(r) : sessions'[b][i] = r[i]
    <3>1. sessions'[b] = Append(r, y)
      BY <2>4, <2>1, <1>t DEF SessionTypes
    <3>2. /\ Len(Append(r, y)) = Len(r) + 1 /\ Append(r, y) \in Seq(SessionType)
          /\ Append(r, y)[Len(r) + 1] = y /\ \A i \in 1..Len(r) : Append(r, y)[i] = r[i]
      BY <2>8, <2>y, AppendProperties
    <3>3. DOMAIN Append(r, y) = 1..(Len(r) + 1)
      BY <3>2, LenProperties
    <3> QED BY <3>1, <3>2, <3>3
  <2>10. \A a \in Agents \ {b} : NewFor(a)
    <3>1. \A a \in Agents \ {b} : sessions'[a] = sessions[a]
      BY <2>4, <1>t DEF SessionTypes
    <3> QED BY <3>1, <2>1, <2>4, <1>n, NewSame
  <2>11. ASSUME NEW i \in 1..Len(r), r[i].new
         PROVE  /\ i + o \in DOMAIN sessions[b] /\ r[i] = sessions[b][i + o] /\ r[i].by # s
                /\ Awaited(r[i], b, call'[r[i].by])
    <3>1. i + o \in DOMAIN sessions[b] /\ r[i] = sessions[b][i + o]
      BY <2>7, <2>8
    <3>2. r[i].by # s
      BY <3>1, <2>11, <2>1, <1>n
    <3>3. Awaited(r[i], b, call[r[i].by])
      BY <3>1, <2>11, <2>1 DEF NewInv
    <3>4. r[i].by \in Slots
      BY <3>1, <2>1, <1>t, SessionFields
    <3>5. call'[r[i].by] = call[r[i].by]
      BY <3>2, <3>4, <2>4, <1>t DEF Only, CallTypes
    <3> QED BY <3>1, <3>2, <3>3, <3>5
  <2>12. ASSUME NEW i \in 1..Len(r), NEW j \in 1..Len(r), r[i].new, r[j].new, r[i].by = r[j].by
         PROVE  i = j
    <3>1. i + o = j + o
      BY <2>11, <2>12, <2>1 DEF NewInv
    <3> QED BY <3>1
  <2>13. NewFor(b)
    <3> SUFFICES ASSUME NEW i \in DOMAIN sessions'[b], sessions'[b][i].new
                 PROVE  /\ Awaited(sessions'[b][i], b, call'[sessions'[b][i].by])
                        /\ \A j \in DOMAIN sessions'[b] :
                             sessions'[b][j].new /\ sessions'[b][j].by = sessions'[b][i].by => j = i
      BY DEF NewFor
    <3>0. \A k \in DOMAIN sessions'[b] : k \in 1..Len(r) \/ k = Len(r) + 1
      BY <2>8, <2>9
    <3>1. CASE i = Len(r) + 1
      BY <3>0, <3>1, <2>5, <2>6, <2>9, <2>11, <2>y
    <3>2. CASE i \in 1..Len(r)
      BY <3>0, <3>2, <2>9, <2>11, <2>12, <2>y
    <3> QED BY <3>0, <3>1, <3>2
  <2> QED BY <2>10, <2>13, NewNext
<1>4. ASSUME NEW s \in Slots, LookAgain(s) PROVE NewInv'
  <2> DEFINE b == call[s].aid
  <2>1. b \in Agents /\ Only(s, Idle) /\ call[s].pc = "look" /\ (Answered(s, b) \/ Cancelled(s, b))
    BY <1>4, LookedAt
  <2>2. \A a \in Agents \ {b} : NewFor(a)
    <3>1. \E h : sessions' = [sessions EXCEPT ![b] = h] \/ sessions' = sessions
      BY <2>1 DEF Answered, Cancelled
    <3>2. \A a \in Agents \ {b} : sessions'[a] = sessions[a]
      BY <3>1, <1>t DEF SessionTypes
    <3> QED BY <3>2, <2>1, <1>n, NewSame
  <2>7. sessions[b] \in Seq(SessionType) /\ DOMAIN sessions[b] = 1..Len(sessions[b])
        /\ \A i \in DOMAIN sessions[b] : sessions[b][i] \in SessionType
    BY <2>1, <1>t, SessionFields
  <2>3. CASE Answered(s, b)
    <3> DEFINE f == [i \in DOMAIN sessions[b] |-> i]
    <3>1. /\ DOMAIN sessions'[b] = DOMAIN sessions[b]
          /\ \A i \in DOMAIN sessions[b] :
               sessions'[b][i] = IF Mine(s, sessions[b][i]) THEN [sessions[b][i] EXCEPT !.new = FALSE]
                                 ELSE sessions[b][i]
      BY <2>1, <2>3, <1>t DEF Answered, SessionTypes
    <3>2. \A x \in SessionType : ~[x EXCEPT !.new = FALSE].new
      BY DEF SessionType
    <3>i. \A i \in DOMAIN sessions[b] : f[i] = i
      OBVIOUS
    <3> HIDE DEF f
    <3>n. ASSUME NEW i \in DOMAIN sessions[b], sessions'[b][i].new
          PROVE  sessions'[b][i] = sessions[b][i] /\ sessions[b][i].by # s
      <4>1. ~Mine(s, sessions[b][i])
        BY <3>n, <3>1, <3>2, <2>7
      <4>2. sessions'[b][i] = sessions[b][i]
        BY <4>1, <3>1
      <4> QED BY <3>n, <4>1, <4>2 DEF Mine
    <3>3. \A i \in DOMAIN sessions'[b] :
            /\ f[i] \in DOMAIN sessions[b] /\ (sessions'[b][i].new => sessions'[b][i] = sessions[b][f[i]])
            /\ sessions'[b][i].new => sessions[b][f[i]].by # s
            /\ \A j \in DOMAIN sessions'[b] : f[j] = f[i] => j = i
      BY <3>1, <3>i, <3>n
    <3>4. NewFor(b)
      BY <3>3, <2>1, NewKept
    <3> QED BY <2>2, <3>4, NewNext
  <2>4. CASE Cancelled(s, b)
    <3>1. CASE /\ \A i \in DOMAIN sessions[b] : ~Mine(s, sessions[b][i])
               /\ UNCHANGED sessions
      <4>1. NewFor(b)
        BY <3>1, <2>1, NewSame DEF Mine
      <4> QED BY <2>2, <4>1, NewNext
    <3>2. ASSUME NEW k \in DOMAIN sessions[b], Mine(s, sessions[b][k]),
                 sessions' = [sessions EXCEPT ![b] = Without(sessions[b], k)]
          PROVE  NewInv'
      <4> DEFINE g(i) == IF i < k THEN i ELSE i + 1
                 f == [i \in 1..(Len(sessions[b]) - 1) |-> g(i)]
      <4>1. /\ sessions'[b] = Without(sessions[b], k)
            /\ DOMAIN sessions'[b] = 1..(Len(sessions[b]) - 1)
        BY <3>2, <2>1, <1>t DEF SessionTypes, Without
      <4>2. \A i \in 1..(Len(sessions[b]) - 1) :
              sessions'[b][i] = sessions[b][g(i)] /\ g(i) \in DOMAIN sessions[b] /\ g(i) # k
        <5>1. k \in 1..Len(sessions[b])
          BY <2>7
        <5>2. \A i \in 1..(Len(sessions[b]) - 1) :
                /\ Without(sessions[b], k)[i] = sessions[b][g(i)]
                /\ g(i) \in 1..Len(sessions[b]) /\ g(i) # k
          BY <5>1, <2>7, WithoutKeeps
        <5> HIDE DEF g
        <5> QED BY <4>1, <2>7, <5>2
      <4>3. \A i, j \in 1..(Len(sessions[b]) - 1) : g(i) = g(j) => i = j
        <5>1. k \in Int
          BY <2>7
        <5> QED BY <5>1
      <4>4. \A i \in DOMAIN sessions[b] : sessions[b][i].new /\ i # k => sessions[b][i].by # s
        BY <3>2, <2>1 DEF NewInv, Mine
      <4>5. \A i \in 1..(Len(sessions[b]) - 1) : f[i] = g(i)
        OBVIOUS
      <4> HIDE DEF g, f
      <4>6. \A i \in DOMAIN sessions'[b] :
              /\ f[i] \in DOMAIN sessions[b] /\ (sessions'[b][i].new => sessions'[b][i] = sessions[b][f[i]])
              /\ sessions'[b][i].new => sessions[b][f[i]].by # s
              /\ \A j \in DOMAIN sessions'[b] : f[j] = f[i] => j = i
        BY <4>1, <4>2, <4>3, <4>4, <4>5
      <4>7. NewFor(b)
        BY <4>6, <2>1, NewKept
      <4> QED BY <2>2, <4>7, NewNext
    <3> QED BY <2>4, <3>1, <3>2 DEF Cancelled
  <2> QED BY <2>1, <2>3, <2>4
<1>5. ASSUME UNCHANGED call, NEW a \in Agents, sessions' = [sessions EXCEPT ![a] = <<>>] PROVE NewInv'
  <2>1. NewFor(a)
    <3>1. DOMAIN sessions'[a] = {}
      BY <1>5, <1>t DEF SessionTypes
    <3> QED BY <3>1 DEF NewFor
  <2>2. ASSUME NEW b \in Agents, b # a PROVE NewFor(b)
    <3>1. sessions'[b] = sessions[b]
      BY <1>5, <2>2, <1>t DEF SessionTypes
    <3> QED BY <3>1, <1>5 DEF NewFor, NewInv
  <2> QED BY <2>1, <2>2, NewNext
<1>6. CASE sessions' = [a \in Agents |-> <<>>]
  <2>1. \A a \in Agents : DOMAIN sessions'[a] = {}
    BY <1>6
  <2> QED BY <2>1, NewNext DEF NewFor
<1> QED BY <1>1, <1>2, <1>3, <1>4, <1>5, <1>6, SessionCases

\* The next state's side of what a drop may be owed for.
OwnedNext(a, x) == agent'[a].in /\ agent'[a].kel = x.kel
OwedNext(a) == a \in changed' \/ \E e \in after' \cup drain' : e.aid = a /\ e.pc = "hooks"
ClearedNext(a) ==
  \A i \in DOMAIN sessions'[a] : sessions'[a][i].new \/ OwnedNext(a, sessions'[a][i]) \/ OwedNext(a)

\* A session of the next state is new, owned, or was held before.
LEMMA SessionOrigin ==
  ASSUME GateInv, NewInv, MembersNext, NEW a \in Agents, NEW i \in DOMAIN sessions'[a]
  PROVE  \/ sessions'[a][i].new \/ OwnedNext(a, sessions'[a][i])
         \/ \E j \in DOMAIN sessions[a] : sessions[a][j] = sessions'[a][i]
<1> DEFINE Good == \/ sessions'[a][i].new \/ OwnedNext(a, sessions'[a][i])
                   \/ \E j \in DOMAIN sessions[a] : sessions[a][j] = sessions'[a][i]
<1> SUFFICES Good
  OBVIOUS
<1>t. /\ CallTypes /\ SessionTypes /\ sessions[a] \in Seq(SessionType)
      /\ DOMAIN sessions[a] = 1..Len(sessions[a]) /\ Len(sessions[a]) \in Nat
      /\ \A j \in DOMAIN sessions[a] : sessions[a][j] \in SessionType
  BY TypeParts, SessionFields DEF GateInv
<1>0. ASSUME sessions'[a] = sessions[a] PROVE Good
  BY <1>0
<1>1. ASSUME NEW s \in Slots, OpenSession(s), opens[call[s].aid] < MaxOpens PROVE Good
  <2> DEFINE b == call[s].aid
             y == [kel |-> call[s].kel, by |-> s, new |-> TRUE]
             r == Room(sessions[b])
  <2>1. call[s] # Idle /\ b \in Agents
    BY <1>1, <1>t, CallFields DEF OpenSession
  <2>2. opens[b] \in 0..MaxOpens /\ MaxOpens \in Nat
    BY <2>1, <1>t, SessionFields, MembersAssumption
  <2>3. sessions' = [sessions EXCEPT ![b] = Append(r, y)]
    BY <1>1, <2>2 DEF OpenSession
  <2>4. y \in SessionType /\ y.new
    BY <2>1, <1>t, CallFields DEF SessionType
  <2> HIDE DEF y
  <2>5. CASE a = b
    <3>1. /\ r \in Seq(SessionType) /\ Len(r) \in Nat
          /\ \A k \in 1..Len(r) : \E j \in DOMAIN sessions[a] : r[k] = sessions[a][j]
      <4>1. PICK o \in Nat : /\ r \in Seq(SessionType) /\ Len(r) \in Nat
                             /\ \A k \in 1..Len(r) : k + o \in 1..Len(sessions[a]) /\ r[k] = sessions[a][k + o]
        BY <2>5, <1>t, RoomKeeps
      <4> HIDE DEF r
      <4> QED BY <4>1, <1>t
    <3> HIDE DEF r
    <3>2. sessions'[a] = Append(r, y)
      BY <2>3, <2>5, <1>t DEF SessionTypes
    <3>3. /\ Append(r, y) \in Seq(SessionType) /\ Len(Append(r, y)) = Len(r) + 1
          /\ Append(r, y)[Len(r) + 1] = y /\ \A k \in 1..Len(r) : Append(r, y)[k] = r[k]
      BY <2>4, <3>1, AppendProperties
    <3>4. i \in 1..Len(r) \/ i = Len(r) + 1
      <4>1. DOMAIN Append(r, y) = 1..(Len(r) + 1)
        BY <3>3, LenProperties
      <4> QED BY <3>1, <3>2, <4>1
    <3> QED BY <2>4, <3>1, <3>2, <3>3, <3>4
  <2>6. CASE a # b
    <3>1. sessions'[a] = sessions[a]
      BY <2>3, <2>6, <1>t DEF SessionTypes
    <3> QED BY <3>1, <1>0
  <2> QED BY <2>5, <2>6
<1>2. ASSUME NEW s \in Slots, LookAgain(s) PROVE Good
  <2> DEFINE b == call[s].aid
  <2>1. /\ b \in Agents /\ UNCHANGED agent
        /\ (StillSigns(call[s]) /\ Answered(s, b)) \/ Cancelled(s, b)
    BY <1>2, LookedAt
  <2>2. ASSUME a # b PROVE Good
    <3>1. \E h : sessions' = [sessions EXCEPT ![b] = h] \/ sessions' = sessions
      BY <2>1 DEF Answered, Cancelled
    <3>2. sessions'[a] = sessions[a]
      BY <3>1, <2>2, <1>t DEF SessionTypes
    <3> QED BY <3>2, <1>0
  <2>3. ASSUME a = b, StillSigns(call[s]), Answered(s, b) PROVE Good
    <3> DEFINE x == sessions[a][i]
    <3>1. i \in DOMAIN sessions[a] /\ sessions'[a][i] = IF Mine(s, x) THEN [x EXCEPT !.new = FALSE] ELSE x
      BY <2>3, <1>t DEF Answered, SessionTypes
    <3>2. CASE Mine(s, x)
      <4>1. Awaited(x, a, call[s])
        BY <3>1, <3>2 DEF NewInv, Mine
      <4>2. agent[a].in /\ agent[a].kel = x.kel
        BY <4>1, <2>3 DEF Awaited, StillSigns
      <4>3. sessions'[a][i].kel = x.kel
        <5>1. x \in SessionType
          BY <3>1, <1>t
        <5>2. [x EXCEPT !.new = FALSE].kel = x.kel
          BY <5>1 DEF SessionType
        <5> QED BY <3>1, <3>2, <5>2
      <4> QED BY <2>1, <4>2, <4>3 DEF OwnedNext
    <3> QED BY <3>1, <3>2
  <2>4. ASSUME a = b, Cancelled(s, b) PROVE Good
    <3>1. ASSUME NEW k \in DOMAIN sessions[b], sessions' = [sessions EXCEPT ![b] = Without(sessions[b], k)]
          PROVE  Good
      <4>1. sessions'[a] = Without(sessions[a], k) /\ k \in 1..Len(sessions[a])
        BY <2>4, <3>1, <1>t DEF SessionTypes
      <4>2. DOMAIN Without(sessions[a], k) = 1..(Len(sessions[a]) - 1)
        BY DEF Without
      <4>3. ASSUME NEW m \in 1..(Len(sessions[a]) - 1)
            PROVE  \E j \in 1..Len(sessions[a]) : Without(sessions[a], k)[m] = sessions[a][j]
        <5> DEFINE g(n) == IF n < k THEN n ELSE n + 1
        <5>1. \A n \in 1..(Len(sessions[a]) - 1) :
                Without(sessions[a], k)[n] = sessions[a][g(n)] /\ g(n) \in 1..Len(sessions[a])
          BY <4>1, <1>t, WithoutKeeps
        <5> HIDE DEF g
        <5> QED BY <5>1
      <4> QED BY <4>1, <4>2, <4>3, <1>t
    <3> QED BY <2>4, <3>1, <1>0 DEF Cancelled
  <2> QED BY <2>1, <2>2, <2>3, <2>4
<1>3. ASSUME NEW b \in Agents, sessions' = [sessions EXCEPT ![b] = <<>>] PROVE Good
  <2>1. CASE a = b
    <3>1. sessions'[a] = <<>>
      BY <1>3, <2>1, <1>t DEF SessionTypes
    <3> QED BY <3>1
  <2>2. CASE a # b
    <3>1. sessions'[a] = sessions[a]
      BY <1>3, <2>2, <1>t DEF SessionTypes
    <3> QED BY <3>1, <1>0
  <2> QED BY <2>1, <2>2
<1>4. ASSUME sessions' = [b \in Agents |-> <<>>] PROVE Good
  <2>1. sessions'[a] = <<>>
    BY <1>4
  <2> QED BY <2>1
<1> HIDE DEF Good
<1> QED BY <1>0, <1>1, <1>2, <1>3, <1>4, SessionCases

\* What becomes of an AID's row in dereg_event.
LEMMA EventMoves ==
  ASSUME GateInv, MembersNext, NEW a \in Agents
  PROVE  \/ events'[a] = events[a] /\ left'[a] = left[a]
         \/ events'[a] = left[a] + 1 /\ left'[a] = left[a] + 1
         \/ /\ events'[a] = 0 /\ left'[a] = left[a]
            /\ \/ \E e \in after : AfterClear(e) /\ e.aid = a
               \/ \E e \in drain : DrainClear(e) /\ SameEvent(e) /\ e.aid = a
               \/ sessions'[a] = <<>>
<1> DEFINE Good == \/ events'[a] = events[a] /\ left'[a] = left[a]
                   \/ events'[a] = left[a] + 1 /\ left'[a] = left[a] + 1
                   \/ /\ events'[a] = 0 /\ left'[a] = left[a]
                      /\ \/ \E e \in after : AfterClear(e) /\ e.aid = a
                         \/ \E e \in drain : DrainClear(e) /\ SameEvent(e) /\ e.aid = a
                         \/ sessions'[a] = <<>>
<1> SUFFICES Good
  OBVIOUS
<1>t. EventTypes
  BY AccountOf
<1>0. ASSUME UNCHANGED <<events, left>> PROVE Good
  BY <1>0
<1>1. ASSUME NEW b \in Agents, Leave(b) \/ Revoke(b) \/ SweepOne(b) PROVE Good
  <2>1. \/ UNCHANGED <<events, left>>
        \/ left' = [left EXCEPT ![b] = left[b] + 1] /\ events' = [events EXCEPT ![b] = left[b] + 1]
    BY <1>1 DEF Leave, Revoke, SweepOne, Deregistered
  <2> QED BY <2>1, <1>t DEF EventTypes
<1>2. ASSUME NEW e \in after, AfterClear(e) PROVE Good
  BY <1>2, <1>t DEF AfterClear, EventTypes
<1>3. ASSUME NEW e \in drain, DrainClear(e) PROVE Good
  <2>1. left' = left /\ events' = IF SameEvent(e) THEN [events EXCEPT ![e.aid] = 0] ELSE events
    BY <1>3 DEF DrainClear
  <2>2. CASE SameEvent(e) /\ e.aid = a
    BY <1>3, <2>1, <2>2, <1>t DEF EventTypes
  <2>3. CASE ~(SameEvent(e) /\ e.aid = a)
    BY <2>1, <2>3, <1>t DEF EventTypes
  <2> QED BY <2>2, <2>3
<1>4. CASE Restart
  BY <1>4 DEF Restart
<1>5. ASSUME \/ SetAdmissionMode \/ CloseWindow \/ ReadEvents \/ SweepScan \/ Hour \/ NextDay
             \/ \E w \in Days : OpenWindow(w)
             \/ \E e \in after : AfterHooks(e)
             \/ \E e \in drain : DrainHooks(e)
      PROVE  UNCHANGED <<events, left>>
  BY <1>5 DEF SetAdmissionMode, CloseWindow, ReadEvents, SweepScan, Hour, NextDay, OpenWindow, AfterHooks,
     DrainHooks, eventVars
<1>6. ASSUME NEW b \in Agents,
             \/ PushKEL(b) \/ KelHook(b) \/ Poll(b) \/ Earn(b) \/ Review(b) \/ \E g \in {0, Grant} : Admit(b, g)
             \/ \E s \in Slots : \/ \E k \in 1..MaxHistory : StartRegister(s, b, k)
                                 \/ LookAtTrial(s, b) \/ AuthSession(s, b)
      PROVE  UNCHANGED <<events, left>>
  BY <1>6 DEF PushKEL, KelHook, Poll, Earn, Review, Admit, StartRegister, LookAtTrial, AuthSession, eventVars
<1>7. ASSUME NEW s \in Slots, RequestSteps(s) PROVE UNCHANGED <<events, left>>
  BY <1>7 DEF RequestSteps, ReserveSignup, ReserveWindow, CheckRequest, WriteRegistration, WriteRefused,
     CommitPlace, ReleasePlace, ReserveTrial, PayTrial, TrialNotPaid, OpenSession, LookAgain, eventVars
<1> HIDE DEF Good
<1> QED BY <1>0, <1>1, <1>2, <1>3, <1>4, <1>5, <1>6, <1>7 DEF MembersNext

\* A drop owed stays owed until the sessions are dropped.
LEMMA OwedKept ==
  ASSUME GateInv, MembersNext, NEW a \in Agents, StillOwed(a)
  PROVE  OwedNext(a) \/ sessions'[a] = <<>>
<1> DEFINE Good == OwedNext(a) \/ sessions'[a] = <<>>
<1> SUFFICES Good
  OBVIOUS
<1>t. EventTypes /\ SessionTypes
  BY TypeParts DEF GateInv
<1>d. ASSUME Dropped(a) PROVE Good
  BY <1>d, <1>t DEF Dropped, SessionTypes
<1>0. ASSUME changed \subseteq changed', after \subseteq after', drain \subseteq drain' PROVE Good
  BY <1>0 DEF StillOwed, OwedNext
<1>1. ASSUME NEW b \in Agents, KelHook(b) PROVE Good
  <2>1. CASE b = a
    BY <1>1, <2>1, <1>d DEF KelHook
  <2>2. CASE b # a
    BY <1>1, <2>2 DEF KelHook, StillOwed, OwedNext
  <2> QED BY <2>1, <2>2
<1>2. ASSUME NEW e \in after, AfterHooks(e) PROVE Good
  <2>1. CASE e.aid = a
    BY <1>2, <2>1, <1>d DEF AfterHooks
  <2>2. CASE e.aid # a
    BY <1>2, <2>2 DEF AfterHooks, StillOwed, OwedNext
  <2> QED BY <2>1, <2>2
<1>3. ASSUME NEW e \in after, AfterClear(e) PROVE Good
  BY <1>3 DEF AfterClear, StillOwed, OwedNext
<1>4. ASSUME NEW e \in drain, DrainHooks(e) PROVE Good
  <2>1. CASE e.aid = a
    BY <1>4, <2>1, <1>d DEF DrainHooks
  <2>2. CASE e.aid # a
    BY <1>4, <2>2 DEF DrainHooks, StillOwed, OwedNext
  <2> QED BY <2>1, <2>2
<1>5. ASSUME NEW e \in drain, DrainClear(e) PROVE Good
  BY <1>5 DEF DrainClear, StillOwed, OwedNext
<1>6. CASE Restart
  BY <1>6 DEF Restart
<1>7. ASSUME \/ SetAdmissionMode \/ CloseWindow \/ ReadEvents \/ SweepScan \/ Hour \/ NextDay
             \/ \E w \in Days : OpenWindow(w)
      PROVE  changed \subseteq changed' /\ after \subseteq after' /\ drain \subseteq drain'
  BY <1>7 DEF SetAdmissionMode, CloseWindow, ReadEvents, SweepScan, Hour, NextDay, OpenWindow, eventVars
<1>8. ASSUME NEW b \in Agents,
             \/ PushKEL(b) \/ Poll(b) \/ Earn(b) \/ Review(b) \/ \E g \in {0, Grant} : Admit(b, g)
             \/ Leave(b) \/ Revoke(b) \/ SweepOne(b)
             \/ \E s \in Slots : \/ \E k \in 1..MaxHistory : StartRegister(s, b, k)
                                 \/ LookAtTrial(s, b) \/ AuthSession(s, b)
      PROVE  changed \subseteq changed' /\ after \subseteq after' /\ drain \subseteq drain'
  BY <1>8 DEF PushKEL, Poll, Earn, Review, Admit, Leave, Revoke, SweepOne, StartRegister, LookAtTrial,
     AuthSession, eventVars
<1>9. ASSUME NEW s \in Slots, RequestSteps(s)
      PROVE  changed \subseteq changed' /\ after \subseteq after' /\ drain \subseteq drain'
  BY <1>9 DEF RequestSteps, ReserveSignup, ReserveWindow, CheckRequest, WriteRegistration, WriteRefused,
     CommitPlace, ReleasePlace, ReserveTrial, PayTrial, TrialNotPaid, OpenSession, LookAgain, eventVars
<1> HIDE DEF Good
<1> QED BY <1>0, <1>1, <1>2, <1>3, <1>4, <1>5, <1>6, <1>7, <1>8, <1>9 DEF MembersNext

\* A session's registration goes with a departure, and its key with a change the
\* callbacks owe.
LEMMA OwnedKept ==
  ASSUME GateInv, StampInv, MembersNext, NEW a \in Agents, NEW x, Owned(a, x)
  PROVE  OwnedNext(a, x) \/ OwedNext(a) \/ events'[a] = left[a] + 1
<1> DEFINE Good == OwnedNext(a, x) \/ OwedNext(a) \/ events'[a] = left[a] + 1
<1> SUFFICES Good
  OBVIOUS
<1>t. /\ AccountTypes /\ CallTypes /\ EventTypes
      /\ \A b \in Agents : agent[b] \in AgentType
  BY AccountOf
<1>f. \A r \in AgentType :
        /\ \A v : [r EXCEPT !.trial = v].in = r.in /\ [r EXCEPT !.trial = v].kel = r.kel
        /\ \A u, v : /\ [r EXCEPT !.via = "list", !.until = u, !.trial = v].in = r.in
                     /\ [r EXCEPT !.via = "list", !.until = u, !.trial = v].kel = r.kel
        /\ [r EXCEPT !.seen = TRUE].in = r.in /\ [r EXCEPT !.seen = TRUE].kel = r.kel
        /\ \A v : [r EXCEPT !.kel = v].in = r.in /\ [r EXCEPT !.kel = v].kel = v
  BY DEF AgentType
<1>s. ASSUME agent'[a].in = agent[a].in, agent'[a].kel = agent[a].kel PROVE Good
  BY <1>s DEF Owned, OwnedNext
<1>1. ASSUME NEW s \in Slots, WriteRegistration(s) PROVE Good
  <2> DEFINE c == call[s]
             b == c.aid
  <2>1. c # Idle /\ b \in Agents
    BY <1>1, <1>t, CallFields DEF WriteRegistration
  <2>2. /\ agent' = [agent EXCEPT ![b] = IF ~agent[b].in THEN Newcomer(c) ELSE [agent[b] EXCEPT !.kel = c.kel]]
        /\ changed' = IF agent[b].in /\ c.kel # agent[b].kel THEN changed \cup {b} ELSE changed
    BY <1>1 DEF WriteRegistration
  <2>3. CASE b = a
    <3>1. agent[a].in /\ agent[a].kel = x.kel
      BY DEF Owned
    <3>2. agent'[a] = [agent[a] EXCEPT !.kel = c.kel]
      BY <2>2, <2>3, <3>1, <1>t DEF AccountTypes
    <3>3. agent'[a].in /\ agent'[a].kel = c.kel
      BY <3>1, <3>2, <1>f, <1>t
    <3> QED BY <2>2, <2>3, <3>1, <3>3 DEF OwnedNext, OwedNext
  <2>4. CASE b # a
    <3>1. agent'[a] = agent[a]
      BY <2>2, <2>4, <1>t DEF AccountTypes
    <3> QED BY <3>1, <1>s
  <2> QED BY <2>3, <2>4
<1>2. ASSUME NEW b \in Agents, NEW g \in {0, Grant}, Admit(b, g) PROVE Good
  <2> DEFINE kept == IF agent[b].trial = "pending" THEN "none" ELSE agent[b].trial
             until == IF agent[b].until > day THEN day ELSE agent[b].until
  <2>1. agent' = [agent EXCEPT ![b] = IF ~agent[b].in THEN agent[b]
                                      ELSE [agent[b] EXCEPT !.via = "list", !.until = until, !.trial = kept]]
    BY <1>2 DEF Admit
  <2> HIDE DEF kept, until
  <2>2. agent'[a].in = agent[a].in /\ agent'[a].kel = agent[a].kel
    BY <2>1, <1>f, <1>t DEF AccountTypes
  <2> QED BY <2>2, <1>s
<1>3. ASSUME NEW s \in Slots, PayTrial(s) PROVE Good
  <2> DEFINE b == call[s].aid
  <2>1. agent' = [agent EXCEPT ![b] = [agent[b] EXCEPT !.trial = "granted"]]
    BY <1>3 DEF PayTrial
  <2>2. agent'[a].in = agent[a].in /\ agent'[a].kel = agent[a].kel
    BY <2>1, <1>f, <1>t DEF AccountTypes
  <2> QED BY <2>2, <1>s
<1>4. ASSUME NEW b \in Agents, PushKEL(b) PROVE Good
  <2>1. agent' = [agent EXCEPT ![b] = [agent[b] EXCEPT !.kel = agent[b].kel + 1]] /\ b \in changed'
    BY <1>4 DEF PushKEL
  <2>2. CASE b = a
    BY <2>1, <2>2 DEF OwedNext
  <2>3. CASE b # a
    <3>1. agent'[a] = agent[a]
      BY <2>1, <2>3, <1>t DEF AccountTypes
    <3> QED BY <3>1, <1>s
  <2> QED BY <2>2, <2>3
<1>5. ASSUME NEW b \in Agents, Poll(b) PROVE Good
  <2>1. agent' = [agent EXCEPT ![b] = [agent[b] EXCEPT !.seen = TRUE]]
    BY <1>5 DEF Poll
  <2>2. agent'[a].in = agent[a].in /\ agent'[a].kel = agent[a].kel
    BY <2>1, <1>f, <1>t DEF AccountTypes
  <2> QED BY <2>2, <1>s
<1>6. ASSUME NEW b \in Agents, Leave(b) \/ Revoke(b) \/ SweepOne(b) PROVE Good
  <2>1. \/ UNCHANGED agent
        \/ agent' = [agent EXCEPT ![b] = Nobody] /\ events' = [events EXCEPT ![b] = left[b] + 1]
    BY <1>6 DEF Leave, Revoke, SweepOne, Deregistered, accountVars
  <2>2. CASE UNCHANGED agent
    BY <2>2, <1>s
  <2>3. ASSUME agent' = [agent EXCEPT ![b] = Nobody], events' = [events EXCEPT ![b] = left[b] + 1]
        PROVE  Good
    <3>1. CASE b = a
      BY <2>3, <3>1, <1>t DEF EventTypes
    <3>2. CASE b # a
      <4>1. agent'[a] = agent[a]
        BY <2>3, <3>2, <1>t DEF AccountTypes
      <4> QED BY <4>1, <1>s
    <3> QED BY <3>1, <3>2
  <2> QED BY <2>1, <2>2, <2>3
<1>7. ASSUME NEW b \in Agents, Earn(b) PROVE UNCHANGED agent
  BY <1>7 DEF Earn
<1>8. ASSUME UNCHANGED agent PROVE Good
  BY <1>8, <1>s
<1> HIDE DEF Good
<1> QED BY <1>1, <1>2, <1>3, <1>4, <1>5, <1>6, <1>7, <1>8, Others

\* What the watcher reads and has not done with.
LEMMA DrainMoves ==
  ASSUME GateInv, MembersNext, NEW e \in drain'
  PROVE  \/ e \in drain
         \/ e.aid \in Agents /\ e.pc = "hooks" /\ e.stamp = events[e.aid]
         \/ e.pc = "clear" /\ sessions'[e.aid] = <<>> /\ \E f \in drain : f.aid = e.aid /\ f.stamp = e.stamp
<1>t. EventTypes /\ SessionTypes
  BY TypeParts DEF GateInv
<1>1. CASE ReadEvents
  BY <1>1 DEF ReadEvents
<1>2. ASSUME NEW f \in drain, DrainHooks(f), e \notin drain
      PROVE  e.pc = "clear" /\ sessions'[e.aid] = <<>> /\ f.aid = e.aid /\ f.stamp = e.stamp
  <2>1. e = [f EXCEPT !.pc = "clear"] /\ f \in Departure
    BY <1>2, <1>t DEF DrainHooks, EventTypes
  <2>2. e.pc = "clear" /\ f.aid = e.aid /\ f.stamp = e.stamp /\ f.aid \in Agents
    BY <2>1 DEF Departure
  <2>3. sessions'[f.aid] = <<>>
    BY <1>2, <2>2, <1>t DEF DrainHooks, Dropped, SessionTypes
  <2> QED BY <2>2, <2>3
<1>3. ASSUME NEW f \in drain, DrainClear(f) PROVE e \in drain
  BY <1>3 DEF DrainClear
<1>4. CASE Restart
  BY <1>4 DEF Restart
<1>5. ASSUME \/ SetAdmissionMode \/ CloseWindow \/ SweepScan \/ Hour \/ NextDay
             \/ \E w \in Days : OpenWindow(w)
             \/ \E f \in after : AfterHooks(f) \/ AfterClear(f)
      PROVE  e \in drain
  BY <1>5 DEF SetAdmissionMode, CloseWindow, SweepScan, Hour, NextDay, OpenWindow, AfterHooks, AfterClear,
     eventVars
<1>6. ASSUME NEW b \in Agents,
             \/ PushKEL(b) \/ KelHook(b) \/ Poll(b) \/ Earn(b) \/ Review(b) \/ \E g \in {0, Grant} : Admit(b, g)
             \/ Leave(b) \/ Revoke(b) \/ SweepOne(b)
             \/ \E s \in Slots : \/ \E k \in 1..MaxHistory : StartRegister(s, b, k)
                                 \/ LookAtTrial(s, b) \/ AuthSession(s, b)
      PROVE  e \in drain
  BY <1>6 DEF PushKEL, KelHook, Poll, Earn, Review, Admit, Leave, Revoke, SweepOne, StartRegister,
     LookAtTrial, AuthSession, eventVars
<1>7. ASSUME NEW s \in Slots, RequestSteps(s) PROVE e \in drain
  BY <1>7 DEF RequestSteps, ReserveSignup, ReserveWindow, CheckRequest, WriteRegistration, WriteRefused,
     CommitPlace, ReleasePlace, ReserveTrial, PayTrial, TrialNotPaid, OpenSession, LookAgain, eventVars
<1> QED BY <1>1, <1>2, <1>3, <1>4, <1>5, <1>6, <1>7 DEF MembersNext

\* What afterDereg has not done with.
LEMMA AfterMoves ==
  ASSUME GateInv, MembersNext, NEW e \in after'
  PROVE  \/ e \in after
         \/ e.aid \in Agents /\ e.pc = "hooks" /\ e.stamp = left[e.aid] + 1 /\ left'[e.aid] = left[e.aid] + 1
         \/ e.pc = "clear" /\ sessions'[e.aid] = <<>> /\ \E f \in after : f.aid = e.aid /\ f.stamp = e.stamp
<1>t. EventTypes /\ SessionTypes
  BY TypeParts DEF GateInv
<1>1. ASSUME NEW b \in Agents, Leave(b) \/ SweepOne(b) 
      PROVE  \/ e \in after
             \/ e.aid \in Agents /\ e.pc = "hooks" /\ e.stamp = left[e.aid] + 1 /\ left'[e.aid] = left[e.aid] + 1
  <2> DEFINE n == left[b] + 1
             d == [aid |-> b, stamp |-> n, pc |-> "hooks"]
  <2>1. \/ after' = after
        \/ after' = after \cup {d} /\ left' = [left EXCEPT ![b] = n]
    BY <1>1 DEF Leave, SweepOne, Deregistered
  <2>2. d.aid = b /\ d.pc = "hooks" /\ d.stamp = n
    OBVIOUS
  <2>3. left' = [left EXCEPT ![b] = n] => left'[b] = n
    BY <1>t DEF EventTypes
  <2> HIDE DEF d
  <2>4. CASE e = d
    BY <2>1, <2>2, <2>3, <2>4
  <2> HIDE DEF n
  <2> QED BY <2>1, <2>4
<1>2. ASSUME NEW f \in after, AfterHooks(f), e \notin after
      PROVE  e.pc = "clear" /\ sessions'[e.aid] = <<>> /\ f.aid = e.aid /\ f.stamp = e.stamp
  <2>1. e = [f EXCEPT !.pc = "clear"] /\ f \in Departure
    BY <1>2, <1>t DEF AfterHooks, EventTypes
  <2>2. e.pc = "clear" /\ f.aid = e.aid /\ f.stamp = e.stamp /\ f.aid \in Agents
    BY <2>1 DEF Departure
  <2>3. sessions'[f.aid] = <<>>
    BY <1>2, <2>2, <1>t DEF AfterHooks, Dropped, SessionTypes
  <2> QED BY <2>2, <2>3
<1>3. ASSUME NEW f \in after, AfterClear(f) PROVE e \in after
  BY <1>3 DEF AfterClear
<1>4. CASE Restart
  BY <1>4 DEF Restart
<1>5. ASSUME \/ SetAdmissionMode \/ CloseWindow \/ ReadEvents \/ SweepScan \/ Hour \/ NextDay
             \/ \E w \in Days : OpenWindow(w)
             \/ \E f \in drain : DrainHooks(f) \/ DrainClear(f)
      PROVE  e \in after
  BY <1>5 DEF SetAdmissionMode, CloseWindow, ReadEvents, SweepScan, Hour, NextDay, OpenWindow, DrainHooks,
     DrainClear, eventVars
<1>6. ASSUME NEW b \in Agents,
             \/ PushKEL(b) \/ KelHook(b) \/ Poll(b) \/ Earn(b) \/ Review(b) \/ \E g \in {0, Grant} : Admit(b, g)
             \/ Revoke(b)
             \/ \E s \in Slots : \/ \E k \in 1..MaxHistory : StartRegister(s, b, k)
                                 \/ LookAtTrial(s, b) \/ AuthSession(s, b)
      PROVE  e \in after
  BY <1>6 DEF PushKEL, KelHook, Poll, Earn, Review, Admit, Revoke, StartRegister, LookAtTrial, AuthSession,
     eventVars
<1>7. ASSUME NEW s \in Slots, RequestSteps(s) PROVE e \in after
  BY <1>7 DEF RequestSteps, ReserveSignup, ReserveWindow, CheckRequest, WriteRegistration, WriteRefused,
     CommitPlace, ReleasePlace, ReserveTrial, PayTrial, TrialNotPaid, OpenSession, LookAgain, eventVars
<1> QED BY <1>1, <1>2, <1>3, <1>4, <1>5, <1>6, <1>7 DEF MembersNext

\* An AID whose event was lost stays known as such until its sessions end.
LEMMA LostKept ==
  ASSUME GateInv, MembersNext, NEW a \in lost
  PROVE  a \in lost' \/ sessions'[a] = <<>>
<1>t. EventTypes /\ SessionTypes /\ a \in Agents
  BY TypeParts DEF GateInv, EventTypes
<1>d. ASSUME NEW b, Dropped(b), lost' = lost \ {b} PROVE a \in lost' \/ sessions'[a] = <<>>
  BY <1>d, <1>t DEF Dropped, SessionTypes
<1>1. ASSUME \/ \E b \in Agents : KelHook(b)
             \/ \E e \in after : AfterHooks(e)
             \/ \E e \in drain : DrainHooks(e)
      PROVE  a \in lost' \/ sessions'[a] = <<>>
  BY <1>1, <1>d DEF KelHook, AfterHooks, DrainHooks
<1>2. ASSUME Hour \/ NextDay \/ Restart PROVE sessions'[a] = <<>>
  BY <1>2, <1>t DEF Hour, NextDay, Restart
<1>3. ASSUME NEW e \in after, AfterClear(e) PROVE a \in lost'
  BY <1>3 DEF AfterClear
<1>4. ASSUME \/ SetAdmissionMode \/ CloseWindow \/ ReadEvents \/ SweepScan
             \/ \E w \in Days : OpenWindow(w)
             \/ \E f \in drain : DrainClear(f)
      PROVE  a \in lost'
  BY <1>4 DEF SetAdmissionMode, CloseWindow, ReadEvents, SweepScan, OpenWindow, DrainClear, eventVars
<1>5. ASSUME NEW b \in Agents,
             \/ PushKEL(b) \/ Poll(b) \/ Earn(b) \/ Review(b) \/ \E g \in {0, Grant} : Admit(b, g)
             \/ Leave(b) \/ Revoke(b) \/ SweepOne(b)
             \/ \E s \in Slots : \/ \E k \in 1..MaxHistory : StartRegister(s, b, k)
                                 \/ LookAtTrial(s, b) \/ AuthSession(s, b)
      PROVE  a \in lost'
  BY <1>5 DEF PushKEL, Poll, Earn, Review, Admit, Leave, Revoke, SweepOne, StartRegister, LookAtTrial,
     AuthSession, eventVars
<1>6. ASSUME NEW s \in Slots, RequestSteps(s) PROVE a \in lost'
  BY <1>6 DEF RequestSteps, ReserveSignup, ReserveWindow, CheckRequest, WriteRegistration, WriteRefused,
     CommitPlace, ReleasePlace, ReserveTrial, PayTrial, TrialNotPaid, OpenSession, LookAgain, eventVars
<1> QED BY <1>1, <1>2, <1>3, <1>4, <1>5, <1>6 DEF MembersNext

\* Sessions that are owned or owed a drop by the callbacks stay so, unless their AID
\* is deregistered.
LEMMA ClearedKept ==
  ASSUME GateInv, NewInv, StampInv, MembersNext, NEW a \in Agents, Cleared(a), events'[a] # left[a] + 1
  PROVE  ClearedNext(a)
<1> SUFFICES ASSUME NEW i \in DOMAIN sessions'[a],
                    ~sessions'[a][i].new, ~OwnedNext(a, sessions'[a][i])
             PROVE  OwedNext(a)
  BY DEF ClearedNext
<1>1. PICK j \in DOMAIN sessions[a] : sessions[a][j] = sessions'[a][i]
  BY SessionOrigin
<1>2. Owned(a, sessions'[a][i]) \/ StillOwed(a)
  BY <1>1 DEF Cleared
<1>3. CASE Owned(a, sessions'[a][i])
  BY <1>3, OwnedKept
<1>4. CASE StillOwed(a)
  <2>1. sessions'[a] # <<>>
    OBVIOUS
  <2> QED BY <1>4, <2>1, OwedKept
<1> QED BY <1>2, <1>3, <1>4

LEMMA ClearedEmpty ==
  ASSUME NEW a, sessions'[a] = <<>>
  PROVE  ClearedNext(a)
BY DEF ClearedNext

LEMMA ClearedPrimed ==
  ASSUME NEW a
  PROVE  Cleared(a)' <=> ClearedNext(a)
BY DEF Cleared, ClearedNext, Owned, OwnedNext, StillOwed, OwedNext

LEMMA StampStep ==
  ASSUME GateInv, StampInv, MembersNext
  PROVE  StampInv'
<1>t. EventTypes /\ MaxLeaves \in Nat /\ \A a \in Agents : left[a] \in Nat /\ events[a] \in Nat
  <2>1. EventTypes /\ MaxLeaves \in Nat
    BY TypeParts, MembersAssumption DEF GateInv
  <2>2. \A a \in Agents : left[a] \in 0..MaxLeaves /\ events[a] \in 0..MaxLeaves
    BY <2>1 DEF EventTypes
  <2> QED BY <2>1, <2>2
<1>1. ASSUME NEW a \in Agents PROVE events'[a] <= left'[a] /\ left[a] <= left'[a]
  <2>1. events[a] <= left[a]
    BY DEF StampInv
  <2>2. \/ events'[a] = events[a] /\ left'[a] = left[a]
        \/ events'[a] = left[a] + 1 /\ left'[a] = left[a] + 1
        \/ events'[a] = 0 /\ left'[a] = left[a]
    BY EventMoves
  <2> QED BY <1>t, <2>1, <2>2
<1>2. ASSUME NEW e, e \in after' \cup drain' PROVE e.stamp <= left'[e.aid]
  <2>0. \A f \in after \cup drain : f.aid \in Agents /\ f.stamp <= left[f.aid] /\ f.stamp \in Int
    BY <1>t DEF StampInv, EventTypes, Departure
  <2>1. ASSUME e.aid \in Agents, e.stamp <= left[e.aid], e.stamp \in Int
        PROVE  e.stamp <= left'[e.aid]
    <3>1. left[e.aid] <= left'[e.aid] /\ left[e.aid] \in Nat
      BY <2>1, <1>1, <1>t
    <3>2. left'[e.aid] = left[e.aid] \/ left'[e.aid] = left[e.aid] + 1
      BY <2>1, EventMoves
    <3> QED BY <2>1, <3>1, <3>2
  <2>2. CASE \E f \in after \cup drain : f.aid = e.aid /\ f.stamp = e.stamp
    BY <2>0, <2>1, <2>2
  <2>3. CASE e.aid \in Agents /\ e.stamp = events[e.aid]
    BY <2>1, <2>3, <1>t DEF StampInv
  <2>4. CASE e.aid \in Agents /\ e.stamp = left[e.aid] + 1 /\ left'[e.aid] = left[e.aid] + 1
    BY <2>4, <1>t
  <2> QED BY <1>2, <2>2, <2>3, <2>4, AfterMoves, DrainMoves
<1> QED BY <1>1, <1>2 DEF StampInv

LEMMA ClearedStep ==
  ASSUME GateInv, NewInv, StampInv, ClearedInv, MembersNext
  PROVE  ClearedInv'
<1>t. /\ EventTypes /\ \A a \in Agents : left[a] \in Nat /\ events[a] \in Nat
      /\ \A e \in after \cup drain : e \in Departure /\ e.aid \in Agents /\ e.stamp \in Nat \ {0}
  <2>1. EventTypes /\ MaxLeaves \in Nat
    BY TypeParts, MembersAssumption DEF GateInv
  <2>2. \A a \in Agents : left[a] \in 0..MaxLeaves /\ events[a] \in 0..MaxLeaves
    BY <2>1 DEF EventTypes
  <2> QED BY <2>1, <2>2 DEF EventTypes, Departure
<1>1. ASSUME NEW e, e \in after' \cup drain', e.pc = "clear", events'[e.aid] = e.stamp
      PROVE  ClearedNext(e.aid)
  \* Its row is the one it had: a later departure would have another stamp.
  <2>1. CASE e \in after \cup drain
    <3>1. e.aid \in Agents /\ e.stamp <= left[e.aid] /\ e.stamp \in Nat \ {0}
      BY <2>1, <1>t DEF StampInv
    <3>2. events'[e.aid] # left[e.aid] + 1
      BY <3>1, <1>1, <1>t
    <3>3. events[e.aid] = e.stamp
      BY <3>1, <3>2, <1>1, EventMoves
    <3>4. Cleared(e.aid)
      BY <1>1, <2>1, <3>3 DEF ClearedInv, SameEvent
    <3> QED BY <3>1, <3>2, <3>4, ClearedKept
  <2>2. CASE sessions'[e.aid] = <<>>
    BY <2>2, ClearedEmpty
  <2>3. CASE e \in after'
    BY <1>1, <2>1, <2>2, <2>3, AfterMoves
  <2>4. CASE e \in drain'
    BY <1>1, <2>1, <2>2, <2>4, DrainMoves
  <2> QED BY <1>1, <2>3, <2>4
<1>2. \A e \in after' \cup drain' : e.pc = "clear" /\ events'[e.aid] = e.stamp => Cleared(e.aid)'
  BY <1>1, ClearedPrimed
<1> QED BY <1>2 DEF ClearedInv, SameEvent

LEMMA OwnedStep ==
  ASSUME GateInv, NewInv, StampInv, ClearedInv, SessionsOwned, MembersNext
  PROVE  SessionsOwned'
<1>t. \A a \in Agents : left[a] \in Nat /\ left[a] + 1 # 0
  BY AccountOf
<1>e. EventTypes
  BY TypeParts DEF GateInv
<1> DEFINE OwedDrop(a) == events'[a] # 0 \/ OwedNext(a)
<1>1. ASSUME NEW a \in Agents, NEW i \in DOMAIN sessions'[a]
      PROVE  sessions'[a][i].new \/ OwnedNext(a, sessions'[a][i]) \/ OwedDrop(a) \/ a \in lost'
  <2> DEFINE y == sessions'[a][i]
  <2> SUFFICES ASSUME ~y.new, ~OwnedNext(a, y), events'[a] = 0, a \notin lost'
               PROVE  OwedNext(a)
    OBVIOUS
  <2>1. PICK j \in DOMAIN sessions[a] : sessions[a][j] = y
    BY SessionOrigin
  <2>2. Owned(a, y) \/ events[a] # 0 \/ StillOwed(a) \/ a \in lost
    BY <2>1 DEF SessionsOwned, DropOwed, StillOwed
  <2>3. events'[a] # left[a] + 1
    BY <1>t
  <2>4. CASE Owned(a, y)
    BY <2>3, <2>4, OwnedKept
  <2>5. sessions'[a] # <<>>
    OBVIOUS
  <2>6. CASE StillOwed(a)
    BY <2>5, <2>6, OwedKept
  <2>7. CASE events[a] # 0
    \* The row that goes is of the departure worked on, or of one somebody works on.
    <3>1. ASSUME NEW e \in after, AfterClear(e), e.aid = a
          PROVE  StillOwed(a) \/ \E f \in after \cup drain : f.aid = a /\ f.pc = "clear" /\ SameEvent(f)
      <4>1. ~Unheard(e) /\ e.pc = "clear"
        BY <3>1 DEF AfterClear
      <4>2. PICK f \in after \cup drain : f.aid = a /\ f.stamp = events[a]
        BY <2>7, <3>1, <4>1 DEF Unheard
      <4>3. f.pc \in {"hooks", "clear"}
        BY <1>e, <4>2 DEF EventTypes, Departure
      <4> QED BY <4>2, <4>3 DEF StillOwed, SameEvent
    <3>2. ASSUME NEW e \in drain, DrainClear(e), SameEvent(e), e.aid = a
          PROVE  \E f \in after \cup drain : f.aid = a /\ f.pc = "clear" /\ SameEvent(f)
      BY <3>2 DEF DrainClear
    <3>3. ASSUME NEW f \in after \cup drain, f.aid = a, f.pc = "clear", SameEvent(f)
          PROVE  OwedNext(a)
      <4>1. ClearedNext(a)
        BY <2>3, <3>3, ClearedKept DEF ClearedInv
      <4> QED BY <4>1 DEF ClearedNext
    <3> QED BY <2>3, <2>5, <2>6, <2>7, <3>1, <3>2, <3>3, EventMoves
  <2>8. CASE a \in lost
    BY <2>5, <2>8, LostKept
  <2> QED BY <2>2, <2>4, <2>6, <2>7, <2>8
<1> QED BY <1>1 DEF SessionsOwned, Owned, OwnedNext, DropOwed, OwedNext

LEMMA SessionInit == MembersInit => SessionInv
<1> SUFFICES ASSUME MembersInit PROVE SessionInv
  OBVIOUS
<1>1. GateInv
  BY GateInit
<1>2. \A a \in Agents : DOMAIN sessions[a] = {}
  BY DEF MembersInit
<1>3. NewInv /\ SessionsOwned
  BY <1>2 DEF NewInv, SessionsOwned
<1>4. StampInv /\ ClearedInv
  BY DEF MembersInit, StampInv, ClearedInv
<1> QED BY <1>1, <1>3, <1>4 DEF SessionInv

LEMMA SessionInvStep == SessionInv /\ [MembersNext]_vars => SessionInv'
<1> SUFFICES ASSUME SessionInv, [MembersNext]_vars PROVE SessionInv'
  OBVIOUS
<1>1. GateInv /\ NewInv /\ StampInv /\ ClearedInv /\ SessionsOwned
  BY DEF SessionInv
<1>2. GateInv'
  BY <1>1, GateStep
<1>3. CASE MembersNext
  <2>1. NewInv'
    BY <1>1, <1>3, NewStep
  <2>2. StampInv'
    BY <1>1, <1>3, StampStep
  <2>3. ClearedInv'
    BY <1>1, <1>3, ClearedStep
  <2>4. SessionsOwned'
    BY <1>1, <1>3, OwnedStep
  <2> QED BY <1>2, <2>1, <2>2, <2>3, <2>4 DEF SessionInv
<1>4. CASE UNCHANGED vars
  <2> USE <1>4 DEF vars, accountVars, eventVars, sessionVars
  <2>1. NewInv'
    BY <1>1 DEF NewInv, Awaited
  <2>2. StampInv'
    BY <1>1 DEF StampInv
  <2>3. ClearedInv'
    BY <1>1 DEF ClearedInv, Cleared, Owned, StillOwed, SameEvent
  <2>4. SessionsOwned'
    BY <1>1 DEF SessionsOwned, Owned, DropOwed
  <2> QED BY <1>2, <2>1, <2>2, <2>3, <2>4 DEF SessionInv
<1> QED BY <1>3, <1>4

\* Whatever left, came back or changed its key between the signature check and the
\* answer, an answered session belongs to a registration with the key it was opened
\* under, or the callbacks or the watcher still owe it a drop, or afterDereg has
\* deleted the event of another process's departure of that AID before anyone heard of
\* it: the one way a session stays that belongs to nobody (hRelaySession, afterDereg,
\* drainDeregEvents), for any agents, histories and number of requests at once.
THEOREM MembersSessionsOwned == MembersSpec => []SessionsOwned
<1>1. MembersInit => SessionInv
  BY SessionInit
<1>2. SessionInv /\ [MembersNext]_vars => SessionInv'
  BY SessionInvStep
<1>3. SessionInv => SessionsOwned
  BY DEF SessionInv
<1> QED BY <1>1, <1>2, <1>3, PTL DEF MembersSpec
=============================================================================
