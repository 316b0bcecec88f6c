------------------------------ MODULE MCMembers ------------------------------
(***************************************************************************)
(* A hub with two AIDs and two requests at once, in five views: who gets a  *)
(* place of the day or of a window when two register together; the trial   *)
(* credits of two accounts, around midnight; one member's sessions while it *)
(* leaves, changes its key and comes back; one member that is admitted,    *)
(* left unused and swept.                                                  *)
(***************************************************************************)
EXTENDS Members, TLC

CONSTANTS a1, a2, s1, s2

VARIABLES
  focus,
  taken    \* the open registrations and trial credits of each day since the process started

MCLevels == {"address", "network"}
MCLevelsOf == s1 :> MCLevels @@ s2 :> {"network"}
MCSignupMax == [l \in MCLevels |-> IF l = "network" THEN 2 ELSE 1]
MCTrialMax == [l \in MCLevels |-> IF l = "network" THEN 2 ELSE 1]

\* One place a day for the whole network.
OnePlace == [l \in MCLevels |-> 1]

Carries(s, A) == call'[s] # Idle => call'[s].aid \in A

\* What this view leaves out does not happen in it.
Focused ==
  CASE focus \in {"signups", "windows"} ->
         /\ UNCHANGED <<eventVars, sessionVars, sweep, reviewed>> /\ day' <= 1
         /\ admitted'[a1].grant = 0 /\ ~admitted'[a2].on
         /\ \A a \in Agents : ~agent'[a].seen /\ agent'[a].kel <= 1 /\ balance'[a] # 1
         /\ \A s \in Slots : call'[s] # Idle => call'[s].kel <= 1
         /\ Carries(s1, {a1})
         /\ \A s \in Slots : call'[s] # Idle => call'[s].pc # "trial"
         /\ IF focus = "signups" THEN UNCHANGED <<windows, admitted>> ELSE mode' = "closed"
    [] focus = "trials" ->
         \* Both are registered on the first day, and ask for their credit from then on.
         /\ UNCHANGED <<windows, eventVars, sessionVars, sweep, reviewed>>
         /\ ~admitted'[a2].on /\ (admitted'[a1].on => agent[a1].in)
         /\ \A a \in Agents : ~agent'[a].seen /\ agent'[a].kel <= 1 /\ balance'[a] # 1
         /\ day = 0 => \A s \in Slots : call'[s] # Idle => call'[s].kel = 1
         /\ day' > 0 => /\ UNCHANGED mode /\ \A a \in Agents : agent[a].in
                        /\ \A s \in Slots : call'[s] # Idle => call'[s].kel = 0
         /\ Carries(s1, {a1})
    [] focus = "sessions" ->
         /\ UNCHANGED <<windows, balance, reviewed, sweep, day>>
         /\ agent'[a1].via = "list" /\ ~agent'[a2].in /\ mode' = "closed"
         /\ ~admitted'[a2].on /\ admitted'[a1].grant = 0 /\ ~agent'[a1].seen
         /\ call'[s1] # Idle => call'[s1].pc # "release" /\ (call'[s1].pc = "check" => call'[s1].via = "list")
         /\ call'[s2] # Idle => call'[s2].pc \in {"open", "look"}
    [] OTHER ->
         /\ UNCHANGED <<windows, sessionVars, changed>> /\ day' <= 1
         /\ mode' = "closed" /\ ~agent'[a2].in /\ ~admitted'[a2].on
         /\ \A s \in Slots : Carries(s, {a1}) /\ (call'[s] # Idle => call'[s].via = "list")
         /\ call'[s1] # Idle => call'[s1].kel = MaxHistory
         /\ call'[s2] # Idle => call'[s2].kel = 1 /\ call'[s2].on = 0
         /\ balance'[a2] = 0 /\ a2 \notin reviewed'
         \* One departure's callbacks at a time; the view above is about their order.
         /\ drain' = {} /\ lost' = {} /\ Cardinality(after') <= 1

NoneTaken == [d \in Days |-> [signup |-> Zero, hub |-> 0]]

\* The request in slot s gets what it holds: a registration, or a trial credit.
Registers(s) == call[s] # Idle /\ call[s].pc = "commit" /\ call[s].held = "signup" /\ call'[s] = Idle
IsPaid(s)    == call[s] # Idle /\ call[s].pc = "pay" /\ call'[s] = Idle

Restarts == gate'.day = -1

TakenNext ==
  taken' = IF Restarts THEN NoneTaken
           ELSE [d \in Days |->
                  [signup |-> [l \in Levels |-> taken[d].signup[l] +
                     Cardinality({s \in Slots : Registers(s) /\ call[s].on = d /\ l \in LevelsOf[s]})],
                   hub |-> taken[d].hub + Cardinality({s \in Slots : IsPaid(s) /\ call[s].on = d})]]

MCInit == /\ MembersInit /\ taken = NoneTaken
          /\ focus \in {"signups", "windows", "trials", "sessions", "leaving"}

MCNext == MembersNext /\ Focused /\ TakenNext /\ UNCHANGED focus

MCSpec == MCInit /\ [][MCNext]_<<vars, focus, taken>> /\ MembersFairness

\* What one day gave out is within its quota, and within the hub's budget of trials,
\* for every day since the process started, as long as no request of an earlier day
\* has reached the gate after one of a later day (reserveSignup, reserveTrial, rollDay).
QuotaKept(d) == (\A l \in Levels : taken[d].signup[l] <= SignupMax[l]) /\ taken[d].hub <= TrialHub
DayQuotaKept == today.rewound \/ \A d \in Days : QuotaKept(d)

\* What a quota a day would promise; a request that straddles midnight breaks it.
EveryDayQuotaKept == \A d \in Days : QuotaKept(d)
=============================================================================
