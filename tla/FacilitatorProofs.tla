-------------------------- MODULE FacilitatorProofs --------------------------
(***************************************************************************)
(* Proofs about Facilitator, for every value of its constants: the         *)
(* facilitator only does what the ledger's transactions do, so every       *)
(* theorem about the ledger holds of it; it keeps its types; no            *)
(* authorization is charged twice, and no task is paid for twice, whatever *)
(* the janitor deletes; and what it answers is true.                       *)
(*                                                                         *)
(* Charging once needs an invariant of its own.  The settled row that      *)
(* makes a repeat a repeat is deleted at NotAfter + SettledKeptAfter, and  *)
(* a request that passed the window check is still going to charge: so the *)
(* invariant says when every request in flight began (RequestsInTime),     *)
(* that rows are there while they are due (ChargeOnRecord), and the same   *)
(* of the bindings (GuardsHeld).                                           *)
(*                                                                         *)
(* What the answers mean needs another, AnswersInv: what a request carries *)
(* at each phase has been shown to the checks it has passed (Sound), every *)
(* row and every note is of a charge (RowsCharged), every first-verify     *)
(* record is of a key that was current then (RecordsSound), and what is    *)
(* taken is noted, or about to be (NotedSoon).                             *)
(***************************************************************************)
EXTENDS Facilitator, CreditLedgerProofs

Requests == RequestType \cup {Idle}

Outcomes == Reasons \cup {"pending"}

Charge == [auth: Auths, key: Nat, bind: Binds \cup {NoBind}, via: Hubs \cup {NoHub}, at: Nat]

\* The part of the type invariant that the steps of a request rely on.
RequestsTyped ==
  /\ req \in [Slots -> Requests]
  /\ tip \in [Hubs -> [Agents -> Nat]]
  /\ now \in [Hubs -> Nat]

-----------------------------------------------------------------------------
(* Requests. *)

\* What a request that is not idle carries.
LEMMA CallTyped ==
  ASSUME RequestsTyped, NEW s \in Slots, req[s].phase \in Phases
  PROVE  /\ req[s] \in RequestType /\ req[s] # Idle
         /\ CallOf(s) \in Calls /\ HubOf(s) \in Hubs
         /\ CallOf(s).auth \in Auths /\ CallOf(s).key \in Nat
         /\ CallOf(s).via \in (Hubs \ {HubOf(s)}) \cup {NoHub}
         /\ CallOf(s).auth.payer \in Agents /\ CallOf(s).auth.notAfter \in Nat
         /\ BindOf(CallOf(s)) \in {CallOf(s).auth.bind, NoBind}
         /\ BindOf(CallOf(s)) \in Binds \cup {NoBind}
<1>1. "idle" \notin Phases
  BY DEF Phases
<1>2. req[s] \in RequestType /\ req[s] # Idle
  BY <1>1 DEF RequestsTyped, Requests, Idle
<1>3. CallOf(s) \in Calls /\ CallOf(s) \in CallType /\ CallOf(s).via # CallOf(s).hub
  BY <1>2, FacilitatorAssumption DEF CallOf, RequestType
<1>4. CallOf(s).auth \in Auths /\ CallOf(s).auth \in AuthType
  BY <1>3, LedgerAssumption DEF CallType
<1>. QED BY <1>2, <1>3, <1>4 DEF CallType, AuthType, HubOf, CallOf, BindOf

\* The answers of the checks are reasons, or let the request go on.
LEMMA AnswersAreReasons ==
  ASSUME NEW c, NEW h, NEW d, NEW a, NEW bind, NEW via, NEW t
  PROVE  /\ PayerCheck(c) \in Reasons \cup {"ok"}
         /\ TermsRefusal(c) \in Reasons \cup {"ok"}
         /\ PayeeRefusal(c) \in Reasons \cup {"ok"}
         /\ SettleOutcome(h, d, a, bind, via, t) \in Reasons \cup {"repeat", "settled"}
<1>1. parseAuth(c.auth) \in Reasons \cup {"ok"}
  BY DEF parseAuth, Reasons
<1>2. PayerCheck(c) \in Reasons \cup {"ok"}
  BY <1>1 DEF PayerCheck, verifiedAuth, Reasons
<1>3. TermsRefusal(c) \in Reasons \cup {"ok"}
  BY DEF TermsRefusal, CheckRequirements, Reasons
<1>4. PayeeRefusal(c) \in Reasons \cup {"ok"}
  BY DEF PayeeRefusal, LocalPayee, ForwardedPayee, Reasons
<1>5. SettleOutcome(h, d, a, bind, via, t) \in Reasons \cup {"repeat", "settled"}
  BY DEF SettleOutcome, Reasons
<1>. QED BY <1>2, <1>3, <1>4, <1>5

\* Slot s keeps its call and its start and takes a new phase and outcome.
Moves(s) ==
  \E p \in Phases, o \in Outcomes, k \in Nat :
    req' = [req EXCEPT ![s].phase = p, ![s].outcome = o, ![s].kel = k]

\* A request in slot s stays one, of the same call and start; the others stay
\* as they are.
LEMMA MovesTyped ==
  ASSUME RequestsTyped, NEW s \in Slots, req[s].phase \in Phases, Moves(s)
  PROVE  /\ req' \in [Slots -> Requests]
         /\ \A t \in Slots \ {s} : req'[t] = req[t]
         /\ req'[s] # Idle /\ req'[s].call = req[s].call /\ req'[s].since = req[s].since
<1>1. PICK p \in Phases, o \in Outcomes, k \in Nat :
         req' = [req EXCEPT ![s].phase = p, ![s].outcome = o, ![s].kel = k]
  BY DEF Moves
<1>2. req[s] \in RequestType
  BY CallTyped
<1>3. "idle" \notin Phases
  BY DEF Phases
<1>. QED BY <1>1, <1>2, <1>3 DEF RequestsTyped, Requests, RequestType, Idle, Outcomes

\* Goto and Finish move a request.
LEMMA GotoMoves ==
  ASSUME RequestsTyped, NEW s \in Slots, req[s].phase \in Phases, NEW p \in Phases, Goto(s, p)
  PROVE  Moves(s) /\ req'[s].phase = p
<1>1. req[s] \in RequestType
  BY CallTyped
<1>2. req' = [req EXCEPT ![s].phase = p, ![s].outcome = req[s].outcome, ![s].kel = req[s].kel]
  BY <1>1 DEF Goto, RequestsTyped, RequestType
<1>3. req[s].outcome \in Outcomes /\ req[s].kel \in Nat
  BY <1>1 DEF RequestType, Outcomes
<1>. QED BY <1>1, <1>2, <1>3 DEF Moves, RequestsTyped, RequestType, Outcomes

LEMMA FinishMoves ==
  ASSUME RequestsTyped, NEW s \in Slots, req[s].phase \in Phases, NEW o \in Outcomes, Finish(s, o)
  PROVE  Moves(s) /\ req'[s].phase = "done"
<1>1. req[s] \in RequestType
  BY CallTyped
<1>2. req' = [req EXCEPT ![s].phase = "done", ![s].outcome = o, ![s].kel = req[s].kel]
  BY <1>1 DEF Finish, RequestsTyped, RequestType
<1>3. "done" \in Phases /\ req[s].kel \in Nat
  BY <1>1 DEF RequestType, Phases
<1>. QED BY <1>1, <1>2, <1>3 DEF Moves, RequestsTyped, RequestType, Outcomes

\* The settlement of slot s commits: the other outcomes of SettleAuth change
\* the request only.
Charges(s) ==
  LET c == CallOf(s) IN
  /\ Settle(c.hub, c.auth, BindOf(c), c.via)
  /\ journal' = [journal EXCEPT ![c.hub] =
       Append(@, [auth |-> c.auth, key |-> c.key, bind |-> BindOf(c), via |-> c.via, at |-> now[c.hub]])]

\* A step of slot s that charges nobody: the request moves, and it reaches the
\* charge only while its authorization is in its window.
QuietMove(s) ==
  /\ Moves(s)
  /\ UNCHANGED <<ledgerVars, tip, journal>>
  /\ req'[s].phase = "settle" => now[HubOf(s)] <= CallOf(s).auth.notAfter

LEMMA RequestSteps ==
  ASSUME RequestsTyped, NEW s \in Slots, req[s].phase \in Phases, RequestStep(s)
  PROVE  \/ QuietMove(s)
         \/ At(s, "settle") /\ Moves(s) /\ Charges(s) /\ req'[s].phase # "settle" /\ UNCHANGED tip
         \/ req' = [req EXCEPT ![s] = Idle] /\ UNCHANGED <<ledgerVars, tip, journal>>
<1>. USE DEF QuietMove
<1>1. \A p \in {"payer", "window", "held", "funds", "settle", "conflict", "note", "spent", "noted", "repeat"} : p \in Phases
  BY DEF Phases
<1>2. CASE PayeeCheck(s)
  <2>1. \/ Goto(s, "payer")
        \/ \E o \in Outcomes : Finish(s, o)
    BY <1>2, AnswersAreReasons DEF PayeeCheck, Outcomes
  <2>. QED BY <1>1, <1>2, <2>1, GotoMoves, FinishMoves DEF PayeeCheck
<1>3. CASE VerifyPayer(s)
  <2>1. CallOf(s) \in Calls /\ HubOf(s) \in Hubs /\ CallOf(s).auth.payer \in Agents /\ req[s] \in RequestType
    BY CallTyped
  <2>2. tip[CallOf(s).hub][CallOf(s).auth.payer] \in Nat
    BY <2>1 DEF RequestsTyped, HubOf, CallOf
  <2>3. AfterTerms(CallOf(s).op) \in {"spent", "noted", "repeat"}
    BY DEF AfterTerms
  <2>4. \/ \E p \in {"spent", "noted", "repeat"}, k \in Nat :
             req' = [req EXCEPT ![s].phase = p, ![s].kel = k]
        \/ \E o \in Outcomes : Finish(s, o)
    BY <1>3, <2>2, <2>3, AnswersAreReasons DEF VerifyPayer, Outcomes, Finish
  <2>5. ASSUME NEW p \in {"spent", "noted", "repeat"}, NEW k \in Nat,
               req' = [req EXCEPT ![s].phase = p, ![s].kel = k]
        PROVE  Moves(s) /\ req'[s].phase # "settle"
    <3>1. req' = [req EXCEPT ![s].phase = p, ![s].outcome = req[s].outcome, ![s].kel = k]
      BY <2>1, <2>5 DEF RequestsTyped, RequestType
    <3>2. req[s].outcome \in Outcomes
      BY <2>1 DEF RequestType, Outcomes
    <3>. QED BY <1>1, <2>1, <3>1, <3>2 DEF Moves, RequestsTyped, RequestType
  <2>. QED BY <1>3, <2>4, <2>5, FinishMoves DEF VerifyPayer
<1>4. CASE RepeatOf(s) \/ AuthSettled(s) \/ GuardCheck(s) \/ RedemptionOf(s)
  <2>1. \/ Goto(s, "window") \/ Goto(s, "held")
        \/ \E o \in Outcomes : Finish(s, o)
    BY <1>4 DEF RepeatOf, RepeatAnswer, AuthSettled, GuardCheck, RedemptionOf, Outcomes, Reasons
  <2>2. UNCHANGED <<ledgerVars, tip, journal>>
    BY <1>4 DEF RepeatOf, AuthSettled, GuardCheck, RedemptionOf
  <2>. QED BY <1>1, <2>1, <2>2, GotoMoves, FinishMoves
<1>5. CASE KeyAtFirstVerify(s)
  <2>1. \/ \E o \in Outcomes : Finish(s, o)
        \/ InWindow(CallOf(s).auth, now[HubOf(s)]) /\ (Goto(s, "funds") \/ Goto(s, "settle"))
    BY <1>5 DEF KeyAtFirstVerify, AfterWindow, Outcomes, Reasons, HubOf, CallOf
  <2>2. UNCHANGED <<ledgerVars, tip, journal>>
    BY <1>5 DEF KeyAtFirstVerify
  <2>. QED BY <1>1, <2>1, <2>2, GotoMoves, FinishMoves DEF InWindow
<1>6. CASE BalanceCheck(s) \/ SettleConflict(s) \/ RecordRedemption(s)
  <2>1. Goto(s, "note") \/ \E o \in Outcomes : Finish(s, o)
    BY <1>6 DEF BalanceCheck, SettleConflict, RepeatAnswer, RecordRedemption, Outcomes, Reasons
  <2>2. UNCHANGED <<ledgerVars, tip, journal>>
    BY <1>6 DEF BalanceCheck, SettleConflict, RecordRedemption
  <2>. QED BY <1>1, <2>1, <2>2, GotoMoves, FinishMoves
<1>7. CASE SettleAuth(s)
  <2>. DEFINE o == SettleOutcome(CallOf(s).hub, db[CallOf(s).hub], CallOf(s).auth, BindOf(CallOf(s)),
                                 CallOf(s).via, now[CallOf(s).hub])
  <2>1. o \in Reasons \cup {"repeat", "settled"}
    BY AnswersAreReasons
  <2>2. CASE Charges(s) /\ (Goto(s, "note") \/ Finish(s, "success"))
    <3>1. "success" \in Outcomes
      BY DEF Outcomes, Reasons
    <3>2. Moves(s) /\ req'[s].phase # "settle"
      BY <1>1, <2>2, <3>1, GotoMoves, FinishMoves
    <3>. QED BY <1>7, <2>2, <3>2 DEF SettleAuth
  <2>3. CASE o # "settled" /\ (Goto(s, "conflict") \/ (o # "repeat" /\ Finish(s, o))) /\ UNCHANGED <<ledgerVars, journal>>
    <3>1. o \in Outcomes \/ o = "repeat"
      BY <2>1, <2>3 DEF Outcomes
    <3>2. Moves(s) /\ req'[s].phase # "settle"
      BY <1>1, <2>3, <3>1, GotoMoves, FinishMoves
    <3>. QED BY <1>7, <2>3, <3>2 DEF SettleAuth
  <2>. QED BY <1>7, <2>2, <2>3 DEF SettleAuth, Charges
<1>8. CASE Release(s)
  BY <1>8 DEF Release
<1>. QED BY <1>2, <1>3, <1>4, <1>5, <1>6, <1>7, <1>8 DEF RequestStep

-----------------------------------------------------------------------------
(* The facilitator implements the ledger. *)

\* The other steps of the hub, for the ledger and the journal.
LEMMA OtherSteps ==
  ASSUME RequestsTyped, NEW h \in Hubs,
         \/ \E aid \in Agents : Rotate(h, aid)
         \/ Crash(h) \/ PruneNotes(h) \/ PruneFirstVerify(h)
  PROVE  /\ UNCHANGED <<ledgerVars, journal>>
         /\ tip' \in [Hubs -> [Agents -> Nat]]
         /\ req' \in [Slots -> Requests]
         /\ \A s \in Slots : req'[s] \in {req[s], Idle}
<1>1. CASE \E aid \in Agents : Rotate(h, aid)
  <2>1. PICK aid \in Agents : Rotate(h, aid)
    BY <1>1
  <2>. QED BY <2>1 DEF Rotate, RequestsTyped
<1>2. CASE Crash(h)
  BY <1>2 DEF Crash, RequestsTyped, Requests
<1>3. CASE PruneNotes(h) \/ PruneFirstVerify(h)
  BY <1>3 DEF PruneNotes, PruneFirstVerify, RequestsTyped
<1>. QED BY <1>1, <1>2, <1>3

\* A call that arrives is a request from now on.
LEMMA ArriveTyped ==
  ASSUME RequestsTyped, NEW s \in Slots, NEW c \in Calls, Arrive(s, c)
  PROVE  /\ req' \in [Slots -> Requests]
         /\ \A t \in Slots \ {s} : req'[t] = req[t]
         /\ req'[s] # Idle /\ req'[s].call = c /\ req'[s].since = now[c.hub]
         /\ req'[s].phase # "settle"
         /\ UNCHANGED <<ledgerVars, tip, journal>>
<1>1. now[c.hub] \in Nat
  BY FacilitatorAssumption DEF RequestsTyped, CallType
<1>2. PICK p \in {"payer", "payee"} :
        req' = [req EXCEPT ![s] = [phase |-> p, call |-> c, since |-> now[c.hub], kel |-> 0, outcome |-> "pending"]]
  BY DEF Arrive
<1>3. p \in Phases /\ p # "idle" /\ p # "settle"
  BY DEF Phases
<1>4. [phase |-> p, call |-> c, since |-> now[c.hub], kel |-> 0, outcome |-> "pending"] \in RequestType
  BY <1>1, <1>3 DEF RequestType
<1>. QED BY <1>2, <1>3, <1>4 DEF Arrive, RequestsTyped, Requests, Idle

\* A request with a step left is not idle.
LEMMA StepsOfRequests ==
  ASSUME NEW s \in Slots, RequestStep(s)
  PROVE  req[s].phase \in Phases
BY DEF RequestStep, PayeeCheck, VerifyPayer, RepeatOf, AuthSettled, GuardCheck, RedemptionOf,
       KeyAtFirstVerify, BalanceCheck, SettleAuth, SettleConflict, RecordRedemption, Release, At, Phases

\* Every step keeps the requests' types.
LEMMA TypedStep == RequestsTyped /\ [FacilitatorNext]_vars => RequestsTyped'
<1>. SUFFICES ASSUME RequestsTyped, [FacilitatorNext]_vars PROVE RequestsTyped'
  OBVIOUS
<1>1. CASE UNCHANGED vars
  BY <1>1 DEF vars, ledgerVars, ownVars, RequestsTyped
<1>2. ASSUME NEW s \in Slots, NEW c \in Calls, Arrive(s, c) PROVE RequestsTyped'
  BY <1>2, ArriveTyped DEF RequestsTyped, ledgerVars
<1>3. ASSUME NEW s \in Slots, RequestStep(s) PROVE RequestsTyped'
  <2>1. req[s].phase \in Phases
    BY <1>3, StepsOfRequests
  <2>2. UNCHANGED now /\ UNCHANGED tip
    BY <1>3, <2>1, RequestSteps DEF QuietMove, Charges, Settle, ledgerVars
  <2>3. req' \in [Slots -> Requests]
    BY <1>3, <2>1, RequestSteps, MovesTyped DEF QuietMove, RequestsTyped, Requests
  <2>. QED BY <2>2, <2>3 DEF RequestsTyped
<1>4. ASSUME NEW h \in Hubs,
             (\E aid \in Agents : Rotate(h, aid)) \/ Crash(h) \/ PruneNotes(h) \/ PruneFirstVerify(h)
      PROVE  RequestsTyped'
  BY <1>4, OtherSteps DEF RequestsTyped, ledgerVars
<1>5. ASSUME NEW h \in Hubs, FacilitatorTick(h) PROVE RequestsTyped'
  BY <1>5 DEF FacilitatorTick, Tick, ownVars, RequestsTyped
<1>6. ASSUME NEW h \in Hubs, OtherLedgerStep(h) PROVE RequestsTyped'
  BY <1>6 DEF OtherLedgerStep, GrantCredit, Register, Deregister, PruneLedger, ownVars, RequestsTyped
<1>. QED BY <1>1, <1>2, <1>3, <1>4, <1>5, <1>6 DEF FacilitatorNext

\* Every step is a transaction of the ledger, or leaves the ledger alone.
LEMMA StepOfLedger == RequestsTyped /\ [FacilitatorNext]_vars => [LedgerNext]_ledgerVars
<1>. SUFFICES ASSUME RequestsTyped, [FacilitatorNext]_vars PROVE [LedgerNext]_ledgerVars
  OBVIOUS
<1>1. CASE UNCHANGED vars
  BY <1>1 DEF vars
<1>2. ASSUME NEW s \in Slots, NEW c \in Calls, Arrive(s, c) PROVE UNCHANGED ledgerVars
  BY <1>2, ArriveTyped
<1>3. ASSUME NEW s \in Slots, RequestStep(s) PROVE [LedgerNext]_ledgerVars
  <2>1. req[s].phase \in Phases
    BY <1>3, StepsOfRequests
  <2>2. ASSUME Charges(s) PROVE LedgerNext
    <3>1. /\ CallOf(s).auth \in Auths /\ HubOf(s) \in Hubs
          /\ CallOf(s).via \in (Hubs \ {HubOf(s)}) \cup {NoHub}
          /\ BindOf(CallOf(s)) \in {CallOf(s).auth.bind, NoBind}
      BY <2>1, CallTyped
    <3>2. Settle(HubOf(s), CallOf(s).auth, BindOf(CallOf(s)), CallOf(s).via)
      BY <2>2 DEF Charges, HubOf, CallOf
    <3>. QED BY <3>1, <3>2 DEF LedgerNext
  <2>. QED BY <1>3, <2>1, <2>2, RequestSteps DEF QuietMove
<1>4. ASSUME NEW h \in Hubs,
             (\E aid \in Agents : Rotate(h, aid)) \/ Crash(h) \/ PruneNotes(h) \/ PruneFirstVerify(h)
      PROVE  UNCHANGED ledgerVars
  BY <1>4, OtherSteps
<1>5. ASSUME NEW h \in Hubs, FacilitatorTick(h) \/ OtherLedgerStep(h) PROVE LedgerNext
  BY <1>5 DEF FacilitatorTick, OtherLedgerStep, LedgerNext
<1>. QED BY <1>1, <1>2, <1>3, <1>4, <1>5 DEF FacilitatorNext

\* A hub that starts has no request.
LEMMA TypedInit == FacilitatorInit => RequestsTyped
BY DEF FacilitatorInit, LedgerInit, RequestsTyped, Requests

\* The facilitator implements the ledger: what it does to credit, it does in
\* the ledger's transactions.
THEOREM FacilitatorImplementsLedger == FacilitatorSpec => LedgerSpec
<1>1. FacilitatorInit => LedgerInit /\ RequestsTyped
  BY TypedInit DEF FacilitatorInit
<1>. QED BY <1>1, TypedStep, StepOfLedger, PTL DEF FacilitatorSpec, LedgerSpec

\* So every hub's ledger adds up, whatever its facilitator is asked.
THEOREM FacilitatorConsistent == FacilitatorSpec => []Consistent
BY FacilitatorImplementsLedger, LedgerConsistent, PTL

\* The facilitator's ledger keeps every promise of the ledger.
THEOREM FacilitatorLedgerSound == FacilitatorSpec => []LedgerSound
BY FacilitatorImplementsLedger, LedgerIsSound, PTL

-----------------------------------------------------------------------------
(* No authorization is charged twice; no task is paid for twice.           *)

JournalTyped ==
  /\ journal \in [Hubs -> Seq(Charge)]
  /\ \A h \in Hubs : \A i \in DOMAIN journal[h] : journal[h][i].at <= now[h]

\* A request began at most MaxInFlight ago; one about to charge began before
\* its authorization's NotAfter.
RequestsInTime ==
  \A s \in Slots : req[s] # Idle =>
    /\ req[s].since <= now[HubOf(s)]
    /\ now[HubOf(s)] <= req[s].since + MaxInFlight
    /\ At(s, "settle") => req[s].since <= CallOf(s).auth.notAfter

\* While it is due to be held, a task's binding is held.
GuardsHeld ==
  \A h \in Hubs : \A i \in DOMAIN journal[h] :
    LET e == journal[h][i] IN
    (e.bind # NoBind /\ now[h] < e.at + GuardKept)
      => db[h].guard[guardKey(e.auth, e.bind)] >= e.at + GuardKept

ChargesInv ==
  /\ AllLedgersInv /\ RequestsTyped /\ JournalTyped
  /\ RequestsInTime /\ ChargeOnRecord /\ GuardsHeld
  /\ ChargedOnce /\ OnePaymentPerTask

\* What a charge in the journal is made of.
LEMMA ChargeTyped ==
  ASSUME JournalTyped, NEW h \in Hubs, NEW i \in DOMAIN journal[h]
  PROVE  /\ journal[h][i] \in Charge
         /\ journal[h][i].auth \in Auths /\ journal[h][i].auth.payer \in Agents
         /\ journal[h][i].auth.notAfter \in Nat /\ journal[h][i].at \in Nat
         /\ journal[h][i].bind \in Binds \cup {NoBind}
<1>1. journal[h][i] \in Charge
  BY DEF JournalTyped
<1>2. journal[h][i].auth \in AuthType
  BY <1>1, LedgerAssumption DEF Charge
<1>. QED BY <1>1, <1>2 DEF Charge, AuthType

\* The rows that speak for past charges stay as long as they are due, in a step
\* that charges nobody.
RowsStay ==
  \A h \in Hubs :
    /\ \A r \in db[h].settled : r \in db'[h].settled \/ r.auth.notAfter + SettledKeptAfter <= now'[h]
    /\ \A k \in Agents \X Binds : db'[h].guard[k] = db[h].guard[k] \/ db[h].guard[k] <= now'[h]

LEMMA JournalStays ==
  ASSUME AllLedgersInv, JournalTyped, ChargeOnRecord, GuardsHeld, ChargedOnce, OnePaymentPerTask,
         now \in [Hubs -> Nat], now' \in [Hubs -> Nat], \A h \in Hubs : now[h] <= now'[h],
         UNCHANGED journal, RowsStay
  PROVE  JournalTyped' /\ ChargeOnRecord' /\ GuardsHeld' /\ ChargedOnce' /\ OnePaymentPerTask'
<1>1. JournalTyped'
  <2>1. ASSUME NEW h \in Hubs, NEW i \in DOMAIN journal[h] PROVE journal[h][i].at <= now'[h]
    BY <2>1, ChargeTyped DEF JournalTyped
  <2>. QED BY <2>1 DEF JournalTyped
<1>2. ChargedOnce' /\ OnePaymentPerTask'
  BY DEF ChargedOnce, OnePaymentPerTask
<1>3. ChargeOnRecord'
  <2>1. ASSUME NEW h \in Hubs, NEW i \in DOMAIN journal[h],
               now'[h] < journal[h][i].auth.notAfter + SettledKeptAfter
        PROVE  SettledFor(db'[h], journal[h][i].auth, journal[h][i].via)
    <3>1. journal[h][i].auth.notAfter \in Nat /\ SettledKeptAfter \in Nat
      BY ChargeTyped, LedgerAssumption
    <3>2. now[h] < journal[h][i].auth.notAfter + SettledKeptAfter
      BY <2>1, <3>1
    <3>3. PICK r \in db[h].settled : r.auth = journal[h][i].auth /\ r.via = journal[h][i].via
      BY <3>2 DEF ChargeOnRecord, SettledFor
    <3>4. r \in db'[h].settled
      BY <2>1, <3>1, <3>3 DEF RowsStay
    <3>. QED BY <3>3, <3>4 DEF SettledFor
  <2>. QED BY <2>1 DEF ChargeOnRecord
<1>4. GuardsHeld'
  <2>1. ASSUME NEW h \in Hubs, NEW i \in DOMAIN journal[h], journal[h][i].bind # NoBind,
               now'[h] < journal[h][i].at + GuardKept
        PROVE  db'[h].guard[guardKey(journal[h][i].auth, journal[h][i].bind)] >= journal[h][i].at + GuardKept
    <3>. DEFINE k == guardKey(journal[h][i].auth, journal[h][i].bind)
    <3>1. journal[h][i].at \in Nat /\ GuardKept \in Nat /\ k \in Agents \X Binds
      BY <2>1, ChargeTyped, LedgerAssumption DEF guardKey
    <3>2. now[h] < journal[h][i].at + GuardKept
      BY <2>1, <3>1
    <3>3. db[h].guard[k] >= journal[h][i].at + GuardKept
      BY <2>1, <3>2 DEF GuardsHeld
    <3>4. db'[h].guard[k] = db[h].guard[k] \/ db[h].guard[k] <= now'[h]
      BY <3>1 DEF RowsStay
    <3>5. CASE db'[h].guard[k] = db[h].guard[k]
      BY <3>3, <3>5
    <3>6. CASE db[h].guard[k] <= now'[h]
      <4>1. db[h].guard[k] \in Nat
        BY <3>1 DEF AllLedgersInv, DB
      <4>2. now'[h] \in Nat /\ journal[h][i].at + GuardKept \in Nat
        BY <3>1
      <4>. QED BY <2>1, <3>3, <3>6, <4>1, <4>2
    <3>. QED BY <3>4, <3>5, <3>6
  <2>. QED BY <2>1 DEF GuardsHeld
<1>. QED BY <1>1, <1>2, <1>3, <1>4

\* A step that changes requests only by moving, cutting or adding them, while
\* the clocks stand, keeps them in time.
LEMMA InTimeStays ==
  ASSUME RequestsTyped, RequestsInTime, UNCHANGED now, NEW s \in Slots,
         \A t \in Slots \ {s} : req'[t] = req[t] \/ req'[t] = Idle,
         \/ req'[s] = Idle
         \/ /\ req[s] # Idle /\ req'[s].call = req[s].call /\ req'[s].since = req[s].since
            /\ req'[s].phase = "settle" => now[HubOf(s)] <= CallOf(s).auth.notAfter
  PROVE  RequestsInTime'
<1>1. ASSUME NEW t \in Slots, t # s, req'[t] # Idle
      PROVE  /\ req'[t].since <= now'[HubOf(t)']
             /\ now'[HubOf(t)'] <= req'[t].since + MaxInFlight
             /\ At(t, "settle")' => req'[t].since <= CallOf(t)'.auth.notAfter
  <2>1. req'[t] = req[t]
    BY <1>1
  <2>. QED BY <1>1, <2>1 DEF RequestsInTime, HubOf, CallOf, At
<1>2. ASSUME req'[s] # Idle
      PROVE  /\ req'[s].since <= now'[HubOf(s)']
             /\ now'[HubOf(s)'] <= req'[s].since + MaxInFlight
             /\ At(s, "settle")' => req'[s].since <= CallOf(s)'.auth.notAfter
  <2>1. /\ req[s] # Idle /\ req'[s].call = req[s].call /\ req'[s].since = req[s].since
        /\ req'[s].phase = "settle" => now[HubOf(s)] <= CallOf(s).auth.notAfter
    BY <1>2
  <2>2. req[s] \in RequestType /\ HubOf(s) \in Hubs /\ CallOf(s).auth.notAfter \in Nat
    <3>1. req[s].phase \in Phases
      BY <2>1 DEF RequestsTyped, Requests, RequestType
    <3>. QED BY <3>1, CallTyped
  <2>3. req[s].since \in Nat /\ now[HubOf(s)] \in Nat
    BY <2>2 DEF RequestType, RequestsTyped
  <2>4. req[s].since <= now[HubOf(s)] /\ now[HubOf(s)] <= req[s].since + MaxInFlight
    BY <2>1 DEF RequestsInTime
  <2>. QED BY <2>1, <2>2, <2>3, <2>4 DEF HubOf, CallOf, At
<1>. QED BY <1>1, <1>2 DEF RequestsInTime

\* What a settlement writes to the tables that keep it from happening twice.
LEMMA SettleTxRows ==
  ASSUME NEW h, NEW d \in DB, NEW a, NEW bind, NEW via, NEW t
  PROVE  /\ SettleTx(h, d, a, bind, via, t).settled = d.settled \cup {[auth |-> a, via |-> via, at |-> t]}
         /\ SettleTx(h, d, a, bind, via, t).guard = IF bind = NoBind THEN d.guard
                                                    ELSE [d.guard EXCEPT ![guardKey(a, bind)] = t + GuardKept]
BY DEF SettleTx, DB

\* The charge: no earlier charge is of this authorization, for its row would
\* be there; nor of this task, for its binding would be held.
LEMMA ChargeKeeps ==
  ASSUME ChargesInv, NEW s \in Slots, req[s].phase \in Phases, At(s, "settle"), Charges(s)
  PROVE  JournalTyped' /\ ChargeOnRecord' /\ GuardsHeld' /\ ChargedOnce' /\ OnePaymentPerTask'
<1>. DEFINE c == CallOf(s)
            h == HubOf(s)
            b == BindOf(c)
            e == [auth |-> c.auth, key |-> c.key, bind |-> b, via |-> c.via, at |-> now[h]]
            n == Len(journal[h])
<1>1. /\ c \in Calls /\ h \in Hubs /\ c.auth \in Auths /\ c.key \in Nat /\ c.auth.payer \in Agents
      /\ c.auth.notAfter \in Nat /\ b \in Binds \cup {NoBind} /\ c.via \in Hubs \cup {NoHub}
      /\ req[s] \in RequestType /\ req[s] # Idle
  BY CallTyped DEF ChargesInv
<1>2. /\ now[h] \in Nat /\ req[s].since \in Nat /\ MaxInFlight \in Nat /\ SettledKeptAfter \in Nat
      /\ GuardKept \in Nat /\ MaxInFlight < SettledKeptAfter
  BY <1>1, FacilitatorAssumption, LedgerAssumption DEF ChargesInv, RequestsTyped, RequestType
<1>3. now[h] < c.auth.notAfter + SettledKeptAfter
  <2>1. now[h] <= req[s].since + MaxInFlight /\ req[s].since <= c.auth.notAfter
    BY <1>1 DEF ChargesInv, RequestsInTime
  <2>. QED BY <1>1, <1>2, <2>1
<1>4. /\ SettleOutcome(h, db[h], c.auth, b, c.via, now[h]) = "settled"
      /\ db' = [db EXCEPT ![h] = SettleTx(h, db[h], c.auth, b, c.via, now[h])]
      /\ now' = now
      /\ journal' = [journal EXCEPT ![h] = Append(journal[h], e)]
  BY DEF Charges, Settle, HubOf, CallOf
<1>5. ~IsSettled(db[h], c.auth) /\ ~GuardHeld(db[h], c.auth, b, now[h])
  BY <1>4 DEF SettleOutcome
<1>6. e \in Charge /\ journal[h] \in Seq(Charge) /\ n \in Nat
  <2>1. e \in Charge
    BY <1>1, <1>2 DEF Charge
  <2>. HIDE DEF h
  <2>2. journal[h] \in Seq(Charge)
    BY <1>1 DEF ChargesInv, JournalTyped
  <2>. QED BY <2>1, <2>2
<1>7. /\ journal'[h] \in Seq(Charge) /\ DOMAIN journal'[h] = 1 .. n + 1 /\ DOMAIN journal[h] = 1 .. n
      /\ journal'[h][n + 1] = e
      /\ \A i \in 1 .. n : journal'[h][i] = journal[h][i]
      /\ \A g \in Hubs \ {h} : journal'[g] = journal[g] /\ db'[g] = db[g]
      /\ db'[h] = SettleTx(h, db[h], c.auth, b, c.via, now[h])
  <2>1. journal \in [Hubs -> Seq(Charge)] /\ db \in [Hubs -> DB]
    BY DEF ChargesInv, JournalTyped, AllLedgersInv
  <2>2. journal'[h] = Append(journal[h], e)
    BY <1>1, <1>4, <2>1
  <2>. HIDE DEF e, h, c, b
  <2>3. /\ Append(journal[h], e) \in Seq(Charge) /\ DOMAIN Append(journal[h], e) = 1 .. n + 1
        /\ DOMAIN journal[h] = 1 .. n
        /\ Append(journal[h], e)[n + 1] = e
        /\ \A i \in 1 .. n : Append(journal[h], e)[i] = journal[h][i]
    BY <1>6
  <2>. QED BY <1>1, <1>4, <2>1, <2>2, <2>3
<1>8. /\ db'[h].settled = db[h].settled \cup {[auth |-> c.auth, via |-> c.via, at |-> now[h]]}
      /\ db'[h].guard = IF b = NoBind THEN db[h].guard
                        ELSE [db[h].guard EXCEPT ![guardKey(c.auth, b)] = now[h] + GuardKept]
  <2>1. db[h] \in DB
    BY <1>1 DEF ChargesInv, AllLedgersInv
  <2>2. db'[h] = SettleTx(h, db[h], c.auth, b, c.via, now[h])
    BY <1>7
  <2>. HIDE DEF h, c, b, e, n
  <2>. QED BY <2>1, <2>2, SettleTxRows
<1>. HIDE DEF c, h, b, e, n
<1>9. \A i \in 1 .. n : /\ journal[h][i] \in Charge /\ journal[h][i].at \in Nat
                        /\ journal[h][i].at <= now[h]
                        /\ journal[h][i].auth.notAfter \in Nat
  BY <1>1, <1>7, ChargeTyped DEF ChargesInv, JournalTyped
<1>10. /\ e.auth = c.auth /\ e.key = c.key /\ e.bind = b /\ e.via = c.via /\ e.at = now[h]
  BY DEF e
<1>11. \A i \in 1 .. n : journal[h][i].auth # c.auth
  <2>1. SUFFICES ASSUME NEW i \in 1 .. n, journal[h][i].auth = c.auth PROVE FALSE
    OBVIOUS
  <2>2. SettledFor(db[h], c.auth, journal[h][i].via)
    BY <1>1, <1>3, <1>7, <2>1 DEF ChargesInv, ChargeOnRecord
  <2>. QED BY <1>5, <2>2 DEF SettledFor, IsSettled
<1>12. JournalTyped'
  <2>1. journal' \in [Hubs -> Seq(Charge)]
    BY <1>1, <1>4, <1>7 DEF ChargesInv, JournalTyped
  <2>2. ASSUME NEW g \in Hubs, NEW i \in DOMAIN journal'[g] PROVE journal'[g][i].at <= now'[g]
    <3>1. CASE g # h
      BY <1>4, <1>7, <2>2, <3>1 DEF ChargesInv, JournalTyped
    <3>2. CASE g = h /\ i \in 1 .. n
      BY <1>4, <1>7, <1>9, <3>2
    <3>3. CASE g = h /\ i = n + 1
      BY <1>2, <1>4, <1>7, <1>10, <3>3
    <3>. QED BY <1>6, <1>7, <2>2, <3>1, <3>2, <3>3
  <2>. QED BY <2>1, <2>2 DEF JournalTyped
<1>13. ChargeOnRecord'
  <2>1. ASSUME NEW g \in Hubs, NEW i \in DOMAIN journal'[g],
               now'[g] < journal'[g][i].auth.notAfter + SettledKeptAfter
        PROVE  SettledFor(db'[g], journal'[g][i].auth, journal'[g][i].via)
    <3>1. CASE g # h
      BY <1>4, <1>7, <2>1, <3>1 DEF ChargesInv, ChargeOnRecord
    <3>2. CASE g = h /\ i \in 1 .. n
      <4>1. SettledFor(db[h], journal[h][i].auth, journal[h][i].via)
        BY <1>1, <1>4, <1>7, <2>1, <3>2 DEF ChargesInv, ChargeOnRecord
      <4>. QED BY <1>7, <1>8, <3>2, <4>1 DEF SettledFor
    <3>3. CASE g = h /\ i = n + 1
      <4>. DEFINE r == [auth |-> c.auth, via |-> c.via, at |-> now[h]]
      <4>1. r \in db'[h].settled /\ r.auth = c.auth /\ r.via = c.via
        BY <1>8
      <4>2. SettledFor(db'[h], c.auth, c.via)
        BY <4>1 DEF SettledFor
      <4>. QED BY <1>7, <1>10, <3>3, <4>2
    <3>. QED BY <1>6, <1>7, <2>1, <3>1, <3>2, <3>3
  <2>. QED BY <2>1 DEF ChargeOnRecord
<1>14. db[h].guard \in [Agents \X Binds -> Nat]
  BY <1>1 DEF ChargesInv, AllLedgersInv, DB
<1>15. \A i \in 1 .. n : (b # NoBind /\ journal[h][i].bind = b /\ journal[h][i].auth.payer = c.auth.payer)
                          => now[h] >= journal[h][i].at + GuardKept
  <2>1. SUFFICES ASSUME NEW i \in 1 .. n, b # NoBind, journal[h][i].bind = b,
                        journal[h][i].auth.payer = c.auth.payer,
                        now[h] < journal[h][i].at + GuardKept
                 PROVE  FALSE
    BY <1>2, <1>9
  <2>2. guardKey(journal[h][i].auth, b) = guardKey(c.auth, b) /\ guardKey(c.auth, b) \in Agents \X Binds
    BY <1>1, <2>1 DEF guardKey
  <2>3. db[h].guard[guardKey(c.auth, b)] >= journal[h][i].at + GuardKept
    BY <1>1, <1>7, <2>1, <2>2 DEF ChargesInv, GuardsHeld
  <2>4. db[h].guard[guardKey(c.auth, b)] <= now[h]
    BY <1>2, <1>5, <1>14, <2>1, <2>2 DEF GuardHeld
  <2>. QED BY <1>2, <1>9, <1>14, <2>1, <2>2, <2>3, <2>4
<1>16. GuardsHeld'
  <2>1. ASSUME NEW g \in Hubs, NEW i \in DOMAIN journal'[g], journal'[g][i].bind # NoBind,
               now'[g] < journal'[g][i].at + GuardKept
        PROVE  db'[g].guard[guardKey(journal'[g][i].auth, journal'[g][i].bind)] >= journal'[g][i].at + GuardKept
    <3>1. CASE g # h
      BY <1>4, <1>7, <2>1, <3>1 DEF ChargesInv, GuardsHeld
    <3>2. CASE g = h /\ i \in 1 .. n
      <4>. DEFINE k == guardKey(journal[h][i].auth, journal[h][i].bind)
      <4>1. db[h].guard[k] >= journal[h][i].at + GuardKept
        <5>1. journal[h][i].bind # NoBind /\ now[h] < journal[h][i].at + GuardKept /\ i \in DOMAIN journal[h]
          BY <1>1, <1>4, <1>7, <2>1, <3>2
        <5>. QED BY <1>1, <5>1 DEF ChargesInv, GuardsHeld
      <4>2. journal[h][i].auth.payer \in Agents /\ journal[h][i].bind \in Binds
        BY <1>1, <1>7, <2>1, <3>2, ChargeTyped DEF ChargesInv
      <4>3. k # guardKey(c.auth, b) \/ b = NoBind
        BY <1>4, <1>7, <1>15, <2>1, <3>2, <1>9, <1>2 DEF guardKey
      <4>4. db'[h].guard[k] = db[h].guard[k]
        BY <1>8, <1>14, <4>2, <4>3 DEF guardKey
      <4>. QED BY <1>7, <3>2, <4>1, <4>4
    <3>3. CASE g = h /\ i = n + 1
      <4>1. guardKey(c.auth, b) \in Agents \X Binds /\ b # NoBind
        BY <1>1, <1>7, <1>10, <2>1, <3>3 DEF guardKey
      <4>2. db'[h].guard[guardKey(c.auth, b)] = now[h] + GuardKept
        BY <1>8, <1>14, <4>1
      <4>. QED BY <1>2, <1>7, <1>10, <3>3, <4>2
    <3>. QED BY <1>6, <1>7, <2>1, <3>1, <3>2, <3>3
  <2>. QED BY <2>1 DEF GuardsHeld
<1>17. ChargedOnce'
  <2>1. ASSUME NEW g \in Hubs, NEW i \in DOMAIN journal'[g], NEW j \in DOMAIN journal'[g],
               journal'[g][i].auth = journal'[g][j].auth
        PROVE  i = j
    <3>1. CASE g # h
      BY <1>7, <2>1, <3>1 DEF ChargesInv, ChargedOnce
    <3>2. CASE g = h /\ i \in 1 .. n /\ j \in 1 .. n
      BY <1>1, <1>7, <2>1, <3>2 DEF ChargesInv, ChargedOnce
    <3>3. CASE g = h /\ i = n + 1 /\ j \in 1 .. n
      BY <1>7, <1>10, <1>11, <2>1, <3>3
    <3>4. CASE g = h /\ i \in 1 .. n /\ j = n + 1
      BY <1>7, <1>10, <1>11, <2>1, <3>4
    <3>. QED BY <1>6, <1>7, <2>1, <3>1, <3>2, <3>3, <3>4
  <2>. QED BY <2>1 DEF ChargedOnce
<1>18. OnePaymentPerTask'
  <2>1. ASSUME NEW g \in Hubs, NEW i \in DOMAIN journal'[g], NEW j \in DOMAIN journal'[g],
               i < j, journal'[g][i].bind # NoBind, journal'[g][i].bind = journal'[g][j].bind,
               journal'[g][i].auth.payer = journal'[g][j].auth.payer
        PROVE  journal'[g][j].at >= journal'[g][i].at + GuardKept
    <3>1. CASE g # h
      BY <1>7, <2>1, <3>1 DEF ChargesInv, OnePaymentPerTask
    <3>2. CASE g = h /\ i \in 1 .. n /\ j \in 1 .. n
      BY <1>1, <1>7, <2>1, <3>2 DEF ChargesInv, OnePaymentPerTask
    <3>3. CASE g = h /\ i \in 1 .. n /\ j = n + 1
      BY <1>7, <1>10, <1>15, <2>1, <3>3
    <3>. QED BY <1>6, <1>7, <2>1, <3>1, <3>2, <3>3
  <2>. QED BY <2>1 DEF OnePaymentPerTask
<1>. QED BY <1>12, <1>13, <1>16, <1>17, <1>18

\* What the ledger's other operations leave alone.
LEMMA OtherLedgerRows ==
  ASSUME AllLedgersInv, NEW h \in Hubs, OtherLedgerStep(h)
  PROVE  RowsStay /\ UNCHANGED now
<1>1. db \in [Hubs -> DB] /\ now \in [Hubs -> Nat] /\ SettledKeptAfter \in Nat
  BY LedgerAssumption DEF AllLedgersInv
<1>2. UNCHANGED now
  BY DEF OtherLedgerStep, GrantCredit, Register, Deregister, PruneLedger
<1>3. ASSUME NEW e, db' = [db EXCEPT ![h] = e],
             \A r \in db[h].settled : r \in e.settled \/ r.auth.notAfter + SettledKeptAfter <= now[h],
             \A k \in Agents \X Binds : e.guard[k] = db[h].guard[k] \/ db[h].guard[k] <= now[h]
      PROVE  RowsStay
  BY <1>1, <1>2, <1>3 DEF RowsStay
<1>4. CASE \E aid \in Agents, amt \in GrantAmounts : GrantCredit(h, aid, amt)
  <2>1. PICK aid \in Agents, amt \in GrantAmounts : GrantCredit(h, aid, amt)
    BY <1>4
  <2>2. /\ IssueTx(db[h], aid, amt).settled = db[h].settled
        /\ IssueTx(db[h], aid, amt).guard = db[h].guard
    BY <1>1 DEF IssueTx, DB
  <2>. QED BY <1>3, <2>1, <2>2 DEF GrantCredit
<1>5. CASE \E aid \in Agents : Register(h, aid) \/ Deregister(h, aid)
  <2>1. PICK A : db' = [db EXCEPT ![h] = [db[h] EXCEPT !.registered = A]]
    BY <1>1, <1>5 DEF Register, Deregister
  <2>2. /\ [db[h] EXCEPT !.registered = A].settled = db[h].settled
        /\ [db[h] EXCEPT !.registered = A].guard = db[h].guard
    BY <1>1 DEF DB
  <2>. QED BY <1>2, <1>3, <2>1, <2>2
<1>6. CASE db' = [db EXCEPT ![h] = PruneSettled(db[h], now[h])]
  <2>1. PruneSettled(db[h], now[h]).guard = db[h].guard
    BY <1>1 DEF PruneSettled, DB
  <2>2. ASSUME NEW r \in db[h].settled
        PROVE  r \in PruneSettled(db[h], now[h]).settled \/ r.auth.notAfter + SettledKeptAfter <= now[h]
    <3>1. PruneSettled(db[h], now[h]).settled = {x \in db[h].settled : ~SettledExpired(x, now[h])}
      BY <1>1 DEF PruneSettled, DB
    <3>2. r.auth \in AuthType
      BY <1>1, LedgerAssumption DEF DB, SettledRow
    <3>3. r.auth.notAfter \in Nat /\ now[h] \in Nat
      BY <1>1, <3>2 DEF AuthType
    <3>. QED BY <1>1, <3>1, <3>3 DEF SettledExpired
  <2>. QED BY <1>2, <1>3, <1>6, <2>1, <2>2
<1>7. CASE db' = [db EXCEPT ![h] = PruneGuard(db[h], now[h])]
  <2>1. /\ PruneGuard(db[h], now[h]).settled = db[h].settled
        /\ PruneGuard(db[h], now[h]).guard =
             [k \in Agents \X Binds |-> IF db[h].guard[k] <= now[h] THEN 0 ELSE db[h].guard[k]]
    BY <1>1 DEF PruneGuard, DB
  <2>2. \A k \in Agents \X Binds : \/ PruneGuard(db[h], now[h]).guard[k] = db[h].guard[k]
                                  \/ db[h].guard[k] <= now[h]
    BY <2>1
  <2>. QED BY <1>2, <1>3, <1>7, <2>1, <2>2
<1>8. CASE db' = [db EXCEPT ![h] = PruneCleared(db[h], now[h])]
  <2>1. /\ PruneCleared(db[h], now[h]).settled = db[h].settled
        /\ PruneCleared(db[h], now[h]).guard = db[h].guard
    BY <1>1 DEF PruneCleared, DB
  <2>. QED BY <1>2, <1>3, <1>8, <2>1
<1>. QED BY <1>2, <1>4, <1>5, <1>6, <1>7, <1>8 DEF OtherLedgerStep, PruneLedger

\* The invariant holds of a hub that starts.
LEMMA ChargesInit == FacilitatorInit => ChargesInv
<1>. SUFFICES ASSUME FacilitatorInit PROVE ChargesInv
  OBVIOUS
<1>1. AllLedgersInv /\ RequestsTyped
  BY LedgerInitInv, TypedInit DEF FacilitatorInit
<1>2. \A h \in Hubs : journal[h] = <<>> /\ DOMAIN journal[h] = {}
  BY DEF FacilitatorInit
<1>3. JournalTyped
  BY <1>2 DEF FacilitatorInit, JournalTyped
<1>4. RequestsInTime
  BY DEF FacilitatorInit, RequestsInTime
<1>. QED BY <1>1, <1>2, <1>3, <1>4 DEF ChargesInv, ChargeOnRecord, GuardsHeld, ChargedOnce, OnePaymentPerTask

\* Every step keeps it.
LEMMA ChargesStep == ChargesInv /\ [FacilitatorNext]_vars => ChargesInv'
<1>. SUFFICES ASSUME ChargesInv, [FacilitatorNext]_vars PROVE ChargesInv'
  OBVIOUS
<1>1. AllLedgersInv' /\ RequestsTyped'
  BY StepOfLedger, TypedStep, LedgerStepInv DEF ChargesInv
<1>2. AllLedgersInv /\ RequestsTyped /\ RequestsInTime /\ now \in [Hubs -> Nat] /\ now' \in [Hubs -> Nat]
  BY <1>1 DEF ChargesInv, RequestsTyped
<1>3. ASSUME UNCHANGED <<ledgerVars, journal>>
      PROVE  JournalTyped' /\ ChargeOnRecord' /\ GuardsHeld' /\ ChargedOnce' /\ OnePaymentPerTask'
  <2>1. RowsStay /\ \A h \in Hubs : now[h] <= now'[h]
    BY <1>2, <1>3 DEF RowsStay, ledgerVars
  <2>. QED BY <1>2, <1>3, <2>1, JournalStays DEF ChargesInv
<1>4. CASE UNCHANGED vars
  <2>1. RequestsInTime'
    BY <1>2, <1>4 DEF RequestsInTime, HubOf, CallOf, At, vars, ledgerVars, ownVars
  <2>. QED BY <1>1, <1>3, <1>4, <2>1 DEF ChargesInv, vars, ownVars
<1>5. ASSUME NEW s \in Slots, NEW c \in Calls, Arrive(s, c) PROVE ChargesInv'
  <2>1. /\ \A t \in Slots \ {s} : req'[t] = req[t]
        /\ req'[s].call = c /\ req'[s].since = now[c.hub] /\ req'[s].phase # "settle"
        /\ UNCHANGED <<ledgerVars, journal>>
    BY <1>2, <1>5, ArriveTyped
  <2>2. c.hub \in Hubs /\ now[c.hub] \in Nat /\ MaxInFlight \in Nat
    BY <1>2, FacilitatorAssumption DEF CallType
  <2>3. RequestsInTime'
    BY <1>2, <2>1, <2>2 DEF RequestsInTime, HubOf, CallOf, At, ledgerVars
  <2>. QED BY <1>1, <1>3, <2>1, <2>3 DEF ChargesInv
<1>6. ASSUME NEW s \in Slots, RequestStep(s) PROVE ChargesInv'
  <2>1. req[s].phase \in Phases
    BY <1>6, StepsOfRequests
  <2>2. req[s] # Idle
    BY <1>2, <2>1, CallTyped
  <2>3. CASE QuietMove(s)
    <3>1. RequestsInTime'
      BY <1>2, <2>1, <2>2, <2>3, MovesTyped, InTimeStays DEF QuietMove, ledgerVars
    <3>. QED BY <1>1, <1>3, <2>3, <3>1 DEF ChargesInv, QuietMove
  <2>4. CASE At(s, "settle") /\ Moves(s) /\ Charges(s) /\ req'[s].phase # "settle"
    <3>1. UNCHANGED now
      BY <2>4 DEF Charges, Settle
    <3>2. RequestsInTime'
      BY <1>2, <2>1, <2>2, <2>4, <3>1, MovesTyped, InTimeStays
    <3>. QED BY <1>1, <2>1, <2>4, <3>2, ChargeKeeps DEF ChargesInv
  <2>5. CASE req' = [req EXCEPT ![s] = Idle] /\ UNCHANGED <<ledgerVars, tip, journal>>
    <3>1. req'[s] = Idle /\ \A t \in Slots \ {s} : req'[t] = req[t]
      BY <1>2, <2>5 DEF RequestsTyped
    <3>2. RequestsInTime'
      BY <1>2, <2>5, <3>1, InTimeStays DEF ledgerVars
    <3>. QED BY <1>1, <1>3, <2>5, <3>2 DEF ChargesInv
  <2>. QED BY <1>2, <1>6, <2>1, <2>3, <2>4, <2>5, RequestSteps
<1>7. ASSUME NEW h \in Hubs,
             (\E aid \in Agents : Rotate(h, aid)) \/ Crash(h) \/ PruneNotes(h) \/ PruneFirstVerify(h)
      PROVE  ChargesInv'
  <2>1. UNCHANGED <<ledgerVars, journal>> /\ \A s \in Slots : req'[s] \in {req[s], Idle}
    BY <1>2, <1>7, OtherSteps
  <2>2. RequestsInTime'
    BY <1>2, <2>1 DEF RequestsInTime, HubOf, CallOf, At, ledgerVars
  <2>. QED BY <1>1, <1>3, <2>1, <2>2 DEF ChargesInv
<1>8. ASSUME NEW h \in Hubs, FacilitatorTick(h) PROVE ChargesInv'
  <2>1. now' = [now EXCEPT ![h] = now[h] + 1] /\ UNCHANGED <<db, req, journal>>
    BY <1>8 DEF FacilitatorTick, Tick, ownVars
  <2>2. RowsStay /\ \A g \in Hubs : now[g] <= now'[g]
    BY <1>2, <2>1 DEF RowsStay
  <2>3. JournalTyped' /\ ChargeOnRecord' /\ GuardsHeld' /\ ChargedOnce' /\ OnePaymentPerTask'
    BY <1>2, <2>1, <2>2, JournalStays DEF ChargesInv
  <2>4. RequestsInTime'
    <3>1. ASSUME NEW s \in Slots, req[s] # Idle
          PROVE  req[s].since <= now'[HubOf(s)] /\ now'[HubOf(s)] <= req[s].since + MaxInFlight
      <4>1. req[s].since \in Nat /\ HubOf(s) \in Hubs /\ MaxInFlight \in Nat
        <5>1. req[s].phase \in Phases
          BY <1>2, <3>1 DEF RequestsTyped, Requests, RequestType
        <5>. QED BY <1>2, <5>1, CallTyped, FacilitatorAssumption DEF RequestType
      <4>2. req[s].since <= now[HubOf(s)] /\ now[HubOf(s)] <= req[s].since + MaxInFlight
        BY <1>2, <3>1 DEF RequestsInTime
      <4>3. HubOf(s) = h => now[h] - req[s].since < MaxInFlight
        BY <1>8, <3>1 DEF FacilitatorTick
      <4>. QED BY <1>2, <2>1, <4>1, <4>2, <4>3
    <3>. QED BY <1>2, <2>1, <3>1 DEF RequestsInTime, HubOf, CallOf, At
  <2>. QED BY <1>1, <2>3, <2>4 DEF ChargesInv
<1>9. ASSUME NEW h \in Hubs, OtherLedgerStep(h) PROVE ChargesInv'
  <2>1. RowsStay /\ UNCHANGED now /\ UNCHANGED <<req, journal>>
    BY <1>2, <1>9, OtherLedgerRows DEF OtherLedgerStep, ownVars
  <2>2. \A g \in Hubs : now[g] <= now'[g]
    BY <1>2, <2>1
  <2>3. JournalTyped' /\ ChargeOnRecord' /\ GuardsHeld' /\ ChargedOnce' /\ OnePaymentPerTask'
    BY <1>2, <2>1, <2>2, JournalStays DEF ChargesInv
  <2>4. RequestsInTime'
    BY <1>2, <2>1 DEF RequestsInTime, HubOf, CallOf, At
  <2>. QED BY <1>1, <2>3, <2>4 DEF ChargesInv
<1>. QED BY <1>4, <1>5, <1>6, <1>7, <1>8, <1>9 DEF FacilitatorNext

\* The invariant holds in every reachable state.
THEOREM ChargesInvariant == FacilitatorSpec => []ChargesInv
BY ChargesInit, ChargesStep, PTL DEF FacilitatorSpec

\* No authorization is charged twice, for any number of requests in flight,
\* calls, hubs and crashes, as long as a request takes less than
\* SettledKeptAfter (PAY-L2).
THEOREM FacilitatorChargesOnce == FacilitatorSpec => []ChargedOnce
<1>1. ChargesInv => ChargedOnce
  BY DEF ChargesInv
<1>. QED BY <1>1, ChargesInvariant, PTL

\* No payer pays for one task twice within GuardKept (PAY-L3).
THEOREM FacilitatorOnePaymentPerTask == FacilitatorSpec => []OnePaymentPerTask
<1>1. ChargesInv => OnePaymentPerTask
  BY DEF ChargesInv
<1>. QED BY <1>1, ChargesInvariant, PTL

\* A charge stays on record until its row is no longer due.
THEOREM FacilitatorChargeOnRecord == FacilitatorSpec => []ChargeOnRecord
<1>1. ChargesInv => ChargeOnRecord
  BY DEF ChargesInv
<1>. QED BY <1>1, ChargesInvariant, PTL

\* The three at once: whatever requests, crashes and deletions interleave, a charge is made
\* once, stands alone for its task, and stays on record while it could be presented again.
THEOREM FacilitatorChargesStand == FacilitatorSpec => []ChargesStand
BY FacilitatorChargesOnce, FacilitatorOnePaymentPerTask, FacilitatorChargeOnRecord, PTL
   DEF ChargesStand

-----------------------------------------------------------------------------
(* What a request is told agrees with the charges.                          *)

\* The charges of hub h name authorization a, for via.
Charged(h, a, via) == \E i \in DOMAIN journal[h] : journal[h][i].auth = a /\ journal[h][i].via = via

\* The call's authorization and key were presented before the key was retired.
Shown(c) == <<c.auth, c.key>> \in fresh

\* The phases of a request whose payer and terms were checked.
Verified == {"repeat", "spent", "held", "noted", "window", "funds", "settle", "conflict", "note"}

\* The payment is on its hub's ledger, for the payee and the price its caller asks for.
TermsMet(c) ==
  /\ c.auth.network = c.hub
  /\ IF c.op = "redeem" THEN c.auth.payTo = c.hub
     ELSE /\ c.auth.payTo = c.ask.payTo /\ c.auth.payTo # c.hub
          /\ c.auth.amount >= c.ask.amount

\* Request r has passed the checks its phase comes after, and its call's key was shown
\* in time or is older than the key history it read.
Sound(r) ==
  LET c == r.call IN
  /\ Shown(c) \/ c.key < tip[c.hub][c.auth.payer]
  /\ r.phase \in {"repeat", "spent", "held", "noted", "window"} => Shown(c) \/ c.key < r.kel
  /\ r.phase = "settle" => Shown(c)
  /\ r.phase = "payer" => c.op = "redeem" \/ c.ask.payTo # c.hub
  /\ r.phase \in Verified => TermsMet(c)
  /\ r.phase \in {"spent", "held", "funds"} => c.op = "verify"
  /\ r.phase = "noted" => c.op = "redeem"
  /\ r.phase = "note" => c.op = "redeem" /\ Charged(c.hub, c.auth, c.via)
  /\ r.phase = "done" /\ r.outcome = "success" => TermsMet(c) /\ Charged(c.hub, c.auth, c.via)

RequestsAreSound == \A s \in Slots : req[s] # Idle => Sound(req[s])

\* A settled row is of a charge, and a note of a redemption that was charged before it.
RowsCharged ==
  \A h \in Hubs :
    /\ \A r \in db[h].settled : Charged(h, r.auth, r.via)
    /\ \A n \in notes[h] : /\ Charged(h, n.auth, NoHub)
                           /\ \A i \in DOMAIN journal[h] : journal[h][i].auth = n.auth => journal[h][i].at <= n.at

\* A record that found the key at the tip is of a key that was shown, and not of a later one.
RecordsSound ==
  \A h \in Hubs : \A r \in first[h] :
    r.tip => /\ <<r.auth, r.key>> \in fresh
             /\ r.key <= tip[h][r.auth.payer]

TablesTyped ==
  /\ first \in [Hubs -> SUBSET [auth: Auths, key: Nat, tip: BOOLEAN]]
  /\ notes \in [Hubs -> SUBSET [auth: Auths, at: Nat]]
  /\ cut \subseteq Auths

\* A redemption that was charged has its note, a request about to write it, or was cut.
NotedSoon ==
  \A h \in Hubs : \A i \in DOMAIN journal[h] :
    LET e == journal[h][i] IN
    (e.auth.payTo = h /\ now[h] <= e.at + NotesKept) =>
      \/ \E n \in notes[h] : n.auth = e.auth
      \/ \E s \in Slots : At(s, "note") /\ HubOf(s) = h /\ CallOf(s).auth = e.auth
      \/ e.auth \in cut

AnswersInv ==
  /\ TablesTyped /\ RequestsAreSound /\ RowsCharged /\ RecordsSound /\ NotedSoon /\ NoRetiredKeyPays

\* Nothing that speaks for a request goes away.
Grows ==
  /\ \A h \in Hubs : \A i \in DOMAIN journal[h] : i \in DOMAIN journal'[h] /\ journal'[h][i] = journal[h][i]
  /\ fresh \subseteq fresh'
  /\ \A h \in Hubs, a \in Agents : tip[h][a] <= tip'[h][a]

\* So a request that is sound stays sound until it moves, and what was charged stays charged.
LEMMA SoundStays ==
  ASSUME RequestsTyped, RequestsTyped', Grows, NEW s \in Slots, req[s] # Idle, UNCHANGED req[s], Sound(req[s])
  PROVE  Sound(req[s])'
<1>1. req[s].phase \in Phases
  BY DEF RequestsTyped, Requests, RequestType
<1>2. CallOf(s) \in Calls /\ HubOf(s) \in Hubs /\ CallOf(s).auth.payer \in Agents /\ CallOf(s).key \in Nat
  BY <1>1, CallTyped
<1>3. /\ tip[HubOf(s)][CallOf(s).auth.payer] \in Nat /\ tip'[HubOf(s)][CallOf(s).auth.payer] \in Nat
      /\ tip[HubOf(s)][CallOf(s).auth.payer] <= tip'[HubOf(s)][CallOf(s).auth.payer]
  BY <1>2 DEF RequestsTyped, Grows
<1>4. Charged(HubOf(s), CallOf(s).auth, CallOf(s).via) => Charged(HubOf(s), CallOf(s).auth, CallOf(s).via)'
  BY <1>2 DEF Charged, Grows, HubOf, CallOf
<1>5. Shown(CallOf(s)) => Shown(CallOf(s))'
  BY DEF Shown, Grows, CallOf
<1>. QED BY <1>2, <1>3, <1>4, <1>5 DEF Sound, HubOf, CallOf, TermsMet

\* A charge stays in the journal.
LEMMA ChargedStays ==
  ASSUME Grows, NEW h \in Hubs, NEW a, NEW via, Charged(h, a, via)
  PROVE  Charged(h, a, via)'
BY DEF Charged, Grows

\* What the phases of the payer's and the terms' checks have established.
LEMMA TermsChecked ==
  ASSUME NEW c \in Calls, PayerCheck(c) = "ok", TermsRefusal(c) = "ok",
         c.op = "redeem" \/ c.ask.payTo # c.hub
  PROVE  TermsMet(c) /\ ~(c.key > tip[c.hub][c.auth.payer])
<1>1. c \in CallType /\ c.auth \in Auths /\ c.auth \in AuthType
  BY FacilitatorAssumption, LedgerAssumption DEF CallType
<1>2. /\ c.auth.network = c.hub /\ ~(c.key > tip[c.hub][c.auth.payer])
  BY DEF PayerCheck, verifiedAuth
<1>3. CASE c.op = "redeem"
  BY <1>2, <1>3 DEF TermsRefusal, TermsMet
<1>4. CASE c.op # "redeem"
  <2>1. CheckRequirements(c.auth, c.offer, c.ask) = "ok"
    BY <1>4 DEF TermsRefusal
  <2>2. c.auth.payTo = c.ask.payTo /\ ~(c.auth.amount < c.ask.amount)
    BY <2>1 DEF CheckRequirements
  <2>3. c.auth.amount \in Nat /\ c.ask.amount \in Nat
    BY <1>1, LedgerAssumption DEF AuthType, CallType, TermsType, MaxUint
  <2>. QED BY <1>2, <1>4, <2>2, <2>3 DEF TermsMet
<1>. QED BY <1>2, <1>3, <1>4

\* No check answers success, nor that a key is wrong unless it is.
LEMMA RefusalsRefuse ==
  ASSUME NEW c, NEW h, NEW d, NEW a, NEW bind, NEW via, NEW t
  PROVE  /\ PayerCheck(c) # "success" /\ TermsRefusal(c) # "success" /\ PayeeRefusal(c) # "success"
         /\ SettleOutcome(h, d, a, bind, via, t) # "success"
         /\ TermsRefusal(c) # "invalid_signature" /\ PayeeRefusal(c) # "invalid_signature"
         /\ SettleOutcome(h, d, a, bind, via, t) # "invalid_signature"
         /\ PayerCheck(c) = "invalid_signature" => c.key > tip[c.hub][c.auth.payer]
<1>1. parseAuth(c.auth) \notin {"success", "invalid_signature"}
  BY DEF parseAuth
<1>2. PayerCheck(c) # "success" /\ (PayerCheck(c) = "invalid_signature" => c.key > tip[c.hub][c.auth.payer])
  BY <1>1 DEF PayerCheck, verifiedAuth
<1>3. TermsRefusal(c) \notin {"success", "invalid_signature"}
  BY DEF TermsRefusal, CheckRequirements
<1>4. PayeeRefusal(c) \notin {"success", "invalid_signature"}
  BY DEF PayeeRefusal, LocalPayee, ForwardedPayee
<1>5. SettleOutcome(h, d, a, bind, via, t) \notin {"success", "invalid_signature"}
  BY DEF SettleOutcome
<1>. QED BY <1>2, <1>3, <1>4, <1>5

\* A step of a request that leaves the tables it is judged by alone moves it to a phase it is
\* fit for.
LEMMA QuietStepSound ==
  ASSUME RequestsTyped, TablesTyped, RowsCharged, RecordsSound, NEW s \in Slots, Sound(req[s]),
         \/ PayeeCheck(s) \/ VerifyPayer(s) \/ RepeatOf(s) \/ AuthSettled(s) \/ GuardCheck(s)
         \/ RedemptionOf(s) \/ KeyAtFirstVerify(s) \/ BalanceCheck(s) \/ SettleConflict(s)
         \/ RecordRedemption(s)
  PROVE  Sound(req[s])' /\ UNCHANGED <<ledgerVars, journal, tip, fresh, cut>>
<1>. DEFINE c == CallOf(s)
            h == HubOf(s)
<1>1. req[s].phase \in Phases
  BY StepsOfRequests DEF RequestStep
<1>2. /\ req[s] \in RequestType /\ req \in [Slots -> Requests]
      /\ c \in Calls /\ h \in Hubs /\ c.auth \in Auths /\ c.auth.payer \in Agents /\ c.key \in Nat
      /\ tip[h][c.auth.payer] \in Nat /\ req[s].kel \in Nat
  BY <1>1, CallTyped DEF RequestsTyped, RequestType
<1>3. c = req[s].call /\ h = c.hub
  BY DEF HubOf, CallOf
<1>4. UNCHANGED <<ledgerVars, journal, tip, fresh, cut>>
  BY DEF PayeeCheck, VerifyPayer, RepeatOf, AuthSettled, GuardCheck, RedemptionOf, KeyAtFirstVerify,
         BalanceCheck, SettleConflict, RecordRedemption
<1>. SUFFICES Sound(req[s])'
  BY <1>4
\* It is enough to say what the request becomes.
<1>5. ASSUME req'[s].call = c,
             req'[s].phase \in {"repeat", "spent", "held", "noted", "window"} => Shown(c) \/ c.key < req'[s].kel,
             req'[s].phase = "settle" => Shown(c),
             req'[s].phase = "payer" => c.op = "redeem" \/ c.ask.payTo # h,
             req'[s].phase \in Verified => TermsMet(c),
             req'[s].phase \in {"spent", "held", "funds"} => c.op = "verify",
             req'[s].phase = "noted" => c.op = "redeem",
             req'[s].phase = "note" => c.op = "redeem" /\ Charged(h, c.auth, c.via),
             req'[s].phase = "done" /\ req'[s].outcome = "success" => TermsMet(c) /\ Charged(h, c.auth, c.via)
      PROVE  Sound(req[s])'
  BY <1>3, <1>4, <1>5 DEF Sound, Shown, Charged, TermsMet
<1>6. ASSUME NEW o, Finish(s, o), o = "success" => TermsMet(c) /\ Charged(h, c.auth, c.via)
      PROVE  Sound(req[s])'
  <2>1. req'[s].call = c /\ req'[s].phase = "done" /\ req'[s].outcome = o /\ req'[s].kel = req[s].kel
    BY <1>2, <1>3, <1>6 DEF Finish, RequestType
  <2>. QED BY <1>5, <1>6, <2>1 DEF Verified
<1>7. ASSUME NEW p, Goto(s, p)
      PROVE  /\ req'[s].call = c /\ req'[s].phase = p /\ req'[s].outcome = req[s].outcome
             /\ req'[s].kel = req[s].kel
  BY <1>2, <1>3, <1>7 DEF Goto, RequestType
<1>8. req[s].phase \in Verified => TermsMet(c)
  BY <1>3 DEF Sound
<1>9. req[s].phase \in {"repeat", "spent", "held", "noted", "window"} => Shown(c) \/ c.key < req[s].kel
  BY <1>3 DEF Sound
\* repeatOf's answer names the charge of the row it found.
<1>10. ASSUME RepeatAnswer(s) = "success" PROVE Charged(h, c.auth, c.via)
  BY <1>2, <1>3, <1>10 DEF RepeatAnswer, SettledFor, RowsCharged
<1>11. CASE PayeeCheck(s)
  <2>1. CASE PayeeRefusal(c) = "ok"
    <3>1. Goto(s, "payer")
      BY <1>11, <2>1 DEF PayeeCheck
    <3>2. c.ask.payTo # h
      BY <1>3, <2>1 DEF PayeeRefusal, LocalPayee, ForwardedPayee
    <3>. QED BY <1>5, <1>7, <3>1, <3>2 DEF Verified
  <2>2. CASE PayeeRefusal(c) # "ok"
    BY <1>6, <1>11, <2>2, RefusalsRefuse DEF PayeeCheck
  <2>. QED BY <2>1, <2>2
<1>12. CASE VerifyPayer(s)
  <2>1. CASE PayerCheck(c) = "ok" /\ TermsRefusal(c) = "ok"
    <3>1. req' = [req EXCEPT ![s].phase = AfterTerms(c.op), ![s].kel = tip[h][c.auth.payer]]
      BY <1>3, <1>12, <2>1 DEF VerifyPayer
    <3>2. /\ req'[s].call = c /\ req'[s].phase = AfterTerms(c.op) /\ req'[s].outcome = req[s].outcome
          /\ req'[s].kel = tip[h][c.auth.payer]
      BY <1>2, <1>3, <3>1 DEF RequestType
    <3>3. c.op = "redeem" \/ c.ask.payTo # h
      BY <1>3, <1>12 DEF VerifyPayer, At, Sound
    <3>4. TermsMet(c)
      BY <1>2, <1>3, <2>1, <3>3, TermsChecked
    <3>5. Shown(c) \/ c.key < tip[h][c.auth.payer]
      BY <1>3 DEF Sound
    <3>6. c.op \in {"verify", "settle", "forwarded", "redeem"}
      BY <1>2, FacilitatorAssumption DEF CallType
    <3>7. /\ AfterTerms(c.op) \in {"spent", "noted", "repeat"}
          /\ AfterTerms(c.op) = "spent" => c.op = "verify"
          /\ AfterTerms(c.op) = "noted" => c.op = "redeem"
      BY <3>6 DEF AfterTerms
    <3>. QED BY <1>5, <3>2, <3>4, <3>5, <3>7
  <2>2. CASE PayerCheck(c) # "ok" \/ TermsRefusal(c) # "ok"
    <3>1. \E o : Finish(s, o) /\ o # "success"
      BY <1>12, <2>2, RefusalsRefuse DEF VerifyPayer, Finish
    <3>. QED BY <1>6, <3>1
  <2>. QED BY <2>1, <2>2
<1>13. CASE RepeatOf(s)
  <2>1. req[s].phase = "repeat" /\ TermsMet(c)
    BY <1>8, <1>13 DEF RepeatOf, At, Verified
  <2>2. CASE Goto(s, "window")
    BY <1>5, <1>7, <1>9, <2>1, <2>2
  <2>3. CASE Finish(s, RepeatAnswer(s))
    BY <1>6, <1>10, <2>1, <2>3
  <2>. QED BY <1>13, <2>2, <2>3 DEF RepeatOf
<1>14. CASE AuthSettled(s) \/ GuardCheck(s)
  <2>1. req[s].phase \in {"spent", "held"} /\ TermsMet(c) /\ c.op = "verify"
    BY <1>3, <1>8, <1>14 DEF AuthSettled, GuardCheck, At, Verified, Sound
  <2>2. \/ Finish(s, "duplicate_nonce") \/ Finish(s, "duplicate_binding")
        \/ Goto(s, "held") \/ Goto(s, "window")
    BY <1>14 DEF AuthSettled, GuardCheck
  <2>. QED BY <1>5, <1>6, <1>7, <1>9, <2>1, <2>2
<1>15. CASE RedemptionOf(s)
  <2>1. req[s].phase = "noted" /\ TermsMet(c) /\ c.op = "redeem"
    BY <1>3, <1>8, <1>15 DEF RedemptionOf, At, Verified, Sound
  <2>2. CASE Goto(s, "window")
    BY <1>5, <1>7, <1>9, <2>1, <2>2
  <2>3. CASE Finish(s, "success") /\ \E n \in notes[h] : n.auth = c.auth
    <3>1. c.via = NoHub
      BY <1>2, <2>1, FacilitatorAssumption
    <3>2. Charged(h, c.auth, c.via)
      BY <1>2, <2>3, <3>1 DEF RowsCharged
    <3>. QED BY <1>6, <2>1, <2>3, <3>2
  <2>. QED BY <1>15, <2>2, <2>3 DEF RedemptionOf
<1>16. CASE KeyAtFirstVerify(s)
  <2>. DEFINE found == FirstVerifyRow(h, c.auth)
              atTip == IF found THEN FirstVerifyOf(h, c.auth, c.key) ELSE tip[h][c.auth.payer] = c.key
  <2>1. req[s].phase = "window" /\ TermsMet(c)
    BY <1>8, <1>16 DEF KeyAtFirstVerify, At, Verified
  <2>2. \/ Finish(s, "expired_payment") \/ Finish(s, "settlement_failed") \/ Finish(s, "invalid_signature")
        \/ KeyAccepted(s, atTip) /\ Goto(s, AfterWindow(c.op))
    BY <1>3, <1>16 DEF KeyAtFirstVerify
  <2>3. CASE KeyAccepted(s, atTip) /\ Goto(s, AfterWindow(c.op))
    <3>1. ASSUME c.key = req[s].kel PROVE Shown(c)
      BY <1>2, <1>9, <2>1, <3>1
    <3>2. ASSUME found /\ FirstVerifyOf(h, c.auth, c.key) PROVE Shown(c)
      BY <1>2, <3>2 DEF FirstVerifyOf, RecordsSound, Shown
    <3>3. ASSUME ~found /\ tip[h][c.auth.payer] = c.key PROVE Shown(c)
      <4>1. Shown(c) \/ c.key < tip[h][c.auth.payer]
        BY <1>3 DEF Sound
      <4>. QED BY <1>2, <3>3, <4>1
    <3>4. Shown(c)
      BY <1>3, <2>3, <3>1, <3>2, <3>3 DEF KeyAccepted
    <3>5. AfterWindow(c.op) \in {"funds", "settle"} /\ (AfterWindow(c.op) = "funds" => c.op = "verify")
      BY DEF AfterWindow
    <3>. QED BY <1>5, <1>7, <2>1, <2>3, <3>4, <3>5
  <2>. QED BY <1>6, <2>2, <2>3
<1>17. CASE BalanceCheck(s)
  <2>1. Finish(s, "insufficient_funds") \/ Finish(s, "valid")
    BY <1>17 DEF BalanceCheck
  <2>. QED BY <1>6, <2>1
<1>18. CASE SettleConflict(s)
  <2>1. req[s].phase = "conflict" /\ TermsMet(c)
    BY <1>8, <1>18 DEF SettleConflict, At, Verified
  <2>2. \/ Finish(s, "settlement_failed") \/ Finish(s, RepeatAnswer(s))
        \/ RepeatAnswer(s) = "success" /\ c.op = "redeem" /\ Goto(s, "note")
    BY <1>18 DEF SettleConflict
  <2>3. CASE RepeatAnswer(s) = "success" /\ c.op = "redeem" /\ Goto(s, "note")
    BY <1>5, <1>7, <1>10, <2>1, <2>3
  <2>. QED BY <1>6, <1>10, <2>1, <2>2, <2>3
<1>19. CASE RecordRedemption(s)
  <2>1. TermsMet(c) /\ Charged(h, c.auth, c.via)
    BY <1>3, <1>8, <1>19 DEF RecordRedemption, At, Verified, Sound
  <2>2. Finish(s, "note_failed") \/ Finish(s, "success")
    BY <1>19 DEF RecordRedemption
  <2>. QED BY <1>6, <2>1, <2>2
<1>. QED BY <1>11, <1>12, <1>13, <1>14, <1>15, <1>16, <1>17, <1>18, <1>19

\* Release and the settlement: the two other steps of a request.
LEMMA SettleAuthSteps ==
  ASSUME RequestsTyped, NEW s \in Slots, SettleAuth(s)
  PROVE  /\ UNCHANGED <<tip, first, notes, fresh, cut, now>>
         /\ \/ /\ Charges(s)
               /\ IF CallOf(s).op = "redeem" THEN Goto(s, "note") ELSE Finish(s, "success")
            \/ /\ UNCHANGED <<ledgerVars, journal>>
               /\ Goto(s, "conflict") \/ \E o : Finish(s, o) /\ o # "success"
<1>. DEFINE c == CallOf(s)
            o == SettleOutcome(c.hub, db[c.hub], c.auth, BindOf(c), c.via, now[c.hub])
<1>1. UNCHANGED <<tip, first, notes, fresh, cut>>
  BY DEF SettleAuth
<1>2. CASE Charges(s) /\ IF c.op = "redeem" THEN Goto(s, "note") ELSE Finish(s, "success")
  BY <1>1, <1>2 DEF Charges, Settle
<1>3. CASE /\ IF o = "repeat" THEN Goto(s, "conflict") ELSE Finish(s, o)
           /\ UNCHANGED <<ledgerVars, journal>>
  <2>1. o # "success"
    BY RefusalsRefuse
  <2>. QED BY <1>1, <1>3, <2>1 DEF ledgerVars
<1>. QED BY <1>2, <1>3 DEF SettleAuth, Charges

\* The charge of slot s: one more entry of the journal, of its authorization.
LEMMA ChargeAppends ==
  ASSUME RequestsTyped, JournalTyped, NEW s \in Slots, req[s].phase \in Phases, Charges(s)
  PROVE  LET c == CallOf(s)
             h == HubOf(s)
             n == Len(journal[h])
         IN /\ n \in Nat /\ DOMAIN journal[h] = 1 .. n /\ DOMAIN journal'[h] = 1 .. (n + 1)
            /\ \A i \in 1 .. n : journal'[h][i] = journal[h][i]
            /\ journal'[h][n + 1] = [auth |-> c.auth, key |-> c.key, bind |-> BindOf(c),
                                     via |-> c.via, at |-> now[h]]
            /\ \A g \in Hubs : g # h => journal'[g] = journal[g]
<1>. DEFINE c == CallOf(s)
            h == HubOf(s)
            e == [auth |-> c.auth, key |-> c.key, bind |-> BindOf(c), via |-> c.via, at |-> now[h]]
<1>1. h \in Hubs
  BY CallTyped
<1>2. e \in Charge
  BY CallTyped DEF Charge, RequestsTyped
<1>3. journal \in [Hubs -> Seq(Charge)]
  BY DEF JournalTyped
<1>4. journal' = [journal EXCEPT ![h] = Append(journal[h], e)]
  BY DEF Charges, HubOf, CallOf
<1>5. journal'[h] = Append(journal[h], e) /\ journal[h] \in Seq(Charge)
  BY <1>1, <1>3, <1>4
<1>6. \A g \in Hubs : g # h => journal'[g] = journal[g]
  BY <1>3, <1>4
<1>. HIDE DEF e, h
<1>7. /\ DOMAIN journal[h] = 1 .. Len(journal[h]) /\ Len(journal[h]) \in Nat
      /\ DOMAIN journal'[h] = 1 .. (Len(journal[h]) + 1)
      /\ \A i \in 1 .. Len(journal[h]) : journal'[h][i] = journal[h][i]
      /\ journal'[h][Len(journal[h]) + 1] = e
  BY <1>2, <1>5
<1>. QED BY <1>6, <1>7 DEF e, h

\* Every step keeps what speaks for a request.
LEMMA StepGrows ==
  ASSUME ChargesInv, [FacilitatorNext]_vars
  PROVE  Grows
<1>1. RequestsTyped /\ JournalTyped /\ tip \in [Hubs -> [Agents -> Nat]]
  BY DEF ChargesInv, RequestsTyped
<1>2. ASSUME UNCHANGED journal, UNCHANGED tip, fresh \subseteq fresh' PROVE Grows
  BY <1>1, <1>2 DEF Grows
<1>3. CASE UNCHANGED vars
  BY <1>2, <1>3 DEF vars, ownVars
<1>4. ASSUME NEW s \in Slots, NEW c \in Calls, Arrive(s, c) PROVE Grows
  BY <1>2, <1>4 DEF Arrive
<1>5. ASSUME NEW s \in Slots, RequestStep(s) PROVE Grows
  <2>1. req[s].phase \in Phases
    BY <1>5, StepsOfRequests
  <2>2. UNCHANGED fresh
    BY <1>5 DEF RequestStep, PayeeCheck, VerifyPayer, RepeatOf, AuthSettled, GuardCheck, RedemptionOf,
                KeyAtFirstVerify, BalanceCheck, SettleAuth, SettleConflict, RecordRedemption, Release
  <2>3. CASE UNCHANGED <<tip, journal>>
    BY <1>2, <2>2, <2>3
  <2>4. CASE Charges(s) /\ UNCHANGED tip
    <3>1. \A g \in Hubs : \A i \in DOMAIN journal[g] : i \in DOMAIN journal'[g] /\ journal'[g][i] = journal[g][i]
      <4>. DEFINE h == HubOf(s)
                  n == Len(journal[h])
      <4>1. /\ n \in Nat /\ DOMAIN journal[h] = 1 .. n /\ DOMAIN journal'[h] = 1 .. (n + 1)
            /\ \A i \in 1 .. n : journal'[h][i] = journal[h][i]
            /\ \A g \in Hubs : g # h => journal'[g] = journal[g]
        BY <1>1, <2>1, <2>4, ChargeAppends
      <4>2. 1 .. n \subseteq 1 .. (n + 1)
        BY <4>1
      <4>. HIDE DEF h, n
      <4>. QED BY <4>1, <4>2
    <3>. QED BY <1>1, <2>2, <2>4, <3>1 DEF Grows
  <2>. QED BY <1>1, <1>5, <2>1, <2>3, <2>4, RequestSteps DEF QuietMove
<1>6. ASSUME NEW h \in Hubs, NEW aid \in Agents, Rotate(h, aid) PROVE Grows
  <2>1. tip' = [tip EXCEPT ![h][aid] = tip[h][aid] + 1] /\ UNCHANGED <<journal, fresh>>
    BY <1>6 DEF Rotate
  <2>2. \A g \in Hubs, a \in Agents : tip[g][a] <= tip'[g][a]
    BY <1>1, <2>1
  <2>. QED BY <2>1, <2>2 DEF Grows
<1>7. ASSUME NEW h \in Hubs, Crash(h) \/ PruneNotes(h) \/ PruneFirstVerify(h)
      PROVE  Grows
  BY <1>2, <1>7 DEF Crash, PruneNotes, PruneFirstVerify
<1>8. ASSUME NEW h \in Hubs, FacilitatorTick(h) \/ OtherLedgerStep(h) PROVE Grows
  BY <1>2, <1>8 DEF FacilitatorTick, OtherLedgerStep, ownVars
<1>. QED BY <1>3, <1>4, <1>5, <1>6, <1>7, <1>8 DEF FacilitatorNext

\* A charge of a redemption keeps its note, or who will write it, where nobody is charged.
LEMMA NotedStays ==
  ASSUME RequestsTyped, JournalTyped, RowsCharged, NotedSoon, TablesTyped, UNCHANGED journal,
         now' \in [Hubs -> Nat], \A h \in Hubs : now[h] <= now'[h], cut \subseteq cut',
         \A h \in Hubs : \A n \in notes[h] : n \in notes'[h] \/ n.at + NotesKept < now'[h],
         \A s \in Slots : At(s, "note") =>
           \/ At(s, "note")' /\ req'[s].call = req[s].call
           \/ \E n \in notes'[HubOf(s)] : n.auth = CallOf(s).auth
           \/ CallOf(s).auth \in cut'
  PROVE  NotedSoon'
<1>. SUFFICES ASSUME NEW h \in Hubs, NEW i \in DOMAIN journal[h],
                     journal[h][i].auth.payTo = h, now'[h] <= journal[h][i].at + NotesKept
              PROVE  \/ \E n \in notes'[h] : n.auth = journal[h][i].auth
                     \/ \E s \in Slots : At(s, "note")' /\ HubOf(s)' = h /\ CallOf(s)'.auth = journal[h][i].auth
                     \/ journal[h][i].auth \in cut'
  BY DEF NotedSoon
<1>. DEFINE e == journal[h][i]
<1>1. e.at \in Nat /\ now[h] \in Nat /\ now'[h] \in Nat /\ NotesKept \in Nat
  BY ChargeTyped, FacilitatorAssumption DEF RequestsTyped
<1>2. now[h] <= e.at + NotesKept
  BY <1>1
<1>3. CASE \E n \in notes[h] : n.auth = e.auth
  <2>1. PICK n \in notes[h] : n.auth = e.auth
    BY <1>3
  <2>2. e.at <= n.at /\ n.at \in Nat
    BY <2>1 DEF RowsCharged, TablesTyped
  <2>3. n \in notes'[h]
    BY <1>1, <2>2
  <2>. QED BY <2>1, <2>3
<1>4. CASE \E s \in Slots : At(s, "note") /\ HubOf(s) = h /\ CallOf(s).auth = e.auth
  <2>1. PICK s \in Slots : At(s, "note") /\ HubOf(s) = h /\ CallOf(s).auth = e.auth
    BY <1>4
  <2>2. CASE At(s, "note")' /\ req'[s].call = req[s].call
    BY <2>1, <2>2 DEF HubOf, CallOf
  <2>. QED BY <2>1, <2>2
<1>5. CASE e.auth \in cut
  BY <1>5
<1>. QED BY <1>2, <1>3, <1>4, <1>5 DEF NotedSoon

\* The tables' invariants stay where nobody is charged and no row is added.
LEMMA TablesStay ==
  ASSUME RequestsTyped, RequestsTyped', Grows, RowsCharged, RecordsSound, NoRetiredKeyPays, TablesTyped,
         UNCHANGED journal,
         \A h \in Hubs : /\ db'[h].settled \subseteq db[h].settled
                         /\ notes'[h] \subseteq notes[h] /\ first'[h] \subseteq first[h]
  PROVE  RowsCharged' /\ RecordsSound' /\ NoRetiredKeyPays'
<1>1. RowsCharged'
  BY ChargedStays DEF RowsCharged
<1>2. RecordsSound'
  <2>1. ASSUME NEW h \in Hubs, NEW r \in first[h], r.tip
        PROVE  <<r.auth, r.key>> \in fresh' /\ r.key <= tip'[h][r.auth.payer]
    <3>1. r.key \in Nat /\ r.auth \in AuthType
      BY <2>1, LedgerAssumption DEF TablesTyped
    <3>2. r.auth.payer \in Agents
      BY <3>1 DEF AuthType
    <3>3. tip[h][r.auth.payer] \in Nat /\ tip'[h][r.auth.payer] \in Nat
      BY <3>2 DEF RequestsTyped
    <3>4. <<r.auth, r.key>> \in fresh /\ r.key <= tip[h][r.auth.payer]
      BY <2>1 DEF RecordsSound
    <3>. QED BY <3>1, <3>2, <3>3, <3>4 DEF Grows
  <2>. QED BY <2>1 DEF RecordsSound
<1>3. NoRetiredKeyPays'
  BY DEF NoRetiredKeyPays, Grows
<1>. QED BY <1>1, <1>2, <1>3

\* What a step does to the tables: each of them is left alone, or takes one row, or is pruned.
LEMMA QuietTables ==
  ASSUME RequestsTyped, AnswersInv, JournalTyped, NEW s \in Slots, Sound(req[s]),
         \/ PayeeCheck(s) \/ VerifyPayer(s) \/ RepeatOf(s) \/ AuthSettled(s) \/ GuardCheck(s)
         \/ RedemptionOf(s) \/ KeyAtFirstVerify(s) \/ BalanceCheck(s) \/ SettleConflict(s)
         \/ RecordRedemption(s)
  PROVE  TablesTyped' /\ RowsCharged' /\ RecordsSound' /\ NoRetiredKeyPays' /\ NotedSoon'
<1>. DEFINE c == CallOf(s)
            h == HubOf(s)
<1>1. req[s].phase \in Phases
  BY StepsOfRequests DEF RequestStep
<1>2. /\ req[s] \in RequestType /\ req \in [Slots -> Requests]
      /\ c \in Calls /\ h \in Hubs /\ c.auth \in Auths /\ c.auth.payer \in Agents /\ c.key \in Nat
      /\ tip[h][c.auth.payer] \in Nat /\ now[h] \in Nat
  BY <1>1, CallTyped DEF RequestsTyped
<1>3. c = req[s].call /\ h = c.hub
  BY DEF HubOf, CallOf
<1>4. TablesTyped /\ RowsCharged /\ RecordsSound /\ NotedSoon /\ NoRetiredKeyPays
  BY DEF AnswersInv
<1>5. UNCHANGED <<ledgerVars, journal, tip, fresh, cut>>
  BY <1>4, QuietStepSound
<1>6. NoRetiredKeyPays'
  BY <1>4, <1>5 DEF NoRetiredKeyPays
<1>8. ASSUME UNCHANGED notes PROVE RowsCharged'
  BY <1>4, <1>5, <1>8 DEF RowsCharged, Charged, ledgerVars
<1>9. ASSUME UNCHANGED notes, req[s].phase # "note" PROVE NotedSoon'
  <2>1. \A t \in Slots : t # s => req'[t] = req[t]
    BY <1>2 DEF PayeeCheck, VerifyPayer, RepeatOf, AuthSettled, GuardCheck, RedemptionOf, KeyAtFirstVerify,
                BalanceCheck, SettleConflict, RecordRedemption, Goto, Finish
  <2>2. \A t \in Slots : At(t, "note") => At(t, "note")' /\ req'[t].call = req[t].call
    BY <1>9, <2>1 DEF At
  <2>3. now' = now /\ \A g \in Hubs : now[g] <= now'[g]
    BY <1>5 DEF ledgerVars, RequestsTyped
  <2>. QED BY <1>4, <1>5, <1>9, <2>2, <2>3, NotedStays DEF RequestsTyped
<1>10. CASE \/ PayeeCheck(s) \/ VerifyPayer(s) \/ RepeatOf(s) \/ AuthSettled(s) \/ GuardCheck(s)
            \/ RedemptionOf(s) \/ BalanceCheck(s) \/ SettleConflict(s)
  <2>1. UNCHANGED <<first, notes>> /\ req[s].phase # "note"
    BY <1>10 DEF PayeeCheck, VerifyPayer, RepeatOf, AuthSettled, GuardCheck, RedemptionOf, BalanceCheck,
                 SettleConflict, At
  <2>2. TablesTyped' /\ RecordsSound'
    BY <1>4, <1>5, <2>1 DEF TablesTyped, RecordsSound
  <2>. QED BY <1>6, <1>8, <1>9, <2>1, <2>2
<1>11. CASE KeyAtFirstVerify(s)
  <2>. DEFINE found == FirstVerifyRow(h, c.auth)
              atTip == IF found THEN FirstVerifyOf(h, c.auth, c.key) ELSE tip[h][c.auth.payer] = c.key
              row == [auth |-> c.auth, key |-> c.key, tip |-> atTip]
  <2>1. UNCHANGED notes /\ req[s].phase # "note"
    BY <1>11 DEF KeyAtFirstVerify, At
  <2>2. UNCHANGED first \/ (~found /\ first' = [first EXCEPT ![h] = @ \cup {row}])
    BY <1>3, <1>11 DEF KeyAtFirstVerify
  <2>3. CASE UNCHANGED first
    <3>1. TablesTyped' /\ RecordsSound'
      BY <1>4, <1>5, <2>1, <2>3 DEF TablesTyped, RecordsSound
    <3>. QED BY <1>6, <1>8, <1>9, <2>1, <3>1
  <2>4. CASE ~found /\ first' = [first EXCEPT ![h] = @ \cup {row}]
    <3>1. row \in [auth: Auths, key: Nat, tip: BOOLEAN]
      BY <1>2, <2>4
    <3>2. row.tip => Shown(c) /\ c.key <= tip[h][c.auth.payer]
      <4>1. Shown(c) \/ c.key < tip[h][c.auth.payer]
        BY <1>3 DEF Sound
      <4>2. row.tip = atTip
        BY Zenon
      <4>3. atTip <=> tip[h][c.auth.payer] = c.key
        BY <2>4
      <4>. HIDE DEF row, atTip
      <4>. QED BY <1>2, <4>1, <4>2, <4>3
    <3>3. first' \in [Hubs -> SUBSET [auth: Auths, key: Nat, tip: BOOLEAN]]
      BY <1>2, <1>4, <2>4, <3>1 DEF TablesTyped
    <3>4. row.auth = c.auth /\ row.key = c.key
      OBVIOUS
    <3>. HIDE DEF row
    <3>5. \A g \in Hubs : \A r \in first'[g] : r \in first[g] \/ (g = h /\ r = row)
      BY <1>2, <1>4, <2>4 DEF TablesTyped
    <3>6. ASSUME NEW g \in Hubs, NEW r \in first'[g], r.tip
          PROVE  <<r.auth, r.key>> \in fresh /\ r.key <= tip[g][r.auth.payer]
      <4>1. CASE r \in first[g]
        BY <1>4, <3>6, <4>1 DEF RecordsSound
      <4>2. CASE g = h /\ r = row
        BY <3>2, <3>4, <3>6, <4>2 DEF Shown
      <4>. QED BY <3>5, <3>6, <4>1, <4>2
    <3>7. RecordsSound'
      BY <1>5, <3>6 DEF RecordsSound
    <3>8. TablesTyped'
      BY <1>4, <1>5, <2>1, <3>3 DEF TablesTyped
    <3>. QED BY <1>6, <1>8, <1>9, <2>1, <3>7, <3>8
  <2>. QED BY <2>2, <2>3, <2>4
<1>12. CASE RecordRedemption(s)
  <2>. DEFINE note == [auth |-> c.auth, at |-> now[h]]
  <2>1. req[s].phase = "note" /\ UNCHANGED first
    BY <1>12 DEF RecordRedemption, At
  <2>2. c.op = "redeem" /\ Charged(h, c.auth, c.via)
    BY <1>3, <2>1 DEF Sound
  <2>3. c.via = NoHub
    BY <1>2, <2>2, FacilitatorAssumption
  <2>4. \/ (\E n \in notes[h] : n.auth = c.auth) /\ UNCHANGED notes
        \/ notes' = [notes EXCEPT ![h] = @ \cup {note}]
    BY <1>3, <1>12 DEF RecordRedemption
  <2>5. note \in [auth: Auths, at: Nat] /\ note.auth = c.auth /\ note.at = now[h]
    BY <1>2
  <2>. HIDE DEF note
  <2>6. TablesTyped'
    BY <1>2, <1>4, <1>5, <2>1, <2>4, <2>5 DEF TablesTyped
  <2>7. \A g \in Hubs : \A n \in notes'[g] : n \in notes[g] \/ (g = h /\ n = note)
    BY <1>2, <1>4, <2>4 DEF TablesTyped
  <2>8. ASSUME NEW g \in Hubs, NEW n \in notes'[g]
        PROVE  /\ Charged(g, n.auth, NoHub)
               /\ \A i \in DOMAIN journal[g] : journal[g][i].auth = n.auth => journal[g][i].at <= n.at
    <3>1. CASE n \in notes[g]
      BY <1>4, <2>8, <3>1 DEF RowsCharged
    <3>2. CASE g = h /\ n = note
      BY <2>2, <2>3, <2>5, <2>8, <3>2 DEF JournalTyped
    <3>. QED BY <2>7, <2>8, <3>1, <3>2
  <2>9. RowsCharged'
    BY <1>4, <1>5, <2>8 DEF RowsCharged, Charged, ledgerVars
  <2>10. RecordsSound'
    BY <1>4, <1>5, <2>1 DEF RecordsSound
  <2>11. NotedSoon'
    <3>1. \A t \in Slots : t # s => req'[t] = req[t]
      BY <1>2, <1>12 DEF RecordRedemption, Finish
    <3>2. \E n \in notes'[h] : n.auth = c.auth
      BY <1>2, <1>4, <2>4, <2>5 DEF TablesTyped
    <3>3. \A t \in Slots : At(t, "note") =>
            \/ At(t, "note")' /\ req'[t].call = req[t].call
            \/ \E n \in notes'[HubOf(t)] : n.auth = CallOf(t).auth
      BY <3>1, <3>2 DEF At
    <3>4. \A g \in Hubs : notes[g] \subseteq notes'[g]
      BY <1>2, <1>4, <2>4 DEF TablesTyped
    <3>5. now' = now /\ \A g \in Hubs : now[g] <= now'[g]
      BY <1>5 DEF ledgerVars, RequestsTyped
    <3>. QED BY <1>4, <1>5, <3>3, <3>4, <3>5, NotedStays DEF RequestsTyped
  <2>. QED BY <1>6, <2>6, <2>9, <2>10, <2>11
<1>. QED BY <1>10, <1>11, <1>12

\* The charge.  A redemption's charge is its first, so no note is older than it.
LEMMA ChargeAnswered ==
  ASSUME ChargesInv, ChargesInv', AnswersInv, Grows, NEW s \in Slots, req[s].phase \in Phases, At(s, "settle"),
         SettleAuth(s)
  PROVE  Sound(req[s])' /\ TablesTyped' /\ RowsCharged' /\ RecordsSound' /\ NoRetiredKeyPays' /\ NotedSoon'
<1>. DEFINE c == CallOf(s)
            h == HubOf(s)
            n == Len(journal[h])
<1>1. RequestsTyped /\ RequestsTyped' /\ JournalTyped /\ AllLedgersInv
      /\ TablesTyped /\ RowsCharged /\ RecordsSound /\ NoRetiredKeyPays /\ NotedSoon
  BY DEF ChargesInv, AnswersInv
<1>2. /\ req[s] \in RequestType /\ req \in [Slots -> Requests] /\ req[s] # Idle
      /\ c \in Calls /\ h \in Hubs /\ c.auth \in Auths /\ c.auth.payer \in Agents
      /\ c = req[s].call /\ h = c.hub
  BY <1>1, CallTyped DEF RequestsTyped, HubOf, CallOf
<1>3. Sound(req[s]) /\ Shown(c) /\ TermsMet(c)
  BY <1>2 DEF AnswersInv, RequestsAreSound, Sound, At, Verified
<1>4. UNCHANGED <<tip, first, notes, fresh, cut, now>>
  BY <1>1, SettleAuthSteps
<1>5. now' \in [Hubs -> Nat] /\ \A g \in Hubs : now[g] <= now'[g]
  BY <1>1, <1>4 DEF RequestsTyped
<1>6. \A t \in Slots : t # s => req'[t] = req[t]
  <2>1. Goto(s, "note") \/ Goto(s, "conflict") \/ \E o : Finish(s, o)
    BY <1>1, SettleAuthSteps
  <2>. QED BY <1>2, <2>1 DEF Goto, Finish
<1>7. TablesTyped'
  BY <1>1, <1>4 DEF TablesTyped
<1>8. CASE UNCHANGED <<ledgerVars, journal>> /\ (Goto(s, "conflict") \/ \E o : Finish(s, o) /\ o # "success")
  <2>1. \/ req'[s].phase = "conflict"
        \/ req'[s].phase = "done" /\ req'[s].outcome # "success"
    BY <1>2, <1>8 DEF Goto, Finish, RequestType
  <2>2. req'[s].call = c
    BY <1>2, <1>8 DEF Goto, Finish, RequestType
  <2>3. Sound(req[s])'
    BY <1>2, <1>3, <1>4, <2>1, <2>2 DEF Sound, Shown, TermsMet
  <2>4. RowsCharged' /\ RecordsSound' /\ NoRetiredKeyPays'
    BY <1>1, <1>4, <1>8, TablesStay DEF ledgerVars
  <2>5. NotedSoon'
    <3>1. \A t \in Slots : At(t, "note") => At(t, "note")' /\ req'[t].call = req[t].call
      BY <1>6 DEF At
    <3>. QED BY <1>1, <1>4, <1>5, <1>8, <3>1, NotedStays
  <2>. QED BY <1>7, <2>3, <2>4, <2>5
<1>9. CASE Charges(s) /\ IF c.op = "redeem" THEN Goto(s, "note") ELSE Finish(s, "success")
  <2>. DEFINE e == [auth |-> c.auth, key |-> c.key, bind |-> BindOf(c), via |-> c.via, at |-> now[h]]
  <2>1. /\ n \in Nat /\ DOMAIN journal[h] = 1 .. n /\ DOMAIN journal'[h] = 1 .. (n + 1)
        /\ \A i \in 1 .. n : journal'[h][i] = journal[h][i]
        /\ journal'[h][n + 1] = e
        /\ \A g \in Hubs : g # h => journal'[g] = journal[g]
    BY <1>1, <1>9, ChargeAppends
  <2>2. n + 1 \in DOMAIN journal'[h] /\ \A i \in DOMAIN journal'[h] : i \in DOMAIN journal[h] \/ i = n + 1
    BY <2>1
  <2>3. e.auth = c.auth /\ e.via = c.via /\ e.key = c.key
    OBVIOUS
  <2>. HIDE DEF e, n
  <2>4. \E i \in DOMAIN journal'[h] : journal'[h][i].auth = c.auth /\ journal'[h][i].via = c.via
    BY <2>1, <2>2, <2>3
  <2>5. Sound(req[s])'
    <3>1. \/ c.op = "redeem" /\ req'[s].phase = "note"
          \/ req'[s].phase = "done"
      BY <1>2, <1>9 DEF Goto, Finish, RequestType
    <3>2. req'[s].call = c
      BY <1>2, <1>9 DEF Goto, Finish, RequestType
    <3>. QED BY <1>2, <1>3, <1>4, <2>4, <3>1, <3>2 DEF Sound, Shown, TermsMet, Charged, Verified
  <2>6. /\ \A g \in Hubs \ {h} : db'[g] = db[g]
        /\ db'[h].settled = db[h].settled \cup {[auth |-> c.auth, via |-> c.via, at |-> now[h]]}
    <3>1. db' = [db EXCEPT ![h] = SettleTx(h, db[h], c.auth, BindOf(c), c.via, now[h])]
      BY <1>2, <1>9 DEF Charges, Settle
    <3>2. db \in [Hubs -> DB]
      BY <1>1 DEF AllLedgersInv
    <3>3. SettleTx(h, db[h], c.auth, BindOf(c), c.via, now[h]).settled
            = db[h].settled \cup {[auth |-> c.auth, via |-> c.via, at |-> now[h]]}
      <4>1. db[h] \in DB
        BY <1>2, <3>2
      <4>. DEFINE b == BindOf(c)
      <4>. HIDE DEF b, c, h
      <4>2. SettleTx(h, db[h], c.auth, b, c.via, now[h]).settled
              = db[h].settled \cup {[auth |-> c.auth, via |-> c.via, at |-> now[h]]}
        BY <4>1 DEF SettleTx, DB
      <4>. QED BY <4>2 DEF b
    <3>. QED BY <1>2, <3>1, <3>2, <3>3
  <2>7. RowsCharged'
    <3>1. ASSUME NEW g \in Hubs, NEW r \in db'[g].settled PROVE Charged(g, r.auth, r.via)'
      <4>1. CASE r \in db[g].settled
        BY <1>1, <3>1, <4>1, ChargedStays DEF RowsCharged
      <4>2. CASE g = h /\ r = [auth |-> c.auth, via |-> c.via, at |-> now[h]]
        BY <2>4, <4>2 DEF Charged
      <4>. QED BY <2>6, <3>1, <4>1, <4>2
    <3>2. ASSUME NEW g \in Hubs, NEW m \in notes'[g]
          PROVE  /\ Charged(g, m.auth, NoHub)'
                 /\ \A i \in DOMAIN journal'[g] : journal'[g][i].auth = m.auth => journal'[g][i].at <= m.at
      <4>1. Charged(g, m.auth, NoHub)
        BY <1>1, <1>4, <3>2 DEF RowsCharged
      <4>2. Charged(g, m.auth, NoHub)'
        BY <4>1, ChargedStays
      <4>3. ASSUME NEW i \in DOMAIN journal'[g], journal'[g][i].auth = m.auth PROVE journal'[g][i].at <= m.at
        <5>1. CASE i \in DOMAIN journal[g]
          BY <1>1, <1>4, <3>2, <4>3, <5>1 DEF RowsCharged, Grows
        <5>2. CASE g = h /\ i = n + 1
          <6>1. PICK j \in DOMAIN journal[h] : journal[h][j].auth = m.auth
            BY <4>1, <5>2 DEF Charged
          <6>2. j \in DOMAIN journal'[h] /\ journal'[h][j].auth = m.auth
            BY <1>2, <6>1 DEF Grows
          <6>3. j = i
            BY <1>2, <4>3, <5>2, <6>2 DEF ChargesInv, ChargedOnce
          <6>. QED BY <2>1, <5>2, <6>1, <6>3
        <5>. QED BY <2>1, <2>2, <4>3, <5>1, <5>2
      <4>. QED BY <4>2, <4>3
    <3>. QED BY <3>1, <3>2 DEF RowsCharged
  <2>8. RecordsSound'
    BY <1>1, <1>4 DEF RecordsSound
  <2>9. NoRetiredKeyPays'
    <3>1. <<c.auth, c.key>> \in fresh'
      BY <1>3, <1>4 DEF Shown
    <3>2. ASSUME NEW g \in Hubs, NEW i \in DOMAIN journal'[g]
          PROVE  <<journal'[g][i].auth, journal'[g][i].key>> \in fresh'
      <4>1. CASE i \in DOMAIN journal[g]
        BY <1>1, <1>4, <3>2, <4>1 DEF NoRetiredKeyPays, Grows
      <4>2. CASE g = h /\ i = n + 1
        BY <2>1, <2>3, <3>1, <4>2
      <4>. QED BY <2>1, <2>2, <3>2, <4>1, <4>2
    <3>. QED BY <3>2 DEF NoRetiredKeyPays
  <2>10. NotedSoon'
    <3>1. ASSUME NEW g \in Hubs, NEW i \in DOMAIN journal'[g], journal'[g][i].auth.payTo = g,
                 now'[g] <= journal'[g][i].at + NotesKept
          PROVE  \/ \E m \in notes'[g] : m.auth = journal'[g][i].auth
                 \/ \E t \in Slots : At(t, "note")' /\ HubOf(t)' = g /\ CallOf(t)'.auth = journal'[g][i].auth
                 \/ journal'[g][i].auth \in cut'
      <4>1. CASE i \in DOMAIN journal[g]
        <5>1. journal'[g][i] = journal[g][i]
          BY <3>1, <4>1 DEF Grows
        <5>2. \/ \E m \in notes[g] : m.auth = journal[g][i].auth
              \/ \E t \in Slots : At(t, "note") /\ HubOf(t) = g /\ CallOf(t).auth = journal[g][i].auth
              \/ journal[g][i].auth \in cut
          BY <1>1, <1>4, <3>1, <4>1, <5>1 DEF NotedSoon
        <5>3. \A t \in Slots : At(t, "note") =>
                At(t, "note")' /\ HubOf(t)' = HubOf(t) /\ CallOf(t)' = CallOf(t)
          BY <1>6 DEF At, HubOf, CallOf
        <5>. QED BY <1>4, <5>1, <5>2, <5>3
      <4>2. CASE g = h /\ i = n + 1
        <5>1. c.auth.payTo = h
          BY <2>1, <2>3, <3>1, <4>2
        <5>2. c.op = "redeem"
          BY <1>2, <1>3, <5>1 DEF TermsMet
        <5>3. req'[s].phase = "note" /\ req'[s].call = c
          BY <1>2, <1>9, <5>2 DEF Goto, RequestType
        <5>. QED BY <1>2, <2>1, <2>3, <4>2, <5>3 DEF At, HubOf, CallOf
      <4>. QED BY <2>1, <2>2, <3>1, <4>1, <4>2
    <3>. QED BY <3>1 DEF NotedSoon
  <2>. QED BY <1>7, <2>5, <2>7, <2>8, <2>9, <2>10
<1>. QED BY <1>1, <1>8, <1>9, SettleAuthSteps

\* The ledger's other operations settle nothing.
LEMMA OtherLedgerKeepsRows ==
  ASSUME AllLedgersInv, NEW h \in Hubs, OtherLedgerStep(h)
  PROVE  \A g \in Hubs : db'[g].settled \subseteq db[g].settled
<1>1. db \in [Hubs -> DB]
  BY DEF AllLedgersInv
<1>2. ASSUME NEW e, db' = [db EXCEPT ![h] = e], e.settled \subseteq db[h].settled
      PROVE  \A g \in Hubs : db'[g].settled \subseteq db[g].settled
  BY <1>1, <1>2
<1>3. CASE \E aid \in Agents, amt \in GrantAmounts : GrantCredit(h, aid, amt)
  <2>1. PICK aid \in Agents, amt \in GrantAmounts : GrantCredit(h, aid, amt)
    BY <1>3
  <2>2. IssueTx(db[h], aid, amt).settled = db[h].settled
    BY <1>1 DEF IssueTx, DB
  <2>. QED BY <1>2, <2>1, <2>2 DEF GrantCredit
<1>4. CASE \E aid \in Agents : Register(h, aid) \/ Deregister(h, aid)
  <2>1. PICK A : db' = [db EXCEPT ![h] = [db[h] EXCEPT !.registered = A]]
    BY <1>1, <1>4 DEF Register, Deregister
  <2>2. [db[h] EXCEPT !.registered = A].settled = db[h].settled
    BY <1>1 DEF DB
  <2>. QED BY <1>2, <2>1, <2>2
<1>5. CASE PruneLedger(h)
  <2>1. /\ PruneSettled(db[h], now[h]).settled \subseteq db[h].settled
        /\ PruneGuard(db[h], now[h]).settled = db[h].settled
        /\ PruneCleared(db[h], now[h]).settled = db[h].settled
    BY <1>1 DEF PruneSettled, PruneGuard, PruneCleared, DB
  <2>. QED BY <1>2, <1>5, <2>1 DEF PruneLedger
<1>. QED BY <1>3, <1>4, <1>5 DEF OtherLedgerStep

\* The requests of the slots that a step leaves alone, or cuts, stay sound.
LEMMA OthersSound ==
  ASSUME RequestsTyped, RequestsTyped', Grows, RequestsAreSound,
         \A s \in Slots : req'[s] \in {req[s], Idle} \/ Sound(req[s])'
  PROVE  RequestsAreSound'
<1>. SUFFICES ASSUME NEW s \in Slots, req'[s] # Idle PROVE Sound(req[s])'
  BY DEF RequestsAreSound
<1>1. CASE req'[s] = req[s]
  BY <1>1, SoundStays DEF RequestsAreSound
<1>. QED BY <1>1

\* Nothing is asked, charged or noted at the start.
LEMMA AnswersInit == FacilitatorInit => AnswersInv
<1>. SUFFICES ASSUME FacilitatorInit PROVE AnswersInv
  OBVIOUS
<1>1. \A h \in Hubs : journal[h] = <<>> /\ DOMAIN journal[h] = {}
  BY DEF FacilitatorInit
<1>2. \A h \in Hubs : db[h].settled = {} /\ notes[h] = {} /\ first[h] = {}
  BY DEF FacilitatorInit, LedgerInit, EmptyDB
<1>3. TablesTyped /\ RequestsAreSound
  BY DEF FacilitatorInit, TablesTyped, RequestsAreSound
<1>4. RowsCharged /\ RecordsSound /\ NotedSoon /\ NoRetiredKeyPays
  BY <1>1, <1>2 DEF RowsCharged, RecordsSound, NotedSoon, NoRetiredKeyPays
<1>. QED BY <1>3, <1>4 DEF AnswersInv

\* Every step keeps the answers sound.
LEMMA AnswersStep == ChargesInv /\ ChargesInv' /\ AnswersInv /\ [FacilitatorNext]_vars => AnswersInv'
<1>. SUFFICES ASSUME ChargesInv, ChargesInv', AnswersInv, [FacilitatorNext]_vars PROVE AnswersInv'
  OBVIOUS
<1>1. /\ RequestsTyped /\ RequestsTyped' /\ JournalTyped /\ AllLedgersInv /\ Grows
      /\ TablesTyped /\ RequestsAreSound /\ RowsCharged /\ RecordsSound /\ NotedSoon /\ NoRetiredKeyPays
  BY StepGrows DEF ChargesInv, AnswersInv
<1>2. now \in [Hubs -> Nat] /\ now' \in [Hubs -> Nat] /\ req \in [Slots -> Requests]
  BY <1>1 DEF RequestsTyped
\* A step that charges nobody and adds no row.
<1>3. ASSUME UNCHANGED journal, \A h \in Hubs : now[h] <= now'[h], cut \subseteq cut', TablesTyped',
             \A h \in Hubs : /\ db'[h].settled \subseteq db[h].settled
                             /\ notes'[h] \subseteq notes[h] /\ first'[h] \subseteq first[h]
                             /\ \A n \in notes[h] : n \in notes'[h] \/ n.at + NotesKept < now'[h],
             \A s \in Slots : At(s, "note") =>
               (At(s, "note")' /\ req'[s].call = req[s].call) \/ CallOf(s).auth \in cut',
             \A s \in Slots : req'[s] \in {req[s], Idle} \/ Sound(req[s])'
      PROVE  AnswersInv'
  <2>1. RowsCharged' /\ RecordsSound' /\ NoRetiredKeyPays'
    BY <1>1, <1>3, TablesStay
  <2>2. NotedSoon'
    BY <1>1, <1>2, <1>3, NotedStays
  <2>3. RequestsAreSound'
    BY <1>1, <1>3, OthersSound
  <2>. QED BY <1>3, <2>1, <2>2, <2>3 DEF AnswersInv
<1>4. CASE UNCHANGED vars
  <2>1. TablesTyped' /\ UNCHANGED <<req, journal, now, db, notes, first, cut>>
    BY <1>1, <1>4 DEF vars, ledgerVars, ownVars, TablesTyped
  <2>. QED BY <1>2, <1>3, <2>1 DEF At
<1>5. ASSUME NEW s \in Slots, NEW c \in Calls, Arrive(s, c) PROVE AnswersInv'
  <2>1. /\ UNCHANGED <<ledgerVars, tip, first, notes, journal, cut>>
        /\ req[s] = Idle /\ \A t \in Slots \ {s} : req'[t] = req[t]
        /\ req'[s].call = c
    BY <1>1, <1>5, ArriveTyped DEF Arrive
  <2>2. /\ req'[s].phase = IF c.op = "redeem" THEN "payer" ELSE "payee"
        /\ fresh' = IF c.key < tip[c.hub][c.auth.payer] THEN fresh ELSE fresh \cup {<<c.auth, c.key>>}
    BY <1>2, <1>5 DEF Arrive
  <2>3. Sound(req[s])'
    BY <2>1, <2>2 DEF Sound, Shown, Verified
  <2>4. TablesTyped'
    BY <1>1, <2>1 DEF TablesTyped
  <2>5. \A t \in Slots : At(t, "note") => At(t, "note")' /\ req'[t].call = req[t].call
    BY <2>1 DEF At, Idle
  <2>. QED BY <1>2, <1>3, <2>1, <2>3, <2>4, <2>5 DEF ledgerVars
<1>6. ASSUME NEW s \in Slots, RequestStep(s) PROVE AnswersInv'
  <2>1. req[s].phase \in Phases
    BY <1>6, StepsOfRequests
  <2>2. Sound(req[s])
    BY <1>1, <2>1, CallTyped DEF RequestsAreSound
  <2>3. CASE \/ PayeeCheck(s) \/ VerifyPayer(s) \/ RepeatOf(s) \/ AuthSettled(s) \/ GuardCheck(s)
             \/ RedemptionOf(s) \/ KeyAtFirstVerify(s) \/ BalanceCheck(s) \/ SettleConflict(s)
             \/ RecordRedemption(s)
    <3>1. Sound(req[s])'
      BY <1>1, <2>2, <2>3, QuietStepSound
    <3>2. TablesTyped' /\ RowsCharged' /\ RecordsSound' /\ NoRetiredKeyPays' /\ NotedSoon'
      BY <1>1, <2>2, <2>3, QuietTables
    <3>3. \A t \in Slots : t # s => req'[t] = req[t]
      BY <1>2, <2>3 DEF PayeeCheck, VerifyPayer, RepeatOf, AuthSettled, GuardCheck, RedemptionOf,
                        KeyAtFirstVerify, BalanceCheck, SettleConflict, RecordRedemption, Goto, Finish
    <3>4. RequestsAreSound'
      BY <1>1, <3>1, <3>3, OthersSound
    <3>. QED BY <3>2, <3>4 DEF AnswersInv
  <2>4. CASE SettleAuth(s)
    <3>1. At(s, "settle")
      BY <2>4 DEF SettleAuth
    <3>2. Sound(req[s])' /\ TablesTyped' /\ RowsCharged' /\ RecordsSound' /\ NoRetiredKeyPays' /\ NotedSoon'
      BY <1>1, <2>1, <2>4, <3>1, ChargeAnswered
    <3>3. Goto(s, "note") \/ Goto(s, "conflict") \/ \E o : Finish(s, o)
      BY <1>1, <2>4, SettleAuthSteps
    <3>4. \A t \in Slots : t # s => req'[t] = req[t]
      BY <1>2, <3>3 DEF Goto, Finish
    <3>5. RequestsAreSound'
      BY <1>1, <3>2, <3>4, OthersSound
    <3>. QED BY <3>2, <3>5 DEF AnswersInv
  <2>5. CASE Release(s)
    <3>1. /\ UNCHANGED <<ledgerVars, tip, first, notes, journal, cut>>
          /\ req[s].phase = "done" /\ req'[s] = Idle /\ \A t \in Slots \ {s} : req'[t] = req[t]
      BY <1>2, <2>5 DEF Release, At
    <3>2. TablesTyped'
      BY <1>1, <3>1 DEF TablesTyped
    <3>3. \A t \in Slots : At(t, "note") => At(t, "note")' /\ req'[t].call = req[t].call
      BY <3>1 DEF At
    <3>. QED BY <1>2, <1>3, <3>1, <3>2, <3>3 DEF ledgerVars
  <2>. QED BY <1>6, <2>3, <2>4, <2>5 DEF RequestStep
<1>7. ASSUME NEW h \in Hubs, NEW aid \in Agents, Rotate(h, aid) PROVE AnswersInv'
  <2>1. UNCHANGED <<ledgerVars, req, first, notes, journal, cut>>
    BY <1>7 DEF Rotate
  <2>2. TablesTyped'
    BY <1>1, <2>1 DEF TablesTyped
  <2>. QED BY <1>2, <1>3, <2>1, <2>2 DEF ledgerVars, At
<1>8. ASSUME NEW h \in Hubs, Crash(h) PROVE AnswersInv'
  <2>1. UNCHANGED <<ledgerVars, tip, first, notes, journal, fresh>>
    BY <1>8 DEF Crash
  <2>2. /\ \A s \in Slots : req'[s] = IF req[s] # Idle /\ HubOf(s) = h THEN Idle ELSE req[s]
        /\ cut' = cut \cup {CallOf(s).auth : s \in {x \in Slots : At(x, "note") /\ HubOf(x) = h}}
    BY <1>8 DEF Crash
  <2>3. \A s \in Slots : At(s, "note") =>
          (At(s, "note")' /\ req'[s].call = req[s].call) \/ CallOf(s).auth \in cut'
    BY <2>2 DEF At
  <2>4. \A s \in Slots : At(s, "note") => CallOf(s).auth \in Auths
    BY <1>1, CallTyped DEF At, Phases
  <2>5. TablesTyped'
    BY <1>1, <2>1, <2>2, <2>4 DEF TablesTyped
  <2>. QED BY <1>2, <1>3, <2>1, <2>2, <2>3, <2>5 DEF ledgerVars
<1>9. ASSUME NEW h \in Hubs, PruneNotes(h) PROVE AnswersInv'
  <2>1. UNCHANGED <<ledgerVars, req, tip, first, journal, fresh, cut>>
    BY <1>9 DEF PruneNotes
  <2>2. \A g \in Hubs : notes'[g] = IF g = h THEN {n \in notes[h] : n.at >= now[h] - NotesKept} ELSE notes[g]
    BY <1>1, <1>9 DEF PruneNotes, TablesTyped
  <2>3. \A g \in Hubs : \A n \in notes[g] : n \in notes'[g] \/ n.at + NotesKept < now'[g]
    <3>. SUFFICES ASSUME NEW g \in Hubs, NEW n \in notes[g], n \notin notes'[g]
                  PROVE  n.at + NotesKept < now'[g]
      OBVIOUS
    <3>1. n.at \in Nat /\ now[g] \in Nat /\ NotesKept \in Nat
      BY <1>1, <1>2, FacilitatorAssumption DEF TablesTyped
    <3>2. g = h /\ ~(n.at >= now[g] - NotesKept)
      BY <2>2
    <3>. QED BY <2>1, <3>1, <3>2 DEF ledgerVars
  <2>4. TablesTyped'
    <3>1. notes' \in [Hubs -> SUBSET [auth: Auths, at: Nat]]
      BY <1>1, <1>9 DEF PruneNotes, TablesTyped
    <3>. QED BY <1>1, <2>1, <3>1 DEF TablesTyped
  <2>5. \A g \in Hubs : notes'[g] \subseteq notes[g]
    BY <2>2
  <2>. QED BY <1>2, <1>3, <2>1, <2>3, <2>4, <2>5 DEF ledgerVars, At
<1>10. ASSUME NEW h \in Hubs, PruneFirstVerify(h) PROVE AnswersInv'
  <2>1. UNCHANGED <<ledgerVars, req, tip, notes, journal, fresh, cut>>
    BY <1>10 DEF PruneFirstVerify
  <2>2. \A g \in Hubs : first'[g] \subseteq first[g]
    BY <1>1, <1>10 DEF PruneFirstVerify, TablesTyped
  <2>3. TablesTyped'
    <3>1. first' \in [Hubs -> SUBSET [auth: Auths, key: Nat, tip: BOOLEAN]]
      BY <1>1, <1>10 DEF PruneFirstVerify, TablesTyped
    <3>. QED BY <1>1, <2>1, <3>1 DEF TablesTyped
  <2>. QED BY <1>2, <1>3, <2>1, <2>2, <2>3 DEF ledgerVars, At
<1>11. ASSUME NEW h \in Hubs, FacilitatorTick(h) PROVE AnswersInv'
  <2>1. now' = [now EXCEPT ![h] = now[h] + 1] /\ UNCHANGED <<db, req, first, notes, journal, cut>>
    BY <1>11 DEF FacilitatorTick, Tick, ownVars
  <2>2. \A g \in Hubs : now[g] <= now'[g]
    BY <1>2, <2>1
  <2>3. TablesTyped'
    BY <1>1, <2>1 DEF TablesTyped
  <2>. QED BY <1>3, <2>1, <2>2, <2>3 DEF At
<1>12. ASSUME NEW h \in Hubs, OtherLedgerStep(h) PROVE AnswersInv'
  <2>1. UNCHANGED <<now, req, first, notes, journal, cut>>
    BY <1>1, <1>12, OtherLedgerRows DEF OtherLedgerStep, ownVars
  <2>2. \A g \in Hubs : db'[g].settled \subseteq db[g].settled
    BY <1>1, <1>12, OtherLedgerKeepsRows
  <2>3. TablesTyped'
    BY <1>1, <2>1 DEF TablesTyped
  <2>. QED BY <1>2, <1>3, <2>1, <2>2, <2>3 DEF At
<1>. QED BY <1>4, <1>5, <1>6, <1>7, <1>8, <1>9, <1>10, <1>11, <1>12 DEF FacilitatorNext

\* The invariant holds in every reachable state.
THEOREM AnswersInvariant == FacilitatorSpec => []AnswersInv
BY AnswersInit, AnswersStep, ChargesInvariant, PTL DEF FacilitatorSpec

\* The types, and the notes of redemptions: a redemption that was charged has its note, or a
\* request that is about to write it, or was cut by a crash, and no note is of credit that
\* was not taken (Redeem's two transactions).
THEOREM FacilitatorRequestsSound == FacilitatorSpec => []RequestsSound
<1>1. ChargesInv /\ AnswersInv => FacilitatorTypeOK
  BY DEF ChargesInv, AnswersInv, FacilitatorTypeOK, RequestsTyped, JournalTyped, TablesTyped, Requests, Charge
<1>2. AnswersInv => RedemptionsNoted
  <2>1. ASSUME RowsCharged, NEW h \in Hubs, NEW n \in notes[h]
        PROVE  \E i \in DOMAIN journal[h] : journal[h][i].auth = n.auth
    BY <2>1 DEF RowsCharged, Charged
  <2>. QED BY <2>1 DEF AnswersInv, NotedSoon, RedemptionsNoted
<1>. QED BY <1>1, <1>2, ChargesInvariant, AnswersInvariant, PTL DEF RequestsSound

\* A success names a charge made for its caller, on terms that meet the ones it asked for, however the
\* request came by it: the charge itself, a row of it, or a note of its redemption.
THEOREM FacilitatorSuccessMeansPaid == FacilitatorSpec => []SuccessMeansPaid
<1>1. ChargesInv /\ AnswersInv => SuccessMeansPaid
  <2>. SUFFICES ASSUME ChargesInv, AnswersInv, NEW s \in Slots, Answered(s, "success")
                PROVE  \E i \in DOMAIN journal[HubOf(s)] :
                         LET e == journal[HubOf(s)][i]  c == CallOf(s) IN
                         /\ e.auth = c.auth /\ e.via = c.via /\ c.auth.network = c.hub
                         /\ IF c.op = "redeem" THEN e.auth.payTo = c.hub
                            ELSE e.auth.payTo = c.ask.payTo /\ e.auth.amount >= c.ask.amount
    BY DEF SuccessMeansPaid
  <2>1. req[s] # Idle /\ req[s].phase = "done" /\ req[s].outcome = "success"
    <3>1. req[s].phase \in Phases
      BY DEF Answered, At, Phases
    <3>. QED BY <3>1, CallTyped DEF ChargesInv, Answered, At
  <2>2. TermsMet(CallOf(s)) /\ Charged(HubOf(s), CallOf(s).auth, CallOf(s).via)
    BY <2>1 DEF AnswersInv, RequestsAreSound, Sound, HubOf, CallOf
  <2>. QED BY <2>2 DEF TermsMet, Charged
<1>. QED BY <1>1, ChargesInvariant, AnswersInvariant, PTL

\* A step of a request that ends in an answer.
LEMMA AnsweringSteps ==
  ASSUME ChargesInv, AnswersInv, [FacilitatorNext]_vars, NEW s \in Slots, NEW o \in Reasons, Answering(s, o)
  PROVE  /\ req[s].phase \in Phases /\ Sound(req[s]) /\ RequestStep(s)
         /\ CallOf(s)' = CallOf(s) /\ HubOf(s)' = HubOf(s)
<1>1. RequestsTyped /\ RequestsAreSound /\ req \in [Slots -> Requests]
  BY DEF ChargesInv, AnswersInv, RequestsTyped
<1>2. req'[s].phase = "done" /\ req'[s].outcome = o /\ req[s].phase # "done"
  BY DEF Answering, Answered, At
<1>3. req'[s] # req[s] /\ req'[s] # Idle
  BY <1>2 DEF Idle
<1>4. ASSUME NEW t \in Slots, NEW c \in Calls, Arrive(t, c) PROVE FALSE
  <2>1. \A x \in Slots \ {t} : req'[x] = req[x]
    BY <1>1, <1>4, ArriveTyped
  <2>2. req'[t].phase \in {"payer", "payee"}
    BY <1>1, <1>4 DEF Arrive
  <2>. QED BY <1>2, <1>3, <2>1, <2>2
<1>5. ASSUME NEW h \in Hubs,
             \/ \E aid \in Agents : Rotate(h, aid)
             \/ Crash(h) \/ PruneNotes(h) \/ PruneFirstVerify(h) \/ FacilitatorTick(h) \/ OtherLedgerStep(h)
      PROVE  FALSE
  <2>1. req'[s] \in {req[s], Idle}
    BY <1>1, <1>5, OtherSteps DEF FacilitatorTick, OtherLedgerStep, ownVars
  <2>. QED BY <1>3, <2>1
<1>6. ~UNCHANGED vars
  BY <1>3 DEF vars, ownVars
<1>7. PICK t \in Slots : RequestStep(t)
  BY <1>4, <1>5, <1>6 DEF FacilitatorNext
<1>8. req[t].phase \in Phases
  BY <1>7, StepsOfRequests
<1>9. \/ Moves(t)
      \/ req' = [req EXCEPT ![t] = Idle]
  BY <1>1, <1>7, <1>8, RequestSteps DEF QuietMove
<1>10. CASE Moves(t)
  <2>1. /\ \A x \in Slots \ {t} : req'[x] = req[x]
        /\ req'[t].call = req[t].call
    BY <1>1, <1>8, <1>10, MovesTyped
  <2>2. s = t
    BY <1>3, <2>1
  <2>3. req[s] # Idle
    BY <1>1, <1>8, <2>2, CallTyped
  <2>. QED BY <1>1, <1>7, <1>8, <2>1, <2>2, <2>3 DEF RequestsAreSound, HubOf, CallOf
<1>11. CASE req' = [req EXCEPT ![t] = Idle]
  BY <1>1, <1>3, <1>11
<1>. QED BY <1>9, <1>10, <1>11

\* A settlement refused for the task or for the credit has not been charged: the checks of
\* settleAuth come after the look for a repeat, in one transaction.
THEOREM FacilitatorRefusedUncharged == FacilitatorSpec => RefusedUncharged
<1>. DEFINE Refused == \A s \in Slots : \A o \in {"duplicate_binding", "insufficient_funds"} :
              Answering(s, o) /\ CallOf(s).op # "verify" => ~IsSettled(db[HubOf(s)], CallOf(s).auth)
<1>1. ASSUME ChargesInv, AnswersInv, [FacilitatorNext]_vars PROVE Refused
  <2>. SUFFICES ASSUME NEW s \in Slots, NEW o \in {"duplicate_binding", "insufficient_funds"},
                       Answering(s, o), CallOf(s).op # "verify"
                PROVE  ~IsSettled(db[HubOf(s)], CallOf(s).auth)
    OBVIOUS
  <2>1. o \in Reasons
    BY DEF Reasons
  <2>2. req[s].phase \in Phases /\ Sound(req[s]) /\ RequestStep(s)
    BY <1>1, <2>1, AnsweringSteps
  <2>3. req'[s].phase = "done" /\ req'[s].outcome = o
    BY DEF Answering, Answered, At
  <2>4. req \in [Slots -> Requests] /\ req[s] \in RequestType /\ RequestsTyped
    BY <1>1, <2>2, CallTyped DEF ChargesInv, RequestsTyped
  <2>5. ASSUME NEW p, Goto(s, p) PROVE req'[s].phase = p
    BY <2>4, <2>5 DEF Goto, RequestType
  <2>6. ASSUME NEW a, Finish(s, a) PROVE req'[s].outcome = a
    BY <2>4, <2>6 DEF Finish, RequestType
  <2>7. ~(GuardCheck(s) \/ BalanceCheck(s))
    BY <2>2 DEF GuardCheck, BalanceCheck, At, Sound, CallOf
  <2>8. ~PayeeCheck(s)
    <3>1. PayeeRefusal(CallOf(s)) \notin {"duplicate_binding", "insufficient_funds"}
      BY DEF PayeeRefusal, LocalPayee, ForwardedPayee
    <3>. QED BY <2>3, <2>5, <2>6, <3>1 DEF PayeeCheck
  <2>9. ~VerifyPayer(s)
    <3>1. parseAuth(CallOf(s).auth) \notin {"duplicate_binding", "insufficient_funds"}
      BY DEF parseAuth
    <3>2. PayerCheck(CallOf(s)) \notin {"duplicate_binding", "insufficient_funds"}
      BY <3>1 DEF PayerCheck, verifiedAuth
    <3>3. TermsRefusal(CallOf(s)) \notin {"duplicate_binding", "insufficient_funds"}
      BY DEF TermsRefusal, CheckRequirements
    <3>4. ASSUME VerifyPayer(s)
          PROVE  \/ req'[s].phase \in {"spent", "noted", "repeat"}
                 \/ req'[s].outcome \in {PayerCheck(CallOf(s)), TermsRefusal(CallOf(s))}
      BY <2>4, <3>4 DEF VerifyPayer, AfterTerms, RequestType
    <3>. QED BY <2>3, <3>2, <3>3, <3>4
  <2>10. ~(RepeatOf(s) \/ AuthSettled(s) \/ RedemptionOf(s) \/ SettleConflict(s) \/ RecordRedemption(s))
    BY <2>3, <2>5, <2>6 DEF RepeatOf, RepeatAnswer, AuthSettled, RedemptionOf, SettleConflict, RecordRedemption
  <2>11. ~KeyAtFirstVerify(s)
    <3>1. ASSUME KeyAtFirstVerify(s)
          PROVE  \/ Goto(s, AfterWindow(CallOf(s).op))
                 \/ \E a \in {"expired_payment", "settlement_failed", "invalid_signature"} : Finish(s, a)
      BY <3>1 DEF KeyAtFirstVerify
    <3>2. AfterWindow(CallOf(s).op) # "done"
      BY DEF AfterWindow
    <3>. QED BY <2>3, <2>5, <2>6, <3>1, <3>2
  <2>12. ~Release(s)
    <3>1. Release(s) => req'[s] = Idle
      BY <2>4 DEF Release
    <3>. QED BY <2>3, <3>1 DEF Idle
  <2>13. SettleAuth(s)
    BY <2>2, <2>7, <2>8, <2>9, <2>10, <2>11, <2>12 DEF RequestStep
  <2>14. SettleOutcome(HubOf(s), db[HubOf(s)], CallOf(s).auth, BindOf(CallOf(s)), CallOf(s).via, now[HubOf(s)]) = o
    BY <2>3, <2>5, <2>6, <2>13 DEF SettleAuth, HubOf, CallOf
  <2>. QED BY <2>14 DEF SettleOutcome
<1>2. [FacilitatorNext]_vars /\ ChargesInv /\ AnswersInv => [Refused]_vars
  BY <1>1
<1>. QED BY <1>2, ChargesInvariant, AnswersInvariant, PTL DEF RefusedUncharged, FacilitatorSpec

\* No key that was rotated away before it was shown pays, and no rotation turns away what was
\* recorded while the key was current (keyAtFirstVerify, KEL H-40 and H-42).
THEOREM FacilitatorKeysDecide == FacilitatorSpec => KeysDecide
<1>. DEFINE Kept == \A s \in Slots : Answering(s, "invalid_signature") =>
                      ~FirstVerifyOf(HubOf(s), CallOf(s).auth, CallOf(s).key)
<1>1. ASSUME ChargesInv, AnswersInv, [FacilitatorNext]_vars PROVE Kept
  <2>. SUFFICES ASSUME NEW s \in Slots, Answering(s, "invalid_signature"),
                       FirstVerifyOf(HubOf(s), CallOf(s).auth, CallOf(s).key)
                PROVE  FALSE
    OBVIOUS
  <2>. DEFINE c == CallOf(s)
              h == HubOf(s)
  <2>1. "invalid_signature" \in Reasons
    BY DEF Reasons
  <2>2. req[s].phase \in Phases /\ RequestStep(s)
    BY <1>1, <2>1, AnsweringSteps
  <2>3. req'[s].phase = "done" /\ req'[s].outcome = "invalid_signature"
    BY DEF Answering, Answered, At
  <2>4. /\ req \in [Slots -> Requests] /\ req[s] \in RequestType /\ RequestsTyped
        /\ c \in Calls /\ h \in Hubs /\ c.key \in Nat /\ c.auth.payer \in Agents
        /\ tip[h][c.auth.payer] \in Nat /\ h = c.hub
    BY <1>1, <2>2, CallTyped DEF ChargesInv, RequestsTyped, HubOf, CallOf
  <2>5. c.key <= tip[h][c.auth.payer]
    BY <1>1, <2>4 DEF AnswersInv, RecordsSound, FirstVerifyOf
  <2>6. ASSUME NEW p, Goto(s, p) PROVE req'[s].phase = p
    BY <2>4, <2>6 DEF Goto, RequestType
  <2>7. ASSUME NEW a, Finish(s, a) PROVE req'[s].outcome = a
    BY <2>4, <2>7 DEF Finish, RequestType
  <2>8. ~PayeeCheck(s)
    BY <2>3, <2>6, <2>7, RefusalsRefuse DEF PayeeCheck
  <2>9. ~VerifyPayer(s)
    <3>1. PayerCheck(c) # "invalid_signature" /\ TermsRefusal(c) # "invalid_signature"
      BY <2>4, <2>5, RefusalsRefuse
    <3>2. ASSUME VerifyPayer(s)
          PROVE  \/ req'[s].phase \in {"spent", "noted", "repeat"}
                 \/ req'[s].outcome \in {PayerCheck(c), TermsRefusal(c)}
      BY <2>4, <3>2 DEF VerifyPayer, AfterTerms, RequestType
    <3>. QED BY <2>3, <3>1, <3>2
  <2>10. ~(\/ RepeatOf(s) \/ AuthSettled(s) \/ GuardCheck(s) \/ RedemptionOf(s) \/ BalanceCheck(s)
           \/ SettleConflict(s) \/ RecordRedemption(s))
    BY <2>3, <2>6, <2>7 DEF RepeatOf, RepeatAnswer, AuthSettled, GuardCheck, RedemptionOf, BalanceCheck,
                            SettleConflict, RecordRedemption
  <2>11. ~Release(s)
    <3>1. Release(s) => req'[s] = Idle
      BY <2>4 DEF Release
    <3>. QED BY <2>3, <3>1 DEF Idle
  <2>12. ~SettleAuth(s)
    <3>1. ASSUME SettleAuth(s)
          PROVE  \/ \E p \in {"note", "conflict"} : Goto(s, p)
                 \/ \E a : Finish(s, a) /\ a # "invalid_signature"
      BY <3>1, RefusalsRefuse DEF SettleAuth
    <3>. QED BY <2>3, <2>6, <2>7, <3>1
  <2>13. ~KeyAtFirstVerify(s)
    <3>1. FirstVerifyRow(h, c.auth)
      BY DEF FirstVerifyRow, FirstVerifyOf
    <3>2. ASSUME KeyAtFirstVerify(s)
          PROVE  \/ Goto(s, AfterWindow(c.op))
                 \/ Finish(s, "expired_payment")
      BY <2>4, <3>1, <3>2 DEF KeyAtFirstVerify, KeyAccepted
    <3>3. AfterWindow(c.op) # "done"
      BY DEF AfterWindow
    <3>. QED BY <2>3, <2>6, <2>7, <3>2, <3>3
  <2>. QED BY <2>2, <2>8, <2>9, <2>10, <2>11, <2>12, <2>13 DEF RequestStep
<1>2. [FacilitatorNext]_vars /\ ChargesInv /\ AnswersInv => [Kept]_vars
  BY <1>1
<1>3. AnswersInv => NoRetiredKeyPays
  BY DEF AnswersInv
<1>4. FacilitatorSpec => []NoRetiredKeyPays
  BY <1>3, AnswersInvariant, PTL
<1>5. FacilitatorSpec => RotationKeepsVerified
  BY <1>2, ChargesInvariant, AnswersInvariant, PTL DEF RotationKeepsVerified, FacilitatorSpec
<1>. QED BY <1>4, <1>5, PTL DEF KeysDecide
=============================================================================
