--------------------------- MODULE ClearingProofs ---------------------------
(***************************************************************************)
(* Proofs about two hubs clearing against each other: the types, the       *)
(* soundness of the ledgers they share payments between, and that an       *)
(* authorization is credited once.                                         *)
(*                                                                         *)
(* The last needs three facts that hold together.  An authorization is     *)
(* charged once, because its row outlives the time in which it can be      *)
(* charged (ChargesInv, Spent).  So every receipt for it carries one date, *)
(* whether it is on its way or would be made again from the row (Stamped). *)
(* So a hub that credited it either has the row of the clearing or no      *)
(* receipt that can still come is young enough to be cleared, because that *)
(* row outlives the receipt's age limit (CreditsInv, NoMoreCredit).  And a *)
(* payment it forwarded that was charged is never refused for good: its    *)
(* retry gets the receipt of the row (ChargedNotRefused).                  *)
(*                                                                         *)
(* Last, the two books of a debt between hubs agree, and a discharge its   *)
(* creditor accepted can be booked by its debtor.  What is between the     *)
(* books is a set of charges and a set of statements, and their worth      *)
(* counts coins, as the ledger's total does: each step moves one element   *)
(* in or out and one row by its amount.  That it is one element rests on   *)
(* the payments (PaymentsInv: an authorization is charged and credited     *)
(* once) and on the statements' ids (StatementsInv: the id of a statement  *)
(* that is still asked for is in no hub's table).                          *)
(***************************************************************************)
EXTENDS Clearing, CreditLedgerProofs

Requested == [phase: {"request"}, pay: Payments, waiting: BOOLEAN]
Result == [result: {"success"}, receipt: ReceiptType] \cup [result: Refusals, receipt: {NoReceipt}]
Replied == [phase: {"answer"}, pay: Payments, waiting: BOOLEAN, answer: Result]

Asking == [phase: {"request"}, st: Statement]
ClearAnswered == [phase: {"answer"}, st: Statement, accepted: BOOLEAN]

\* A payment that passed the entry hub's checks: its payee is an agent there, its ledger
\* another hub's, and it is worth what it asks.
Forwardable(p) ==
  /\ p.ask.payTo \in Agents /\ Owner(p) # p.entry
  /\ parseAuth(p.auth) = "ok" /\ CheckRequirements(p.auth, p.offer, p.ask) = "ok"

ClearingTypes ==
  /\ AllLedgersInv /\ ClearingTypeOK
  /\ \A s \in Slots : fwd[s] # Idle => Forwardable(fwd[s].pay)

-----------------------------------------------------------------------------
(* Types.                                                                   *)

LEMMA PaymentTyped ==
  ASSUME NEW p \in Payments
  PROVE  /\ p.entry \in Hubs /\ p.auth \in Auths /\ Owner(p) \in Hubs
         /\ p.auth.notAfter \in Nat /\ p.auth.bind \in Binds \cup {NoBind}
         /\ p.auth.amount \in 0 .. MaxUint /\ p.auth.payTo \in Agents \cup Hubs
         /\ \A at \in Int : ReceiptOf(p.auth, at) \in ReceiptType
<1>1. p \in PaymentType /\ p.auth \in AuthType
  BY ClearingAssumption, LedgerAssumption DEF PaymentType
<1> QED BY <1>1 DEF PaymentType, AuthType, Owner, ReceiptOf, ReceiptType

LEMMA ExchangeForms ==
  ASSUME ClearingTypeOK, NEW s \in Slots
  PROVE  /\ fwd[s].phase = "request" => fwd[s] \in Requested
         /\ fwd[s].phase = "answer" => fwd[s] \in Replied
         /\ fwd[s] \in Requested \cup Replied \cup {Idle}
<1>1. fwd[s] \in Requested \cup Replied \cup {Idle}
  BY DEF ClearingTypeOK, ForwardType, Requested, Replied, Result
<1> QED BY <1>1 DEF Requested, Replied, Idle

LEMMA ClearForms ==
  ASSUME ClearingTypeOK, NEW k \in Consoles
  PROVE  /\ clr[k].phase = "request" => clr[k] \in Asking
         /\ clr[k].phase = "answer" => clr[k] \in ClearAnswered
<1>1. clr[k] \in Asking \cup ClearAnswered \cup {Idle}
  BY DEF ClearingTypeOK, ClearType, Asking, ClearAnswered
<1> QED BY <1>1 DEF Asking, ClearAnswered, Idle

\* A payment that is refused is refused for one of the known reasons.
LEMMA RefusalTyped ==
  ASSUME NEW p \in Payments
  PROVE  ForwardRefusal(p) \in Refusals \cup {"ok"}
<1>1. parseAuth(p.auth) \in Refusals \cup {"ok"}
  BY DEF parseAuth, Refusals
<1> QED BY <1>1 DEF ForwardRefusal, ForwardedPayee, verifiedAuth, CheckRequirements, Refusals

LEMMA OutcomeTyped ==
  ASSUME NEW p \in Payments, Owner(p) # p.entry, Forwardable(p)
  PROVE  ForwardOutcome(p) \in Refusals \cup {"repeat", "settled"}
<1>1. p.entry # NoHub
  BY PaymentTyped, LedgerAssumption
<1>2. ASSUME NEW h, NEW d, NEW a, NEW bind, NEW t
      PROVE  SettleOutcome(h, d, a, bind, p.entry, t) \in Refusals \cup {"repeat", "settled"}
  BY <1>1 DEF SettleOutcome, Refusals
<1> QED BY <1>2, RefusalTyped DEF ForwardOutcome, Refusals

\* Answering an exchange.
LEMMA AnsweredTyped ==
  ASSUME ClearingTypes, NEW s \in Slots, fwd[s].phase = "request", NEW x \in Result, Answered(s, x)
  PROVE  /\ fwd' \in [Slots -> ForwardType \cup {Idle}]
         /\ fwd'[s] = [phase |-> "answer", pay |-> fwd[s].pay, waiting |-> fwd[s].waiting, answer |-> x]
         /\ \A t \in Slots \ {s} : fwd'[t] = fwd[t]
         /\ \A t \in Slots : fwd'[t] # Idle => Forwardable(fwd'[t].pay)
<1>1. fwd[s] \in Requested
  BY ExchangeForms DEF ClearingTypes
<1> DEFINE y == [phase |-> "answer", pay |-> fwd[s].pay, waiting |-> fwd[s].waiting, answer |-> x]
<1>2. y \in Replied /\ y.pay = fwd[s].pay
  BY <1>1 DEF Requested, Replied
<1>3. fwd' = [fwd EXCEPT ![s] = y]
  BY DEF Answered
<1>4. fwd[s] # Idle
  BY DEF Idle
<1> HIDE DEF y
<1>5. Replied \subseteq ForwardType
  BY DEF Replied, ForwardType, Result
<1>6. fwd'[s] = y /\ \A t \in Slots \ {s} : fwd'[t] = fwd[t]
  BY <1>3 DEF ClearingTypes, ClearingTypeOK
<1>7. fwd' \in [Slots -> ForwardType \cup {Idle}]
  BY <1>2, <1>3, <1>5 DEF ClearingTypes, ClearingTypeOK
<1>8. \A t \in Slots : fwd'[t] # Idle => Forwardable(fwd'[t].pay)
  BY <1>2, <1>4, <1>6 DEF ClearingTypes
<1> QED BY <1>6, <1>7, <1>8 DEF y

\* A ledger's step by one of its operations, whoever calls it.
LEMMA SettleKeeps ==
  ASSUME AllLedgersInv, NEW h \in Hubs, NEW a \in Auths, NEW via \in Hubs \ {h}, Settle(h, a, a.bind, via)
  PROVE  AllLedgersInv'
<1>1. a.bind \in Binds \cup {NoBind} /\ now[h] \in Nat /\ LedgerInv(db[h])
  BY LedgerAssumption DEF AuthType, AllLedgersInv
<1>2. LedgerInv(SettleTx(h, db[h], a, a.bind, via, now[h]))
  BY <1>1, SettlePreserves DEF Settle
<1> QED BY <1>2, OneHubStep DEF Settle

LEMMA ClearKeeps ==
  ASSUME AllLedgersInv, NEW h \in Hubs, NEW rec \in ReceiptType, NEW peer \in Hubs \ {h},
         rec.payTo \in Agents, ClearFromPeer(h, rec, peer)
  PROVE  AllLedgersInv'
<1>1. LedgerInv(db[h]) /\ now[h] \in Nat
  BY DEF AllLedgersInv
<1>2. LedgerInv(ClearTx(db[h], rec, peer))
  BY <1>1, ClearPreserves DEF ClearFromPeer
<1> QED BY <1>2, OneHubStep DEF ClearFromPeer

LEMMA SettleOwedKeeps ==
  ASSUME AllLedgersInv, NEW st \in Statement, SettleOwed(st.payTo, st, st.payer)
  PROVE  AllLedgersInv'
<1>1. /\ st.payTo \in Hubs /\ st.payer \in Hubs /\ st.id \in StatementIds /\ st.amount \in Nat
      /\ st = [id |-> st.id, payer |-> st.payer, payTo |-> st.payTo, amount |-> st.amount]
  BY LedgerAssumption DEF Statement, MaxUint
<1>2. LedgerInv(db[st.payTo])
  BY <1>1 DEF AllLedgersInv
<1>3. LedgerInv(SettleOwedTx(db[st.payTo], st, st.payer))
  BY <1>1, <1>2, SettleOwedPreserves DEF SettleOwed
<1> QED BY <1>1, <1>3, OneHubStep DEF SettleOwed

LEMMA DischargeKeeps ==
  ASSUME AllLedgersInv, NEW h \in Hubs, NEW peer \in Hubs, NEW amt \in Nat, DischargeDue(h, peer, amt)
  PROVE  AllLedgersInv'
<1>1. LedgerInv(DischargeTx(db[h], peer, amt))
  BY DischargePreserves DEF DischargeDue, AllLedgersInv
<1> QED BY <1>1, OneHubStep DEF DischargeDue

LEMMA OtherStepKeeps ==
  ASSUME AllLedgersInv, NEW h \in Hubs, OtherStep(h)
  PROVE  AllLedgersInv'
<1>1. LedgerNext
  BY ClearingAssumption DEF OtherStep, LedgerNext
<1> QED BY <1>1, LedgerStepInv

LEMMA ServeTyped ==
  ASSUME ClearingTypes, NEW s \in Slots, ServeFedSettle(s)
  PROVE  ClearingTypes'
<1>1. fwd[s] \in Requested /\ fwd[s].phase = "request"
  BY ExchangeForms DEF ServeFedSettle, ClearingTypes
<1>2. PICK p \in Payments : p = fwd[s].pay
  BY <1>1 DEF Requested
<1>3. Forwardable(p) /\ Owner(p) \in Hubs /\ p.auth \in Auths /\ p.entry \in Hubs \ {Owner(p)}
  <2>1. fwd[s] # Idle
    BY <1>1 DEF Idle
  <2> QED BY <1>2, <2>1, PaymentTyped DEF ClearingTypes, Forwardable
<1>4. UNCHANGED <<clr, heard, credits, signed, unbooked, lost>>
  BY DEF ServeFedSettle
<1>5. ASSUME ForwardOutcome(p) = "settled", Settle(Owner(p), p.auth, p.auth.bind, p.entry),
             charged' = charged \cup {[auth |-> p.auth, via |-> p.entry, amount |-> p.auth.amount]},
             Answered(s, AnswerOf("success", ReceiptOf(p.auth, now[Owner(p)])))
      PROVE  ClearingTypes'
  <2>1. AllLedgersInv'
    BY <1>3, <1>5, SettleKeeps DEF ClearingTypes
  <2>2. now[Owner(p)] \in Nat
    BY <1>3 DEF ClearingTypes, AllLedgersInv
  <2>3. AnswerOf("success", ReceiptOf(p.auth, now[Owner(p)])) \in Result
    BY <2>2, PaymentTyped DEF AnswerOf, Result
  <2>4. p.auth.amount \in 1 .. MaxInt
    BY <1>5 DEF Settle, SettleOutcome, amountInt64
  <2>5. charged' \subseteq [auth: Auths, via: Hubs, amount: 1 .. MaxInt]
    BY <1>3, <1>5, <2>4 DEF ClearingTypes, ClearingTypeOK
  <2>6. /\ fwd' \in [Slots -> ForwardType \cup {Idle}]
        /\ \A t \in Slots : fwd'[t] # Idle => Forwardable(fwd'[t].pay)
    BY <1>1, <1>5, <2>3, AnsweredTyped
  <2> QED BY <1>4, <2>1, <2>5, <2>6 DEF ClearingTypes, ClearingTypeOK
<1>6. ASSUME ForwardOutcome(p) # "settled", UNCHANGED <<ledgerVars, charged>>,
             Answered(s, IF ForwardOutcome(p) = "repeat" THEN Repeat(p) ELSE AnswerOf(ForwardOutcome(p), NoReceipt))
      PROVE  ClearingTypes'
  <2> DEFINE x == IF ForwardOutcome(p) = "repeat" THEN Repeat(p) ELSE AnswerOf(ForwardOutcome(p), NoReceipt)
  <2>1. Repeat(p) \in Result
    <3>1. CASE SettledFor(db[Owner(p)], p.auth, p.entry)
      <4>1. \E r \in db[Owner(p)].settled : r.auth = p.auth
        BY <3>1 DEF SettledFor
      <4>2. PICK row : row = CHOOSE r \in db[Owner(p)].settled : r.auth = p.auth
        OBVIOUS
      <4>3. row \in db[Owner(p)].settled
        BY <4>1, <4>2
      <4>4. row.at \in Int
        BY <1>3, <4>3 DEF ClearingTypes, AllLedgersInv, LedgerInv, DB, SettledRow
      <4>5. Repeat(p) = AnswerOf("success", ReceiptOf(p.auth, row.at))
        BY <3>1, <4>2 DEF Repeat
      <4> QED BY <4>4, <4>5, PaymentTyped DEF AnswerOf, Result
    <3>2. CASE ~SettledFor(db[Owner(p)], p.auth, p.entry)
      BY <3>2 DEF Repeat, AnswerOf, Result, Refusals
    <3> QED BY <3>1, <3>2
  <2>2. x \in Result
    <3>1. ForwardOutcome(p) \in Refusals \cup {"repeat", "settled"}
      BY <1>3, OutcomeTyped
    <3> QED BY <1>6, <2>1, <3>1 DEF AnswerOf, Result
  <2>3. Answered(s, x)
    BY <1>6
  <2> HIDE DEF x
  <2>4. AllLedgersInv'
    BY <1>6 DEF ClearingTypes, AllLedgersInv, ledgerVars
  <2> QED BY <1>1, <1>4, <1>6, <2>2, <2>3, <2>4, AnsweredTyped DEF ClearingTypes, ClearingTypeOK
<1> QED BY <1>2, <1>5, <1>6, Zenon DEF ServeFedSettle

LEMMA ReadTyped ==
  ASSUME ClearingTypes, NEW s \in Slots, ReadAnswer(s)
  PROVE  ClearingTypes'
<1>1. fwd[s] \in Replied
  BY ExchangeForms DEF ReadAnswer, ClearingTypes
<1>2. PICK p \in Payments : p = fwd[s].pay
  BY <1>1 DEF Replied
<1>3. Forwardable(p) /\ Owner(p) \in Hubs \ {p.entry} /\ p.auth \in Auths /\ p.entry \in Hubs
  <2>1. fwd[s] # Idle
    BY <1>1 DEF Idle, Replied
  <2> QED BY <1>2, <2>1, PaymentTyped DEF ClearingTypes, Forwardable
<1>4. PICK rec : rec = fwd[s].answer.receipt
  OBVIOUS
<1>5. UNCHANGED <<clr, charged, signed, unbooked, lost>> /\ fwd' = [fwd EXCEPT ![s] = Idle]
  BY DEF ReadAnswer
<1>6. \E v \in {"open", "success", "refused"} : heard' = [heard EXCEPT ![p] = v]
  BY <1>2 DEF ReadAnswer, Told
<1>7. \/ UNCHANGED <<ledgerVars, credits>>
      \/ /\ fwd[s].answer.result = "success" /\ ReceiptMatches(p, rec) /\ ClearFromPeer(p.entry, rec, Owner(p))
         /\ credits' = [credits EXCEPT ![p.entry][p.auth] = credits[p.entry][p.auth] + 1]
  BY <1>2, <1>4, Zenon DEF ReadAnswer
<1>8. AllLedgersInv' /\ credits' \in [Hubs -> [Auths -> Nat]]
  <2>1. CASE UNCHANGED <<ledgerVars, credits>>
    BY <2>1 DEF ClearingTypes, ClearingTypeOK, AllLedgersInv, ledgerVars
  <2>2. ASSUME fwd[s].answer.result = "success", ReceiptMatches(p, rec), ClearFromPeer(p.entry, rec, Owner(p)),
               credits' = [credits EXCEPT ![p.entry][p.auth] = credits[p.entry][p.auth] + 1]
        PROVE  AllLedgersInv' /\ credits' \in [Hubs -> [Auths -> Nat]]
    <3>1. rec \in ReceiptType /\ rec.payTo \in Agents
      <4>1. fwd[s].answer \in Result
        BY <1>1 DEF Replied
      <4>2. "success" \notin Refusals
        BY DEF Refusals
      <4> QED BY <1>3, <1>4, <2>2, <4>1, <4>2 DEF Result, ReceiptMatches, Forwardable
    <3>2. AllLedgersInv'
      BY <1>3, <2>2, <3>1, ClearKeeps DEF ClearingTypes
    <3>3. PICK h \in Hubs, a \in Auths : h = p.entry /\ a = p.auth
      BY <1>3
    <3>4. PICK n \in Nat : n = credits[h][a] + 1
      BY DEF ClearingTypes, ClearingTypeOK
    <3>5. credits' = [credits EXCEPT ![h][a] = n]
      BY <2>2, <3>3, <3>4
    <3> QED BY <3>2, <3>5 DEF ClearingTypes, ClearingTypeOK
  <2> QED BY <1>7, <2>1, <2>2
<1> QED BY <1>5, <1>6, <1>8 DEF ClearingTypes, ClearingTypeOK

LEMMA AskTyped ==
  ASSUME ClearingTypes, NEW s \in Slots, NEW p \in Payments, Ask(s, p)
  PROVE  ClearingTypes'
<1>1. AllLedgersInv' /\ UNCHANGED <<clr, charged, credits, signed, unbooked, lost>>
  BY DEF Ask, ClearingTypes, AllLedgersInv, ledgerVars
<1>2. CASE EntryRefusal(p) = "ok"
  <2> DEFINE x == [phase |-> "request", pay |-> p, waiting |-> TRUE]
  <2>1. x \in Requested /\ x.pay = p
    BY DEF Requested
  <2>2. fwd' = [fwd EXCEPT ![s] = x] /\ UNCHANGED heard
    BY <1>2 DEF Ask
  <2>3. Forwardable(p)
    <3>1. /\ LocalPayee(p.entry, db[p.entry], p.ask.payTo) = "ok" /\ parseAuth(p.auth) = "ok"
          /\ CheckRequirements(p.auth, p.offer, p.ask) = "ok"
      BY <1>2 DEF EntryRefusal
    <3>2. p.ask.payTo \in db[p.entry].registered /\ p.ask.network \in {p.offer.network} \cap {p.auth.network}
      BY <3>1 DEF LocalPayee, CheckRequirements
    <3>3. db[p.entry].registered \subseteq Agents
      BY PaymentTyped DEF ClearingTypes, AllLedgersInv, LedgerInv, DB
    <3> QED BY <3>1, <3>2, <3>3, ClearingAssumption DEF Forwardable, Owner
  <2> HIDE DEF x
  <2>4. Requested \subseteq ForwardType
    BY DEF Requested, ForwardType
  <2>5. fwd' \in [Slots -> ForwardType \cup {Idle}] /\ \A t \in Slots : fwd'[t] # Idle => Forwardable(fwd'[t].pay)
    BY <2>1, <2>2, <2>3, <2>4 DEF ClearingTypes, ClearingTypeOK
  <2> QED BY <1>1, <2>2, <2>5 DEF ClearingTypes, ClearingTypeOK
<1>3. CASE EntryRefusal(p) # "ok"
  BY <1>1, <1>3 DEF Ask, ClearingTypes, ClearingTypeOK
<1> QED BY <1>2, <1>3

\* The rest of an exchange, which leaves ledgers, charges and credits alone.
LEMMA ExchangeTyped ==
  ASSUME ClearingTypes, NEW s \in Slots, FedRefusal(s) \/ GiveUp(s) \/ BreakExchange(s) \/ DropAnswer(s)
  PROVE  ClearingTypes'
<1>1. UNCHANGED <<ledgerVars, clr, heard, charged, credits, signed, unbooked>> /\ lost' \in 0 .. MaxLost
  BY ClearingAssumption
     DEF FedRefusal, GiveUp, BreakExchange, DropAnswer, ClearingTypes, ClearingTypeOK
<1>2. AllLedgersInv'
  BY <1>1 DEF ClearingTypes, AllLedgersInv, ledgerVars
<1>3. CASE FedRefusal(s)
  <2>1. AnswerOf("settlement_failed", NoReceipt) \in Result
    BY DEF AnswerOf, Result, Refusals
  <2> QED BY <1>1, <1>2, <1>3, <2>1, AnsweredTyped DEF FedRefusal, ClearingTypes, ClearingTypeOK
<1>4. CASE GiveUp(s)
  <2>1. PICK x \in Requested \cup Replied : x = fwd[s]
    BY <1>4, ExchangeForms DEF GiveUp, ClearingTypes
  <2> DEFINE y == [x EXCEPT !.waiting = FALSE]
  <2>2. y \in Requested \cup Replied /\ y.pay = x.pay
    BY DEF Requested, Replied
  <2>3. fwd' = [fwd EXCEPT ![s] = y]
    BY <1>4, <2>1 DEF GiveUp
  <2>4. Forwardable(x.pay)
    <3>1. x # Idle
      BY DEF Requested, Replied, Idle
    <3> QED BY <2>1, <3>1 DEF ClearingTypes
  <2> HIDE DEF y
  <2>5. Requested \cup Replied \subseteq ForwardType
    BY DEF Requested, Replied, ForwardType, Result
  <2>6. fwd' \in [Slots -> ForwardType \cup {Idle}]
    BY <2>2, <2>3, <2>5 DEF ClearingTypes, ClearingTypeOK
  <2>7. \A t \in Slots : fwd'[t] # Idle => Forwardable(fwd'[t].pay)
    BY <2>2, <2>3, <2>4 DEF ClearingTypes, ClearingTypeOK
  <2> QED BY <1>1, <1>2, <2>6, <2>7 DEF ClearingTypes, ClearingTypeOK
<1>5. CASE BreakExchange(s) \/ DropAnswer(s)
  <2>1. fwd' = [fwd EXCEPT ![s] = Idle]
    BY <1>5 DEF BreakExchange, DropAnswer
  <2> QED BY <1>1, <1>2, <2>1 DEF ClearingTypes, ClearingTypeOK
<1> QED BY <1>3, <1>4, <1>5

LEMMA DischargeTyped ==
  ASSUME ClearingTypes, NEW k \in Consoles,
         \/ \E h \in Hubs : \E peer \in Hubs \ {h}, amt \in ClearAmounts, id \in StatementIds :
              RunClear(k, h, peer, amt, id)
         \/ ClearStep(k)
  PROVE  ClearingTypes'
<1>1. UNCHANGED <<fwd, heard, charged, credits>>
  BY DEF RunClear, ClearStep, ServeFedClear, ReadClearAnswer, Unconfirmed
<1>2. ASSUME NEW h \in Hubs, NEW peer \in Hubs \ {h}, NEW amt \in ClearAmounts, NEW id \in StatementIds,
             RunClear(k, h, peer, amt, id)
      PROVE  ClearingTypes'
  <2>1. amt \in 0 .. MaxUint
    <3>1. db[h].due[peer] \in Int64 /\ MaxInt \in Nat /\ amt \in Nat
      BY LedgerAssumption DEF ClearingTypes, AllLedgersInv, LedgerInv, DB
    <3> QED BY <1>2, <3>1 DEF RunClear, Int64, MaxUint
  <2> DEFINE x == [phase |-> "request", st |-> [id |-> id, payer |-> h, payTo |-> peer, amount |-> amt]]
  <2>2. x \in ClearType
    BY <2>1 DEF ClearType, Statement
  <2>3. clr' = [clr EXCEPT ![k] = x] /\ signed' = signed \cup {id} /\ UNCHANGED <<ledgerVars, unbooked, lost>>
    BY <1>2 DEF RunClear
  <2> HIDE DEF x
  <2> QED BY <1>1, <2>2, <2>3 DEF ClearingTypes, ClearingTypeOK, AllLedgersInv, ledgerVars
<1>3. CASE ServeFedClear(k)
  <2>1. clr[k] \in Asking
    BY <1>3, ClearForms DEF ServeFedClear, ClearingTypes
  <2>2. PICK st \in Statement : st = clr[k].st
    BY <2>1 DEF Asking
  <2>3. /\ \E b \in BOOLEAN : clr' = [clr EXCEPT ![k] = [phase |-> "answer", st |-> st, accepted |-> b]]
        /\ unbooked' \in {unbooked, unbooked \cup {st}} /\ UNCHANGED <<signed, lost>>
    BY <1>3, <2>2 DEF ServeFedClear
  <2>4. PICK b \in BOOLEAN : clr' = [clr EXCEPT ![k] = [phase |-> "answer", st |-> st, accepted |-> b]]
    BY <2>3
  <2> DEFINE x == [phase |-> "answer", st |-> st, accepted |-> b]
  <2>5. x \in ClearType
    BY DEF ClearType
  <2>6. clr' = [clr EXCEPT ![k] = x]
    BY <2>4
  <2> HIDE DEF x
  <2>7. AllLedgersInv'
    <3>1. SettleOwed(st.payTo, st, st.payer) \/ UNCHANGED ledgerVars
      BY <1>3, <2>2 DEF ServeFedClear
    <3> QED BY <3>1, SettleOwedKeeps DEF ClearingTypes, AllLedgersInv, ledgerVars
  <2> QED BY <1>1, <2>3, <2>5, <2>6, <2>7 DEF ClearingTypes, ClearingTypeOK
<1>4. CASE ReadClearAnswer(k)
  <2>1. clr[k] \in ClearAnswered
    BY <1>4, ClearForms DEF ReadClearAnswer, ClearingTypes
  <2>2. PICK st \in Statement : st = clr[k].st
    BY <2>1 DEF ClearAnswered
  <2>3. st.payer \in Hubs /\ st.payTo \in Hubs /\ st.amount \in Nat
    BY LedgerAssumption DEF Statement, MaxUint
  <2>4. DischargeDue(st.payer, st.payTo, st.amount) \/ UNCHANGED ledgerVars
    BY <1>4, <2>2 DEF ReadClearAnswer
  <2>5. AllLedgersInv'
    BY <2>3, <2>4, DischargeKeeps DEF ClearingTypes, AllLedgersInv, ledgerVars
  <2>6. clr' = [clr EXCEPT ![k] = Idle] /\ unbooked' \in {unbooked, unbooked \ {st}} /\ UNCHANGED <<signed, lost>>
    BY <1>4, <2>2 DEF ReadClearAnswer
  <2> QED BY <1>1, <2>5, <2>6 DEF ClearingTypes, ClearingTypeOK
<1>5. CASE Unconfirmed(k)
  <2>1. lost' \in 0 .. MaxLost
    BY <1>5, ClearingAssumption DEF Unconfirmed, ClearingTypes, ClearingTypeOK
  <2> QED BY <1>1, <1>5, <2>1 DEF Unconfirmed, ClearingTypes, ClearingTypeOK, AllLedgersInv, ledgerVars
<1> QED BY <1>2, <1>3, <1>4, <1>5 DEF ClearStep

LEMMA TypesKept == ClearingTypes /\ [ClearingNext]_vars => ClearingTypes'
<1> SUFFICES ASSUME ClearingTypes, [ClearingNext]_vars PROVE ClearingTypes'
  OBVIOUS
<1>1. CASE UNCHANGED vars
  BY <1>1 DEF vars, ledgerVars, clearingVars, ClearingTypes, ClearingTypeOK, AllLedgersInv
<1>2. ASSUME NEW s \in Slots, ForwardStep(s) PROVE ClearingTypes'
  BY <1>2, ServeTyped, ReadTyped, ExchangeTyped DEF ForwardStep
<1>3. ASSUME NEW h \in Hubs, OtherStep(h) PROVE ClearingTypes'
  <2>1. AllLedgersInv'
    BY <1>3, OtherStepKeeps DEF ClearingTypes
  <2> QED BY <1>3, <2>1 DEF OtherStep, clearingVars, ClearingTypes, ClearingTypeOK
<1> QED BY <1>1, <1>2, <1>3, AskTyped, DischargeTyped DEF ClearingNext

LEMMA TypesInit == ClearingInit => ClearingTypes
<1> SUFFICES ASSUME ClearingInit PROVE ClearingTypes
  OBVIOUS
<1>1. AllLedgersInv
  BY LedgerInitInv DEF ClearingInit
<1> QED BY <1>1, ClearingAssumption DEF ClearingInit, ClearingTypes, ClearingTypeOK

-----------------------------------------------------------------------------
(* Credits.                                                                 *)

HasReceipt(s) == fwd[s].phase = "answer" /\ fwd[s].answer.result = "success"

\* A receipt dated t for authorization a can still reach an entry hub: the row of the
\* charge would make it, or it is on its way.
Stamped(a, t) ==
  \/ \E r \in db[a.network].settled : r.auth = a /\ r.at = t
  \/ \E s \in Slots : HasReceipt(s) /\ fwd[s].answer.receipt.auth = a /\ fwd[s].answer.receipt.settleAt = t

\* An authorization charged once is not charged again: its row is there, or it is past
\* by as long as the row is kept.
Spent(a) ==
  /\ a.issuedAt < a.notAfter
  /\ IsSettled(db[a.network], a) \/ now[a.network] >= a.notAfter + SettledKeptAfter

ChargedFor(a, h) == \E c \in charged : c.auth = a /\ c.via = h

\* No receipt for a that can still come is one hub h would credit.
NoMoreCredit(h, a) ==
  IsCleared(db[h], a) \/ \A t \in Int : Stamped(a, t) => t <= now[h] - ClearedKeptAfter

ChargesInv ==
  /\ \A h \in Hubs : \A r \in db[h].settled : r.auth.network = h => ChargedFor(r.auth, r.via)
  /\ \A c \in charged : Spent(c.auth)
  /\ \A c, d \in charged : c.auth = d.auth => c.via = d.via
  /\ \A s \in Slots : HasReceipt(s) =>
       fwd[s].answer.receipt.auth = fwd[s].pay.auth /\ ChargedFor(fwd[s].pay.auth, fwd[s].pay.entry)
  /\ \A a \in Auths : \A t, u \in Int : Stamped(a, t) /\ Stamped(a, u) => t = u

CreditsInv ==
  /\ \A h \in Hubs : \A r \in db[h].cleared :
       /\ credits[h][r.auth] > 0
       /\ \A t \in Int : Stamped(r.auth, t) => t = r.settleAt
  /\ \A h \in Hubs, a \in Auths : credits[h][a] > 0 =>
       credits[h][a] = 1 /\ ChargedFor(a, h) /\ NoMoreCredit(h, a)
  /\ \A p \in Payments : heard[p] = "success" => Credited(p) /\ Charged(p)

PaymentsInv == ClearingTypes /\ ChargesInv /\ CreditsInv

\* The rows that remember charges and clearings only go when they are old enough.
ChargeRowsKept ==
  /\ \A h \in Hubs : now'[h] >= now[h]
  /\ \A h \in Hubs : db'[h].settled \subseteq db[h].settled
  /\ \A h \in Hubs : \A r \in db[h].settled \ db'[h].settled : SettledExpired(r, now[h])

ClearedRowsKept ==
  /\ \A h \in Hubs : db'[h].cleared \subseteq db[h].cleared
  /\ \A h \in Hubs : \A r \in db[h].cleared \ db'[h].cleared : ClearedExpired(r, now[h])

RowsKept == ChargeRowsKept /\ ClearedRowsKept

\* A step that does not charge, and that sends no receipt but one the hubs know of.
LEMMA ChargesStay ==
  ASSUME PaymentsInv, ClearingTypes', ChargeRowsKept, UNCHANGED charged,
         \A a \in Auths : \A t \in Int : Stamped(a, t)' => Stamped(a, t),
         \A s \in Slots : HasReceipt(s)' =>
           fwd'[s].answer.receipt.auth = fwd'[s].pay.auth /\ ChargedFor(fwd'[s].pay.auth, fwd'[s].pay.entry)
  PROVE  ChargesInv'
<1> USE DEF PaymentsInv
<1>1. /\ \A h \in Hubs : now[h] \in Nat /\ now'[h] \in Nat
      /\ \A h \in Hubs : db[h].settled \subseteq SettledRow
      /\ \A c \in charged : c.auth \in Auths
  BY DEF ClearingTypes, ClearingTypeOK, AllLedgersInv, LedgerInv, DB
<1>2. \A a, h : ChargedFor(a, h)' <=> ChargedFor(a, h)
  BY DEF ChargedFor
<1>3. ASSUME NEW h \in Hubs, NEW r \in db'[h].settled, r.auth.network = h PROVE ChargedFor(r.auth, r.via)'
  BY <1>2, <1>3 DEF ChargeRowsKept, ChargesInv
<1>4. ASSUME NEW c \in charged' PROVE Spent(c.auth)'
  <2>1. PICK a \in Auths : a = c.auth /\ Spent(a)
    BY <1>1 DEF ChargesInv
  <2>2. PICK h \in Hubs : h = a.network
    BY LedgerAssumption DEF AuthType
  <2>3. a.notAfter \in Nat
    BY LedgerAssumption DEF AuthType
  <2>4. CASE now[h] >= a.notAfter + SettledKeptAfter
    BY <1>1, <2>1, <2>2, <2>3, <2>4, LedgerAssumption DEF ChargeRowsKept, Spent
  <2>5. ASSUME NEW r \in db[h].settled, r.auth = a PROVE Spent(c.auth)'
    <3>1. CASE r \in db'[h].settled
      BY <2>1, <2>2, <2>5, <3>1 DEF Spent, IsSettled
    <3>2. CASE r \notin db'[h].settled
      <4>1. now[h] >= a.notAfter + SettledKeptAfter
        BY <1>1, <2>3, <2>5, <3>2, LedgerAssumption DEF ChargeRowsKept, SettledExpired
      <4> QED BY <2>4, <4>1
    <3> QED BY <3>1, <3>2
  <2> QED BY <2>1, <2>2, <2>4, <2>5 DEF Spent, IsSettled
<1>5. (\A s \in Slots : HasReceipt(s) =>
           fwd[s].answer.receipt.auth = fwd[s].pay.auth /\ ChargedFor(fwd[s].pay.auth, fwd[s].pay.entry))'
  BY DEF ChargedFor
<1>6. \A c, d \in charged' : c.auth = d.auth => c.via = d.via
  BY DEF ChargesInv
<1>7. \A a \in Auths : \A t, u \in Int : Stamped(a, t)' /\ Stamped(a, u)' => t = u
  BY DEF ChargesInv
<1> QED BY <1>3, <1>4, <1>5, <1>6, <1>7 DEF ChargesInv

\* A step that neither charges nor credits, and that sends no receipt but one the hubs
\* know of already.
LEMMA QuietStep ==
  ASSUME PaymentsInv, ClearingTypes', RowsKept, UNCHANGED <<charged, credits>>,
         \A a \in Auths : \A t \in Int : Stamped(a, t)' => Stamped(a, t),
         \A s \in Slots : HasReceipt(s)' =>
           fwd'[s].answer.receipt.auth = fwd'[s].pay.auth /\ ChargedFor(fwd'[s].pay.auth, fwd'[s].pay.entry),
         \A p \in Payments : heard'[p] = "success" => heard[p] = "success" \/ (Credited(p) /\ Charged(p))
  PROVE  PaymentsInv'
<1> USE DEF PaymentsInv
<1>1. /\ \A h \in Hubs : now[h] \in Nat /\ now'[h] \in Nat
      /\ \A h \in Hubs : db[h].settled \subseteq SettledRow /\ db[h].cleared \subseteq ClearedRow
  BY DEF ClearingTypes, ClearingTypeOK, AllLedgersInv, LedgerInv, DB
<1>2. \A a, h : ChargedFor(a, h)' <=> ChargedFor(a, h)
  BY DEF ChargedFor
<1>3. ChargesInv'
  BY ChargesStay DEF RowsKept
<1>4. ASSUME NEW h \in Hubs, NEW r \in db'[h].cleared
      PROVE  credits'[h][r.auth] > 0 /\ \A t \in Int : Stamped(r.auth, t)' => t = r.settleAt
  <2>1. r \in db[h].cleared /\ r.auth \in Auths
    BY <1>1, <1>4 DEF RowsKept, ChargeRowsKept, ClearedRowsKept, ClearedRow
  <2> QED BY <2>1 DEF CreditsInv
<1>5. ASSUME NEW h \in Hubs, NEW a \in Auths, credits'[h][a] > 0
      PROVE  credits'[h][a] = 1 /\ ChargedFor(a, h)' /\ NoMoreCredit(h, a)'
  <2>1. credits[h][a] = 1 /\ ChargedFor(a, h) /\ NoMoreCredit(h, a)
    BY <1>5 DEF CreditsInv
  <2>2. NoMoreCredit(h, a)'
    <3>1. ASSUME \A t \in Int : Stamped(a, t) => t <= now[h] - ClearedKeptAfter PROVE NoMoreCredit(h, a)'
      <4>1. ClearedKeptAfter \in Nat /\ now'[h] >= now[h]
        BY LedgerAssumption DEF RowsKept, ChargeRowsKept, ClearedRowsKept
      <4>2. \A t \in Int : Stamped(a, t)' => t <= now'[h] - ClearedKeptAfter
        BY <1>1, <3>1, <4>1
      <4> QED BY <4>2 DEF NoMoreCredit
    <3>2. ASSUME NEW r \in db[h].cleared, r.auth = a PROVE NoMoreCredit(h, a)'
      <4>1. CASE r \in db'[h].cleared
        BY <3>2, <4>1 DEF NoMoreCredit, IsCleared
      <4>2. CASE r \notin db'[h].cleared
        <5>1. r.settleAt <= now[h] - ClearedKeptAfter
          BY <4>2 DEF RowsKept, ChargeRowsKept, ClearedRowsKept, ClearedExpired
        <5>2. \A t \in Int : Stamped(a, t) => t = r.settleAt
          BY <3>2 DEF CreditsInv
        <5> QED BY <3>1, <5>1, <5>2
      <4> QED BY <4>1, <4>2
    <3> QED BY <2>1, <3>1, <3>2 DEF NoMoreCredit, IsCleared
  <2> QED BY <1>2, <2>1, <2>2
<1>6. ASSUME NEW p \in Payments, heard'[p] = "success" PROVE Credited(p)' /\ Charged(p)'
  BY <1>6 DEF CreditsInv, Credited, Charged
<1>7. CreditsInv'
  BY <1>4, <1>5, <1>6 DEF CreditsInv
<1> QED BY <1>3, <1>7

\* One hub's database changes.
LEMMA OneHubRows ==
  ASSUME ClearingTypes, NEW h \in Hubs, NEW e, db' = [db EXCEPT ![h] = e], UNCHANGED now,
         e.settled \subseteq db[h].settled, \A r \in db[h].settled \ e.settled : SettledExpired(r, now[h]),
         e.cleared \subseteq db[h].cleared, \A r \in db[h].cleared \ e.cleared : ClearedExpired(r, now[h])
  PROVE  RowsKept
<1>1. db'[h] = e /\ \A g \in Hubs \ {h} : db'[g] = db[g]
  BY DEF ClearingTypes, AllLedgersInv
<1>2. \A g \in Hubs : now'[g] >= now[g]
  BY DEF ClearingTypes, AllLedgersInv
<1>3. \A g \in Hubs : \/ g = h /\ db'[g] = e
                      \/ db'[g] = db[g]
  BY <1>1
<1> QED BY <1>2, <1>3 DEF RowsKept, ChargeRowsKept, ClearedRowsKept

LEMMA LedgersStay == ClearingTypes /\ UNCHANGED ledgerVars => RowsKept
BY DEF ledgerVars, RowsKept, ChargeRowsKept, ClearedRowsKept, ClearingTypes, AllLedgersInv

\* Discharges leave the rows of charges and clearings alone; so do registrations,
\* grants and the clock, and the janitor deletes what has expired.
LEMMA DischargeRows ==
  ASSUME ClearingTypes, NEW k \in Consoles,
         \/ \E h \in Hubs : \E peer \in Hubs \ {h}, amt \in ClearAmounts, id \in StatementIds :
              RunClear(k, h, peer, amt, id)
         \/ ClearStep(k)
  PROVE  RowsKept
<1>1. ASSUME NEW st \in Statement, SettleOwed(st.payTo, st, st.payer) PROVE RowsKept
  <2>1. PICK h \in Hubs : h = st.payTo
    BY DEF Statement
  <2>2. PICK e : e = SettleOwedTx(db[h], st, st.payer)
    OBVIOUS
  <2>3. db' = [db EXCEPT ![h] = e] /\ UNCHANGED now
    BY <1>1, <2>1, <2>2 DEF SettleOwed
  <2>4. db[h] \in DB
    BY DEF ClearingTypes, AllLedgersInv, LedgerInv
  <2>5. e.settled = db[h].settled /\ e.cleared = db[h].cleared
    BY <2>2, <2>4 DEF SettleOwedTx, DB
  <2> QED BY <2>3, <2>5, OneHubRows
<1>2. ASSUME NEW h \in Hubs, NEW peer, NEW amt, DischargeDue(h, peer, amt) PROVE RowsKept
  <2>1. PICK e : e = DischargeTx(db[h], peer, amt)
    OBVIOUS
  <2>2. db' = [db EXCEPT ![h] = e] /\ UNCHANGED now
    BY <1>2, <2>1 DEF DischargeDue
  <2>3. db[h] \in DB
    BY DEF ClearingTypes, AllLedgersInv, LedgerInv
  <2>4. e.settled = db[h].settled /\ e.cleared = db[h].cleared
    BY <2>1, <2>3 DEF DischargeTx, DB
  <2> QED BY <2>2, <2>4, OneHubRows
<1>3. CASE ServeFedClear(k)
  <2>1. PICK st \in Statement : st = clr[k].st
    BY <1>3, ClearForms DEF ServeFedClear, ClearingTypes, Asking
  <2>2. SettleOwed(st.payTo, st, st.payer) \/ UNCHANGED ledgerVars
    BY <1>3, <2>1 DEF ServeFedClear
  <2> QED BY <1>1, <2>2, LedgersStay
<1>4. CASE ReadClearAnswer(k)
  <2>1. PICK st \in Statement : st = clr[k].st
    BY <1>4, ClearForms DEF ReadClearAnswer, ClearingTypes, ClearAnswered
  <2>2. DischargeDue(st.payer, st.payTo, st.amount) \/ UNCHANGED ledgerVars
    BY <1>4, <2>1 DEF ReadClearAnswer
  <2>3. st.payer \in Hubs
    BY DEF Statement
  <2> QED BY <1>2, <2>2, <2>3, LedgersStay
<1> QED BY <1>3, <1>4, LedgersStay DEF RunClear, Unconfirmed, ClearStep

LEMMA OtherRows ==
  ASSUME ClearingTypes, NEW h \in Hubs, OtherStep(h)
  PROVE  RowsKept
<1>1. db[h] \in DB /\ now[h] \in Nat
  BY DEF ClearingTypes, AllLedgersInv, LedgerInv
<1>2. ASSUME NEW aid \in Agents, Register(h, aid) \/ Deregister(h, aid) PROVE RowsKept
  <2>1. PICK A : db' = [db EXCEPT ![h] = [db[h] EXCEPT !.registered = A]] /\ UNCHANGED now
    BY <1>2 DEF Register, Deregister
  <2>2. PICK e : e = [db[h] EXCEPT !.registered = A]
    OBVIOUS
  <2>3. e.settled = db[h].settled /\ e.cleared = db[h].cleared
    BY <1>1, <2>2 DEF DB
  <2> QED BY <2>1, <2>2, <2>3, OneHubRows
<1>3. ASSUME NEW aid \in Agents, NEW amt \in GrantAmounts, GrantCredit(h, aid, amt) PROVE RowsKept
  <2>1. PICK e : e = IssueTx(db[h], aid, amt)
    OBVIOUS
  <2>2. e.settled = db[h].settled /\ e.cleared = db[h].cleared
    BY <1>1, <2>1 DEF IssueTx, DB
  <2> QED BY <1>3, <2>1, <2>2, OneHubRows DEF GrantCredit
<1>4. CASE PruneLedger(h)
  <2>1. PICK e \in {PruneSettled(db[h], now[h]), PruneGuard(db[h], now[h]), PruneCleared(db[h], now[h])} :
          db' = [db EXCEPT ![h] = e] /\ UNCHANGED now
    BY <1>4 DEF PruneLedger
  <2>2. CASE e = PruneSettled(db[h], now[h])
    <3>1. e.settled = {r \in db[h].settled : ~SettledExpired(r, now[h])} /\ e.cleared = db[h].cleared
      BY <1>1, <2>2 DEF PruneSettled, DB
    <3> QED BY <2>1, <3>1, OneHubRows
  <2>3. CASE e = PruneGuard(db[h], now[h])
    <3>1. e.settled = db[h].settled /\ e.cleared = db[h].cleared
      BY <1>1, <2>3 DEF PruneGuard, DB
    <3> QED BY <2>1, <3>1, OneHubRows
  <2>4. CASE e = PruneCleared(db[h], now[h])
    <3>1. e.cleared = {r \in db[h].cleared : ~ClearedExpired(r, now[h])} /\ e.settled = db[h].settled
      BY <1>1, <2>4 DEF PruneCleared, DB
    <3> QED BY <2>1, <3>1, OneHubRows
  <2> QED BY <2>1, <2>2, <2>3, <2>4
<1>5. CASE Tick(h)
  <2>1. db' = db /\ now' = [now EXCEPT ![h] = now[h] + 1]
    BY <1>5 DEF Tick
  <2>2. \A g \in Hubs : now'[g] >= now[g]
    BY <2>1 DEF ClearingTypes, AllLedgersInv
  <2> QED BY <2>1, <2>2 DEF RowsKept, ChargeRowsKept, ClearedRowsKept
<1> QED BY <1>2, <1>3, <1>4, <1>5, ClearingAssumption DEF OtherStep

\* What hubs know of receipts does not grow when rows are only deleted and no receipt
\* is sent.
LEMMA NothingSent ==
  ASSUME PaymentsInv, ClearingTypes', ChargeRowsKept,
         \A s \in Slots : HasReceipt(s)' =>
           HasReceipt(s) /\ fwd'[s].answer.receipt = fwd[s].answer.receipt /\ fwd'[s].pay = fwd[s].pay
  PROVE  /\ \A a \in Auths : \A t \in Int : Stamped(a, t)' => Stamped(a, t)
         /\ \A s \in Slots : HasReceipt(s)' =>
              fwd'[s].answer.receipt.auth = fwd'[s].pay.auth /\ ChargedFor(fwd'[s].pay.auth, fwd'[s].pay.entry)
<1>1. ASSUME NEW a \in Auths, NEW t \in Int, Stamped(a, t)' PROVE Stamped(a, t)
  <2>1. PICK h \in Hubs : h = a.network
    BY LedgerAssumption DEF AuthType
  <2>2. db'[h].settled \subseteq db[h].settled
    BY DEF ChargeRowsKept
  <2> QED BY <1>1, <2>1, <2>2 DEF Stamped
<1>2. ASSUME NEW s \in Slots, HasReceipt(s)'
      PROVE  fwd'[s].answer.receipt.auth = fwd'[s].pay.auth /\ ChargedFor(fwd'[s].pay.auth, fwd'[s].pay.entry)
  BY <1>2 DEF PaymentsInv, ChargesInv
<1> QED BY <1>1, <1>2

\* The steps that send no receipt and read none.
LEMMA ExchangeQuiet ==
  ASSUME PaymentsInv, ClearingTypes', NEW s \in Slots,
         \/ \E p \in Payments : Ask(s, p)
         \/ FedRefusal(s) \/ GiveUp(s) \/ BreakExchange(s) \/ DropAnswer(s)
  PROVE  PaymentsInv'
<1>1. UNCHANGED <<ledgerVars, charged, credits>>
  BY DEF Ask, FedRefusal, GiveUp, BreakExchange, DropAnswer
<1>2. RowsKept
  BY <1>1, LedgersStay DEF PaymentsInv
<1>3. \A p \in Payments : heard'[p] = "success" => heard[p] = "success"
  BY DEF Ask, FedRefusal, GiveUp, BreakExchange, DropAnswer, PaymentsInv, ClearingTypes, ClearingTypeOK
<1>4. ASSUME NEW q \in Slots, HasReceipt(q)'
      PROVE  HasReceipt(q) /\ fwd'[q].answer.receipt = fwd[q].answer.receipt /\ fwd'[q].pay = fwd[q].pay
  <2>1. CASE q # s
    <3>1. fwd'[q] = fwd[q]
      BY <2>1 DEF Ask, FedRefusal, Answered, GiveUp, BreakExchange, DropAnswer,
                  PaymentsInv, ClearingTypes, ClearingTypeOK
    <3> QED BY <1>4, <3>1 DEF HasReceipt
  <2>2. CASE q = s /\ fwd' = fwd
    BY <1>4, <2>2 DEF HasReceipt
  <2>3. CASE q = s /\ fwd' # fwd
    <3>1. CASE GiveUp(s)
      <4>1. PICK x \in Requested \cup Replied : x = fwd[s]
        BY <3>1, ExchangeForms DEF GiveUp, PaymentsInv, ClearingTypes
      <4>2. fwd'[s] = [x EXCEPT !.waiting = FALSE]
        BY <3>1, <4>1 DEF GiveUp, PaymentsInv, ClearingTypes, ClearingTypeOK
      <4>3. CASE x \in Requested
        BY <1>4, <2>3, <4>2, <4>3 DEF HasReceipt, Requested
      <4>4. CASE x \in Replied
        BY <1>4, <2>3, <4>1, <4>2, <4>4 DEF HasReceipt, Replied
      <4> QED BY <4>3, <4>4
    <3>2. CASE FedRefusal(s)
      <4>1. PICK x : x = AnswerOf("settlement_failed", NoReceipt) /\ Answered(s, x)
        BY <3>2 DEF FedRefusal
      <4>2. fwd'[s].answer = x
        BY <4>1 DEF Answered, PaymentsInv, ClearingTypes, ClearingTypeOK
      <4> QED BY <1>4, <2>3, <4>1, <4>2 DEF HasReceipt, AnswerOf
    <3>3. CASE \E p \in Payments : Ask(s, p)
      <4>1. fwd'[s].phase = "request"
        BY <2>3, <3>3 DEF Ask, PaymentsInv, ClearingTypes, ClearingTypeOK
      <4> QED BY <1>4, <2>3, <4>1 DEF HasReceipt
    <3>4. CASE BreakExchange(s) \/ DropAnswer(s)
      <4>1. fwd'[s].phase = "idle"
        BY <3>4 DEF BreakExchange, DropAnswer, Idle, PaymentsInv, ClearingTypes, ClearingTypeOK
      <4> QED BY <1>4, <2>3, <4>1 DEF HasReceipt
    <3> QED BY <3>1, <3>2, <3>3, <3>4
  <2> QED BY <2>1, <2>2, <2>3
<1> QED BY <1>1, <1>2, <1>3, <1>4, NothingSent, QuietStep DEF RowsKept

\* The steps outside the exchanges.
LEMMA OutsideQuiet ==
  ASSUME PaymentsInv, ClearingTypes', RowsKept, UNCHANGED <<fwd, heard, charged, credits>>
  PROVE  PaymentsInv'
<1>1. \A q \in Slots : HasReceipt(q)' =>
        HasReceipt(q) /\ fwd'[q].answer.receipt = fwd[q].answer.receipt /\ fwd'[q].pay = fwd[q].pay
  BY DEF HasReceipt
<1> QED BY <1>1, NothingSent, QuietStep DEF RowsKept

\* Reading an answer takes it away.
LEMMA AnswerRead ==
  ASSUME ClearingTypes, NEW s \in Slots, fwd' = [fwd EXCEPT ![s] = Idle], NEW q \in Slots, HasReceipt(q)'
  PROVE  HasReceipt(q) /\ fwd'[q].answer.receipt = fwd[q].answer.receipt /\ fwd'[q].pay = fwd[q].pay
<1>1. q # s
  BY DEF HasReceipt, Idle, ClearingTypes, ClearingTypeOK
<1>2. fwd'[q] = fwd[q]
  BY <1>1 DEF ClearingTypes, ClearingTypeOK
<1> QED BY <1>2 DEF HasReceipt

\* A receipt that is cleared is of a charge for this hub, and not credited yet.
LEMMA FirstCredit ==
  ASSUME PaymentsInv, NEW s \in Slots, fwd[s].phase = "answer", fwd[s].answer.result = "success",
         NEW p \in Payments, p = fwd[s].pay, NEW rec, rec = fwd[s].answer.receipt,
         ReceiptMatches(p, rec), ClearOutcome(p.entry, db[p.entry], rec, Owner(p), now[p.entry]) = "cleared"
  PROVE  /\ rec \in ReceiptType /\ rec.auth = p.auth /\ rec.settleAt \in Int /\ HasReceipt(s)
         /\ Stamped(p.auth, rec.settleAt) /\ ChargedFor(p.auth, p.entry)
         /\ credits[p.entry][p.auth] = 0
<1> USE DEF PaymentsInv
<1>1. PICK h \in Hubs, a \in Auths : h = p.entry /\ a = p.auth
  BY PaymentTyped
<1>2. rec \in ReceiptType
  <2>1. fwd[s].answer \in Result /\ "success" \notin Refusals
    BY ExchangeForms DEF ClearingTypes, Replied, Refusals
  <2> QED BY <2>1 DEF Result
<1>3. rec.auth = a /\ rec.settleAt \in Int /\ HasReceipt(s)
  BY <1>1, <1>2 DEF ReceiptMatches, ReceiptType, HasReceipt
<1>4. Stamped(a, rec.settleAt) /\ ChargedFor(a, h)
  BY <1>1, <1>3 DEF Stamped, ChargesInv
<1>5. ~IsCleared(db[h], a) /\ ReceiptInWindow(rec, now[h])
  BY <1>1, <1>3 DEF ClearOutcome
<1>6. credits[h][a] = 0
  <2>1. now[h] \in Nat /\ credits[h][a] \in Nat
    BY DEF ClearingTypes, ClearingTypeOK, AllLedgersInv
  <2>2. PeerReceiptMaxAge < ClearedKeptAfter /\ PeerReceiptMaxAge \in Nat /\ ClearedKeptAfter \in Nat
    BY ClearingAssumption, LedgerAssumption
  <2>3. ~(rec.settleAt <= now[h] - ClearedKeptAfter)
    BY <1>3, <1>5, <2>1, <2>2 DEF ReceiptInWindow
  <2>4. ~NoMoreCredit(h, a)
    BY <1>3, <1>4, <1>5, <2>3 DEF NoMoreCredit
  <2> QED BY <2>1, <2>4 DEF CreditsInv
<1> QED BY <1>1, <1>2, <1>3, <1>4, <1>6

\* Reading an answer: a success credits the payee unless it is credited already, and a
\* receipt that arrives after the row of its clearing is gone is too old.
LEMMA ReadKeeps ==
  ASSUME PaymentsInv, ClearingTypes', NEW s \in Slots, ReadAnswer(s)
  PROVE  PaymentsInv'
<1> USE DEF PaymentsInv
<1>1. fwd[s] \in Replied
  BY ExchangeForms DEF ReadAnswer, ClearingTypes
<1>2. PICK p \in Payments : p = fwd[s].pay
  BY <1>1 DEF Replied
<1>3. PICK h \in Hubs, a \in Auths : h = p.entry /\ a = p.auth
  BY PaymentTyped
<1>4. PICK rec : rec = fwd[s].answer.receipt
  OBVIOUS
<1>5. UNCHANGED charged /\ fwd' = [fwd EXCEPT ![s] = Idle]
  BY DEF ReadAnswer
<1>6. \A q \in Slots : HasReceipt(q)' =>
        HasReceipt(q) /\ fwd'[q].answer.receipt = fwd[q].answer.receipt /\ fwd'[q].pay = fwd[q].pay
  BY <1>5, AnswerRead
<1> DEFINE out == ClearOutcome(h, db[h], rec, Owner(p), now[h])
<1>7. CASE UNCHANGED <<ledgerVars, credits>>
  <2>1. RowsKept
    BY <1>7, LedgersStay
  <2>2. ASSUME NEW q \in Payments, heard'[q] = "success" PROVE heard[q] = "success" \/ (Credited(q) /\ Charged(q))
    <3>1. CASE heard' = [heard EXCEPT ![p] = "refused"]
      BY <2>2, <3>1 DEF ClearingTypes, ClearingTypeOK
    <3>2. ASSUME fwd[s].answer.result = "success", ReceiptMatches(p, rec), heard' = [heard EXCEPT ![p] = Told(out)],
                 out # "cleared"
          PROVE  heard[q] = "success" \/ (Credited(q) /\ Charged(q))
      <4>1. CASE q # p
        BY <2>2, <3>2, <4>1 DEF ClearingTypes, ClearingTypeOK
      <4>2. CASE q = p
        <5>1. out = "repeat"
          BY <2>2, <3>2, <4>2 DEF Told, ClearingTypes, ClearingTypeOK
        <5>2. IsCleared(db[h], rec.auth) /\ rec.auth = a
          BY <1>3, <3>2, <5>1 DEF ClearOutcome, ReceiptMatches
        <5>3. credits[h][a] > 0
          BY <5>2 DEF IsCleared, CreditsInv
        <5>4. HasReceipt(s)
          BY <3>2 DEF ReadAnswer, HasReceipt
        <5> QED BY <1>2, <1>3, <4>2, <5>3, <5>4 DEF ChargesInv, ChargedFor, Charged, Credited
      <4> QED BY <4>1, <4>2
    <3>3. out # "cleared" \/ credits' # credits \/ heard' = [heard EXCEPT ![p] = "refused"]
      <4>1. \/ heard' = [heard EXCEPT ![p] = "refused"]
            \/ credits' = [credits EXCEPT ![h][a] = credits[h][a] + 1]
            \/ out # "cleared"
        BY <1>2, <1>3, <1>4, Zenon DEF ReadAnswer
      <4>2. [credits EXCEPT ![h][a] = credits[h][a] + 1] # credits
        <5>1. PICK n \in Nat : n = credits[h][a]
          BY DEF ClearingTypes, ClearingTypeOK
        <5>2. [credits EXCEPT ![h][a] = n + 1][h][a] = n + 1
          BY DEF ClearingTypes, ClearingTypeOK
        <5> QED BY <5>1, <5>2
      <4> QED BY <4>1, <4>2
    <3>4. \/ heard' = [heard EXCEPT ![p] = "refused"]
          \/ fwd[s].answer.result = "success" /\ ReceiptMatches(p, rec) /\ heard' = [heard EXCEPT ![p] = Told(out)]
      BY <1>2, <1>3, <1>4, Zenon DEF ReadAnswer
    <3> QED BY <1>7, <3>1, <3>2, <3>3, <3>4
  <2> QED BY <1>5, <1>6, <1>7, <2>1, <2>2, NothingSent, QuietStep DEF RowsKept
<1>8. ASSUME fwd[s].answer.result = "success", ReceiptMatches(p, rec), ClearFromPeer(h, rec, Owner(p)),
             credits' = [credits EXCEPT ![h][a] = credits[h][a] + 1], heard' = [heard EXCEPT ![p] = Told(out)]
      PROVE  PaymentsInv'
  <2> DEFINE row == [auth |-> a, peer |-> Owner(p), settleAt |-> rec.settleAt]
  <2>1. /\ rec.auth = a /\ rec.settleAt \in Int /\ HasReceipt(s)
        /\ Stamped(a, rec.settleAt) /\ ChargedFor(a, h)
        /\ credits[h][a] = 0
    <3>1. out = "cleared"
      BY <1>8 DEF ClearFromPeer
    <3> QED BY <1>2, <1>3, <1>4, <1>8, <3>1, FirstCredit DEF ReadAnswer
  <2>2. PICK e : e = ClearTx(db[h], rec, Owner(p)) /\ db' = [db EXCEPT ![h] = e] /\ UNCHANGED now
    BY <1>8 DEF ClearFromPeer
  <2>3. e.settled = db[h].settled /\ e.cleared = db[h].cleared \cup {row}
    <3>1. db[h] \in DB
      BY DEF ClearingTypes, AllLedgersInv, LedgerInv
    <3> QED BY <2>1, <2>2, <3>1 DEF ClearTx, DB
  <2> HIDE DEF out, row
  <2>4. db'[h] = e /\ \A g \in Hubs \ {h} : db'[g] = db[g]
    BY <2>2 DEF ClearingTypes, AllLedgersInv
  <2>5. \A g \in Hubs : db'[g].settled = db[g].settled
    BY <2>3, <2>4
  <2>6. credits'[h][a] = 1 /\ \A g \in Hubs, b \in Auths : g # h \/ b # a => credits'[g][b] = credits[g][b]
    <3>1. credits' = [credits EXCEPT ![h][a] = 1]
      BY <1>8, <2>1
    <3> QED BY <3>1 DEF ClearingTypes, ClearingTypeOK
  <2>7. ChargeRowsKept
    BY <2>2, <2>5 DEF ChargeRowsKept, ClearingTypes, AllLedgersInv
  <2>8. /\ \A b \in Auths : \A t \in Int : Stamped(b, t)' => Stamped(b, t)
        /\ \A q \in Slots : HasReceipt(q)' =>
             fwd'[q].answer.receipt.auth = fwd'[q].pay.auth /\ ChargedFor(fwd'[q].pay.auth, fwd'[q].pay.entry)
    BY <1>6, <2>7, NothingSent
  <2>9. ChargesInv'
    BY <1>5, <2>7, <2>8, ChargesStay
  <2>10. \A b, g : ChargedFor(b, g)' <=> ChargedFor(b, g)
    BY <1>5 DEF ChargedFor
  <2>11. ASSUME NEW g \in Hubs, NEW r \in db'[g].cleared
         PROVE  credits'[g][r.auth] > 0 /\ \A t \in Int : Stamped(r.auth, t)' => t = r.settleAt
    <3>1. CASE g = h /\ r = row
      BY <2>1, <2>6, <2>8, <3>1 DEF row, ChargesInv
    <3>2. CASE r \in db[g].cleared
      <4>1. r.auth \in Auths
        BY <3>2 DEF ClearingTypes, AllLedgersInv, LedgerInv, DB, ClearedRow
      <4>2. credits[g][r.auth] > 0 /\ \A t \in Int : Stamped(r.auth, t) => t = r.settleAt
        BY <3>2 DEF CreditsInv
      <4>3. credits'[g][r.auth] > 0
        BY <2>6, <4>1, <4>2
      <4> QED BY <2>8, <4>1, <4>2, <4>3
    <3> QED BY <2>3, <2>4, <2>11, <3>1, <3>2
  <2>12. ASSUME NEW g \in Hubs, NEW b \in Auths, credits'[g][b] > 0
         PROVE  credits'[g][b] = 1 /\ ChargedFor(b, g)' /\ NoMoreCredit(g, b)'
    <3>1. CASE g = h /\ b = a
      <4>1. row \in db'[h].cleared /\ row.auth = a
        BY <2>3, <2>4 DEF row
      <4> QED BY <2>1, <2>6, <2>10, <3>1, <4>1 DEF NoMoreCredit, IsCleared
    <3>2. CASE g # h \/ b # a
      <4>1. credits[g][b] = 1 /\ ChargedFor(b, g) /\ NoMoreCredit(g, b)
        BY <2>6, <2>12, <3>2 DEF CreditsInv
      <4>2. db[g].cleared \subseteq db'[g].cleared
        BY <2>3, <2>4
      <4>3. NoMoreCredit(g, b)'
        BY <2>2, <2>8, <4>1, <4>2 DEF NoMoreCredit, IsCleared
      <4> QED BY <2>6, <2>10, <3>2, <4>1, <4>3
    <3> QED BY <3>1, <3>2
  <2>13. ASSUME NEW q \in Payments, heard'[q] = "success" PROVE Credited(q)' /\ Charged(q)'
    <3>1. CASE q = p
      BY <1>3, <1>5, <2>1, <2>6, <3>1 DEF Credited, Charged, ChargedFor
    <3>2. CASE q # p
      <4>1. Credited(q) /\ Charged(q)
        BY <1>8, <2>13, <3>2 DEF CreditsInv, ClearingTypes, ClearingTypeOK
      <4>2. q.entry \in Hubs /\ q.auth \in Auths
        BY PaymentTyped
      <4> QED BY <1>5, <2>6, <4>1, <4>2 DEF Credited, Charged
    <3> QED BY <3>1, <3>2
  <2> QED BY <2>9, <2>11, <2>12, <2>13 DEF CreditsInv
<1>9. \/ UNCHANGED <<ledgerVars, credits>>
      \/ /\ fwd[s].answer.result = "success" /\ ReceiptMatches(p, rec) /\ ClearFromPeer(h, rec, Owner(p))
         /\ credits' = [credits EXCEPT ![h][a] = credits[h][a] + 1] /\ heard' = [heard EXCEPT ![p] = Told(out)]
  BY <1>2, <1>3, <1>4, Zenon DEF ReadAnswer
<1> QED BY <1>7, <1>8, <1>9

\* A payment that is charged was not charged before, nor credited.
LEMMA FirstCharge ==
  ASSUME PaymentsInv, NEW p \in Payments, ForwardOutcome(p) = "settled"
  PROVE  /\ p.auth.issuedAt < p.auth.notAfter /\ ~IsSettled(db[Owner(p)], p.auth)
         /\ \A c \in charged : c.auth # p.auth
         /\ \A f : ~ChargedFor(p.auth, f)
         /\ \A f \in Hubs : credits[f][p.auth] = 0
<1> USE DEF PaymentsInv
<1>1. PICK h \in Hubs, a \in Auths : h = Owner(p) /\ a = p.auth /\ h = a.network
  BY PaymentTyped DEF Owner
<1>2. now[h] \in Nat /\ a.notAfter \in Nat /\ a.issuedAt \in Nat /\ SettledKeptAfter \in Nat
  BY LedgerAssumption DEF ClearingTypes, AllLedgersInv, AuthType
<1>3. a.issuedAt < a.notAfter /\ ~IsSettled(db[h], a) /\ ~Spent(a)
  <2>1. ForwardRefusal(p) = "ok"
    <3>1. ForwardRefusal(p) # "settled"
      BY RefusalTyped DEF Refusals
    <3> QED BY <3>1 DEF ForwardOutcome
  <2>2. ~IsSettled(db[h], a) /\ InWindow(a, now[h])
    BY <1>1, <2>1 DEF ForwardOutcome
  <2>3. verifiedAuth(h, db[h], 0, a, 0, p.offer) = "ok"
    BY <1>1, <2>1 DEF ForwardRefusal
  <2>4. ~(a.notAfter <= a.issuedAt)
    BY <2>3 DEF verifiedAuth
  <2> QED BY <1>1, <1>2, <2>2, <2>4, ClearingAssumption DEF Spent, InWindow
<1>4. /\ \A c \in charged : c.auth # a
      /\ \A f : ~ChargedFor(a, f)
  BY <1>3 DEF ChargesInv, ChargedFor
<1>5. \A f \in Hubs : credits[f][a] = 0
  BY <1>4 DEF CreditsInv, ClearingTypes, ClearingTypeOK
<1> QED BY <1>1, <1>3, <1>4, <1>5

\* Serving a forwarded payment: a charge is made while the authorization is neither
\* settled nor past, so it is the first; a repeat sends a receipt the row knows.
LEMMA ServeKeeps ==
  ASSUME PaymentsInv, ClearingTypes', NEW s \in Slots, ServeFedSettle(s)
  PROVE  PaymentsInv'
<1> USE DEF PaymentsInv
<1>1. fwd[s] \in Requested /\ fwd[s].phase = "request"
  BY ExchangeForms DEF ServeFedSettle, ClearingTypes
<1>2. PICK p \in Payments : p = fwd[s].pay
  BY <1>1 DEF Requested
<1>3. PICK h \in Hubs, g \in Hubs, a \in Auths :
        h = Owner(p) /\ g = p.entry /\ a = p.auth /\ h = a.network /\ h # g
  <2>1. fwd[s] # Idle
    BY <1>1 DEF Idle
  <2> QED BY <1>2, <2>1, PaymentTyped DEF ClearingTypes, Forwardable, Owner
<1>4. UNCHANGED <<clr, heard, credits, signed, unbooked, lost>>
  BY DEF ServeFedSettle
<1>5. now[h] \in Nat /\ a.notAfter \in Nat /\ db[h] \in DB
  BY LedgerAssumption DEF ClearingTypes, AllLedgersInv, LedgerInv, AuthType
<1>6. ASSUME NEW x \in Result, Answered(s, x)
      PROVE  /\ fwd'[s].phase = "answer" /\ fwd'[s].pay = p /\ fwd'[s].answer = x
             /\ \A q \in Slots \ {s} : fwd'[q] = fwd[q]
  <2>1. /\ fwd'[s] = [phase |-> "answer", pay |-> fwd[s].pay, waiting |-> fwd[s].waiting, answer |-> x]
        /\ \A q \in Slots \ {s} : fwd'[q] = fwd[q]
    BY <1>1, <1>6, AnsweredTyped
  <2> QED BY <1>2, <2>1
<1>7. ASSUME NEW x \in Result, Answered(s, x), UNCHANGED <<ledgerVars, charged>>,
             x.result = "success" =>
               /\ x.receipt.auth = a /\ ChargedFor(a, g)
               /\ \E r \in db[h].settled : r.auth = a /\ r.at = x.receipt.settleAt
      PROVE  PaymentsInv'
  <2>1. RowsKept
    BY <1>7, LedgersStay
  <2>2. ASSUME NEW b \in Auths, NEW t \in Int, Stamped(b, t)' PROVE Stamped(b, t)
    <3>1. CASE \E r \in db'[b.network].settled : r.auth = b /\ r.at = t
      BY <1>7, <3>1 DEF Stamped, ledgerVars
    <3>2. ASSUME NEW q \in Slots, HasReceipt(q)', fwd'[q].answer.receipt.auth = b,
                 fwd'[q].answer.receipt.settleAt = t
          PROVE  Stamped(b, t)
      <4>1. CASE q = s
        BY <1>3, <1>6, <1>7, <3>2, <4>1 DEF Stamped, HasReceipt
      <4>2. CASE q # s
        BY <1>6, <1>7, <3>2, <4>2 DEF Stamped, HasReceipt
      <4> QED BY <4>1, <4>2
    <3> QED BY <2>2, <3>1, <3>2 DEF Stamped
  <2>3. ASSUME NEW q \in Slots, HasReceipt(q)'
        PROVE  fwd'[q].answer.receipt.auth = fwd'[q].pay.auth /\ ChargedFor(fwd'[q].pay.auth, fwd'[q].pay.entry)
    <3>1. CASE q = s
      BY <1>3, <1>6, <1>7, <2>3, <3>1 DEF HasReceipt
    <3>2. CASE q # s
      <4>1. fwd'[q] = fwd[q]
        BY <1>6, <1>7, <3>2
      <4> QED BY <2>3, <4>1 DEF HasReceipt, ChargesInv
    <3> QED BY <3>1, <3>2
  <2> QED BY <1>4, <1>7, <2>1, <2>2, <2>3, QuietStep
<1>8. ASSUME ForwardOutcome(p) # "settled", UNCHANGED <<ledgerVars, charged>>,
             Answered(s, IF ForwardOutcome(p) = "repeat" THEN Repeat(p) ELSE AnswerOf(ForwardOutcome(p), NoReceipt))
      PROVE  PaymentsInv'
  <2> DEFINE x == IF ForwardOutcome(p) = "repeat" THEN Repeat(p) ELSE AnswerOf(ForwardOutcome(p), NoReceipt)
  <2>1. CASE ForwardOutcome(p) = "repeat" /\ SettledFor(db[h], a, g)
    <3>1. PICK row : row = CHOOSE r \in db[h].settled : r.auth = a
      OBVIOUS
    <3>2. row \in db[h].settled /\ row.auth = a
      BY <2>1, <3>1 DEF SettledFor
    <3>3. x = AnswerOf("success", ReceiptOf(a, row.at))
      BY <1>3, <2>1, <3>1 DEF Repeat
    <3>4. row.at \in Int
      BY <1>5, <3>2 DEF DB, SettledRow
    <3>5. x \in Result /\ x.receipt.auth = a /\ x.receipt.settleAt = row.at
      BY <1>3, <3>3, <3>4, PaymentTyped DEF AnswerOf, Result, ReceiptOf
    <3>6. ChargedFor(a, g)
      BY <1>3, <2>1 DEF SettledFor, ChargesInv
    <3>7. Answered(s, x)
      BY <1>8
    <3> HIDE DEF x
    <3> QED BY <1>7, <1>8, <3>2, <3>5, <3>6, <3>7
  <2>2. CASE ~(ForwardOutcome(p) = "repeat" /\ SettledFor(db[h], a, g))
    <3>1. ForwardOutcome(p) \in Refusals \cup {"repeat"}
      <4>1. Forwardable(p) /\ Owner(p) # p.entry
        <5>1. fwd[s] # Idle
          BY <1>1 DEF Idle
        <5> QED BY <1>2, <5>1 DEF ClearingTypes, Forwardable
      <4> QED BY <1>8, <4>1, OutcomeTyped
    <3>2. x \in [result: Refusals, receipt: {NoReceipt}]
      <4>1. ForwardOutcome(p) = "repeat" => x = AnswerOf("duplicate_nonce", NoReceipt)
        BY <1>3, <2>2 DEF Repeat
      <4>2. "duplicate_nonce" \in Refusals
        BY DEF Refusals
      <4> QED BY <3>1, <4>1, <4>2 DEF AnswerOf
    <3>3. x \in Result /\ x.result # "success"
      BY <3>2 DEF Result, Refusals
    <3>4. Answered(s, x)
      BY <1>8
    <3> HIDE DEF x
    <3> QED BY <1>7, <1>8, <3>3, <3>4
  <2> QED BY <2>1, <2>2
<1>9. ASSUME ForwardOutcome(p) = "settled", Settle(h, a, a.bind, g),
             charged' = charged \cup {[auth |-> a, via |-> g, amount |-> a.amount]},
             Answered(s, AnswerOf("success", ReceiptOf(a, now[h])))
      PROVE  PaymentsInv'
  <2> DEFINE row == [auth |-> a, via |-> g, at |-> now[h]]
             c0  == [auth |-> a, via |-> g, amount |-> a.amount]
  <2>1. /\ a.issuedAt < a.notAfter /\ ~IsSettled(db[h], a)
        /\ \A c \in charged : c.auth # a
        /\ \A f : ~ChargedFor(a, f)
        /\ \A f \in Hubs : credits[f][a] = 0
    BY <1>3, <1>9, FirstCharge
  <2>2. PICK e : e = SettleTx(h, db[h], a, a.bind, g, now[h]) /\ db' = [db EXCEPT ![h] = e] /\ UNCHANGED now
    BY <1>9 DEF Settle
  <2>3. e.settled = db[h].settled \cup {row} /\ e.cleared = db[h].cleared
    BY <1>5, <2>2 DEF SettleTx, DB
  <2>4. db'[h] = e /\ \A f \in Hubs \ {h} : db'[f] = db[f]
    BY <2>2 DEF ClearingTypes, AllLedgersInv
  <2>5. PICK x \in Result : x = AnswerOf("success", ReceiptOf(a, now[h]))
    <3>1. ReceiptOf(a, now[h]) \in ReceiptType
      BY <1>3, <1>5, PaymentTyped
    <3>2. AnswerOf("success", ReceiptOf(a, now[h])) \in Result
      BY <3>1 DEF AnswerOf, Result
    <3> QED BY <3>2
  <2>6. x.result = "success" /\ x.receipt.auth = a /\ x.receipt.settleAt = now[h]
    BY <2>5 DEF AnswerOf, ReceiptOf
  <2>7. /\ fwd'[s].phase = "answer" /\ fwd'[s].pay = p /\ fwd'[s].answer = x
        /\ \A q \in Slots \ {s} : fwd'[q] = fwd[q]
    BY <1>6, <1>9, <2>5
  <2>8. charged' = charged \cup {c0} /\ c0.auth = a /\ c0.via = g
    BY <1>9
  <2>9. row.auth = a /\ row.via = g /\ row.at = now[h]
    OBVIOUS
  <2> HIDE DEF row, c0
  <2>10. /\ \A b, f : ChargedFor(b, f) => ChargedFor(b, f)'
         /\ ChargedFor(a, g)'
    BY <2>8 DEF ChargedFor
  <2>11. ASSUME NEW b \in Auths, NEW t \in Int, Stamped(b, t)'
         PROVE  IF b = a THEN t = now[h] ELSE Stamped(b, t)
    <3>1. b.network \in Hubs
      BY LedgerAssumption DEF AuthType
    <3>2. ASSUME NEW r \in db'[b.network].settled, r.auth = b, r.at = t
          PROVE  IF b = a THEN t = now[h] ELSE Stamped(b, t)
      <4>1. CASE b.network = h /\ r = row
        BY <2>9, <3>2, <4>1
      <4>2. CASE r \in db[b.network].settled
        <5>1. b # a
          BY <1>3, <2>1, <3>2, <4>2 DEF IsSettled
        <5> QED BY <3>2, <4>2, <5>1 DEF Stamped
      <4> QED BY <2>3, <2>4, <3>1, <3>2, <4>1, <4>2
    <3>3. ASSUME NEW q \in Slots, HasReceipt(q)', fwd'[q].answer.receipt.auth = b,
                 fwd'[q].answer.receipt.settleAt = t
          PROVE  IF b = a THEN t = now[h] ELSE Stamped(b, t)
      <4>1. CASE q = s
        BY <2>6, <2>7, <3>3, <4>1
      <4>2. CASE q # s
        <5>1. HasReceipt(q) /\ fwd[q].answer.receipt.auth = b /\ fwd[q].answer.receipt.settleAt = t
          BY <2>7, <3>3, <4>2 DEF HasReceipt
        <5>2. b # a
          BY <2>1, <5>1 DEF ChargesInv
        <5> QED BY <5>1, <5>2 DEF Stamped
      <4> QED BY <4>1, <4>2
    <3> QED BY <2>11, <3>2, <3>3 DEF Stamped
  <2>12. ChargesInv'
    <3>1. ASSUME NEW f \in Hubs, NEW r \in db'[f].settled, r.auth.network = f PROVE ChargedFor(r.auth, r.via)'
      <4>1. CASE r = row
        BY <2>9, <2>10, <4>1
      <4>2. CASE r \in db[f].settled
        BY <2>10, <3>1, <4>2 DEF ChargesInv
      <4> QED BY <2>3, <2>4, <3>1, <4>1, <4>2
    <3>2. ASSUME NEW c \in charged' PROVE Spent(c.auth)'
      <4>1. CASE c = c0
        <5>1. row \in db'[h].settled
          BY <2>3, <2>4
        <5> QED BY <1>3, <2>1, <2>8, <2>9, <4>1, <5>1 DEF Spent, IsSettled
      <4>2. CASE c \in charged
        <5>1. PICK b \in Auths : b = c.auth /\ Spent(b)
          BY <4>2 DEF ChargesInv, ClearingTypes, ClearingTypeOK
        <5>2. b.network \in Hubs
          BY LedgerAssumption DEF AuthType
        <5>3. db[b.network].settled \subseteq db'[b.network].settled /\ now'[b.network] = now[b.network]
          BY <2>2, <2>3, <2>4, <5>2
        <5> QED BY <5>1, <5>3 DEF Spent, IsSettled
      <4> QED BY <2>8, <3>2, <4>1, <4>2
    <3>3. \A c, d \in charged' : c.auth = d.auth => c.via = d.via
      BY <2>1, <2>8 DEF ChargesInv
    <3>4. ASSUME NEW q \in Slots, HasReceipt(q)'
          PROVE  (fwd[q].answer.receipt.auth = fwd[q].pay.auth /\ ChargedFor(fwd[q].pay.auth, fwd[q].pay.entry))'
      <4>1. CASE q = s
        BY <1>3, <2>6, <2>7, <2>10, <4>1 DEF ChargedFor
      <4>2. CASE q # s
        <5>1. fwd'[q] = fwd[q] /\ HasReceipt(q)
          BY <2>7, <3>4, <4>2 DEF HasReceipt
        <5>2. fwd[q].answer.receipt.auth = fwd[q].pay.auth /\ ChargedFor(fwd[q].pay.auth, fwd[q].pay.entry)
          BY <5>1 DEF ChargesInv
        <5> QED BY <2>8, <5>1, <5>2 DEF ChargedFor
      <4> QED BY <4>1, <4>2
    <3>5. \A b \in Auths : \A t, u \in Int : Stamped(b, t)' /\ Stamped(b, u)' => t = u
      BY <2>11 DEF ChargesInv
    <3> QED BY <3>1, <3>2, <3>3, <3>4, <3>5 DEF ChargesInv
  <2>13. \A f \in Hubs : db'[f].cleared = db[f].cleared /\ now'[f] = now[f]
    BY <2>2, <2>3, <2>4
  <2>14. ASSUME NEW f \in Hubs, NEW r \in db'[f].cleared
         PROVE  credits'[f][r.auth] > 0 /\ \A t \in Int : Stamped(r.auth, t)' => t = r.settleAt
    <3>1. r \in db[f].cleared /\ r.auth \in Auths
      BY <2>13, <2>14 DEF ClearingTypes, AllLedgersInv, LedgerInv, DB, ClearedRow
    <3>2. credits[f][r.auth] > 0 /\ \A t \in Int : Stamped(r.auth, t) => t = r.settleAt
      BY <3>1 DEF CreditsInv
    <3>3. r.auth # a
      BY <2>1, <3>2
    <3> QED BY <1>4, <2>11, <3>1, <3>2, <3>3
  <2>15. ASSUME NEW f \in Hubs, NEW b \in Auths, credits'[f][b] > 0
         PROVE  credits'[f][b] = 1 /\ ChargedFor(b, f)' /\ NoMoreCredit(f, b)'
    <3>1. credits[f][b] = 1 /\ ChargedFor(b, f) /\ NoMoreCredit(f, b) /\ b # a
      BY <1>4, <2>1, <2>15 DEF CreditsInv
    <3>2. NoMoreCredit(f, b)'
      BY <2>11, <2>13, <3>1 DEF NoMoreCredit, IsCleared
    <3> QED BY <1>4, <2>10, <3>1, <3>2
  <2>16. ASSUME NEW q \in Payments, heard'[q] = "success" PROVE Credited(q)' /\ Charged(q)'
    BY <1>4, <2>8, <2>16 DEF CreditsInv, Credited, Charged
  <2> QED BY <2>12, <2>14, <2>15, <2>16 DEF CreditsInv
<1> QED BY <1>2, <1>3, <1>8, <1>9, Zenon DEF ServeFedSettle

LEMMA PaymentsKept == PaymentsInv /\ [ClearingNext]_vars => PaymentsInv'
<1> SUFFICES ASSUME PaymentsInv, [ClearingNext]_vars PROVE PaymentsInv'
  OBVIOUS
<1>1. ClearingTypes'
  BY TypesKept DEF PaymentsInv
<1>2. CASE UNCHANGED vars
  <2>1. UNCHANGED <<ledgerVars, fwd, heard, charged, credits>>
    BY <1>2 DEF vars, clearingVars
  <2> QED BY <1>1, <2>1, LedgersStay, OutsideQuiet DEF PaymentsInv
<1>3. ASSUME NEW s \in Slots, (\E p \in Payments : Ask(s, p)) \/ ForwardStep(s) PROVE PaymentsInv'
  BY <1>1, <1>3, ExchangeQuiet, ServeKeeps, ReadKeeps DEF ForwardStep
<1>4. ASSUME NEW k \in Consoles,
             \/ ClearStep(k)
             \/ \E h \in Hubs : \E peer \in Hubs \ {h}, amt \in ClearAmounts, id \in StatementIds :
                  RunClear(k, h, peer, amt, id)
      PROVE  PaymentsInv'
  <2>1. RowsKept
    BY <1>4, DischargeRows DEF PaymentsInv
  <2>2. UNCHANGED <<fwd, heard, charged, credits>>
    BY <1>4 DEF RunClear, ClearStep, ServeFedClear, ReadClearAnswer, Unconfirmed
  <2> QED BY <1>1, <2>1, <2>2, OutsideQuiet
<1>5. ASSUME NEW h \in Hubs, OtherStep(h) PROVE PaymentsInv'
  <2>1. RowsKept
    BY <1>5, OtherRows DEF PaymentsInv
  <2>2. UNCHANGED <<fwd, heard, charged, credits>>
    BY <1>5 DEF OtherStep, clearingVars
  <2> QED BY <1>1, <2>1, <2>2, OutsideQuiet
<1> QED BY <1>2, <1>3, <1>4, <1>5 DEF ClearingNext

LEMMA PaymentsInit == ClearingInit => PaymentsInv
<1> SUFFICES ASSUME ClearingInit PROVE PaymentsInv
  OBVIOUS
<1>1. ClearingTypes
  BY TypesInit
<1>2. \A h \in Hubs : db[h].settled = {} /\ db[h].cleared = {}
  BY DEF ClearingInit, LedgerInit, EmptyDB
<1>3. \A s \in Slots : ~HasReceipt(s)
  BY DEF ClearingInit, HasReceipt, Idle
<1>4. \A a \in Auths, t \in Int : ~Stamped(a, t)
  BY <1>2, <1>3, LedgerAssumption DEF Stamped, AuthType
<1>5. ChargesInv
  BY <1>2, <1>3, <1>4 DEF ClearingInit, ChargesInv
<1>6. CreditsInv
  BY <1>2 DEF ClearingInit, CreditsInv
<1> QED BY <1>1, <1>5, <1>6 DEF PaymentsInv

LEMMA PaymentsInvariant == ClearingSpec => []PaymentsInv
BY PaymentsInit, PaymentsKept, PTL DEF ClearingSpec

\* Every state of the exchange between the hubs is of its type, their ledgers included.
THEOREM ClearingTypeCorrect == ClearingSpec => []ClearingTypeOK
<1>1. PaymentsInv => ClearingTypeOK
  BY DEF PaymentsInv, ClearingTypes
<1> QED BY <1>1, PaymentsInvariant, PTL

\* The ledgers of hubs that pay through each other, register, prune and discharge are
\* as sound as a ledger whose transactions are called in any order: the callers hand
\* the transactions nothing they do not withstand.
THEOREM ClearingLedgerSound == ClearingSpec => []LedgerSound
<1>1. PaymentsInv => LedgerSound
  <2>1. ASSUME AllLedgersInv, NEW h \in Hubs, NEW a \in Auths, NEW via \in (Hubs \ {h}) \cup {NoHub},
               amountInt64(a.amount), db[h].balance[a.payer] >= Signed(a.amount),
               (via = NoHub) <=> IsLocal(h, db[h], a.payTo)
        PROVE  SettleFits(h, db[h], a, via)
    <3>1. LedgerInv(db[h])
      BY <2>1 DEF AllLedgersInv
    <3> QED BY <2>1, <3>1, SettleFitsLemma
  <2>2. AllLedgersInv => SettlementAlwaysFits
    BY <2>1 DEF SettlementAlwaysFits
  <2>3. AllLedgersInv => LedgerTypeOK /\ Consistent /\ DebtsBacked
    BY DEF AllLedgersInv, LedgerInv, LedgerTypeOK, Consistent, DebtsBacked
  <2> QED BY <2>2, <2>3 DEF PaymentsInv, ClearingTypes, LedgerSound
<1> QED BY <1>1, PaymentsInvariant, PTL

\* Whatever is lost, asked again, late or deleted in between: an authorization is
\* credited at most once, over all hubs, and a merchant that is told success has been
\* credited and its payer charged (PAY-L5).
THEOREM ClearingCreditsSound == ClearingSpec => []CreditsSound
<1>1. PaymentsInv => CreditedOnce
  <2> SUFFICES ASSUME PaymentsInv, NEW a \in Auths, NEW h \in Hubs, NEW g \in Hubs,
                      credits[h][a] > 0, credits[g][a] > 0
               PROVE  h = g /\ credits[h][a] = 1
    BY DEF CreditedOnce
  <2>1. credits[h][a] = 1 /\ ChargedFor(a, h) /\ ChargedFor(a, g)
    BY DEF PaymentsInv, CreditsInv
  <2> QED BY <2>1 DEF PaymentsInv, ChargesInv, ChargedFor
<1>2. PaymentsInv => ClearingTypeOK /\ SuccessMeansCredited
  BY DEF PaymentsInv, ClearingTypes, CreditsInv, SuccessMeansCredited
<1> QED BY <1>1, <1>2, PaymentsInvariant, PTL DEF CreditsSound

\* A merchant's retry gets the receipt of its charge, from the charge until its row is
\* due to be deleted, as long as payer and payee are where they were.
THEOREM ClearingChargedNotRefused == ClearingSpec => ChargedNotRefused
<1>1. ASSUME PaymentsInv, NEW s \in Slots, ServeFedSettle(s), NEW p, p = fwd[s].pay, NEW l, l = Owner(p),
             Charged(p), p.auth.payer \in db[l].registered, p.auth.payTo \notin db[l].registered,
             now[l] < p.auth.notAfter + SettledKeptAfter
      PROVE  fwd'[s].answer.result = "success"
  <2> USE DEF PaymentsInv
  <2>1. fwd[s] \in Requested /\ fwd[s].phase = "request" /\ fwd[s] # Idle
    BY <1>1, ExchangeForms DEF ServeFedSettle, ClearingTypes, Idle
  <2>2. PICK q \in Payments : q = p
    BY <1>1, <2>1 DEF Requested
  <2>3. Forwardable(q)
    BY <1>1, <2>1, <2>2 DEF ClearingTypes
  <2>4. PICK h \in Hubs, g \in Hubs, a \in Auths :
          h = l /\ h = Owner(q) /\ g = q.entry /\ a = q.auth /\ h = a.network /\ h # g
    BY <1>1, <2>2, <2>3, PaymentTyped DEF Forwardable, Owner
  <2>5. PICK c \in charged : c.auth = a /\ c.via = g
    BY <1>1, <2>2, <2>4 DEF Charged
  <2>6. Spent(a)
    BY <1>1, <2>5 DEF ChargesInv
  <2>7. a.notAfter \in Nat /\ a.issuedAt \in Nat /\ now[h] \in Nat
    BY <1>1, LedgerAssumption DEF AuthType, ClearingTypes, AllLedgersInv
  <2>8. IsSettled(db[h], a) /\ ~(a.notAfter <= a.issuedAt)
    BY <1>1, <2>2, <2>4, <2>6, <2>7, LedgerAssumption DEF Spent
  <2>9. /\ q.offer.network = h /\ a.payTo = q.ask.payTo /\ q.ask.payTo \notin {h, g}
        /\ CheckRequirements(a, q.offer, q.ask) = "ok" /\ parseAuth(a) = "ok"
    <3>1. CheckRequirements(a, q.offer, q.ask) = "ok" /\ parseAuth(a) = "ok"
      BY <2>3, <2>4 DEF Forwardable
    <3>2. q.ask.network \in {q.offer.network} \cap {a.network} /\ a.payTo \in {q.ask.payTo} \cap {q.offer.payTo}
      BY <3>1 DEF CheckRequirements
    <3> QED BY <2>3, <2>4, <3>1, <3>2, LedgerAssumption DEF Forwardable
  <2>10. ForwardRefusal(q) = "ok"
    <3>1. ForwardedPayee(h, db[h], q.ask.payTo, g) = "ok"
      BY <1>1, <2>2, <2>4, <2>9 DEF ForwardedPayee
    <3>2. verifiedAuth(h, db[h], 0, a, 0, q.offer) = "ok"
      BY <1>1, <2>2, <2>4, <2>8, <2>9 DEF verifiedAuth
    <3> QED BY <2>4, <2>9, <3>1, <3>2 DEF ForwardRefusal
  <2>11. ForwardOutcome(q) = "repeat"
    BY <2>4, <2>8, <2>10 DEF ForwardOutcome
  <2>12. SettledFor(db[h], a, g)
    <3>1. PICK r \in db[h].settled : r.auth = a
      BY <2>8 DEF IsSettled
    <3>2. ChargedFor(a, r.via)
      BY <1>1, <2>4, <3>1 DEF ChargesInv
    <3>3. r.via = g
      BY <1>1, <2>5, <3>2 DEF ChargesInv, ChargedFor
    <3> QED BY <3>1, <3>3 DEF SettledFor
  <2>13. Answered(s, Repeat(q))
    BY <1>1, <2>2, <2>11, Zenon DEF ServeFedSettle
  <2>14. Repeat(q).result = "success"
    BY <2>4, <2>12 DEF Repeat, AnswerOf
  <2>15. fwd'[s].answer = Repeat(q)
    BY <1>1, <2>13 DEF Answered, ClearingTypes, ClearingTypeOK
  <2> QED BY <2>14, <2>15
<1>2. PaymentsInv /\ [ClearingNext]_vars =>
        [\A s \in Slots :
           LET p == fwd[s].pay  l == Owner(p) IN
           (/\ ServeFedSettle(s) /\ Charged(p)
            /\ p.auth.payer \in db[l].registered /\ p.auth.payTo \notin db[l].registered
            /\ now[l] < p.auth.notAfter + SettledKeptAfter)
           => fwd'[s].answer.result = "success"]_vars
  BY <1>1
<1> QED BY <1>2, PaymentsInvariant, PTL DEF ChargedNotRefused, ClearingSpec

-----------------------------------------------------------------------------
(* The two books of a debt.                                                *)

\* The charges hub e has not cleared yet, and the statements hub l has not booked.
Uncleared(l, e) == {c \in charged : c.auth.network = l /\ c.via = e /\ credits[e][c.auth] = 0}
Undischarged(l, e) == {st \in unbooked : st.payer = l /\ st.payTo = e}

Between(l, e) == Worth(Uncleared(l, e)) + Worth(Undischarged(l, e))

StatementsInv ==
  /\ \A h \in Hubs : db[h].applied \subseteq signed
  /\ \A st \in unbooked : st.id \in signed /\ st.amount \in 1 .. MaxInt
  /\ \A k \in Consoles : clr[k] # Idle => clr[k].st.id \in signed /\ clr[k].st.payer # clr[k].st.payTo
  /\ \A k, j \in Consoles :
       (clr[k] # Idle /\ clr[j] # Idle /\ clr[k].st.id = clr[j].st.id) => k = j
  /\ \A k \in Consoles : clr[k].phase = "request" =>
       /\ \A h \in Hubs : clr[k].st.id \notin db[h].applied
       /\ \A st \in unbooked : st.id # clr[k].st.id
  /\ \A k \in Consoles : clr[k].phase = "answer" => (clr[k].accepted => clr[k].st \in unbooked)

BooksInv ==
  /\ PaymentsInv /\ StatementsInv
  /\ IsFiniteSet(charged) /\ IsFiniteSet(unbooked)
  /\ \A c \in charged : c.amount = c.auth.amount /\ c.auth.network # c.via
  /\ \A l, e \in Hubs : l # e => db[l].due[e] = db[e].owed[l] + Between(l, e)

-----------------------------------------------------------------------------
(* Worth. *)

LEMMA WorthIsNat ==
  ASSUME NEW S, IsFiniteSet(S)
  PROVE  /\ IsFiniteSet({c \in S \X (1 .. MaxInt) : c[2] <= c[1].amount})
         /\ Worth(S) \in Nat
<1>1. IsFiniteSet(1 .. MaxInt)
  BY LedgerAssumption, FS_Interval
<1>2. IsFiniteSet(S \X (1 .. MaxInt))
  BY <1>1, FS_Product
<1>3. IsFiniteSet({c \in S \X (1 .. MaxInt) : c[2] <= c[1].amount})
  BY <1>2, FS_Subset
<1> QED BY <1>3, FS_CardinalityType DEF Worth

\* One more element adds its amount.
LEMMA WorthAdds ==
  ASSUME NEW S, IsFiniteSet(S), NEW x, x \notin S, x.amount \in 1 .. MaxInt
  PROVE  Worth(S \cup {x}) = Worth(S) + x.amount
<1> DEFINE A == {c \in S \X (1 .. MaxInt) : c[2] <= c[1].amount}
           B == {x} \X (1 .. x.amount)
<1>1. IsFiniteSet(A) /\ Cardinality(A) = Worth(S) /\ Worth(S) \in Nat
  BY WorthIsNat DEF Worth
<1>2. x.amount \in Nat /\ x.amount \in Int /\ 1 \in Int
  BY LedgerAssumption
<1>3. IsFiniteSet(1 .. x.amount) /\ Cardinality(1 .. x.amount) = x.amount
  BY <1>2, FS_Interval
<1>4. IsFiniteSet({x}) /\ Cardinality({x}) = 1
  BY FS_Singleton
<1>5. IsFiniteSet(B) /\ Cardinality(B) = x.amount
  <2>1. IsFiniteSet(B) /\ Cardinality(B) = Cardinality({x}) * Cardinality(1 .. x.amount)
    BY <1>3, <1>4, FS_Product
  <2> QED BY <1>2, <1>3, <1>4, <2>1
<1>6. {c \in (S \cup {x}) \X (1 .. MaxInt) : c[2] <= c[1].amount} = A \cup B
  BY <1>2, LedgerAssumption
<1>7. A \cap B = {}
  OBVIOUS
<1>8. Cardinality(A \cap B) = 0
  BY <1>7, FS_EmptySet
<1>9. Cardinality(A \cup B) = Cardinality(A) + Cardinality(B) - Cardinality(A \cap B)
  BY <1>1, <1>5, FS_Union
<1>10. Worth(S \cup {x}) = Cardinality(A \cup B)
  BY <1>6 DEF Worth
<1> HIDE DEF A, B
<1> QED BY <1>1, <1>2, <1>5, <1>8, <1>9, <1>10

LEMMA WorthDrops ==
  ASSUME NEW S, IsFiniteSet(S), NEW x \in S, x.amount \in 1 .. MaxInt
  PROVE  Worth(S) = Worth(S \ {x}) + x.amount
<1>1. IsFiniteSet(S \ {x}) /\ S = (S \ {x}) \cup {x} /\ x \notin S \ {x}
  BY FS_Subset
<1> QED BY <1>1, WorthAdds

LEMMA WorthOfNone == Worth({}) = 0
<1>1. {c \in {} \X (1 .. MaxInt) : c[2] <= c[1].amount} = {}
  OBVIOUS
<1> QED BY <1>1, FS_EmptySet DEF Worth

LEMMA BetweenFinite ==
  ASSUME BooksInv, NEW l, NEW e
  PROVE  /\ IsFiniteSet(Uncleared(l, e)) /\ Worth(Uncleared(l, e)) \in Nat
         /\ IsFiniteSet(Undischarged(l, e)) /\ Worth(Undischarged(l, e)) \in Nat
<1>1. IsFiniteSet(Uncleared(l, e)) /\ IsFiniteSet(Undischarged(l, e))
  BY FS_Subset DEF BooksInv, Uncleared, Undischarged
<1> QED BY <1>1, WorthIsNat
LEMMA BooksTyped ==
  ASSUME BooksInv, NEW l \in Hubs, NEW e \in Hubs
  PROVE  db[l].due[e] \in Int /\ db[e].owed[l] \in Int /\ Between(l, e) \in Nat
<1>1. db[l] \in DB /\ db[e] \in DB
  BY DEF BooksInv, PaymentsInv, ClearingTypes, AllLedgersInv, LedgerInv
<1>2. db[l].due[e] \in Int64 /\ db[e].owed[l] \in Int64
  BY <1>1 DEF DB
<1>3. Between(l, e) \in Nat
  BY BetweenFinite DEF Between
<1> QED BY <1>2, <1>3, LedgerAssumption DEF Int64

-----------------------------------------------------------------------------
(* Steps of the exchanges. *)

\* The statements and their books are where they were.
LEMMA StatementsStay ==
  ASSUME StatementsInv, UNCHANGED <<clr, signed, unbooked>>, \A h \in Hubs : db'[h].applied = db[h].applied
  PROVE  StatementsInv'
<1>1. /\ \A h \in Hubs : db'[h].applied \subseteq signed'
      /\ \A st \in unbooked' : st.id \in signed' /\ st.amount \in 1 .. MaxInt
      /\ \A k \in Consoles : clr'[k] # Idle => clr'[k].st.id \in signed' /\ clr'[k].st.payer # clr'[k].st.payTo
  BY DEF StatementsInv
<1>2. \A k, j \in Consoles :
        (clr'[k] # Idle /\ clr'[j] # Idle /\ clr'[k].st.id = clr'[j].st.id) => k = j
  BY DEF StatementsInv
<1>3. \A k \in Consoles : clr'[k].phase = "request" =>
        /\ \A h \in Hubs : clr'[k].st.id \notin db'[h].applied
        /\ \A st \in unbooked' : st.id # clr'[k].st.id
  BY DEF StatementsInv
<1>4. \A k \in Consoles : clr'[k].phase = "answer" => (clr'[k].accepted => clr'[k].st \in unbooked')
  BY DEF StatementsInv
<1> QED BY <1>1, <1>2, <1>3, <1>4 DEF StatementsInv

\* A step that moves nothing a debt is made of.
LEMMA BooksStay ==
  ASSUME BooksInv, PaymentsInv', UNCHANGED <<charged, credits, unbooked, clr, signed>>,
         \A h \in Hubs : /\ db'[h].due = db[h].due /\ db'[h].owed = db[h].owed
                         /\ db'[h].applied = db[h].applied
  PROVE  BooksInv'
<1>1. StatementsInv'
  BY StatementsStay DEF BooksInv
<1>2. \A l, e \in Hubs : Between(l, e)' = Between(l, e)
  BY DEF Between, Uncleared, Undischarged
<1> QED BY <1>1, <1>2 DEF BooksInv

\* A charge: what the ledger hub owes grows by what the entry hub has not cleared.
LEMMA ServeBooks ==
  ASSUME BooksInv, PaymentsInv', NEW s \in Slots, ServeFedSettle(s)
  PROVE  BooksInv'
<1> USE DEF BooksInv
<1>1. fwd[s] \in Requested /\ fwd[s].phase = "request"
  BY ExchangeForms DEF ServeFedSettle, PaymentsInv, ClearingTypes
<1>2. PICK p \in Payments : p = fwd[s].pay
  BY <1>1 DEF Requested
<1>3. PICK h \in Hubs, g \in Hubs, a \in Auths :
        h = Owner(p) /\ g = p.entry /\ a = p.auth /\ h = a.network /\ h # g
  <2>1. fwd[s] # Idle
    BY <1>1 DEF Idle
  <2> QED BY <1>2, <2>1, PaymentTyped DEF PaymentsInv, ClearingTypes, Forwardable, Owner
<1>4. UNCHANGED <<clr, credits, signed, unbooked>>
  BY DEF ServeFedSettle
<1>5. CASE UNCHANGED <<ledgerVars, charged>>
  BY <1>4, <1>5, BooksStay DEF ledgerVars
<1>6. ASSUME ForwardOutcome(p) = "settled", Settle(h, a, a.bind, g),
             charged' = charged \cup {[auth |-> a, via |-> g, amount |-> a.amount]}
      PROVE  BooksInv'
  <2> DEFINE c0 == [auth |-> a, via |-> g, amount |-> a.amount]
  <2>1. /\ \A c \in charged : c.auth # a
        /\ \A f \in Hubs : credits[f][a] = 0
    BY <1>3, <1>6, FirstCharge
  <2>2. amountInt64(a.amount)
    BY <1>6 DEF Settle, SettleOutcome
  <2>3. a.amount \in 1 .. MaxInt /\ Signed(a.amount) = a.amount
    BY <2>2, AmountInRange
  <2>4. PICK e : e = SettleTx(h, db[h], a, a.bind, g, now[h]) /\ db' = [db EXCEPT ![h] = e]
    BY <1>6 DEF Settle
  <2>5. db[h] \in DB /\ g # NoHub
    BY LedgerAssumption DEF PaymentsInv, ClearingTypes, AllLedgersInv, LedgerInv
  <2>6. /\ e.due = [db[h].due EXCEPT ![g] = db[h].due[g] + a.amount]
        /\ e.owed = db[h].owed /\ e.applied = db[h].applied
    BY <2>3, <2>4, <2>5 DEF SettleTx, Added, DB
  <2>7. db'[h] = e /\ \A f \in Hubs \ {h} : db'[f] = db[f]
    BY <2>4 DEF PaymentsInv, ClearingTypes, AllLedgersInv
  <2>8. charged' = charged \cup {c0} /\ c0.auth = a /\ c0.via = g /\ c0.amount = a.amount
    BY <1>6
  <2> HIDE DEF c0
  <2>9. c0 \notin charged
    BY <2>1, <2>8
  <2>10. StatementsInv'
    <3>1. \A f \in Hubs : db'[f].applied = db[f].applied
      BY <2>6, <2>7
    <3> QED BY <1>4, <3>1, StatementsStay
  <2>11. IsFiniteSet(charged') /\ IsFiniteSet(unbooked')
    BY <1>4, <2>8, FS_AddElement
  <2>12. \A c \in charged' : c.amount = c.auth.amount /\ c.auth.network # c.via
    BY <1>3, <2>8
  <2>13. ASSUME NEW l \in Hubs, NEW k \in Hubs, l # k
         PROVE  db'[l].due[k] = db'[k].owed[l] + Between(l, k)'
    <3>1. Undischarged(l, k)' = Undischarged(l, k)
      BY <1>4 DEF Undischarged
    <3>2. db'[k].owed = db[k].owed
      BY <2>6, <2>7
    <3>3. CASE l = h /\ k = g
      <4>1. Uncleared(l, k)' = Uncleared(l, k) \cup {c0}
        BY <1>3, <1>4, <2>1, <2>8, <3>3 DEF Uncleared
      <4>2. Worth(Uncleared(l, k))' = Worth(Uncleared(l, k) \cup {c0})
        BY <4>1 DEF Worth
      <4>3. c0 \notin Uncleared(l, k) /\ c0.amount \in 1 .. MaxInt
        BY <2>3, <2>8, <2>9 DEF Uncleared
      <4>4. Worth(Uncleared(l, k) \cup {c0}) = Worth(Uncleared(l, k)) + a.amount
        BY <2>8, <4>3, BetweenFinite, WorthAdds
      <4>5. Between(l, k)' = Between(l, k) + a.amount
        <5>1. Worth(Uncleared(l, k)) \in Nat /\ Worth(Undischarged(l, k)) \in Nat
          BY BetweenFinite
        <5>2. Worth(Undischarged(l, k))' = Worth(Undischarged(l, k))
          BY <3>1 DEF Worth
        <5>3. a.amount \in Int
          BY <2>3
        <5> QED BY <4>2, <4>4, <5>1, <5>2, <5>3 DEF Between
      <4>6. db'[l].due[k] = db[l].due[k] + a.amount
        BY <2>5, <2>6, <2>7, <3>3 DEF DB
      <4>7. db[l].due[k] \in Int /\ db[k].owed[l] \in Int /\ Between(l, k) \in Int /\ a.amount \in Int
        BY <2>3, BooksTyped
      <4>8. db[l].due[k] = db[k].owed[l] + Between(l, k)
        BY <2>13
      <4> QED BY <3>2, <4>5, <4>6, <4>7, <4>8
    <3>4. CASE ~(l = h /\ k = g)
      <4>1. Uncleared(l, k)' = Uncleared(l, k)
        BY <1>3, <1>4, <2>8, <3>4 DEF Uncleared
      <4>2. Between(l, k)' = Between(l, k)
        BY <3>1, <4>1 DEF Between, Worth
      <4>3. db'[l].due[k] = db[l].due[k]
        BY <2>5, <2>6, <2>7, <3>4 DEF DB
      <4> QED BY <2>13, <3>2, <4>2, <4>3
    <3> QED BY <3>3, <3>4
  <2> QED BY <2>10, <2>11, <2>12, <2>13
<1> QED BY <1>2, <1>3, <1>5, <1>6, Zenon DEF ServeFedSettle

\* A clearing: what the entry hub is owed grows by what it had not cleared.
LEMMA ReadBooks ==
  ASSUME BooksInv, PaymentsInv', NEW s \in Slots, ReadAnswer(s)
  PROVE  BooksInv'
<1> USE DEF BooksInv
<1>1. fwd[s] \in Replied /\ fwd[s].phase = "answer"
  BY ExchangeForms DEF ReadAnswer, PaymentsInv, ClearingTypes
<1>2. PICK p \in Payments : p = fwd[s].pay
  BY <1>1 DEF Replied
<1>3. PICK h \in Hubs, g \in Hubs, a \in Auths :
        h = p.entry /\ g = Owner(p) /\ a = p.auth /\ g = a.network /\ h # g
  <2>1. fwd[s] # Idle
    BY <1>1 DEF Idle
  <2> QED BY <1>2, <2>1, PaymentTyped DEF PaymentsInv, ClearingTypes, Forwardable, Owner
<1>4. PICK rec : rec = fwd[s].answer.receipt
  OBVIOUS
<1>5. UNCHANGED <<clr, charged, signed, unbooked>>
  BY DEF ReadAnswer
<1>6. CASE UNCHANGED <<ledgerVars, credits>>
  BY <1>5, <1>6, BooksStay DEF ledgerVars
<1>7. ASSUME fwd[s].answer.result = "success", ReceiptMatches(p, rec), ClearFromPeer(h, rec, g),
             credits' = [credits EXCEPT ![h][a] = credits[h][a] + 1]
      PROVE  BooksInv'
  <2>1. ChargedFor(a, h) /\ credits[h][a] = 0
    <3>1. ClearOutcome(p.entry, db[p.entry], rec, Owner(p), now[p.entry]) = "cleared"
      BY <1>3, <1>7 DEF ClearFromPeer
    <3> QED BY <1>1, <1>2, <1>3, <1>4, <1>7, <3>1, FirstCredit
  <2>2. PICK c0 \in charged : c0.auth = a /\ c0.via = h
    BY <2>1 DEF ChargedFor
  <2>3. c0.amount = a.amount /\ c0.amount \in 1 .. MaxInt
    BY <2>2 DEF PaymentsInv, ClearingTypes, ClearingTypeOK
  <2>4. \A c \in charged : c.auth = a => c = c0
    <3>1. charged \subseteq [auth: Auths, via: Hubs, amount: 1 .. MaxInt]
      BY DEF PaymentsInv, ClearingTypes, ClearingTypeOK
    <3> QED BY <2>2, <3>1 DEF PaymentsInv, ChargesInv
  <2>5. Signed(rec.amount) = a.amount
    BY <1>3, <1>7, AmountInRange DEF ReceiptMatches
  <2>6. PICK e : e = ClearTx(db[h], rec, g) /\ db' = [db EXCEPT ![h] = e]
    BY <1>7 DEF ClearFromPeer
  <2>7. db[h] \in DB
    BY DEF PaymentsInv, ClearingTypes, AllLedgersInv, LedgerInv
  <2>8. /\ e.owed = [db[h].owed EXCEPT ![g] = db[h].owed[g] + a.amount]
        /\ e.due = db[h].due /\ e.applied = db[h].applied
    BY <2>5, <2>6, <2>7 DEF ClearTx, Added, DB
  <2>9. db'[h] = e /\ \A f \in Hubs \ {h} : db'[f] = db[f]
    BY <2>6 DEF PaymentsInv, ClearingTypes, AllLedgersInv
  <2>10. credits'[h][a] = 1 /\ \A f \in Hubs, b \in Auths : f # h \/ b # a => credits'[f][b] = credits[f][b]
    <3>1. credits' = [credits EXCEPT ![h][a] = 1]
      BY <1>7, <2>1
    <3> QED BY <3>1 DEF PaymentsInv, ClearingTypes, ClearingTypeOK
  <2>11. StatementsInv'
    <3>1. \A f \in Hubs : db'[f].applied = db[f].applied
      BY <2>8, <2>9
    <3> QED BY <1>5, <3>1, StatementsStay
  <2>12. \A c \in charged : c.auth \in Auths
    BY DEF PaymentsInv, ClearingTypes, ClearingTypeOK
  <2>13. ASSUME NEW l \in Hubs, NEW k \in Hubs, l # k
         PROVE  db'[l].due[k] = db'[k].owed[l] + Between(l, k)'
    <3>1. Undischarged(l, k)' = Undischarged(l, k)
      BY <1>5 DEF Undischarged
    <3>2. db'[l].due = db[l].due
      BY <2>8, <2>9
    <3>3. CASE l = g /\ k = h
      <4>1. Uncleared(l, k)' = Uncleared(l, k) \ {c0} /\ c0 \in Uncleared(l, k)
        BY <1>3, <1>5, <2>1, <2>2, <2>4, <2>10, <2>12, <3>3 DEF Uncleared
      <4>2. Worth(Uncleared(l, k))' = Worth(Uncleared(l, k) \ {c0})
        BY <4>1 DEF Worth
      <4>3. Worth(Uncleared(l, k)) = Worth(Uncleared(l, k) \ {c0}) + a.amount
        BY <2>3, <4>1, BetweenFinite, WorthDrops
      <4>4. Worth(Uncleared(l, k) \ {c0}) \in Nat
        BY BetweenFinite, FS_Subset, WorthIsNat
      <4>5. Between(l, k) = Between(l, k)' + a.amount /\ Between(l, k)' \in Int
        <5>1. Worth(Undischarged(l, k)) \in Nat
          BY BetweenFinite
        <5>2. Worth(Undischarged(l, k))' = Worth(Undischarged(l, k))
          BY <3>1 DEF Worth
        <5>3. a.amount \in Int
          BY <2>3
        <5> QED BY <4>2, <4>3, <4>4, <5>1, <5>2, <5>3 DEF Between
      <4>6. db'[k].owed[l] = db[k].owed[l] + a.amount
        BY <2>7, <2>8, <2>9, <3>3 DEF DB
      <4>7. db[l].due[k] \in Int /\ db[k].owed[l] \in Int /\ a.amount \in Int
        BY <2>3, BooksTyped
      <4>8. db[l].due[k] = db[k].owed[l] + Between(l, k)
        BY <2>13
      <4> QED BY <3>2, <4>5, <4>6, <4>7, <4>8
    <3>4. CASE ~(l = g /\ k = h)
      <4>1. Uncleared(l, k)' = Uncleared(l, k)
        BY <1>3, <1>5, <2>10, <2>12, <3>4 DEF Uncleared
      <4>2. Between(l, k)' = Between(l, k)
        BY <3>1, <4>1 DEF Between, Worth
      <4>3. db'[k].owed[l] = db[k].owed[l]
        BY <2>7, <2>8, <2>9, <3>4 DEF DB
      <4> QED BY <2>13, <3>2, <4>2, <4>3
    <3> QED BY <3>3, <3>4
  <2> QED BY <1>5, <2>11, <2>13
<1>8. \/ UNCHANGED <<ledgerVars, credits>>
      \/ /\ fwd[s].answer.result = "success" /\ ReceiptMatches(p, rec) /\ ClearFromPeer(h, rec, g)
         /\ credits' = [credits EXCEPT ![h][a] = credits[h][a] + 1]
  BY <1>2, <1>3, <1>4, Zenon DEF ReadAnswer
<1> QED BY <1>6, <1>7, <1>8

\* The rest of the exchanges, and of the hubs.
LEMMA OtherBooks ==
  ASSUME BooksInv, PaymentsInv',
         \/ \E s \in Slots : \/ \E p \in Payments : Ask(s, p)
                             \/ FedRefusal(s) \/ GiveUp(s) \/ BreakExchange(s) \/ DropAnswer(s)
         \/ \E h \in Hubs : OtherStep(h)
  PROVE  BooksInv'
<1>1. UNCHANGED <<charged, credits, unbooked, clr, signed>>
  BY DEF Ask, FedRefusal, GiveUp, BreakExchange, DropAnswer, OtherStep, clearingVars
<1>2. ASSUME NEW h \in Hubs, NEW e, db' = [db EXCEPT ![h] = e],
             e.due = db[h].due, e.owed = db[h].owed, e.applied = db[h].applied
      PROVE  BooksInv'
  <2>1. \A f \in Hubs : \/ f = h /\ db'[f] = e
                        \/ db'[f] = db[f]
    BY <1>2 DEF BooksInv, PaymentsInv, ClearingTypes, AllLedgersInv
  <2>2. \A f \in Hubs : db'[f].due = db[f].due /\ db'[f].owed = db[f].owed /\ db'[f].applied = db[f].applied
    BY <1>2, <2>1
  <2> QED BY <1>1, <2>2, BooksStay
<1>3. CASE UNCHANGED db
  BY <1>1, <1>3, BooksStay
<1>4. ASSUME NEW h \in Hubs, OtherStep(h) PROVE BooksInv'
  <2>1. db[h] \in DB
    BY DEF BooksInv, PaymentsInv, ClearingTypes, AllLedgersInv, LedgerInv
  <2>2. ASSUME NEW aid, Register(h, aid) \/ Deregister(h, aid) PROVE BooksInv'
    <3>1. PICK A : db' = [db EXCEPT ![h] = [db[h] EXCEPT !.registered = A]]
      BY <2>2 DEF Register, Deregister
    <3>2. PICK e : e = [db[h] EXCEPT !.registered = A]
      OBVIOUS
    <3>3. e.due = db[h].due /\ e.owed = db[h].owed /\ e.applied = db[h].applied
      BY <2>1, <3>2 DEF DB
    <3> QED BY <1>2, <3>1, <3>2, <3>3
  <2>3. ASSUME NEW aid, NEW amt, GrantCredit(h, aid, amt) PROVE BooksInv'
    <3>1. PICK e : e = IssueTx(db[h], aid, amt)
      OBVIOUS
    <3>2. e.due = db[h].due /\ e.owed = db[h].owed /\ e.applied = db[h].applied
      BY <2>1, <3>1 DEF IssueTx, DB
    <3> QED BY <1>2, <2>3, <3>1, <3>2 DEF GrantCredit
  <2>4. CASE PruneLedger(h)
    <3>1. PICK e \in {PruneSettled(db[h], now[h]), PruneGuard(db[h], now[h]), PruneCleared(db[h], now[h])} :
            db' = [db EXCEPT ![h] = e]
      BY <2>4 DEF PruneLedger
    <3>2. e.due = db[h].due /\ e.owed = db[h].owed /\ e.applied = db[h].applied
      BY <2>1, <3>1 DEF PruneSettled, PruneGuard, PruneCleared, DB
    <3> QED BY <1>2, <3>1, <3>2
  <2> QED BY <1>3, <1>4, <2>2, <2>3, <2>4 DEF OtherStep, Tick
<1> QED BY <1>3, <1>4 DEF Ask, FedRefusal, GiveUp, BreakExchange, DropAnswer, ledgerVars

-----------------------------------------------------------------------------
(* Steps of anet-hub clear. *)

\* A console starts a command, or is done with one: no book moves.
LEMMA ConsoleBooks ==
  ASSUME BooksInv, PaymentsInv', NEW k \in Consoles,
         \/ \E h \in Hubs : \E peer \in Hubs \ {h}, amt \in ClearAmounts, id \in StatementIds :
              RunClear(k, h, peer, amt, id)
         \/ Unconfirmed(k)
  PROVE  BooksInv'
<1> USE DEF BooksInv
<1>1. UNCHANGED <<ledgerVars, charged, credits, unbooked>>
  BY DEF RunClear, Unconfirmed
<1>2. clr \in [Consoles -> ClearType \cup {Idle}]
  BY DEF PaymentsInv, ClearingTypes, ClearingTypeOK
<1>3. StatementsInv'
  <2>1. CASE Unconfirmed(k)
    <3>1. clr'[k] = Idle /\ signed' = signed /\ \A j \in Consoles \ {k} : clr'[j] = clr[j]
      BY <1>2, <2>1 DEF Unconfirmed
    <3>2. \A j \in Consoles : clr'[j].phase \in {"request", "answer"} => clr'[j] = clr[j]
      BY <3>1 DEF Idle
    <3>3. \A j \in Consoles : clr'[j] # Idle => clr'[j] = clr[j]
      BY <3>1
    <3> QED BY <1>1, <3>1, <3>2, <3>3 DEF StatementsInv, ledgerVars
  <2>2. ASSUME NEW h \in Hubs, NEW peer \in Hubs \ {h}, NEW amt, NEW id, RunClear(k, h, peer, amt, id)
        PROVE  StatementsInv'
    <3> DEFINE st == [id |-> id, payer |-> h, payTo |-> peer, amount |-> amt]
               x  == [phase |-> "request", st |-> st]
    <3>1. clr' = [clr EXCEPT ![k] = x] /\ signed' = signed \cup {id} /\ id \notin signed
      BY <2>2 DEF RunClear
    <3>2. clr'[k] = x /\ \A j \in Consoles \ {k} : clr'[j] = clr[j]
      BY <1>2, <3>1
    <3>3. x.phase = "request" /\ x.st.id = id /\ x.st.payer # x.st.payTo
      OBVIOUS
    <3> HIDE DEF x, st
    <3>4. ASSUME NEW j \in Consoles, clr'[j] # Idle
          PROVE  clr'[j].st.id \in signed' /\ clr'[j].st.payer # clr'[j].st.payTo
      BY <3>1, <3>2, <3>3, <3>4 DEF StatementsInv
    <3>5. ASSUME NEW i \in Consoles, NEW j \in Consoles, clr'[i] # Idle, clr'[j] # Idle,
                 clr'[i].st.id = clr'[j].st.id
          PROVE  i = j
      BY <3>1, <3>2, <3>3, <3>5 DEF StatementsInv
    <3>6. ASSUME NEW j \in Consoles, clr'[j].phase = "request"
          PROVE  /\ \A f \in Hubs : clr'[j].st.id \notin db'[f].applied
                 /\ \A u \in unbooked' : u.id # clr'[j].st.id
      BY <1>1, <3>1, <3>2, <3>3, <3>6 DEF StatementsInv, ledgerVars
    <3>7. ASSUME NEW j \in Consoles, clr'[j].phase = "answer"
          PROVE  clr'[j].accepted => clr'[j].st \in unbooked'
      <4>1. j # k
        BY <3>2, <3>3, <3>7
      <4>2. clr'[j] = clr[j]
        BY <3>2, <4>1
      <4> QED BY <1>1, <3>7, <4>2 DEF StatementsInv
    <3> QED BY <1>1, <3>1, <3>4, <3>5, <3>6, <3>7 DEF StatementsInv, ledgerVars
  <2> QED BY <2>1, <2>2
<1>4. \A l, e \in Hubs : Between(l, e)' = Between(l, e)
  BY <1>1 DEF Between, Uncleared, Undischarged
<1> QED BY <1>1, <1>3, <1>4 DEF ledgerVars

\* The creditor answers: what it is owed falls by what the debtor has yet to book.  A
\* statement is asked for once, so no answer is a repeat.
LEMMA ServeClearBooks ==
  ASSUME BooksInv, PaymentsInv', NEW k \in Consoles, ServeFedClear(k)
  PROVE  BooksInv'
<1> USE DEF BooksInv
<1>1. clr[k] \in Asking /\ clr[k].phase = "request" /\ clr[k] # Idle
  BY ClearForms DEF ServeFedClear, PaymentsInv, ClearingTypes, Idle
<1>2. PICK st \in Statement : st = clr[k].st
  BY <1>1 DEF Asking
<1>3. PICK g \in Hubs, h \in Hubs : g = st.payTo /\ h = st.payer /\ h # g
  BY <1>1, <1>2 DEF Statement, StatementsInv
<1>4. st.id \in signed /\ (\A f \in Hubs : st.id \notin db[f].applied) /\ \A u \in unbooked : u.id # st.id
  BY <1>1, <1>2 DEF StatementsInv
<1>5. UNCHANGED <<charged, credits, signed>>
  BY DEF ServeFedClear
<1>6. clr \in [Consoles -> ClearType \cup {Idle}]
  BY DEF PaymentsInv, ClearingTypes, ClearingTypeOK
<1>7. ASSUME NEW b \in BOOLEAN, clr' = [clr EXCEPT ![k] = [phase |-> "answer", st |-> st, accepted |-> b]],
             unbooked \subseteq unbooked', b => st \in unbooked',
             \A u \in unbooked' : u \in unbooked \/ (u = st /\ st.amount \in 1 .. MaxInt),
             \A f \in Hubs : \A id \in db'[f].applied : id \in db[f].applied \/ id = st.id
      PROVE  StatementsInv'
  <2> DEFINE x == [phase |-> "answer", st |-> st, accepted |-> b]
  <2>1. clr'[k] = x /\ \A j \in Consoles \ {k} : clr'[j] = clr[j]
    BY <1>6, <1>7
  <2>2. x.phase = "answer" /\ x.st = st /\ (x.accepted <=> b)
    OBVIOUS
  <2> HIDE DEF x
  <2>3. ASSUME NEW j \in Consoles, clr'[j] # Idle
        PROVE  clr[j] # Idle /\ clr'[j].st = clr[j].st
    BY <1>1, <1>2, <2>1, <2>2, <2>3
  <2>4. ASSUME NEW j \in Consoles, clr'[j].phase = "request" PROVE j # k /\ clr'[j] = clr[j]
    BY <2>1, <2>2, <2>4
  <2>5. ASSUME NEW j \in Consoles, clr'[j].phase = "answer"
        PROVE  clr'[j].accepted => clr'[j].st \in unbooked'
    <3>1. CASE j = k
      BY <1>7, <2>1, <2>2, <3>1
    <3>2. CASE j # k
      <4>1. clr'[j] = clr[j]
        BY <2>1, <3>2
      <4> QED BY <1>7, <2>5, <4>1 DEF StatementsInv
    <3> QED BY <3>1, <3>2
  <2>6. ASSUME NEW j \in Consoles, clr'[j].phase = "request"
        PROVE  /\ \A f \in Hubs : clr'[j].st.id \notin db'[f].applied
               /\ \A u \in unbooked' : u.id # clr'[j].st.id
    <3>1. j # k /\ clr'[j] = clr[j] /\ clr[j] # Idle /\ clr[j].phase = "request"
      BY <2>4, <2>6 DEF Idle
    <3>2. clr[j].st.id # st.id
      BY <1>1, <1>2, <3>1 DEF StatementsInv
    <3> QED BY <1>7, <3>1, <3>2 DEF StatementsInv
  <2>7. \A f \in Hubs : db'[f].applied \subseteq signed'
    BY <1>4, <1>5, <1>7 DEF StatementsInv
  <2>8. \A u \in unbooked' : u.id \in signed' /\ u.amount \in 1 .. MaxInt
    BY <1>4, <1>5, <1>7 DEF StatementsInv
  <2> QED BY <1>5, <2>3, <2>5, <2>6, <2>7, <2>8 DEF StatementsInv
<1>8. ASSUME SettleOwedOutcome(g, db[g], st, h) # "applied", UNCHANGED <<ledgerVars, unbooked>>,
             clr' = [clr EXCEPT ![k] = [phase |-> "answer", st |-> st,
                                        accepted |-> SettleOwedOutcome(g, db[g], st, h) = "repeat"]]
      PROVE  BooksInv'
  <2>1. SettleOwedOutcome(g, db[g], st, h) # "repeat"
    BY <1>4 DEF SettleOwedOutcome
  <2>2. clr' = [clr EXCEPT ![k] = [phase |-> "answer", st |-> st, accepted |-> FALSE]]
    BY <1>8, <2>1
  <2>3. StatementsInv'
    BY <1>7, <1>8, <2>2 DEF ledgerVars
  <2>4. \A l, e \in Hubs : Between(l, e)' = Between(l, e)
    BY <1>5, <1>8 DEF Between, Uncleared, Undischarged
  <2> QED BY <1>5, <1>8, <2>3, <2>4 DEF ledgerVars
<1>9. ASSUME SettleOwed(g, st, h), unbooked' = unbooked \cup {st},
             clr' = [clr EXCEPT ![k] = [phase |-> "answer", st |-> st, accepted |-> TRUE]]
      PROVE  BooksInv'
  <2>1. amountInt64(st.amount)
    BY <1>9 DEF SettleOwed, SettleOwedOutcome
  <2>2. st.amount \in 1 .. MaxInt /\ Signed(st.amount) = st.amount
    BY <2>1, AmountInRange
  <2>3. PICK e : e = SettleOwedTx(db[g], st, h) /\ db' = [db EXCEPT ![g] = e]
    BY <1>9 DEF SettleOwed
  <2>4. db[g] \in DB
    BY DEF PaymentsInv, ClearingTypes, AllLedgersInv, LedgerInv
  <2>5. /\ e.owed = [db[g].owed EXCEPT ![h] = db[g].owed[h] + (-st.amount)]
        /\ e.due = db[g].due /\ e.applied = db[g].applied \cup {st.id}
    BY <2>2, <2>3, <2>4 DEF SettleOwedTx, Added, DB
  <2>6. db'[g] = e /\ \A f \in Hubs \ {g} : db'[f] = db[f]
    BY <2>3 DEF PaymentsInv, ClearingTypes, AllLedgersInv
  <2>7. StatementsInv'
    <3>1. \A f \in Hubs : \A id \in db'[f].applied : id \in db[f].applied \/ id = st.id
      BY <2>5, <2>6
    <3> QED BY <1>7, <1>9, <2>2, <3>1
  <2>8. st \notin unbooked
    BY <1>4
  <2>9. IsFiniteSet(unbooked')
    BY <1>9, FS_AddElement
  <2>10. ASSUME NEW l \in Hubs, NEW j \in Hubs, l # j
         PROVE  db'[l].due[j] = db'[j].owed[l] + Between(l, j)'
    <3>1. Uncleared(l, j)' = Uncleared(l, j)
      BY <1>5 DEF Uncleared
    <3>2. db'[l].due = db[l].due
      BY <2>5, <2>6
    <3>3. CASE l = h /\ j = g
      <4>1. Undischarged(l, j)' = Undischarged(l, j) \cup {st} /\ st \notin Undischarged(l, j)
        BY <1>3, <1>9, <2>8, <3>3 DEF Undischarged
      <4>2. Worth(Undischarged(l, j))' = Worth(Undischarged(l, j) \cup {st})
        BY <4>1 DEF Worth
      <4>3. Worth(Undischarged(l, j) \cup {st}) = Worth(Undischarged(l, j)) + st.amount
        BY <2>2, <4>1, BetweenFinite, WorthAdds
      <4>4. Between(l, j)' = Between(l, j) + st.amount
        <5>1. Worth(Uncleared(l, j)) \in Nat /\ Worth(Undischarged(l, j)) \in Nat
          BY BetweenFinite
        <5>2. Worth(Uncleared(l, j))' = Worth(Uncleared(l, j))
          BY <3>1 DEF Worth
        <5>3. st.amount \in Int
          BY <2>2
        <5> QED BY <4>2, <4>3, <5>1, <5>2, <5>3 DEF Between
      <4>5. db'[j].owed[l] = db[j].owed[l] + (-st.amount)
        BY <2>4, <2>5, <2>6, <3>3 DEF DB
      <4>6. db[l].due[j] \in Int /\ db[j].owed[l] \in Int /\ Between(l, j) \in Int /\ st.amount \in Int
        BY <2>2, BooksTyped
      <4>7. db[l].due[j] = db[j].owed[l] + Between(l, j)
        BY <2>10
      <4> QED BY <3>2, <4>4, <4>5, <4>6, <4>7
    <3>4. CASE ~(l = h /\ j = g)
      <4>1. Undischarged(l, j)' = Undischarged(l, j)
        BY <1>3, <1>9, <3>4 DEF Undischarged
      <4>2. Between(l, j)' = Between(l, j)
        BY <3>1, <4>1 DEF Between, Worth
      <4>3. db'[j].owed[l] = db[j].owed[l]
        BY <2>4, <2>5, <2>6, <3>4 DEF DB
      <4> QED BY <2>10, <3>2, <4>2, <4>3
    <3> QED BY <3>3, <3>4
  <2> QED BY <1>5, <2>7, <2>9, <2>10
<1> QED BY <1>2, <1>3, <1>8, <1>9, Zenon DEF ServeFedClear


\* What is between the books covers every statement in it.
LEMMA AcceptedCovered ==
  ASSUME BooksInv, NEW k \in Consoles, clr[k].phase = "answer", clr[k].accepted
  PROVE  DischargeOK(db[clr[k].st.payer], clr[k].st.payTo, clr[k].st.amount)
<1> USE DEF BooksInv
<1>1. clr[k] \in ClearAnswered /\ clr[k] # Idle
  BY ClearForms DEF PaymentsInv, ClearingTypes, Idle
<1>2. PICK st \in Statement : st = clr[k].st
  BY <1>1 DEF ClearAnswered
<1>3. PICK l \in Hubs, e \in Hubs : l = st.payer /\ e = st.payTo /\ l # e
  BY <1>1, <1>2 DEF Statement, StatementsInv
<1>4. st \in unbooked /\ st.amount \in 1 .. MaxInt
  BY <1>2 DEF StatementsInv
<1>5. st \in Undischarged(l, e)
  BY <1>3, <1>4 DEF Undischarged
<1>6. Worth(Undischarged(l, e)) = Worth(Undischarged(l, e) \ {st}) + st.amount
  BY <1>4, <1>5, BetweenFinite, WorthDrops
<1>7. Worth(Undischarged(l, e) \ {st}) \in Nat /\ Worth(Uncleared(l, e)) \in Nat
  BY BetweenFinite, FS_Subset, WorthIsNat
<1>8. db[e].owed[l] >= 0 /\ db[e].owed[l] \in Int
  <2>1. LedgerInv(db[e])
    BY DEF PaymentsInv, ClearingTypes, AllLedgersInv
  <2> QED BY <2>1, BooksTyped DEF LedgerInv
<1>9. st.amount \in Int /\ st.amount > 0
  BY <1>4, LedgerAssumption
<1>10. Between(l, e) >= st.amount /\ Between(l, e) \in Int
  BY <1>6, <1>7, <1>9 DEF Between
<1>11. db[l].due[e] = db[e].owed[l] + Between(l, e)
  BY <1>3
<1>12. db[l].due[e] >= st.amount
  BY <1>8, <1>9, <1>10, <1>11
<1> QED BY <1>2, <1>3, <1>9, <1>12 DEF DischargeOK

\* The debtor books an accepted statement.
LEMMA ReadClearBooks ==
  ASSUME BooksInv, PaymentsInv', NEW k \in Consoles, ReadClearAnswer(k)
  PROVE  BooksInv'
<1> USE DEF BooksInv
<1>1. clr[k] \in ClearAnswered /\ clr[k].phase = "answer" /\ clr[k] # Idle
  BY ClearForms DEF ReadClearAnswer, PaymentsInv, ClearingTypes, Idle
<1>2. PICK st \in Statement : st = clr[k].st
  BY <1>1 DEF ClearAnswered
<1>3. PICK l \in Hubs, e \in Hubs : l = st.payer /\ e = st.payTo /\ l # e
  BY <1>1, <1>2 DEF Statement, StatementsInv
<1>4. UNCHANGED <<charged, credits, signed>>
  BY DEF ReadClearAnswer
<1>5. clr'[k] = Idle /\ \A j \in Consoles \ {k} : clr'[j] = clr[j]
  BY DEF ReadClearAnswer, PaymentsInv, ClearingTypes, ClearingTypeOK
<1>6. ASSUME unbooked \ {st} \subseteq unbooked', unbooked' \subseteq unbooked,
             \A f \in Hubs : db'[f].applied = db[f].applied
      PROVE  StatementsInv'
  <2>1. ASSUME NEW j \in Consoles, clr'[j] # Idle PROVE j # k /\ clr'[j] = clr[j] /\ clr[j].st.id # st.id
    BY <1>1, <1>2, <1>5, <2>1 DEF StatementsInv
  <2>2. ASSUME NEW j \in Consoles, clr'[j].phase = "answer"
        PROVE  clr'[j].accepted => clr'[j].st \in unbooked'
    <3>1. clr'[j] = clr[j] /\ clr[j].st # st
      BY <2>1, <2>2 DEF Idle
    <3> QED BY <1>6, <2>2, <3>1 DEF StatementsInv
  <2>3. ASSUME NEW j \in Consoles, clr'[j].phase = "request"
        PROVE  /\ \A f \in Hubs : clr'[j].st.id \notin db'[f].applied
               /\ \A u \in unbooked' : u.id # clr'[j].st.id
    <3>1. clr'[j] = clr[j]
      BY <2>1, <2>3 DEF Idle
    <3> QED BY <1>6, <2>3, <3>1 DEF StatementsInv
  <2>4. ASSUME NEW j \in Consoles, clr'[j] # Idle
        PROVE  clr'[j].st.id \in signed' /\ clr'[j].st.payer # clr'[j].st.payTo
    BY <1>4, <2>1, <2>4 DEF StatementsInv
  <2>5. ASSUME NEW i \in Consoles, NEW j \in Consoles, clr'[i] # Idle, clr'[j] # Idle,
               clr'[i].st.id = clr'[j].st.id
        PROVE  i = j
    BY <2>1, <2>5 DEF StatementsInv
  <2>6. /\ \A f \in Hubs : db'[f].applied \subseteq signed'
        /\ \A u \in unbooked' : u.id \in signed' /\ u.amount \in 1 .. MaxInt
    BY <1>4, <1>6 DEF StatementsInv
  <2> QED BY <2>2, <2>3, <2>4, <2>5, <2>6 DEF StatementsInv
<1>7. CASE UNCHANGED <<ledgerVars, unbooked>>
  <2>1. StatementsInv'
    BY <1>6, <1>7 DEF ledgerVars
  <2>2. \A i, j \in Hubs : Between(i, j)' = Between(i, j)
    BY <1>4, <1>7 DEF Between, Uncleared, Undischarged
  <2> QED BY <1>4, <1>7, <2>1, <2>2 DEF ledgerVars
<1>8. ASSUME clr[k].accepted, DischargeDue(l, e, st.amount), unbooked' = unbooked \ {st}
      PROVE  BooksInv'
  <2>1. st \in unbooked /\ st.amount \in 1 .. MaxInt
    BY <1>1, <1>2, <1>8 DEF StatementsInv
  <2>2. PICK d : d = DischargeTx(db[l], e, st.amount) /\ db' = [db EXCEPT ![l] = d]
    BY <1>8 DEF DischargeDue
  <2>3. db[l] \in DB
    BY DEF PaymentsInv, ClearingTypes, AllLedgersInv, LedgerInv
  <2>4. /\ d.due = [db[l].due EXCEPT ![e] = db[l].due[e] + (-st.amount)]
        /\ d.owed = db[l].owed /\ d.applied = db[l].applied
    BY <2>2, <2>3 DEF DischargeTx, Added, DB
  <2>5. db'[l] = d /\ \A f \in Hubs \ {l} : db'[f] = db[f]
    BY <2>2 DEF PaymentsInv, ClearingTypes, AllLedgersInv
  <2>6. StatementsInv'
    <3>1. \A f \in Hubs : db'[f].applied = db[f].applied
      BY <2>4, <2>5
    <3> QED BY <1>6, <1>8, <3>1
  <2>7. IsFiniteSet(unbooked')
    BY <1>8, FS_Subset
  <2>8. ASSUME NEW i \in Hubs, NEW j \in Hubs, i # j
        PROVE  db'[i].due[j] = db'[j].owed[i] + Between(i, j)'
    <3>1. Uncleared(i, j)' = Uncleared(i, j)
      BY <1>4 DEF Uncleared
    <3>2. db'[j].owed = db[j].owed
      BY <2>4, <2>5
    <3>3. CASE i = l /\ j = e
      <4>1. Undischarged(i, j)' = Undischarged(i, j) \ {st} /\ st \in Undischarged(i, j)
        BY <1>3, <1>8, <2>1, <3>3 DEF Undischarged
      <4>2. Worth(Undischarged(i, j))' = Worth(Undischarged(i, j) \ {st})
        BY <4>1 DEF Worth
      <4>3. Worth(Undischarged(i, j)) = Worth(Undischarged(i, j) \ {st}) + st.amount
        BY <2>1, <4>1, BetweenFinite, WorthDrops
      <4>4. Worth(Undischarged(i, j) \ {st}) \in Nat
        BY BetweenFinite, FS_Subset, WorthIsNat
      <4>5. Between(i, j) = Between(i, j)' + st.amount /\ Between(i, j)' \in Int
        <5>1. Worth(Uncleared(i, j)) \in Nat
          BY BetweenFinite
        <5>2. Worth(Uncleared(i, j))' = Worth(Uncleared(i, j))
          BY <3>1 DEF Worth
        <5>3. st.amount \in Int
          BY <2>1
        <5> QED BY <4>2, <4>3, <4>4, <5>1, <5>2, <5>3 DEF Between
      <4>6. db'[i].due[j] = db[i].due[j] + (-st.amount)
        BY <2>3, <2>4, <2>5, <3>3 DEF DB
      <4>7. db[i].due[j] \in Int /\ db[j].owed[i] \in Int /\ st.amount \in Int
        BY <2>1, BooksTyped
      <4>8. db[i].due[j] = db[j].owed[i] + Between(i, j)
        BY <2>8
      <4> QED BY <3>2, <4>5, <4>6, <4>7, <4>8
    <3>4. CASE ~(i = l /\ j = e)
      <4>1. Undischarged(i, j)' = Undischarged(i, j)
        BY <1>3, <1>8, <3>4 DEF Undischarged
      <4>2. Between(i, j)' = Between(i, j)
        BY <3>1, <4>1 DEF Between, Worth
      <4>3. db'[i].due[j] = db[i].due[j]
        BY <2>3, <2>4, <2>5, <3>4 DEF DB
      <4> QED BY <2>8, <3>2, <4>2, <4>3
    <3> QED BY <3>3, <3>4
  <2> QED BY <1>4, <2>6, <2>7, <2>8
<1> QED BY <1>2, <1>3, <1>7, <1>8, Zenon DEF ReadClearAnswer

-----------------------------------------------------------------------------

LEMMA BooksKept == BooksInv /\ [ClearingNext]_vars => BooksInv'
<1> SUFFICES ASSUME BooksInv, [ClearingNext]_vars PROVE BooksInv'
  OBVIOUS
<1>1. PaymentsInv'
  BY PaymentsKept DEF BooksInv
<1>2. CASE UNCHANGED vars
  BY <1>1, <1>2, BooksStay DEF vars, ledgerVars, clearingVars
<1>3. ASSUME NEW k \in Consoles,
             \/ ClearStep(k)
             \/ \E h \in Hubs : \E peer \in Hubs \ {h}, amt \in ClearAmounts, id \in StatementIds :
                  RunClear(k, h, peer, amt, id)
      PROVE  BooksInv'
  BY <1>1, <1>3, ConsoleBooks, ServeClearBooks, ReadClearBooks DEF ClearStep
<1>4. ASSUME NEW s \in Slots, ForwardStep(s) PROVE BooksInv'
  BY <1>1, <1>4, ServeBooks, ReadBooks, OtherBooks DEF ForwardStep
<1>5. ASSUME NEW s \in Slots, NEW p \in Payments, Ask(s, p) PROVE BooksInv'
  BY <1>1, <1>5, OtherBooks
<1>6. ASSUME NEW h \in Hubs, OtherStep(h) PROVE BooksInv'
  BY <1>1, <1>6, OtherBooks
<1> QED BY <1>2, <1>3, <1>4, <1>5, <1>6 DEF ClearingNext

LEMMA BooksInit == ClearingInit => BooksInv
<1> SUFFICES ASSUME ClearingInit PROVE BooksInv
  OBVIOUS
<1>1. PaymentsInv
  BY PaymentsInit
<1>2. charged = {} /\ unbooked = {} /\ IsFiniteSet({})
  BY FS_EmptySet DEF ClearingInit
<1>3. StatementsInv
  BY DEF ClearingInit, LedgerInit, EmptyDB, StatementsInv, Idle
<1>4. ASSUME NEW l \in Hubs, NEW e \in Hubs PROVE db[l].due[e] = db[e].owed[l] + Between(l, e)
  <2>1. Uncleared(l, e) = {} /\ Undischarged(l, e) = {}
    BY <1>2 DEF Uncleared, Undischarged
  <2>2. Between(l, e) = 0
    BY <2>1, WorthOfNone DEF Between
  <2> QED BY <2>2 DEF ClearingInit, LedgerInit, EmptyDB
<1> QED BY <1>1, <1>2, <1>3, <1>4 DEF BooksInv

\* What hub l says it owes hub e is what e says it is owed, and what is between the
\* two; and a discharge the creditor accepted can be booked by the debtor: whatever is
\* lost, given up, served late or asked again, for any consoles and statements.
THEOREM ClearingBooksAgree == ClearingSpec => []BooksAgree
<1>1. BooksInv => DebtsAgree
  <2> SUFFICES ASSUME BooksInv, NEW l \in Hubs, NEW e \in Hubs, l # e
               PROVE  db[l].due[e] = db[e].owed[l] + Worth(Uncleared(l, e)) + Worth(Undischarged(l, e))
    BY DEF DebtsAgree, Uncleared, Undischarged
  <2>1. db[l].due[e] = db[e].owed[l] + Between(l, e)
    BY DEF BooksInv
  <2> QED BY <2>1, BooksTyped, BetweenFinite DEF Between
<1>2. BooksInv => AcceptedIsBooked
  BY AcceptedCovered DEF AcceptedIsBooked
<1>3. ClearingSpec => []BooksInv
  BY BooksInit, BooksKept, PTL DEF ClearingSpec
<1> QED BY <1>1, <1>2, <1>3, PTL DEF BooksAgree

=============================================================================
