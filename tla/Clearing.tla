------------------------------ MODULE Clearing ------------------------------
(***************************************************************************)
(* Two hubs clearing against each other (internal/aghub: facilitator.go,   *)
(* redemption.go; internal/federation/settle.go; cmd/anet-hub:             *)
(* wire_federation.go, clear_fed.go).                                      *)
(*                                                                         *)
(* A payment on another hub's ledger: a merchant asks its own hub, the     *)
(* entry hub, which forwards the payment to the ledger hub                 *)
(* (/fed/v3/settle); the ledger hub charges the payer and records what it  *)
(* owes the entry hub, and on its receipt the entry hub credits the payee  *)
(* and records what it is owed.  The debt is discharged by an operator's   *)
(* anet-hub clear, a signed statement the creditor applies                 *)
(* (/fed/v3/clear).                                                        *)
(*                                                                         *)
(* Each exchange between two hubs is an HTTP request and its answer.       *)
(* Either can be lost; the caller can stop waiting, by its timeout or      *)
(* because its process stopped, while the request is still served; and the *)
(* merchant that does not know the outcome asks again.  The handler of one *)
(* request is one step here (Facilitator takes it apart).                  *)
(***************************************************************************)
EXTENDS Payment

CONSTANTS
  Slots,        \* bound of the model: forwarded payments in transit at once
  Consoles,     \* bound of the model: anet-hub clear commands at once
  Payments,     \* the payments merchants ask their hubs to settle
  Movers,       \* the agents that register and deregister
  MaxLost,      \* bound of the model: exchanges that fail
  FedRefuses    \* the federation layer may refuse a forwarded request

\* A payment at its payee's hub, on another hub's ledger, and the terms the
\* merchant holds it to.
PaymentType == [entry: Hubs, auth: Auths, offer: TermsType, ask: TermsType]

ASSUME ClearingAssumption ==
  /\ Payments \subseteq PaymentType
  /\ \A p \in Payments : p.offer.network # p.entry
  /\ Movers \subseteq Agents /\ MaxLost \in Nat /\ FedRefuses \in BOOLEAN
  \* A cleared receipt's row outlives the receipt, and a charge's its authorization.
  /\ PeerReceiptMaxAge < ClearedKeptAfter /\ SettledKeptAfter > 0

VARIABLES
  fwd,      \* fwd[s]: a /fed/v3/settle exchange
  clr,      \* clr[k]: an anet-hub clear command and its /fed/v3/clear exchange
  heard,    \* heard[p]: the final answer p's merchant has, or "open"
  charged,  \* the charges ledger hubs made for peers
  credits,  \* credits[h]: how often h credited each authorization
  signed,   \* the ids of statements signed so far
  unbooked, \* statements applied by their creditor, not yet booked by their debtor
  lost      \* how many exchanges failed

clearingVars == <<fwd, clr, heard, charged, credits, signed, unbooked, lost>>
vars == <<ledgerVars, clearingVars>>

Idle == [phase |-> "idle"]
NoReceipt == [auth |-> "none"]

\* The reasons a ledger hub refuses a forwarded payment for.
Refusals ==
  {"invalid_requirements", "invalid_amount", "network_mismatch", "payee_mismatch",
   "auth_window_too_long", "unknown_payer", "expired_payment", "invalid_signature",
   "duplicate_nonce", "duplicate_binding", "insufficient_funds", "settlement_failed"}

Owner(p) == p.auth.network

\* The receipt the ledger hub signed when it charged authorization a.
ReceiptOf(a, at) ==
  [auth |-> a, network |-> a.network, payTo |-> a.payTo, amount |-> a.amount, settleAt |-> at]

AnswerOf(result, receipt) == [result |-> result, receipt |-> receipt]

-----------------------------------------------------------------------------
(* The entry hub forwards. *)

\* The checks of /x402/settle before a payment is forwarded.
EntryRefusal(p) ==
  IF LocalPayee(p.entry, db[p.entry], p.ask.payTo) # "ok"
    THEN LocalPayee(p.entry, db[p.entry], p.ask.payTo)
  ELSE IF parseAuth(p.auth) # "ok" THEN parseAuth(p.auth)
  ELSE CheckRequirements(p.auth, p.offer, p.ask)

\* A merchant without a final answer asks its hub to settle, for the first time
\* or again.  A payment its hub refuses is not forwarded.
Ask(s, p) ==
  /\ fwd[s] = Idle /\ heard[p] = "open"
  /\ IF EntryRefusal(p) = "ok"
     THEN /\ fwd' = [fwd EXCEPT ![s] = [phase |-> "request", pay |-> p, waiting |-> TRUE]]
          /\ UNCHANGED heard
     ELSE heard' = [heard EXCEPT ![p] = "refused"] /\ UNCHANGED fwd
  /\ UNCHANGED <<ledgerVars, clr, charged, credits, signed, unbooked, lost>>

\* SettleForPeer's refusals before the ledger's transaction.  The payer's key
\* does not rotate in this module.
ForwardRefusal(p) ==
  LET h == Owner(p)  d == db[h]  a == p.auth IN
  IF ForwardedPayee(h, d, p.ask.payTo, p.entry) # "ok" THEN ForwardedPayee(h, d, p.ask.payTo, p.entry)
  ELSE IF verifiedAuth(h, d, 0, a, 0, p.offer) # "ok" THEN verifiedAuth(h, d, 0, a, 0, p.offer)
  ELSE CheckRequirements(a, p.offer, p.ask)

\* Mutant: a repeat is answered with the receipt whichever peer asks.
Repeat_AnyPeer(p) ==
  LET row == CHOOSE r \in db[Owner(p)].settled : r.auth = p.auth
  IN AnswerOf("success", ReceiptOf(p.auth, row.at))

\* Mutant: a repeat is refused.
Repeat_Refused(p) == AnswerOf("duplicate_nonce", NoReceipt)

\* repeatOf's answer to an authorization this ledger has settled: the receipt of
\* that settlement, for the peer it was made for.
Repeat(p) ==
  LET d == db[Owner(p)] IN
  IF SettledFor(d, p.auth, p.entry)
  THEN LET row == CHOOSE r \in d.settled : r.auth = p.auth
       IN AnswerOf("success", ReceiptOf(p.auth, row.at))
  ELSE AnswerOf("duplicate_nonce", NoReceipt)

\* Mutant: the window is checked before a repeat is recognised.
ForwardOutcome_WindowFirst(p) ==
  LET h == Owner(p)  a == p.auth IN
  IF ForwardRefusal(p) # "ok" THEN ForwardRefusal(p)
  ELSE IF ~InWindow(a, now[h]) THEN "expired_payment"
  ELSE SettleOutcome(h, db[h], a, a.bind, p.entry, now[h])

\* What the ledger hub answers, and "settled" when it charges.
ForwardOutcome(p) ==
  LET h == Owner(p)  a == p.auth IN
  IF ForwardRefusal(p) # "ok" THEN ForwardRefusal(p)
  ELSE IF IsSettled(db[h], a) THEN "repeat"
  ELSE IF ~InWindow(a, now[h]) THEN "expired_payment"
  ELSE SettleOutcome(h, db[h], a, a.bind, p.entry, now[h])

Answered(s, answer) ==
  fwd' = [fwd EXCEPT ![s] = [phase |-> "answer", pay |-> @.pay, waiting |-> @.waiting, answer |-> answer]]

\* ServeFedSettle, SettleForPeer: the ledger hub serves a forwarded payment.
ServeFedSettle(s) ==
  /\ fwd[s].phase = "request"
  /\ LET p == fwd[s].pay  h == Owner(p) IN
       \/ /\ ForwardOutcome(p) = "settled"
          /\ Settle(h, p.auth, p.auth.bind, p.entry)
          /\ charged' = charged \cup {[auth |-> p.auth, via |-> p.entry, amount |-> p.auth.amount]}
          /\ Answered(s, AnswerOf("success", ReceiptOf(p.auth, now[h])))
       \/ /\ ForwardOutcome(p) # "settled"
          /\ Answered(s, IF ForwardOutcome(p) = "repeat" THEN Repeat(p)
                         ELSE AnswerOf(ForwardOutcome(p), NoReceipt))
          /\ UNCHANGED <<ledgerVars, charged>>
  /\ UNCHANGED <<clr, heard, credits, signed, unbooked, lost>>

\* The ledger hub's federation layer refuses the request before the ledger sees
\* it (notSettledReasons), and the entry hub says settlement_failed.
FedRefusal(s) ==
  /\ FedRefuses
  /\ fwd[s].phase = "request"
  /\ Answered(s, AnswerOf("settlement_failed", NoReceipt))
  /\ UNCHANGED <<ledgerVars, clr, heard, charged, credits, signed, unbooked, lost>>

\* ClearPeerSettlement's comparison of the receipt with what was forwarded.
ReceiptMatches(p, rec) ==
  /\ amountInt64(rec.amount)
  /\ rec.auth = p.auth /\ rec.network = p.ask.network
  /\ rec.payTo = p.ask.payTo
  /\ rec.amount >= p.ask.amount /\ rec.amount = p.auth.amount

\* What the merchant is told of a receipt that its hub tried to clear.
Told(out) ==
  IF out \in {"cleared", "repeat"} THEN "success"
  ELSE IF out = "receipt_too_old" THEN "refused"
  ELSE "open"

\* The entry hub reads the answer: a refusal is the merchant's, a success is
\* cleared against the receipt (ClearPeerSettlement, ClearFromPeer).  A receipt
\* it cannot clear for another reason than its date or terms leaves the payment
\* pending.
ReadAnswer(s) ==
  /\ fwd[s].phase = "answer" /\ fwd[s].waiting
  /\ fwd' = [fwd EXCEPT ![s] = Idle]
  /\ LET p   == fwd[s].pay
         rec == fwd[s].answer.receipt
         h   == p.entry
         out == ClearOutcome(h, db[h], rec, Owner(p), now[h])
     IN \/ /\ fwd[s].answer.result # "success"
           /\ heard' = [heard EXCEPT ![p] = "refused"]
           /\ UNCHANGED <<ledgerVars, credits>>
        \/ /\ fwd[s].answer.result = "success"
           /\ ~ReceiptMatches(p, rec)
           /\ heard' = [heard EXCEPT ![p] = "refused"]
           /\ UNCHANGED <<ledgerVars, credits>>
        \/ /\ fwd[s].answer.result = "success" /\ ReceiptMatches(p, rec)
           /\ heard' = [heard EXCEPT ![p] = Told(out)]
           /\ \/ /\ ClearFromPeer(h, rec, Owner(p))
                 /\ credits' = [credits EXCEPT ![h][p.auth] = credits[h][p.auth] + 1]
              \/ out # "cleared" /\ UNCHANGED <<ledgerVars, credits>>
  /\ UNCHANGED <<clr, charged, signed, unbooked, lost>>

\* The entry hub stops waiting (peerSettleTimeout) and answers
\* settlement_pending, or its process stops; the request may still be served.
GiveUp(s) ==
  /\ fwd[s].phase \in {"request", "answer"} /\ fwd[s].waiting
  /\ lost < MaxLost
  /\ fwd' = [fwd EXCEPT ![s].waiting = FALSE]
  /\ lost' = lost + 1
  /\ UNCHANGED <<ledgerVars, clr, heard, charged, credits, signed, unbooked>>

\* The exchange breaks: the request or its answer is lost, the ledger hub stops
\* before it serves the request, or the peer's key history cannot be fetched.
\* The merchant is told settlement_pending.
BreakExchange(s) ==
  /\ fwd[s].phase \in {"request", "answer"}
  /\ lost < MaxLost
  /\ fwd' = [fwd EXCEPT ![s] = Idle]
  /\ lost' = lost + 1
  /\ UNCHANGED <<ledgerVars, clr, heard, charged, credits, signed, unbooked>>

\* An answer that nobody waits for.
DropAnswer(s) ==
  /\ fwd[s].phase = "answer" /\ ~fwd[s].waiting
  /\ fwd' = [fwd EXCEPT ![s] = Idle]
  /\ UNCHANGED <<ledgerVars, clr, heard, charged, credits, signed, unbooked, lost>>

-----------------------------------------------------------------------------
(* anet-hub clear. *)

\* The operator of hub h discharges amt of what it owes peer: more than is due
\* is refused before anything is signed; the statement's id is new.
RunClear(k, h, peer, amt, id) ==
  /\ clr[k] = Idle
  /\ amt > 0 /\ amt <= db[h].due[peer]
  /\ id \notin signed
  /\ signed' = signed \cup {id}
  /\ clr' = [clr EXCEPT ![k] =
       [phase |-> "request", st |-> [id |-> id, payer |-> h, payTo |-> peer, amount |-> amt]]]
  /\ UNCHANGED <<ledgerVars, fwd, heard, charged, credits, unbooked, lost>>

\* ServeFedClear, SettleOwed: the creditor serves the statement.
ServeFedClear(k) ==
  /\ clr[k].phase = "request"
  /\ LET st == clr[k].st
         o  == SettleOwedOutcome(st.payTo, db[st.payTo], st, st.payer)
     IN \/ /\ SettleOwed(st.payTo, st, st.payer)
           /\ unbooked' = unbooked \cup {st}
           /\ clr' = [clr EXCEPT ![k] = [phase |-> "answer", st |-> st, accepted |-> TRUE]]
        \/ /\ o # "applied"
           /\ clr' = [clr EXCEPT ![k] = [phase |-> "answer", st |-> st, accepted |-> o = "repeat"]]
           /\ UNCHANGED <<ledgerVars, unbooked>>
  /\ UNCHANGED <<fwd, heard, charged, credits, signed, lost>>

\* The operator's command reads the answer: accepted, the due falls
\* (DischargeDue); over_due when it cannot; refused, nothing changes here.
ReadClearAnswer(k) ==
  /\ clr[k].phase = "answer"
  /\ LET st == clr[k].st IN
       \/ /\ clr[k].accepted
          /\ DischargeDue(st.payer, st.payTo, st.amount)
          /\ unbooked' = unbooked \ {st}
       \/ /\ clr[k].accepted => ~DischargeOK(db[st.payer], st.payTo, st.amount)
          /\ UNCHANGED <<ledgerVars, unbooked>>
  /\ clr' = [clr EXCEPT ![k] = Idle]
  /\ UNCHANGED <<fwd, heard, charged, credits, signed, lost>>

\* No answer the operator can read: clear.unconfirmed, nothing changes here,
\* whatever the creditor did.
Unconfirmed(k) ==
  /\ clr[k] # Idle
  /\ lost < MaxLost
  /\ clr' = [clr EXCEPT ![k] = Idle]
  /\ lost' = lost + 1
  /\ UNCHANGED <<ledgerVars, fwd, heard, charged, credits, signed, unbooked>>

-----------------------------------------------------------------------------
(* The rest of the hubs. *)

OtherStep(h) ==
  /\ \/ \E aid \in Movers : Register(h, aid) \/ Deregister(h, aid)
     \/ \E aid \in Agents, amt \in GrantAmounts : GrantCredit(h, aid, amt)
     \/ PruneLedger(h)
     \/ Tick(h)
  /\ UNCHANGED clearingVars

ClearingInit ==
  /\ LedgerInit
  /\ fwd = [s \in Slots |-> Idle]
  /\ clr = [k \in Consoles |-> Idle]
  /\ heard = [p \in Payments |-> "open"]
  /\ charged = {}
  /\ credits = [h \in Hubs |-> [a \in Auths |-> 0]]
  /\ signed = {} /\ unbooked = {} /\ lost = 0

ForwardStep(s) ==
  \/ ServeFedSettle(s) \/ FedRefusal(s) \/ ReadAnswer(s)
  \/ GiveUp(s) \/ BreakExchange(s) \/ DropAnswer(s)

ClearStep(k) == ServeFedClear(k) \/ ReadClearAnswer(k) \/ Unconfirmed(k)

ClearingNext ==
  \/ \E s \in Slots : (\E p \in Payments : Ask(s, p)) \/ ForwardStep(s)
  \/ \E k \in Consoles :
       \/ ClearStep(k)
       \/ \E h \in Hubs : \E peer \in Hubs \ {h}, amt \in ClearAmounts, id \in StatementIds :
            RunClear(k, h, peer, amt, id)
  \/ \E h \in Hubs : OtherStep(h)

ClearingSpec == ClearingInit /\ [][ClearingNext]_vars

\* Merchants ask until they have a final answer (A2A-DESIGN 8.3), requests that
\* arrive are served and answers that arrive are read.  Slots bounds the model,
\* not the hubs, so a merchant's turn to ask may be disabled again and again.
Fairness ==
  /\ \A p \in Payments : SF_vars(\E s \in Slots : Ask(s, p))
  /\ \A s \in Slots : WF_vars(ServeFedSettle(s)) /\ WF_vars(ReadAnswer(s)) /\ WF_vars(DropAnswer(s))

FairClearingSpec == ClearingSpec /\ Fairness

-----------------------------------------------------------------------------
(* Properties. *)

ForwardType ==
  [phase: {"request"}, pay: Payments, waiting: BOOLEAN]
    \cup [phase: {"answer"}, pay: Payments, waiting: BOOLEAN,
          answer: [result: {"success"}, receipt: ReceiptType]
                    \cup [result: Refusals, receipt: {NoReceipt}]]

ClearType ==
  [phase: {"request"}, st: Statement] \cup [phase: {"answer"}, st: Statement, accepted: BOOLEAN]

ClearingTypeOK ==
  /\ fwd \in [Slots -> ForwardType \cup {Idle}]
  /\ clr \in [Consoles -> ClearType \cup {Idle}]
  /\ heard \in [Payments -> {"open", "success", "refused"}]
  /\ charged \subseteq [auth: Auths, via: Hubs, amount: 1 .. MaxInt]
  /\ credits \in [Hubs -> [Auths -> Nat]]
  /\ signed \subseteq StatementIds /\ unbooked \subseteq Statement /\ lost \in 0 .. MaxLost

\* p's payer was charged for p's hub.
Charged(p)  == \E c \in charged : c.auth = p.auth /\ c.via = p.entry
Credited(p) == credits[p.entry][p.auth] > 0

\* The amounts of a set of charges or statements added up, coin by coin.
Worth(S) == Cardinality({c \in S \X (1 .. MaxInt) : c[2] <= c[1].amount})

\* The two hubs' records of one debt never differ by more than what is in
\* flight: what hub l says it owes hub e is what e says l owes it, and the
\* charges e has not cleared yet, and the statements e applied that l has not
\* booked (Due, facilitator.go; SettleOwed; DischargeDue).
DebtsAgree ==
  \A l, e \in Hubs : l # e =>
    db[l].due[e] =
      db[e].owed[l]
      + Worth({c \in charged : c.auth.network = l /\ c.via = e /\ credits[e][c.auth] = 0})
      + Worth({st \in unbooked : st.payer = l /\ st.payTo = e})

\* A discharge the creditor accepted can always be booked by the debtor: the
\* two records cannot part because DischargeDue refuses after the 200.
AcceptedIsBooked ==
  \A k \in Consoles :
    clr[k].phase = "answer" => LET st == clr[k].st IN
      clr[k].accepted => DischargeOK(db[st.payer], st.payTo, st.amount)

\* One authorization is credited at most once, over all the hubs its payee has
\* an account on, although receipts are asked for again, arrive late, and the
\* rows that remember the clearing and the charge are deleted (PAY-L5).
CreditedOnce ==
  \A a \in Auths : \A h, g \in Hubs :
    (credits[h][a] > 0 /\ credits[g][a] > 0) => h = g /\ credits[h][a] = 1

\* A merchant that is told success has been credited, and its payer charged for
\* its hub.
SuccessMeansCredited ==
  \A p \in Payments : heard[p] = "success" => Credited(p) /\ Charged(p)

\* As long as its row is due to be kept, the ledger hub does not refuse a
\* payment it charged for the peer that asks, whatever else is asked, deleted or
\* expired in between, and though the payer left and came back.
\* RepeatGetsReceipt is about payers and payees that are not where they were.
ChargedNotRefused ==
  [][\A s \in Slots :
       LET p == fwd[s].pay  l == Owner(p) IN
       (/\ ServeFedSettle(s) /\ Charged(p)
        /\ p.auth.payer \in db[l].registered /\ p.auth.payTo \notin db[l].registered
        /\ now[l] < p.auth.notAfter + SettledKeptAfter)
       => fwd'[s].answer.result = "success"]_vars

\* What SettleForPeer's and SettlementPending's comments say: the ledger hub
\* answers an authorization it settled for this peer with the original receipt.
\* The code looks at the payee's and the payer's registration before.
RepeatGetsReceipt ==
  [][\A s \in Slots :
       (ServeFedSettle(s) /\ SettledFor(db[Owner(fwd[s].pay)], fwd[s].pay.auth, fwd[s].pay.entry))
         => fwd'[s].answer.result = "success"]_vars

\* What was taken from the payer reaches the payee, although answers are lost
\* and hubs stop waiting: the merchant's retries get it there, as long as they
\* come before the charge's row is deleted, payer and payee stay where they are
\* and the federation layer lets the request through.
ChargeReachesPayee == \A p \in Payments : Charged(p) ~> Credited(p)

\* The payee's side of every payment: credited once, and before its merchant is
\* told of success.
CreditsSound == ClearingTypeOK /\ CreditedOnce /\ SuccessMeansCredited

\* The two books of a debt, with everything that is between them.
BooksAgree == DebtsAgree /\ AcceptedIsBooked
=============================================================================
