---------------------------- MODULE CreditLedger ----------------------------
(***************************************************************************)
(* The credit ledger of every hub: the tables that hold credit             *)
(* (credit_balance, supply_totals, hub_due, hub_owed) and the tables that  *)
(* keep a movement from happening twice (credit_settled, settle_guard,     *)
(* credit_cleared, hub_cleared), with the transactions that change them    *)
(* (internal/aghub: facilitator.go, redemption.go, amount.go, supply.go,   *)
(* janitor.go).                                                            *)
(*                                                                         *)
(* A hub's database is opened with _txlock=immediate, so its transactions  *)
(* are serial: each one is a single step here, a function from the         *)
(* database to the database, taken when its Outcome operator, the code's   *)
(* checks in the code's order, ends in success.  A refused transaction     *)
(* rolls back and changes nothing.  This module lets any transaction be    *)
(* called at any time with any arguments; Facilitator and Clearing model   *)
(* who calls them.                                                         *)
(***************************************************************************)
EXTENDS Integers, FiniteSets

CONSTANTS
  Hubs,               \* the hubs of the federation, by AID
  Agents,             \* the agents that may register, by AID
  NoHub,              \* the empty via: a settlement that no peer forwarded
  Binds, NoBind,      \* interaction ids (pay_bind), and the empty one
  Auths,              \* the payment authorizations that agents sign
  Receipts,           \* the settlement receipts that peers may present
  StatementIds,       \* ids of discharge statements (unique per statement)
  MaxInt,             \* math.MaxInt64
  SettledKeptAfter,   \* credit_settled outlives NotAfter by this
  GuardKept,          \* settle_guard outlives the settlement by this
  PeerReceiptMaxAge,  \* a receipt older than this is not cleared
  ClearedKeptAfter,   \* credit_cleared outlives SettleAt by this
  MaxSkew,            \* relayauth.MaxSkewMillis
  MaxDrift,           \* how far two hubs' clocks may be apart
  MaxNow,             \* bound of the model: the clocks stop here
  GrantAmounts,       \* bound of the model: what the operator grants
  ClearAmounts        \* bound of the model: what the operator discharges

\* A wire amount is a uint64.
MaxUint == 2 * MaxInt + 1

Int64 == (-MaxInt - 1) .. MaxInt

AuthType ==
  [id: Nat, payer: Agents, payTo: Agents \cup Hubs, amount: 0 .. MaxUint,
   network: Hubs, bind: Binds \cup {NoBind}, issuedAt: Nat, notAfter: Nat]

ReceiptType ==
  [auth: Auths, network: Hubs, payTo: Agents \cup Hubs, amount: 0 .. MaxUint, settleAt: Int]

ASSUME LedgerAssumption ==
  /\ MaxInt \in Nat \ {0}
  /\ IsFiniteSet(Agents) /\ IsFiniteSet(Hubs)
  /\ Agents \cap Hubs = {} /\ NoHub \notin Hubs /\ NoBind \notin Binds
  /\ Auths \subseteq AuthType
  /\ \A a, b \in Auths : a.id = b.id => a = b
  /\ Receipts \subseteq ReceiptType
  /\ SettledKeptAfter \in Nat /\ GuardKept \in Nat /\ MaxNow \in Nat
  /\ PeerReceiptMaxAge \in Nat /\ ClearedKeptAfter \in Nat /\ MaxSkew \in Nat
  /\ MaxDrift \in Nat
  /\ GrantAmounts \subseteq Int /\ ClearAmounts \subseteq Nat

VARIABLES
  db,    \* db[h]: the tables of hub h
  now    \* now[h]: the clock of hub h

ledgerVars == <<db, now>>

-----------------------------------------------------------------------------
(* The tables. *)

SettledRow   == [auth: Auths, via: Hubs \cup {NoHub}, at: Nat]
ClearedRow   == [auth: Auths, peer: Hubs, settleAt: Int]
Statement    == [id: StatementIds, payer: Hubs, payTo: Hubs, amount: 0 .. MaxUint]

\* balance holds the agents' rows of credit_balance, hubRow the hub's own.  An
\* absent row reads as zero; guard[k] = 0 is an absent settle_guard row.
DB ==
  [registered: SUBSET Agents,
   balance:    [Agents -> Int64],
   hubRow:     Int64,
   issued:     Int64,
   redeemed:   Int64,
   due:        [Hubs -> Int64],
   owed:       [Hubs -> Int64],
   settled:    SUBSET SettledRow,
   guard:      [Agents \X Binds -> Nat],
   cleared:    SUBSET ClearedRow,
   applied:    SUBSET StatementIds]

EmptyDB ==
  [registered |-> {},
   balance    |-> [a \in Agents |-> 0],
   hubRow     |-> 0,
   issued     |-> 0,
   redeemed   |-> 0,
   due        |-> [g \in Hubs |-> 0],
   owed       |-> [g \in Hubs |-> 0],
   settled    |-> {},
   guard      |-> [k \in Agents \X Binds |-> 0],
   cleared    |-> {},
   applied    |-> {}]

-----------------------------------------------------------------------------
(* Amounts. *)

\* The check in front of every conversion of a wire amount.
amountInt64(n) == n \in 1 .. MaxInt

\* Go's int64(n) of a uint64: two's complement.
Signed(n) == IF n <= MaxInt THEN n ELSE n - 2 * (MaxInt + 1)

\* addToRow's guard: the row can take delta.
addToRow(row, delta) == delta # -MaxInt - 1 /\ row + delta \in Int64

\* What addToRow does to the row of key k when it can.
Added(rows, k, delta) == [rows EXCEPT ![k] = @ + delta]

\* The total issued can take amt more.
issuanceRoom(d, amt) == d.issued <= MaxInt - amt

\* supplyEventTx's guard on the total it adds to.
supplyEvent(total, amt) == amt > 0 /\ total <= MaxInt - amt

\* The sum of non-negative balances, counted coin by coin: account a holds the
\* coins <<a, 1>> .. <<a, f[a]>>.
Coins(f) == {c \in Agents \X (1 .. MaxInt) : c[2] <= f[c[1]]}
Total(f) == Cardinality(Coins(f))

-----------------------------------------------------------------------------
(* settleAuth: the transaction that charges a payer.  bind is the          *)
(* authorization's interaction id, which Redeem clears.                    *)

IsSettled(d, a)     == \E r \in d.settled : r.auth = a
SettledFor(d, a, v) == \E r \in d.settled : r.auth = a /\ r.via = v

guardKey(a, bind)       == <<a.payer, bind>>
GuardHeld(d, a, bind, t) == bind # NoBind /\ d.guard[guardKey(a, bind)] > t

\* The hub keeps the payee's account: a registered agent, or the hub itself.
IsLocal(h, d, payTo) == payTo = h \/ payTo \in d.registered

\* Credit that comes home to the hub's own row: a redemption, or a payment to
\* an agent that banks on the forwarding peer.
LeavesCirculation(h, a, via) == a.payTo = h \/ via # NoHub

Debited(d, a) == Added(d.balance, a.payer, -Signed(a.amount))

Moved(d, a) ==
  IF a.payTo \in d.registered
  THEN Added(Debited(d, a), a.payTo, Signed(a.amount))
  ELSE Debited(d, a)

\* None of the addToRow and supplyEventTx calls of the transaction refuses.
SettleFits(h, d, a, via) ==
  LET amt == Signed(a.amount) IN
  /\ addToRow(d.balance[a.payer], -amt)
  /\ a.payTo \in d.registered => addToRow(Debited(d, a)[a.payTo], amt)
  /\ LeavesCirculation(h, a, via) => supplyEvent(d.redeemed, amt) /\ addToRow(d.hubRow, amt)
  /\ via # NoHub => addToRow(d.due[via], amt)

\* Mutant: the balance is compared before a repeat is recognised.
SettleOutcome_FundsFirst(h, d, a, bind, via, t) ==
  IF d.balance[a.payer] < Signed(a.amount) THEN "insufficient_funds"
  ELSE IF IsSettled(d, a) THEN "repeat"
  ELSE IF GuardHeld(d, a, bind, t) THEN "duplicate_binding"
  ELSE "settled"

\* The reason the transaction ends with, its checks in order.
SettleOutcome(h, d, a, bind, via, t) ==
  IF ~amountInt64(a.amount) THEN "invalid_amount"
  ELSE IF IsSettled(d, a) THEN "repeat"
  ELSE IF GuardHeld(d, a, bind, t) THEN "duplicate_binding"
  ELSE IF d.balance[a.payer] < Signed(a.amount) THEN "insufficient_funds"
  ELSE IF via = NoHub /\ ~IsLocal(h, d, a.payTo) THEN "payee_not_local"
  ELSE IF via # NoHub /\ IsLocal(h, d, a.payTo) THEN "payee_mismatch"
  ELSE IF ~SettleFits(h, d, a, via) THEN "invalid_amount"
  ELSE "settled"

SettleTx(h, d, a, bind, via, t) ==
  LET amt  == Signed(a.amount)
      home == IF LeavesCirculation(h, a, via) THEN amt ELSE 0
  IN [d EXCEPT
        !.settled  = @ \cup {[auth |-> a, via |-> via, at |-> t]},
        !.guard    = IF bind = NoBind THEN @ ELSE [@ EXCEPT ![guardKey(a, bind)] = t + GuardKept],
        !.balance  = Moved(d, a),
        !.redeemed = @ + home,
        !.hubRow   = @ + home,
        !.due      = IF via = NoHub THEN @ ELSE Added(@, via, amt)]

-----------------------------------------------------------------------------
(* ClearFromPeer: the transaction that credits a local payee against a     *)
(* peer's signed receipt.                                                  *)

IsCleared(d, a) == \E r \in d.cleared : r.auth = a

ReceiptInWindow(rec, t) ==
  rec.settleAt >= t - PeerReceiptMaxAge /\ rec.settleAt <= t + MaxSkew

ClearFits(d, rec, peer) ==
  LET amt == Signed(rec.amount) IN
  /\ addToRow(d.balance[rec.payTo], amt)
  /\ addToRow(d.hubRow, -amt)
  /\ addToRow(d.owed[peer], amt)
  /\ supplyEvent(d.issued, amt)

ClearOutcome(h, d, rec, peer, t) ==
  IF ~amountInt64(rec.amount) THEN "invalid_amount"
  ELSE IF rec.network # peer THEN "wrong_ledger"
  ELSE IF rec.payTo = h THEN "payee_mismatch"
  ELSE IF IsCleared(d, rec.auth) THEN "repeat"
  ELSE IF ~ReceiptInWindow(rec, t) THEN "receipt_too_old"
  ELSE IF ~issuanceRoom(d, Signed(rec.amount)) THEN "invalid_amount"
  ELSE IF ~ClearFits(d, rec, peer) THEN "invalid_amount"
  ELSE "cleared"

\* Mutant: the payee's credit is not counted as issued.
ClearTx_NotIssued(d, rec, peer) ==
  [d EXCEPT
     !.cleared = @ \cup {[auth |-> rec.auth, peer |-> peer, settleAt |-> rec.settleAt]},
     !.balance = Added(@, rec.payTo, Signed(rec.amount)),
     !.owed    = Added(@, peer, Signed(rec.amount))]

ClearTx(d, rec, peer) ==
  LET amt == Signed(rec.amount) IN
  [d EXCEPT
     !.cleared = @ \cup {[auth |-> rec.auth, peer |-> peer, settleAt |-> rec.settleAt]},
     !.balance = Added(@, rec.payTo, amt),
     !.hubRow  = @ - amt,
     !.owed    = Added(@, peer, amt),
     !.issued  = @ + amt]

-----------------------------------------------------------------------------
(* The discharge of a debt between two hubs. *)

\* Mutant: a statement for more than is owed is acknowledged like a repeat.
SettleOwedOutcome_OverAcknowledged(h, d, s, peer) ==
  IF s.id \in d.applied \/ Signed(s.amount) > d.owed[peer] THEN "repeat" ELSE "applied"

\* SettleOwed: the creditor applies the debtor's statement.  The row of the
\* statement's id goes in first, so a repeat is answered before the balance is
\* compared; "too much" rolls that row back.
SettleOwedOutcome(h, d, s, peer) ==
  IF ~amountInt64(s.amount) THEN "invalid_amount"
  ELSE IF s.payer # peer \/ s.payTo # h THEN "not_addressed"
  ELSE IF s.id \in d.applied THEN "repeat"
  ELSE IF Signed(s.amount) > d.owed[peer] THEN "more_than_owed"
  ELSE "applied"

SettleOwedTx(d, s, peer) ==
  [d EXCEPT !.applied = @ \cup {s.id},
            !.owed    = Added(@, peer, -Signed(s.amount))]

\* DischargeDue: the debtor reduces its own record.
DischargeOK(d, peer, amt) == amt > 0 /\ d.due[peer] >= amt

DischargeTx(d, peer, amt) == [d EXCEPT !.due = Added(@, peer, -amt)]

-----------------------------------------------------------------------------
(* Issuance: GrantCredit and issueTx, which every grant goes through. *)

IssueOK(d, aid, amt) ==
  /\ amt > 0
  /\ d.balance[aid] <= MaxInt - amt
  /\ issuanceRoom(d, amt)
  /\ addToRow(d.hubRow, -amt)
  /\ supplyEvent(d.issued, amt)
  /\ addToRow(d.balance[aid], amt)

IssueTx(d, aid, amt) ==
  [d EXCEPT !.hubRow  = @ - amt,
            !.issued  = @ + amt,
            !.balance = Added(@, aid, amt)]

-----------------------------------------------------------------------------
(* The janitor: what ledgerRetention deletes of these tables at time t,    *)
(* one statement, and one transaction, per table.                          *)

SettledExpired(r, t) == r.auth.notAfter <= t - SettledKeptAfter
ClearedExpired(r, t) == r.settleAt <= t - ClearedKeptAfter

PruneSettled(d, t) == [d EXCEPT !.settled = {r \in @ : ~SettledExpired(r, t)}]
\* Mutant: a binding goes with the settled row.
PruneGuard_WithSettled(d, t) ==
  [d EXCEPT !.guard = [k \in Agents \X Binds |->
                         IF d.guard[k] <= t + SettledKeptAfter THEN 0 ELSE d.guard[k]]]

PruneGuard(d, t)   == [d EXCEPT !.guard = [k \in Agents \X Binds |-> IF d.guard[k] <= t THEN 0 ELSE d.guard[k]]]
PruneCleared(d, t) == [d EXCEPT !.cleared = {r \in @ : ~ClearedExpired(r, t)}]

-----------------------------------------------------------------------------
(* Steps. *)

Settle(h, a, bind, via) ==
  /\ SettleOutcome(h, db[h], a, bind, via, now[h]) = "settled"
  /\ db' = [db EXCEPT ![h] = SettleTx(h, @, a, bind, via, now[h])]
  /\ UNCHANGED now

ClearFromPeer(h, rec, peer) ==
  /\ ClearOutcome(h, db[h], rec, peer, now[h]) = "cleared"
  /\ db' = [db EXCEPT ![h] = ClearTx(@, rec, peer)]
  /\ UNCHANGED now

SettleOwed(h, s, peer) ==
  /\ SettleOwedOutcome(h, db[h], s, peer) = "applied"
  /\ db' = [db EXCEPT ![h] = SettleOwedTx(@, s, peer)]
  /\ UNCHANGED now

DischargeDue(h, peer, amt) ==
  /\ DischargeOK(db[h], peer, amt)
  /\ db' = [db EXCEPT ![h] = DischargeTx(@, peer, amt)]
  /\ UNCHANGED now

\* anet-hub grant refuses an agent the hub does not know (runGrant).
GrantCredit(h, aid, amt) ==
  /\ aid \in db[h].registered
  /\ IssueOK(db[h], aid, amt)
  /\ db' = [db EXCEPT ![h] = IssueTx(@, aid, amt)]
  /\ UNCHANGED now

\* Registration and deregistration, for the ledger: the agent row comes and
\* goes, the balance stays (DeregisterTx).
Register(h, aid) ==
  /\ aid \notin db[h].registered
  /\ db' = [db EXCEPT ![h].registered = @ \cup {aid}]
  /\ UNCHANGED now

Deregister(h, aid) ==
  /\ aid \in db[h].registered
  /\ db' = [db EXCEPT ![h].registered = @ \ {aid}]
  /\ UNCHANGED now

PruneLedger(h) ==
  /\ \/ db' = [db EXCEPT ![h] = PruneSettled(@, now[h])]
     \/ db' = [db EXCEPT ![h] = PruneGuard(@, now[h])]
     \/ db' = [db EXCEPT ![h] = PruneCleared(@, now[h])]
  /\ UNCHANGED now

Tick(h) ==
  /\ now[h] < MaxNow
  /\ \A g \in Hubs : now[h] + 1 - now[g] <= MaxDrift
  /\ now' = [now EXCEPT ![h] = @ + 1]
  /\ UNCHANGED db

LedgerInit ==
  /\ db = [h \in Hubs |-> EmptyDB]
  /\ now = [h \in Hubs |-> 0]

LedgerNext ==
  \E h \in Hubs :
    \/ \E a \in Auths : \E bind \in {a.bind, NoBind} : \E via \in (Hubs \ {h}) \cup {NoHub} :
         Settle(h, a, bind, via)
    \/ \E rec \in Receipts, peer \in Hubs \ {h} : rec.payTo \in Agents \cup {h} /\ ClearFromPeer(h, rec, peer)
    \/ \E peer \in Hubs \ {h}, id \in StatementIds, amt \in ClearAmounts :
         SettleOwed(h, [id |-> id, payer |-> peer, payTo |-> h, amount |-> amt], peer)
    \/ \E peer \in Hubs \ {h}, amt \in ClearAmounts : DischargeDue(h, peer, amt)
    \/ \E aid \in Agents, amt \in GrantAmounts : GrantCredit(h, aid, amt)
    \/ \E aid \in Agents : Register(h, aid) \/ Deregister(h, aid)
    \/ PruneLedger(h)
    \/ Tick(h)

LedgerSpec == LedgerInit /\ [][LedgerNext]_ledgerVars

-----------------------------------------------------------------------------
(* Properties. *)

\* Every row of every hub stays a value an INTEGER column can hold: no sum the
\* transactions make leaves int64 (addToRow, issuanceRoom).
LedgerTypeOK ==
  /\ db \in [Hubs -> DB]
  /\ now \in [Hubs -> Nat]

\* What closeEpochTx requires before it signs a supply epoch (PAY-S3), and what
\* Supply.Consistent reports: no balance is negative, and the balances add up
\* to issued - redeemed and to the negative of the hub's own row.
AddsUp(d) ==
  /\ \A a \in Agents : d.balance[a] >= 0
  /\ Total(d.balance) = d.issued - d.redeemed
  /\ d.hubRow = d.redeemed - d.issued

\* No sequence of settlements, clearings, grants, discharges, registrations
\* and prunes makes a hub's ledger disagree with itself, so publishing an
\* epoch never ends in ErrSupplyMismatch.
Consistent == \A h \in Hubs : AddsUp(db[h])

\* Both sides of a debt between hubs stay within what really moved: a hub owes
\* a peer at most what left its ledger (DischargeDue cannot drive it below
\* zero), and is owed at most what it issued.
DebtsBacked ==
  \A h, g \in Hubs : /\ db[h].due[g] \in 0 .. db[h].redeemed
                     /\ db[h].owed[g] \in 0 .. db[h].issued

\* Only issuance is ever refused for its size: once a payment is in range and
\* covered by the payer's balance, none of the overflow guards inside
\* settleAuth refuses it, whatever the ledger went through before
\* (issuanceRoom's comment, amount.go).
SettlementAlwaysFits ==
  \A h \in Hubs, a \in Auths : \A via \in (Hubs \ {h}) \cup {NoHub} :
    (/\ amountInt64(a.amount)
     /\ db[h].balance[a.payer] >= Signed(a.amount)
     /\ (via = NoHub) <=> IsLocal(h, db[h], a.payTo))
    => SettleFits(h, db[h], a, via)

\* What every transaction may rely on and leaves behind: rows in range, books
\* that add up, debts that are backed, and room for every covered payment.
LedgerSound == LedgerTypeOK /\ Consistent /\ DebtsBacked /\ SettlementAlwaysFits
=============================================================================
