------------------------- MODULE CreditLedgerProofs -------------------------
(***************************************************************************)
(* Proofs about CreditLedger, for every value of its constants.            *)
(***************************************************************************)
EXTENDS CreditLedger, FiniteSetTheorems, TLAPS

-----------------------------------------------------------------------------
(* Sums of balances. *)

\* The balances that add up: none negative, none past MaxInt.
Balances == [Agents -> 0 .. MaxInt]

Column(f, a) == {a} \X (1 .. f[a])
Others(f, a) == {c \in Coins(f) : c[1] # a}

\* The coins of an account are as many as its balance.
LEMMA ColumnSize ==
  ASSUME NEW f \in Balances, NEW a \in Agents
  PROVE  IsFiniteSet(Column(f, a)) /\ Cardinality(Column(f, a)) = f[a]
<1>1. f[a] \in Nat /\ f[a] \in Int /\ 1 \in Int
  BY LedgerAssumption DEF Balances
<1>2. IsFiniteSet(1 .. f[a]) /\ Cardinality(1 .. f[a]) = f[a]
  BY <1>1, FS_Interval
<1>3. IsFiniteSet({a}) /\ Cardinality({a}) = 1
  BY FS_Singleton
<1>4. IsFiniteSet({a} \X (1 .. f[a])) /\ Cardinality({a} \X (1 .. f[a])) = Cardinality({a}) * Cardinality(1 .. f[a])
  BY <1>2, <1>3, FS_Product
<1>. QED BY <1>1, <1>2, <1>3, <1>4 DEF Column

\* The coins of a ledger are finitely many.
LEMMA CoinsFinite ==
  ASSUME NEW f
  PROVE  IsFiniteSet(Coins(f))
<1>1. IsFiniteSet(1 .. MaxInt)
  BY LedgerAssumption, FS_Interval
<1>2. IsFiniteSet(Agents \X (1 .. MaxInt))
  BY <1>1, LedgerAssumption, FS_Product
<1>. QED BY <1>2, FS_Subset DEF Coins

\* The total is one account's balance and the coins of the others.
LEMMA TotalSplit ==
  ASSUME NEW f \in Balances, NEW a \in Agents
  PROVE  /\ IsFiniteSet(Others(f, a))
         /\ Cardinality(Others(f, a)) \in Nat
         /\ Total(f) = Cardinality(Others(f, a)) + f[a]
<1>1. IsFiniteSet(Coins(f))
  BY CoinsFinite
<1>2. IsFiniteSet(Others(f, a))
  BY <1>1, FS_Subset DEF Others
<1>3. Cardinality(Others(f, a)) \in Nat
  BY <1>2, FS_CardinalityType
<1>4. Coins(f) = Others(f, a) \cup Column(f, a)
  BY LedgerAssumption DEF Coins, Others, Column, Balances
<1>5. Others(f, a) \cap Column(f, a) = {}
  BY DEF Others, Column
<1>6. IsFiniteSet(Column(f, a)) /\ Cardinality(Column(f, a)) = f[a]
  BY ColumnSize
<1>7. Cardinality(Others(f, a) \cup Column(f, a))
        = Cardinality(Others(f, a)) + Cardinality(Column(f, a)) - Cardinality(Others(f, a) \cap Column(f, a))
  BY <1>2, <1>6, FS_Union
<1>8. Cardinality(Others(f, a) \cap Column(f, a)) = 0
  BY <1>5, FS_EmptySet
<1>9. f[a] \in Nat
  BY LedgerAssumption DEF Balances
<1>. QED BY <1>2, <1>3, <1>4, <1>6, <1>7, <1>8, <1>9 DEF Total

\* No account holds more than the total.
LEMMA TotalBound ==
  ASSUME NEW f \in Balances, NEW a \in Agents
  PROVE  Total(f) \in Nat /\ f[a] <= Total(f)
<1>1. f[a] \in Nat
  BY LedgerAssumption DEF Balances
<1>. QED BY <1>1, TotalSplit

\* Changing one account changes the total by as much.
LEMMA TotalUpdate ==
  ASSUME NEW f \in Balances, NEW a \in Agents, NEW v \in 0 .. MaxInt
  PROVE  /\ [f EXCEPT ![a] = v] \in Balances
         /\ Total([f EXCEPT ![a] = v]) = Total(f) - f[a] + v
<1>. DEFINE g == [f EXCEPT ![a] = v]
<1>1. g \in Balances
  BY DEF Balances
<1>2. g[a] = v /\ \A b \in Agents : b # a => g[b] = f[b]
  BY DEF Balances
<1>3. Others(g, a) = Others(f, a)
  BY <1>2 DEF Others, Coins
<1>4. Total(g) = Cardinality(Others(g, a)) + g[a]
  BY <1>1, TotalSplit
<1>5. Total(f) = Cardinality(Others(f, a)) + f[a] /\ Cardinality(Others(f, a)) \in Nat
  BY TotalSplit
<1>6. f[a] \in Int /\ v \in Int
  BY LedgerAssumption DEF Balances
<1>. QED BY <1>1, <1>2, <1>3, <1>4, <1>5, <1>6

\* Balances of nothing add up to nothing.
LEMMA TotalZero ==
  ASSUME NEW f \in [Agents -> {0}]
  PROVE  Total(f) = 0
<1>1. Coins(f) = {}
  BY LedgerAssumption DEF Coins
<1>. QED BY <1>1, FS_EmptySet DEF Total

-----------------------------------------------------------------------------
(* The inductive invariant of one hub's database.  AddsUp alone is not     *)
(* inductive: that a row can take an amount rests on every row being at    *)
(* most what was issued, and a debt's bound on what was redeemed.          *)

LedgerInv(d) ==
  /\ d \in DB
  /\ d.issued >= 0 /\ d.redeemed >= 0
  /\ AddsUp(d)
  /\ \A g \in Hubs : d.due[g] \in 0 .. d.redeemed /\ d.owed[g] \in 0 .. d.issued

\* Every row of a ledger that adds up is within what was issued.
LEMMA RowsBounded ==
  ASSUME NEW d, LedgerInv(d)
  PROVE  /\ d.balance \in Balances
         /\ d.issued \in 0 .. MaxInt /\ d.redeemed \in 0 .. d.issued
         /\ d.hubRow \in -MaxInt .. 0
         /\ Total(d.balance) \in Nat /\ Total(d.balance) = d.issued - d.redeemed
         /\ \A a \in Agents : d.balance[a] <= d.issued - d.redeemed
<1>1. /\ d.balance \in [Agents -> Int64] /\ d.issued \in Int64 /\ d.redeemed \in Int64
      /\ d.hubRow \in Int64
  BY DEF LedgerInv, DB
<1>2. MaxInt \in Nat
  BY LedgerAssumption
<1>3. d.balance \in Balances
  BY <1>1, <1>2 DEF LedgerInv, AddsUp, Balances, Int64
<1>4. Total(d.balance) = d.issued - d.redeemed /\ d.hubRow = d.redeemed - d.issued
  BY DEF LedgerInv, AddsUp
<1>5. \A a \in Agents : Total(d.balance) \in Nat /\ d.balance[a] <= Total(d.balance)
  BY <1>3, TotalBound
<1>6. Total(d.balance) \in Nat
  BY <1>3, CoinsFinite, FS_CardinalityType DEF Total
<1>. QED BY <1>1, <1>2, <1>3, <1>4, <1>5, <1>6 DEF LedgerInv, Int64

\* An amount the range check accepts is what int64 makes of it.
LEMMA AmountInRange ==
  ASSUME NEW n, amountInt64(n)
  PROVE  n \in 1 .. MaxInt /\ Signed(n) = n
BY LedgerAssumption DEF amountInt64, Signed

\* What a settlement's success says of the ledger it starts from.
LEMMA SettledMeans ==
  ASSUME NEW h, NEW d, NEW a, NEW bind, NEW via, NEW t,
         SettleOutcome(h, d, a, bind, via, t) = "settled"
  PROVE  /\ amountInt64(a.amount) /\ ~IsSettled(d, a) /\ ~GuardHeld(d, a, bind, t)
         /\ ~(d.balance[a.payer] < Signed(a.amount))
         /\ (via = NoHub) => IsLocal(h, d, a.payTo)
         /\ (via # NoHub) => ~IsLocal(h, d, a.payTo)
         /\ SettleFits(h, d, a, via)
BY DEF SettleOutcome

\* The balances after a settlement: they add up to what they did, less what
\* left circulation.
LEMMA MovedTotal ==
  ASSUME NEW h \in Hubs, NEW d, LedgerInv(d), NEW a \in Auths,
         NEW via \in (Hubs \ {h}) \cup {NoHub},
         amountInt64(a.amount), d.balance[a.payer] >= Signed(a.amount),
         (via = NoHub) => IsLocal(h, d, a.payTo),
         (via # NoHub) => ~IsLocal(h, d, a.payTo)
  PROVE  /\ Debited(d, a) \in Balances
         /\ a.payTo \in d.registered => Debited(d, a)[a.payTo] + a.amount \in 0 .. MaxInt
         /\ Moved(d, a) \in Balances
         /\ Total(Moved(d, a)) = Total(d.balance) - (IF LeavesCirculation(h, a, via) THEN a.amount ELSE 0)
         /\ LeavesCirculation(h, a, via) => d.redeemed + a.amount <= d.issued
<1>1. a.payer \in Agents /\ a.amount \in 1 .. MaxInt /\ Signed(a.amount) = a.amount
  BY LedgerAssumption, AmountInRange DEF AuthType
<1>2. /\ d.balance \in Balances /\ d.issued \in 0 .. MaxInt /\ d.redeemed \in 0 .. d.issued
      /\ Total(d.balance) \in Nat /\ Total(d.balance) = d.issued - d.redeemed
      /\ d.balance[a.payer] <= Total(d.balance)
  BY <1>1, RowsBounded
<1>3. MaxInt \in Nat /\ d.balance[a.payer] \in 0 .. MaxInt
  BY <1>1, <1>2, LedgerAssumption DEF Balances
<1>4. d.balance[a.payer] - a.amount \in 0 .. MaxInt
  BY <1>1, <1>3
<1>5. Debited(d, a) = [d.balance EXCEPT ![a.payer] = d.balance[a.payer] - a.amount]
  BY <1>1, <1>3 DEF Debited, Added
<1>6. /\ Debited(d, a) \in Balances
      /\ Total(Debited(d, a)) = Total(d.balance) - a.amount
  <2>1. /\ Debited(d, a) \in Balances
        /\ Total(Debited(d, a)) = Total(d.balance) - d.balance[a.payer] + (d.balance[a.payer] - a.amount)
    BY <1>1, <1>2, <1>4, <1>5, TotalUpdate
  <2>. QED BY <2>1, <1>1, <1>2, <1>3
<1>7. d.registered \subseteq Agents
  BY DEF LedgerInv, DB
<1>8. CASE a.payTo \in d.registered
  <2>1. a.payTo \in Agents /\ a.payTo # h /\ via = NoHub
    BY <1>7, <1>8, LedgerAssumption DEF IsLocal
  <2>2. ~LeavesCirculation(h, a, via)
    BY <2>1 DEF LeavesCirculation
  <2>3. Debited(d, a)[a.payTo] \in 0 .. MaxInt /\ Debited(d, a)[a.payTo] <= Total(Debited(d, a))
    BY <1>6, <2>1, TotalBound DEF Balances
  <2>4. Debited(d, a)[a.payTo] + a.amount \in 0 .. MaxInt
    BY <1>1, <1>2, <1>3, <1>6, <2>3
  <2>5. Moved(d, a) = [Debited(d, a) EXCEPT ![a.payTo] = Debited(d, a)[a.payTo] + a.amount]
    BY <1>1, <1>8 DEF Moved, Added
  <2>6. /\ Moved(d, a) \in Balances
        /\ Total(Moved(d, a)) = Total(Debited(d, a)) - Debited(d, a)[a.payTo] + (Debited(d, a)[a.payTo] + a.amount)
    <3>. DEFINE f == Debited(d, a)
                v == Debited(d, a)[a.payTo] + a.amount
    <3>1. f \in Balances /\ a.payTo \in Agents /\ v \in 0 .. MaxInt /\ Moved(d, a) = [f EXCEPT ![a.payTo] = v]
      BY <1>6, <2>1, <2>4, <2>5
    <3>. HIDE DEF f, v
    <3>2. [f EXCEPT ![a.payTo] = v] \in Balances /\ Total([f EXCEPT ![a.payTo] = v]) = Total(f) - f[a.payTo] + v
      BY <3>1, TotalUpdate
    <3>. QED BY <3>1, <3>2 DEF f, v
  <2>7. Total(Moved(d, a)) = Total(d.balance)
    BY <1>1, <1>2, <1>3, <1>6, <2>3, <2>6
  <2>. QED BY <1>2, <1>6, <2>2, <2>4, <2>6, <2>7
<1>9. CASE a.payTo \notin d.registered
  <2>1. LeavesCirculation(h, a, via)
    BY <1>9 DEF LeavesCirculation, IsLocal
  <2>2. Moved(d, a) = Debited(d, a)
    BY <1>9 DEF Moved
  <2>3. d.redeemed + a.amount <= d.issued
    BY <1>1, <1>2, <1>3
  <2>. QED BY <1>6, <1>9, <2>1, <2>2, <2>3
<1>. QED BY <1>8, <1>9

\* None of the overflow guards inside settleAuth refuses a payment that is in
\* range, covered and for a payee on the right side.
LEMMA SettleFitsLemma ==
  ASSUME NEW h \in Hubs, NEW d, LedgerInv(d), NEW a \in Auths,
         NEW via \in (Hubs \ {h}) \cup {NoHub},
         amountInt64(a.amount), d.balance[a.payer] >= Signed(a.amount),
         (via = NoHub) => IsLocal(h, d, a.payTo),
         (via # NoHub) => ~IsLocal(h, d, a.payTo)
  PROVE  SettleFits(h, d, a, via)
<1>1. a.payer \in Agents /\ a.amount \in 1 .. MaxInt /\ Signed(a.amount) = a.amount /\ MaxInt \in Nat
  BY LedgerAssumption, AmountInRange DEF AuthType
<1>2. /\ d.balance \in Balances /\ d.issued \in 0 .. MaxInt /\ d.redeemed \in 0 .. d.issued
      /\ d.hubRow = d.redeemed - d.issued
  BY RowsBounded DEF LedgerInv, AddsUp
<1>3. /\ a.payTo \in d.registered => Debited(d, a)[a.payTo] + a.amount \in 0 .. MaxInt
      /\ LeavesCirculation(h, a, via) => d.redeemed + a.amount <= d.issued
  BY MovedTotal
<1>4. addToRow(d.balance[a.payer], -Signed(a.amount))
  BY <1>1, <1>2 DEF addToRow, Int64, Balances
<1>5. a.payTo \in d.registered => addToRow(Debited(d, a)[a.payTo], Signed(a.amount))
  BY <1>1, <1>3 DEF addToRow, Int64
<1>6. ASSUME LeavesCirculation(h, a, via)
      PROVE  supplyEvent(d.redeemed, Signed(a.amount)) /\ addToRow(d.hubRow, Signed(a.amount))
  BY <1>1, <1>2, <1>3, <1>6 DEF supplyEvent, addToRow, Int64
<1>7. ASSUME via # NoHub
      PROVE  addToRow(d.due[via], Signed(a.amount))
  <2>1. via \in Hubs /\ LeavesCirculation(h, a, via)
    BY <1>7 DEF LeavesCirculation
  <2>2. d.due[via] \in 0 .. d.redeemed
    BY <2>1 DEF LedgerInv
  <2>. QED BY <1>1, <1>2, <1>3, <2>1, <2>2 DEF addToRow, Int64
<1>. QED BY <1>4, <1>5, <1>6, <1>7 DEF SettleFits

\* A settlement keeps the ledger's invariant.
LEMMA SettlePreserves ==
  ASSUME NEW h \in Hubs, NEW d, LedgerInv(d), NEW a \in Auths,
         NEW bind \in Binds \cup {NoBind}, NEW via \in (Hubs \ {h}) \cup {NoHub}, NEW t \in Nat,
         SettleOutcome(h, d, a, bind, via, t) = "settled"
  PROVE  LedgerInv(SettleTx(h, d, a, bind, via, t))
<1>. DEFINE e == SettleTx(h, d, a, bind, via, t)
            home == IF LeavesCirculation(h, a, via) THEN a.amount ELSE 0
<1>1. a.payer \in Agents /\ a.amount \in 1 .. MaxInt /\ Signed(a.amount) = a.amount /\ MaxInt \in Nat
      /\ GuardKept \in Nat
  BY LedgerAssumption, AmountInRange, SettledMeans DEF AuthType
<1>2. /\ d.balance \in Balances /\ d.issued \in 0 .. MaxInt /\ d.redeemed \in 0 .. d.issued
      /\ d.hubRow = d.redeemed - d.issued /\ Total(d.balance) = d.issued - d.redeemed
  BY RowsBounded DEF LedgerInv, AddsUp
<1>3. d.balance[a.payer] >= Signed(a.amount)
  BY <1>1, <1>2, SettledMeans DEF Balances
<1>4. /\ Moved(d, a) \in Balances
      /\ Total(Moved(d, a)) = Total(d.balance) - home
      /\ LeavesCirculation(h, a, via) => d.redeemed + a.amount <= d.issued
  BY <1>3, SettledMeans, MovedTotal
<1>5. home \in 0 .. MaxInt /\ d.redeemed + home \in 0 .. d.issued
  BY <1>1, <1>2, <1>4
<1>. HIDE DEF home
<1>6. /\ d.settled \in SUBSET SettledRow /\ d.guard \in [Agents \X Binds -> Nat]
      /\ d.due \in [Hubs -> Int64] /\ d.owed \in [Hubs -> Int64] /\ d.registered \in SUBSET Agents
      /\ d.cleared \in SUBSET ClearedRow /\ d.applied \in SUBSET StatementIds
  BY DEF LedgerInv, DB
<1>7. e = [d EXCEPT !.settled = d.settled \cup {[auth |-> a, via |-> via, at |-> t]},
                    !.guard = e.guard, !.balance = Moved(d, a),
                    !.redeemed = d.redeemed + home, !.hubRow = d.hubRow + home, !.due = e.due]
  BY <1>1 DEF SettleTx, home, LedgerInv, DB
<1>8. /\ e.settled = d.settled \cup {[auth |-> a, via |-> via, at |-> t]} /\ e.balance = Moved(d, a)
      /\ e.redeemed = d.redeemed + home /\ e.hubRow = d.hubRow + home /\ e.issued = d.issued
      /\ e.owed = d.owed
  BY <1>1 DEF SettleTx, home, LedgerInv, DB
<1>9. e.guard \in [Agents \X Binds -> Nat]
  <2>1. e.guard = IF bind = NoBind THEN d.guard ELSE [d.guard EXCEPT ![guardKey(a, bind)] = t + GuardKept]
    BY DEF SettleTx, LedgerInv, DB
  <2>2. bind # NoBind => guardKey(a, bind) \in Agents \X Binds
    BY <1>1 DEF guardKey
  <2>3. t + GuardKept \in Nat
    BY <1>1
  <2>. QED BY <1>6, <2>1, <2>2, <2>3
<1>10. e.due = IF via = NoHub THEN d.due ELSE [d.due EXCEPT ![via] = d.due[via] + a.amount]
  <2>1. e.due = IF via = NoHub THEN d.due ELSE Added(d.due, via, Signed(a.amount))
    BY DEF SettleTx, LedgerInv, DB
  <2>. QED BY <1>1, <2>1 DEF Added
<1>11. \A g \in Hubs : e.due[g] \in 0 .. e.redeemed
  <2>1. \A g \in Hubs : d.due[g] \in 0 .. d.redeemed
    BY DEF LedgerInv
  <2>2. via # NoHub => home = a.amount
    BY DEF home, LeavesCirculation
  <2>. QED BY <1>1, <1>2, <1>5, <1>6, <1>8, <1>10, <2>1, <2>2
<1>12. e.due \in [Hubs -> Int64]
  <2>1. e.due \in [Hubs -> Int]
    BY <1>1, <1>6, <1>10 DEF Int64
  <2>. QED BY <1>1, <1>2, <1>5, <1>8, <1>11, <2>1 DEF Int64
<1>13. [auth |-> a, via |-> via, at |-> t] \in SettledRow
  BY DEF SettledRow
<1>14. /\ e.balance \in [Agents -> Int64] /\ e.redeemed \in Int64 /\ e.hubRow \in Int64
  BY <1>1, <1>2, <1>4, <1>5, <1>8 DEF Balances, Int64
<1>15. e \in DB
  BY <1>6, <1>7, <1>9, <1>12, <1>13, <1>14, <1>8 DEF LedgerInv, DB
<1>16. AddsUp(e)
  BY <1>1, <1>2, <1>4, <1>5, <1>8 DEF AddsUp, Balances
<1>17. \A g \in Hubs : e.owed[g] \in 0 .. e.issued
  BY <1>8 DEF LedgerInv
<1>. QED BY <1>2, <1>5, <1>8, <1>11, <1>15, <1>16, <1>17 DEF LedgerInv

\* What creating amt credits on aid's account does to the rows that add up:
\* the common half of a grant and of a peer's receipt.
LEMMA IssuedRows ==
  ASSUME NEW d, LedgerInv(d), NEW aid \in Agents, NEW amt \in 1 .. MaxInt, d.issued <= MaxInt - amt
  PROVE  /\ Added(d.balance, aid, amt) \in Balances
         /\ Total(Added(d.balance, aid, amt)) = Total(d.balance) + amt
         /\ d.issued + amt \in 0 .. MaxInt
         /\ d.hubRow - amt \in -MaxInt .. 0
<1>1. /\ d.balance \in Balances /\ d.issued \in 0 .. MaxInt /\ d.redeemed \in 0 .. d.issued
      /\ Total(d.balance) \in Nat /\ Total(d.balance) = d.issued - d.redeemed
      /\ d.balance[aid] <= d.issued - d.redeemed
      /\ d.hubRow = d.redeemed - d.issued /\ MaxInt \in Nat
  BY RowsBounded, LedgerAssumption DEF LedgerInv, AddsUp
<1>2. d.balance[aid] \in 0 .. MaxInt /\ d.balance[aid] + amt \in 0 .. MaxInt
  BY <1>1 DEF Balances
<1>. DEFINE f == d.balance
            v == d.balance[aid] + amt
<1>3. f \in Balances /\ v \in 0 .. MaxInt /\ Added(d.balance, aid, amt) = [f EXCEPT ![aid] = v]
  BY <1>1, <1>2 DEF Added
<1>. HIDE DEF f, v
<1>4. [f EXCEPT ![aid] = v] \in Balances /\ Total([f EXCEPT ![aid] = v]) = Total(f) - f[aid] + v
  BY <1>3, TotalUpdate
<1>5. f = d.balance /\ v = d.balance[aid] + amt
  BY DEF f, v
<1>. QED BY <1>1, <1>2, <1>3, <1>4, <1>5

\* A grant keeps the ledger's invariant.
LEMMA IssuePreserves ==
  ASSUME NEW d, LedgerInv(d), NEW aid \in Agents, NEW amt \in Int, IssueOK(d, aid, amt)
  PROVE  LedgerInv(IssueTx(d, aid, amt))
<1>. DEFINE e == IssueTx(d, aid, amt)
<1>1. d.issued \in 0 .. MaxInt /\ d.redeemed \in 0 .. d.issued /\ MaxInt \in Nat
  BY RowsBounded, LedgerAssumption
<1>2. amt \in 1 .. MaxInt /\ d.issued <= MaxInt - amt
  BY <1>1 DEF IssueOK, issuanceRoom
<1>3. /\ Added(d.balance, aid, amt) \in Balances
      /\ Total(Added(d.balance, aid, amt)) = Total(d.balance) + amt
      /\ d.issued + amt \in 0 .. MaxInt /\ d.hubRow - amt \in -MaxInt .. 0
  BY <1>2, IssuedRows
<1>4. /\ e.balance = Added(d.balance, aid, amt) /\ e.hubRow = d.hubRow - amt /\ e.issued = d.issued + amt
      /\ e.redeemed = d.redeemed /\ e.due = d.due /\ e.owed = d.owed
  BY DEF IssueTx, LedgerInv, DB
<1>5. e \in DB
  <2>1. /\ Added(d.balance, aid, amt) \in [Agents -> Int64] /\ d.issued + amt \in Int64
        /\ d.hubRow - amt \in Int64
    BY <1>1, <1>3 DEF Balances, Int64
  <2>. QED BY <2>1 DEF IssueTx, LedgerInv, DB
<1>6. AddsUp(e)
  BY <1>1, <1>2, <1>3, <1>4 DEF AddsUp, LedgerInv, Balances
<1>7. \A g \in Hubs : e.due[g] \in 0 .. e.redeemed /\ e.owed[g] \in 0 .. e.issued
  BY <1>1, <1>2, <1>4 DEF LedgerInv
<1>. QED BY <1>1, <1>3, <1>4, <1>5, <1>6, <1>7 DEF LedgerInv

\* Clearing a peer's receipt keeps it, whatever receipt the peer signed.
LEMMA ClearPreserves ==
  ASSUME NEW h \in Hubs, NEW d, LedgerInv(d), NEW rec \in ReceiptType, rec.payTo \in Agents \cup {h},
         NEW peer \in Hubs, NEW t \in Nat, ClearOutcome(h, d, rec, peer, t) = "cleared"
  PROVE  LedgerInv(ClearTx(d, rec, peer))
<1>. DEFINE e   == ClearTx(d, rec, peer)
            amt == rec.amount
<1>1. d.issued \in 0 .. MaxInt /\ d.redeemed \in 0 .. d.issued /\ MaxInt \in Nat
  BY RowsBounded, LedgerAssumption
<1>2. /\ amountInt64(rec.amount) /\ rec.payTo # h /\ issuanceRoom(d, Signed(rec.amount))
  BY DEF ClearOutcome
<1>3. amt \in 1 .. MaxInt /\ Signed(rec.amount) = amt /\ d.issued <= MaxInt - amt /\ rec.payTo \in Agents
  BY <1>1, <1>2, AmountInRange DEF issuanceRoom
<1>4. rec.auth \in Auths /\ rec.settleAt \in Int
  BY DEF ReceiptType
<1>. HIDE DEF amt
<1>5. /\ Added(d.balance, rec.payTo, amt) \in Balances
      /\ Total(Added(d.balance, rec.payTo, amt)) = Total(d.balance) + amt
      /\ d.issued + amt \in 0 .. MaxInt /\ d.hubRow - amt \in -MaxInt .. 0
  BY <1>3, IssuedRows
<1>6. /\ e.balance = Added(d.balance, rec.payTo, amt) /\ e.hubRow = d.hubRow - amt
      /\ e.issued = d.issued + amt /\ e.redeemed = d.redeemed /\ e.due = d.due
      /\ e.owed = Added(d.owed, peer, amt)
  BY <1>3 DEF ClearTx, LedgerInv, DB
<1>7. \A g \in Hubs : e.due[g] \in 0 .. e.redeemed /\ e.owed[g] \in 0 .. e.issued
  <2>1. d.owed \in [Hubs -> Int64] /\ \A g \in Hubs : d.due[g] \in 0 .. d.redeemed /\ d.owed[g] \in 0 .. d.issued
    BY DEF LedgerInv, DB
  <2>. QED BY <1>1, <1>3, <1>6, <2>1 DEF Added
<1>8. e \in DB
  <2>1. /\ Added(d.balance, rec.payTo, amt) \in [Agents -> Int64] /\ d.issued + amt \in Int64
        /\ d.hubRow - amt \in Int64
    BY <1>1, <1>5 DEF Balances, Int64
  <2>2. Added(d.owed, peer, amt) \in [Hubs -> Int64]
    <3>1. \A g \in Hubs : e.owed[g] \in Int64
      BY <1>1, <1>5, <1>6, <1>7 DEF Int64
    <3>2. Added(d.owed, peer, amt) = [g \in Hubs |-> e.owed[g]]
      BY <1>6 DEF Added, LedgerInv, DB
    <3>. QED BY <3>1, <3>2
  <2>3. [auth |-> rec.auth, peer |-> peer, settleAt |-> rec.settleAt] \in ClearedRow
    BY <1>4 DEF ClearedRow
  <2>. QED BY <1>3, <2>1, <2>2, <2>3 DEF ClearTx, LedgerInv, DB
<1>9. AddsUp(e)
  BY <1>1, <1>3, <1>5, <1>6 DEF AddsUp, LedgerInv, Balances
<1>. QED BY <1>1, <1>5, <1>6, <1>7, <1>8, <1>9 DEF LedgerInv

\* Applying a discharge statement keeps it: what is owed only falls, and not
\* below zero.
LEMMA SettleOwedPreserves ==
  ASSUME NEW h \in Hubs, NEW d, LedgerInv(d), NEW peer \in Hubs, NEW id \in StatementIds,
         NEW amt \in Nat, NEW s, s = [id |-> id, payer |-> peer, payTo |-> h, amount |-> amt],
         SettleOwedOutcome(h, d, s, peer) = "applied"
  PROVE  LedgerInv(SettleOwedTx(d, s, peer))
<1>. DEFINE e == SettleOwedTx(d, s, peer)
<1>1. d.issued \in 0 .. MaxInt /\ MaxInt \in Nat
  BY RowsBounded, LedgerAssumption
<1>2. amt \in 1 .. MaxInt /\ Signed(s.amount) = amt /\ ~(amt > d.owed[peer])
  BY AmountInRange DEF SettleOwedOutcome
<1>3. /\ e.owed = Added(d.owed, peer, -amt) /\ e.balance = d.balance /\ e.hubRow = d.hubRow
      /\ e.issued = d.issued /\ e.redeemed = d.redeemed /\ e.due = d.due
  BY <1>2 DEF SettleOwedTx, LedgerInv, DB
<1>4. d.owed \in [Hubs -> Int64] /\ \A g \in Hubs : d.due[g] \in 0 .. d.redeemed /\ d.owed[g] \in 0 .. d.issued
  BY DEF LedgerInv, DB
<1>5. \A g \in Hubs : e.due[g] \in 0 .. e.redeemed /\ e.owed[g] \in 0 .. e.issued
  BY <1>1, <1>2, <1>3, <1>4 DEF Added
<1>6. Added(d.owed, peer, -amt) \in [Hubs -> Int64]
  BY <1>1, <1>2, <1>4 DEF Added, Int64
<1>7. e \in DB
  BY <1>2, <1>6 DEF SettleOwedTx, LedgerInv, DB
<1>. QED BY <1>3, <1>5, <1>7 DEF LedgerInv, AddsUp

\* Discharging a debt keeps it.
LEMMA DischargePreserves ==
  ASSUME NEW d, LedgerInv(d), NEW peer \in Hubs, NEW amt \in Nat, DischargeOK(d, peer, amt)
  PROVE  LedgerInv(DischargeTx(d, peer, amt))
<1>. DEFINE e == DischargeTx(d, peer, amt)
<1>1. d.issued \in 0 .. MaxInt /\ d.redeemed \in 0 .. d.issued /\ MaxInt \in Nat
  BY RowsBounded, LedgerAssumption
<1>2. amt > 0 /\ d.due[peer] >= amt
  BY DEF DischargeOK
<1>3. /\ e.due = Added(d.due, peer, -amt) /\ e.balance = d.balance /\ e.hubRow = d.hubRow
      /\ e.issued = d.issued /\ e.redeemed = d.redeemed /\ e.owed = d.owed
  BY DEF DischargeTx, LedgerInv, DB
<1>4. d.due \in [Hubs -> Int64] /\ \A g \in Hubs : d.due[g] \in 0 .. d.redeemed /\ d.owed[g] \in 0 .. d.issued
  BY DEF LedgerInv, DB
<1>5. \A g \in Hubs : e.due[g] \in 0 .. e.redeemed /\ e.owed[g] \in 0 .. e.issued
  BY <1>1, <1>2, <1>3, <1>4 DEF Added
<1>6. Added(d.due, peer, -amt) \in [Hubs -> Int64]
  BY <1>1, <1>2, <1>4 DEF Added, Int64
<1>7. e \in DB
  BY <1>6 DEF DischargeTx, LedgerInv, DB
<1>. QED BY <1>3, <1>5, <1>7 DEF LedgerInv, AddsUp

\* Registrations and the janitor change no row that holds credit.
LEMMA OtherTxPreserve ==
  ASSUME NEW d, LedgerInv(d), NEW A \in SUBSET Agents, NEW t \in Nat
  PROVE  /\ LedgerInv([d EXCEPT !.registered = A])
         /\ LedgerInv(PruneSettled(d, t))
         /\ LedgerInv(PruneGuard(d, t))
         /\ LedgerInv(PruneCleared(d, t))
<1>1. LedgerInv([d EXCEPT !.registered = A])
  BY DEF LedgerInv, DB, AddsUp
<1>3. LedgerInv(PruneSettled(d, t))
  BY DEF PruneSettled, LedgerInv, DB, AddsUp
<1>4. LedgerInv(PruneGuard(d, t))
  BY DEF PruneGuard, LedgerInv, DB, AddsUp
<1>5. LedgerInv(PruneCleared(d, t))
  BY DEF PruneCleared, LedgerInv, DB, AddsUp
<1>. QED BY <1>1, <1>3, <1>4, <1>5

-----------------------------------------------------------------------------
(* The specification. *)

AllLedgersInv ==
  /\ db \in [Hubs -> DB] /\ now \in [Hubs -> Nat]
  /\ \A h \in Hubs : LedgerInv(db[h])

\* A new hub's empty ledger satisfies the invariant.
LEMMA LedgerInitInv == LedgerInit => AllLedgersInv
<1>. SUFFICES ASSUME LedgerInit PROVE AllLedgersInv
  OBVIOUS
<1>1. MaxInt \in Nat
  BY LedgerAssumption
<1>2. EmptyDB \in DB
  BY <1>1 DEF EmptyDB, DB, Int64
<1>3. EmptyDB.balance \in [Agents -> {0}] /\ EmptyDB.issued = 0 /\ EmptyDB.redeemed = 0 /\ EmptyDB.hubRow = 0
  BY DEF EmptyDB
<1>4. Total(EmptyDB.balance) = 0
  BY <1>3, TotalZero
<1>5. AddsUp(EmptyDB)
  BY <1>3, <1>4 DEF AddsUp
<1>6. \A g \in Hubs : EmptyDB.due[g] = 0 /\ EmptyDB.owed[g] = 0
  BY DEF EmptyDB
<1>7. LedgerInv(EmptyDB)
  BY <1>2, <1>3, <1>5, <1>6 DEF LedgerInv
<1>. QED BY <1>2, <1>7 DEF LedgerInit, AllLedgersInv

\* A step that changes one hub's database to one that satisfies the invariant.
LEMMA OneHubStep ==
  ASSUME AllLedgersInv, NEW h \in Hubs, NEW e, LedgerInv(e),
         db' = [db EXCEPT ![h] = e], UNCHANGED now
  PROVE  AllLedgersInv'
<1>1. e \in DB
  BY DEF LedgerInv
<1>. QED BY <1>1 DEF AllLedgersInv

\* Every transaction of every hub keeps the invariant.
LEMMA LedgerStepInv == AllLedgersInv /\ [LedgerNext]_ledgerVars => AllLedgersInv'
<1>. SUFFICES ASSUME AllLedgersInv, [LedgerNext]_ledgerVars PROVE AllLedgersInv'
  OBVIOUS
<1>. USE DEF AllLedgersInv
<1>1. CASE UNCHANGED ledgerVars
  BY <1>1 DEF ledgerVars
<1>2. ASSUME NEW h \in Hubs, NEW a \in Auths, NEW bind \in {a.bind, NoBind},
             NEW via \in (Hubs \ {h}) \cup {NoHub}, Settle(h, a, bind, via)
      PROVE  AllLedgersInv'
  <2>1. bind \in Binds \cup {NoBind} /\ now[h] \in Nat /\ LedgerInv(db[h])
    BY LedgerAssumption DEF AuthType
  <2>2. LedgerInv(SettleTx(h, db[h], a, bind, via, now[h]))
    BY <1>2, <2>1, SettlePreserves DEF Settle
  <2>. QED BY <1>2, <2>2, OneHubStep DEF Settle
<1>3. ASSUME NEW h \in Hubs, NEW rec \in Receipts, NEW peer \in Hubs \ {h},
             rec.payTo \in Agents \cup {h}, ClearFromPeer(h, rec, peer)
      PROVE  AllLedgersInv'
  <2>1. LedgerInv(ClearTx(db[h], rec, peer))
    BY <1>3, LedgerAssumption, ClearPreserves DEF ClearFromPeer
  <2>. QED BY <1>3, <2>1, OneHubStep DEF ClearFromPeer
<1>4. ASSUME NEW h \in Hubs, NEW peer \in Hubs \ {h}, NEW id \in StatementIds, NEW amt \in ClearAmounts,
             SettleOwed(h, [id |-> id, payer |-> peer, payTo |-> h, amount |-> amt], peer)
      PROVE  AllLedgersInv'
  <2>. DEFINE s == [id |-> id, payer |-> peer, payTo |-> h, amount |-> amt]
  <2>1. amt \in Nat
    BY LedgerAssumption
  <2>2. LedgerInv(SettleOwedTx(db[h], s, peer))
    BY <1>4, <2>1, SettleOwedPreserves DEF SettleOwed
  <2>. QED BY <1>4, <2>2, OneHubStep DEF SettleOwed
<1>5. ASSUME NEW h \in Hubs, NEW peer \in Hubs \ {h}, NEW amt \in ClearAmounts, DischargeDue(h, peer, amt)
      PROVE  AllLedgersInv'
  <2>1. LedgerInv(DischargeTx(db[h], peer, amt))
    BY <1>5, LedgerAssumption, DischargePreserves DEF DischargeDue
  <2>. QED BY <1>5, <2>1, OneHubStep DEF DischargeDue
<1>6. ASSUME NEW h \in Hubs, NEW aid \in Agents, NEW amt \in GrantAmounts, GrantCredit(h, aid, amt)
      PROVE  AllLedgersInv'
  <2>1. LedgerInv(IssueTx(db[h], aid, amt))
    BY <1>6, LedgerAssumption, IssuePreserves DEF GrantCredit
  <2>. QED BY <1>6, <2>1, OneHubStep DEF GrantCredit
<1>7. ASSUME NEW h \in Hubs, NEW aid \in Agents, Register(h, aid) \/ Deregister(h, aid)
      PROVE  AllLedgersInv'
  <2>1. PICK A \in SUBSET Agents : db' = [db EXCEPT ![h] = [db[h] EXCEPT !.registered = A]]
    <3>1. db[h].registered \cup {aid} \in SUBSET Agents /\ db[h].registered \ {aid} \in SUBSET Agents
      BY DEF DB
    <3>. QED BY <1>7, <3>1 DEF Register, Deregister
  <2>2. LedgerInv([db[h] EXCEPT !.registered = A])
    BY OtherTxPreserve
  <2>3. UNCHANGED now
    BY <1>7 DEF Register, Deregister
  <2>. QED BY <2>1, <2>2, <2>3, OneHubStep
<1>8. ASSUME NEW h \in Hubs, PruneLedger(h)
      PROVE  AllLedgersInv'
  <2>1. {} \in SUBSET Agents /\ now[h] \in Nat /\ LedgerInv(db[h])
    OBVIOUS
  <2>2. LedgerInv(PruneSettled(db[h], now[h])) /\ LedgerInv(PruneGuard(db[h], now[h]))
        /\ LedgerInv(PruneCleared(db[h], now[h]))
    BY <2>1, OtherTxPreserve
  <2>. QED BY <1>8, <2>2, OneHubStep DEF PruneLedger
<1>9. ASSUME NEW h \in Hubs, Tick(h)
      PROVE  AllLedgersInv'
  BY <1>9 DEF Tick
<1>. QED BY <1>1, <1>2, <1>3, <1>4, <1>5, <1>6, <1>7, <1>8, <1>9 DEF LedgerNext

\* The invariant holds in every reachable state.
THEOREM LedgerInvariant == LedgerSpec => []AllLedgersInv
BY LedgerInitInv, LedgerStepInv, PTL DEF LedgerSpec

\* No transaction makes a row leave int64.
THEOREM LedgerTypeCorrect == LedgerSpec => []LedgerTypeOK
<1>1. AllLedgersInv => LedgerTypeOK
  BY DEF AllLedgersInv, LedgerTypeOK
<1>. QED BY <1>1, LedgerInvariant, PTL

\* Every hub's ledger always adds up (P-PAY-3), for any number of agents,
\* authorizations and peers, and whatever receipts the peers sign.
THEOREM LedgerConsistent == LedgerSpec => []Consistent
<1>1. AllLedgersInv => Consistent
  BY DEF AllLedgersInv, LedgerInv, Consistent
<1>. QED BY <1>1, LedgerInvariant, PTL

\* What a hub owes and is owed stays within what moved.
THEOREM LedgerDebtsBacked == LedgerSpec => []DebtsBacked
<1>1. AllLedgersInv => DebtsBacked
  BY DEF AllLedgersInv, LedgerInv, DebtsBacked
<1>. QED BY <1>1, LedgerInvariant, PTL

\* No covered payment is ever refused by an overflow guard.
THEOREM LedgerSettlementFits == LedgerSpec => []SettlementAlwaysFits
<1>1. AllLedgersInv => SettlementAlwaysFits
  <2>1. ASSUME AllLedgersInv, NEW h \in Hubs, NEW a \in Auths, NEW via \in (Hubs \ {h}) \cup {NoHub},
               amountInt64(a.amount), db[h].balance[a.payer] >= Signed(a.amount),
               (via = NoHub) <=> IsLocal(h, db[h], a.payTo)
        PROVE  SettleFits(h, db[h], a, via)
    <3>1. LedgerInv(db[h])
      BY <2>1 DEF AllLedgersInv
    <3>. QED BY <2>1, <3>1, SettleFitsLemma
  <2>. QED BY <2>1 DEF SettlementAlwaysFits
<1>. QED BY <1>1, LedgerInvariant, PTL

\* All that is promised of a ledger at once: its types, its sums, what peers owe and are
\* owed, and that no payment a balance covers is too large for its rows.
THEOREM LedgerIsSound == LedgerSpec => []LedgerSound
BY LedgerTypeCorrect, LedgerConsistent, LedgerDebtsBacked, LedgerSettlementFits, PTL DEF LedgerSound
=============================================================================
