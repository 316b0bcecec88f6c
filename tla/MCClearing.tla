----------------------------- MODULE MCClearing -----------------------------
(***************************************************************************)
(* alice banks on h1 and pays bob, who has accounts on h2 and h3.  The     *)
(* runs choose which payments merchants ask for, who registers and leaves, *)
(* how far time goes and how many exchanges fail.  One view looks at h1's  *)
(* ledger alone, called in every order: a payment between agents and one   *)
(* to an agent of a peer, a redemption, an authorization whose amount does *)
(* not fit int64, and receipts of the peer, one of them near the largest   *)
(* amount.  The ledgers of two hubs share nothing at that level.  Time is  *)
(* in days, scaled down.                                                   *)
(***************************************************************************)
EXTENDS Clearing, TLC

CONSTANTS h1, h2, h3, alice, bob, task, s1, s2, k1, k2

VARIABLE focus   \* the view of this behaviour

MCAuth(id, payer, payTo, amount, bind) ==
  [id |-> id, payer |-> payer, payTo |-> payTo, amount |-> amount, network |-> h1,
   bind |-> bind, issuedAt |-> 0, notAfter |-> 1]

two     == MCAuth(1, alice, bob, 2, task)   \* bob banks here, or on a peer
one     == MCAuth(2, alice, bob, 1, NoBind)
redeems == MCAuth(3, alice, h1, 1, NoBind)
huge    == MCAuth(4, bob, alice, MaxUint, NoBind)   \* int64(amount) = -1

BookAuths == {two, one}
PayAuths  == {two, redeems, huge}

MCReceipts ==
  {[auth |-> two, network |-> h2, payTo |-> bob, amount |-> n, settleAt |-> 0] :
     n \in {1, MaxInt - 1, MaxUint}}

MCGrantAmounts == {1, MaxInt}

Pays(entry, a) ==
  [entry |-> entry, auth |-> a,
   offer |-> [network |-> h1, payTo |-> bob, amount |-> a.amount],
   ask |-> [network |-> h1, payTo |-> bob, amount |-> a.amount]]

\* The payee asks both of its hubs for one payment.
PayPayments == {Pays(h2, two), Pays(h3, two)}

\* Two payments and their debt.
BookPayments == {Pays(h2, two), Pays(h2, one)}

\* A payment whose parties come and go.
MovePayments == {Pays(h2, one)}

At(h) ==
  CASE h = h1 -> IssueTx([EmptyDB EXCEPT !.registered = {alice}], alice, 3)
    [] OTHER  -> [EmptyDB EXCEPT !.registered = {bob}]

Between(start, clocks) ==
  /\ db = start
  /\ now = clocks
  /\ fwd = [s \in Slots |-> Idle]
  /\ clr = [k \in Consoles |-> Idle]
  /\ heard = [p \in Payments |-> "open"]
  /\ charged = {}
  /\ credits = [h \in Hubs |-> [a \in Auths |-> 0]]
  /\ signed = {} /\ unbooked = {} /\ lost = 0

Paying == focus = "payments" /\ Between([h \in Hubs |-> At(h)], [h \in Hubs |-> 0])

\* The clocks of the others are far enough for h1's to go all the way.
Alone ==
  /\ focus = "ledger"
  /\ Between([h \in Hubs |-> EmptyDB], [h \in Hubs |-> IF h = h1 THEN 0 ELSE MaxNow])

\* alice comes and goes at h1 only, and nobody is granted more.
PaymentStep ==
  /\ focus = "payments" /\ ClearingNext
  /\ \A h \in Hubs : h # h1 => db'[h].registered = db[h].registered
  /\ \A h \in Hubs : db'[h].issued = db[h].issued \/ db'[h].cleared # db[h].cleared

\* Only h1's ledger and clock move, and h2 is its only peer.
LedgerStep ==
  /\ focus = "ledger" /\ LedgerNext /\ UNCHANGED clearingVars
  /\ \A h \in Hubs : h # h1 => db'[h] = db[h] /\ now'[h] = now[h]
  /\ db'[h1].due[h3] = 0 /\ db'[h1].owed[h3] = 0
  /\ \A r \in db'[h1].settled : r.via # h3
  /\ \A r \in db'[h1].cleared : r.peer # h3

MCSpec     == (Paying \/ Alone) /\ [][(PaymentStep \/ LedgerStep) /\ UNCHANGED focus]_<<vars, focus>>
MovesSpec  == Paying /\ [][ClearingNext /\ UNCHANGED focus]_<<vars, focus>>
MCFairSpec == MovesSpec /\ Fairness

SlotSymmetry == Permutations(Slots) \cup Permutations(Consoles)

NoReceipts == {}
NoGrants == {}
=============================================================================
