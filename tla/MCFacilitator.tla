--------------------------- MODULE MCFacilitator ---------------------------
(***************************************************************************)
(* Hub h1 with two requests in flight, for peers h2 and h3.  The runs      *)
(* choose which requests callers make: payments of one task with two       *)
(* authorizations, a forwarded payment and its repeat through another      *)
(* peer, verify and settle around key rotations, redemptions and crashes.  *)
(* Time is in days, scaled down.                                           *)
(***************************************************************************)
EXTENDS Facilitator, TLC

CONSTANTS h1, h2, h3, alice, bob, carol, task, s1, s2

VARIABLE focus   \* the view of this behaviour

MCAuth(id, payTo, amount, bind, from, until) ==
  [id |-> id, payer |-> alice, payTo |-> payTo, amount |-> amount, network |-> h1,
   bind |-> bind, issuedAt |-> from, notAfter |-> until]

first1  == MCAuth(1, bob, 2, task, 0, 1)      \* pays bob for the task
second1 == MCAuth(2, bob, 1, task, 0, 1)      \* pays bob for it again
later   == MCAuth(3, bob, 1, task, 4, 5)      \* and again, later
abroad  == MCAuth(4, carol, 1, NoBind, 0, 1)  \* carol banks on a peer
redeems == MCAuth(5, h1, 1, task, 0, 1)
tooLong == MCAuth(6, bob, 1, NoBind, 0, 3)
huge    == MCAuth(7, bob, MaxUint, NoBind, 0, 1)

MCAuths == {first1, second1, later, abroad, redeems, tooLong, huge}

TermsOf(a) == [network |-> h1, payTo |-> a.payTo, amount |-> a.amount]

Call(op, via, a, key, ask) ==
  [op |-> op, hub |-> h1, via |-> via, auth |-> a, key |-> key, offer |-> TermsOf(a), ask |-> ask]

Plain(op, a) == Call(op, NoHub, a, 0, TermsOf(a))

TermsCalls ==
  { Plain("settle", first1), Plain("settle", tooLong), Plain("settle", huge),
    Call("settle", NoHub, first1, 0, [TermsOf(first1) EXCEPT !.amount = 3]),
    Call("forwarded", h2, abroad, 0, TermsOf(abroad)),
    Call("forwarded", h3, abroad, 0, TermsOf(abroad)) }

KeyCalls ==
  {Call(op, NoHub, first1, k, TermsOf(first1)) : op \in {"verify", "settle"}, k \in 0 .. 1}

\* Two payments for one task, the same again later, and a redemption.
LedgerAuths == {first1, later, redeems}

LedgerCalls ==
  {Plain("settle", first1), Plain("settle", later), Plain("redeem", redeems)}

\* A hub in use: alice and bob are registered and alice was granted credit.
Granted == IssueTx([EmptyDB EXCEPT !.registered = {alice, bob}], alice, 3)

InUse ==
  /\ db = [h \in Hubs |-> IF h = h1 THEN Granted ELSE EmptyDB]
  /\ now = [h \in Hubs |-> 0]
  /\ req = [s \in Slots |-> Idle]
  /\ tip = [h \in Hubs |-> [a \in Agents |-> 0]]
  /\ first = [h \in Hubs |-> {}]
  /\ notes = [h \in Hubs |-> {}]
  /\ journal = [h \in Hubs |-> <<>>]
  /\ fresh = {} /\ cut = {}

\* Only h1's hub moves, and only alice, who pays, rotates her key and is granted
\* credit.
OnlyH1 ==
  /\ \A h \in Hubs \ {h1} : db'[h] = db[h] /\ now'[h] = now[h]
  /\ tip'[h1][bob] = 0 /\ tip'[h1][carol] = 0
  /\ \A a \in {bob, carol} : db'[h1].balance[a] = db[h1].balance[a] \/ journal' # journal

\* Nobody registers or leaves.
SameAgents == db'[h1].registered = db[h1].registered

\* carol, the payee that banks on a peer, may register at h1 as well and leave.
CarolMoves == {alice, bob} \subseteq db'[h1].registered

Makes(calls) == \A s \in Slots : req'[s] # Idle => req'[s].call \in calls

NoGrant == \A a \in Agents : db'[h1].balance[a] = db[h1].balance[a] \/ journal' # journal

\* The refused payments are made by themselves: they write nothing another could read.
RefusedAlone ==
  \A s \in Slots : req'[s] # Idle /\ req'[s].call.auth \in {tooLong, huge} =>
    \A t \in Slots \ {s} : req'[t] = Idle

\* What a run looks at: payments of one task, the terms a caller asks for and the
\* payee's place, or the payer's key.  What a view leaves out does not happen in it.
Views == {"terms", "keys"}

Viewed ==
  CASE focus = "pay"   -> Makes(LedgerCalls) /\ SameAgents
    [] focus = "terms" -> Makes(TermsCalls) /\ RefusedAlone /\ CarolMoves /\ NoGrant
                            /\ tip' = tip /\ now'[h1] <= 1
    [] focus = "keys"  -> Makes(KeyCalls) /\ SameAgents

MCNext == FacilitatorNext /\ OnlyH1 /\ Viewed /\ UNCHANGED focus

PayInit   == InUse /\ focus = "pay"
ViewsInit == InUse /\ focus \in Views

MCSpec    == PayInit /\ [][MCNext]_<<vars, focus>>
ViewsSpec == ViewsInit /\ [][MCNext]_<<vars, focus>>

SlotSymmetry == Permutations(Slots)

AnswerCalls == TermsCalls \cup KeyCalls

NoReceipts == {}
NoGrants == {}
OneGrant == {1}
=============================================================================
