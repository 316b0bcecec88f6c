------------------------------- MODULE Payment -------------------------------
(***************************************************************************)
(* What a hub checks of a payment before its ledger sees it                *)
(* (internal/aghub/facilitator.go): the payment against the terms a caller *)
(* holds it to, the authorization against the payer's key history, and the *)
(* payee against the accounts of this hub.  Each operator is "ok" or the   *)
(* reason of the refusal, its checks in the code's order.                  *)
(***************************************************************************)
EXTENDS CreditLedger

CONSTANTS
  MaxAuthWindow             \* payment.MaxAuthWindow

ASSUME PaymentAssumption == MaxAuthWindow \in Nat

\* What a payment offers, and what its requirements ask for.
TermsType == [network: Hubs, payTo: Agents \cup Hubs, amount: 0 .. MaxUint]

\* Payload (offer) and requirements (ask) against the authorization.
CheckRequirements(a, offer, ask) ==
  IF ~amountInt64(ask.amount) THEN "invalid_requirements"
  ELSE IF ~amountInt64(a.amount) THEN "invalid_amount"
  ELSE IF ask.network \notin {offer.network} \cap {a.network} THEN "network_mismatch"
  ELSE IF a.payTo \notin {ask.payTo} \cap {offer.payTo} THEN "payee_mismatch"
  ELSE IF offer.amount # a.amount THEN "invalid_amount"
  ELSE IF a.amount < ask.amount THEN "invalid_amount"
  ELSE "ok"

\* An authorization valid for longer than a hub accepts.
authWindow(a) == a.notAfter > a.issuedAt /\ a.notAfter - a.issuedAt > MaxAuthWindow

parseAuth(a) ==
  IF ~amountInt64(a.amount) THEN "invalid_amount"
  ELSE IF authWindow(a) THEN "auth_window_too_long"
  ELSE "ok"

\* Authorization.Verify's window: issued, and not past NotAfter.
InWindow(a, t) == a.issuedAt <= t /\ t <= a.notAfter

\* verifiedAuth, at hub h with tables d and the payer's key states 0 .. kel:
\* the payment is on this ledger and signed, by key state key, by the payer.
verifiedAuth(h, d, kel, a, key, offer) ==
  IF offer.network # h THEN "network_mismatch"
  ELSE IF parseAuth(a) # "ok" THEN parseAuth(a)
  ELSE IF a.network # h THEN "network_mismatch"
  ELSE IF a.payer \notin d.registered THEN "unknown_payer"
  ELSE IF a.notAfter <= a.issuedAt THEN "expired_payment"
  ELSE IF key > kel THEN "invalid_signature"
  ELSE "ok"

\* payeeIsThisHub and payeeHere: the payee of /x402/settle and /x402/verify is
\* an account of hub h.
LocalPayee(h, d, payTo) ==
  IF payTo = h THEN "payee_mismatch"
  ELSE IF payTo \notin d.registered THEN "payee_not_local"
  ELSE "ok"

\* The payee of /fed/v3/settle is neither an account here, nor this hub, nor
\* the hub that forwards.
ForwardedPayee(h, d, payTo, peer) ==
  IF payTo \in {h, peer} \/ payTo \in d.registered THEN "payee_mismatch" ELSE "ok"
=============================================================================
