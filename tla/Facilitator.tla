----------------------------- MODULE Facilitator -----------------------------
(***************************************************************************)
(* The x402 facilitator of a hub (internal/aghub: facilitator.go,          *)
(* redemption.go): /x402/verify, /x402/settle, /fed/v3/settle and          *)
(* /x402/redeem on the hub's own ledger.                                   *)
(*                                                                         *)
(* A request reads the database several times before the transaction that  *)
(* charges the payer, and every read is a statement of its own: two        *)
(* requests for one authorization, a key rotation, a deregistration, the   *)
(* janitor and the clock can all come between them.  So a request is a     *)
(* record with a phase, and each action is one database access with the    *)
(* checks that follow it.  A crash of the hub loses its requests and keeps *)
(* its database.                                                           *)
(***************************************************************************)
EXTENDS Payment, Sequences

CONSTANTS
  Slots,                    \* bound of the model: requests in flight at once
  Calls,                    \* the requests that callers may make
  MaxInFlight,              \* the longest a request takes
  NotesKept,                \* credit_redemption rows are kept this long
  MaxFirstVerifyPerPayer, MaxFirstVerifyUnfunded,
  MaxKey                    \* bound of the model: how often a payer rotates

\* A request at hub: op with an authorization signed under key state key.  via
\* is the peer that forwarded it (op = "forwarded"), NoHub otherwise.
CallType ==
  [op: {"verify", "settle", "forwarded", "redeem"}, hub: Hubs, via: Hubs \cup {NoHub},
   auth: Auths, key: Nat, offer: TermsType, ask: TermsType]

ASSUME FacilitatorAssumption ==
  /\ Calls \subseteq CallType
  /\ \A c \in Calls : /\ (c.op = "forwarded") <=> (c.via # NoHub)
                      /\ c.via # c.hub
  /\ MaxInFlight \in Nat /\ NotesKept \in Nat /\ MaxKey \in Nat
  /\ MaxFirstVerifyPerPayer \in Nat /\ MaxFirstVerifyUnfunded \in Nat
  \* payment.MaxAuthWindow is a day and a request seconds, a settled row is
  \* kept 7 days past NotAfter, its binding 30 days.
  /\ MaxInFlight < SettledKeptAfter
  /\ SettledKeptAfter + MaxAuthWindow < GuardKept

VARIABLES
  req,     \* req[s]: the request in slot s
  tip,     \* tip[h][aid]: the newest key state of aid that hub h holds
  first,   \* first[h]: x402_first_verify
  notes,   \* notes[h]: credit_redemption
  journal, \* journal[h]: the charges hub h made, oldest first (credit_entry, never pruned)
  fresh,   \* the (authorization, key) pairs presented while the key was not retired
  cut      \* the redemptions whose request a crash cut before the note

ownVars == <<req, tip, first, notes, journal, fresh, cut>>
vars == <<ledgerVars, ownVars>>

-----------------------------------------------------------------------------
(* Requests. *)

Phases == {"payee", "payer", "repeat", "spent", "held", "noted", "window", "funds",
           "settle", "conflict", "note", "done"}

Idle == [phase |-> "idle"]

\* The reasons the wire carries; success and valid are the positive answers,
\* note_failed is Redeem's error after a settlement.
Reasons ==
  {"invalid_requirements", "invalid_amount", "network_mismatch", "payee_mismatch",
   "payee_not_local", "auth_window_too_long", "unknown_payer", "expired_payment",
   "invalid_signature", "duplicate_nonce", "duplicate_binding", "insufficient_funds",
   "settlement_failed", "note_failed", "success", "valid"}

RequestType ==
  [phase: Phases, call: Calls, since: Nat, kel: Nat, outcome: Reasons \cup {"pending"}]

CallOf(s) == req[s].call
At(s, p)  == req[s].phase = p
\* The request's hub.
HubOf(s)  == req[s].call.hub

Goto(s, p)   == req' = [req EXCEPT ![s].phase = p]
Finish(s, o) == req' = [req EXCEPT ![s].phase = "done", ![s].outcome = o]

\* The request has been answered o.
Answered(s, o) == At(s, "done") /\ req[s].outcome = o

-----------------------------------------------------------------------------
(* The checks of a request (Payment), on this hub's tables. *)

PayerCheck(c) ==
  verifiedAuth(c.hub, db[c.hub], tip[c.hub][c.auth.payer], c.auth, c.key, c.offer)

PayeeRefusal(c) ==
  IF c.op = "forwarded" THEN ForwardedPayee(c.hub, db[c.hub], c.ask.payTo, c.via)
  ELSE LocalPayee(c.hub, db[c.hub], c.ask.payTo)

-----------------------------------------------------------------------------
(* The steps of a request. *)

\* A caller's request reaches its hub.
Arrive(s, c) ==
  /\ req[s] = Idle
  /\ req' = [req EXCEPT ![s] = [phase |-> IF c.op = "redeem" THEN "payer" ELSE "payee",
                                call |-> c, since |-> now[c.hub], kel |-> 0, outcome |-> "pending"]]
  /\ fresh' = IF c.key < tip[c.hub][c.auth.payer] THEN fresh ELSE fresh \cup {<<c.auth, c.key>>}
  /\ UNCHANGED <<ledgerVars, tip, first, notes, journal, cut>>

\* payeeIsThisHub, payeeHere, and SettleForPeer's payee checks.
PayeeCheck(s) ==
  /\ At(s, "payee")
  /\ LET r == PayeeRefusal(CallOf(s)) IN
       IF r = "ok" THEN Goto(s, "payer") ELSE Finish(s, r)
  /\ UNCHANGED <<ledgerVars, tip, first, notes, journal, fresh, cut>>

\* The terms the caller holds the payment to: the requirements, or for a
\* redemption the one term that the payee is this hub.
TermsRefusal(c) ==
  IF c.op # "redeem" THEN CheckRequirements(c.auth, c.offer, c.ask)
  ELSE IF c.auth.payTo # c.hub THEN "payee_mismatch" ELSE "ok"

AfterTerms(op) == CASE op = "verify" -> "spent"
                    [] op = "redeem" -> "noted"
                    [] OTHER         -> "repeat"

\* verifiedAuth reads the payer's key history, which the request keeps (kel);
\* the terms are compared after it.
VerifyPayer(s) ==
  /\ At(s, "payer")
  /\ LET c == CallOf(s)
         r == IF PayerCheck(c) # "ok" THEN PayerCheck(c) ELSE TermsRefusal(c)
     IN req' = IF r = "ok"
               THEN [req EXCEPT ![s].phase = AfterTerms(c.op), ![s].kel = tip[c.hub][c.auth.payer]]
               ELSE [req EXCEPT ![s].phase = "done", ![s].outcome = r]
  /\ UNCHANGED <<ledgerVars, tip, first, notes, journal, fresh, cut>>

\* Mutant: a repeat is answered with the receipt whoever asks.
RepeatAnswer_AnyPeer(s) == "success"

\* repeatOf's answer to an authorization this hub has settled.
RepeatAnswer(s) ==
  LET c == CallOf(s) IN
  IF SettledFor(db[c.hub], c.auth, c.via) THEN "success" ELSE "duplicate_nonce"

RepeatOf(s) ==
  /\ At(s, "repeat")
  /\ IF IsSettled(db[HubOf(s)], CallOf(s).auth)
     THEN Finish(s, RepeatAnswer(s)) ELSE Goto(s, "window")
  /\ UNCHANGED <<ledgerVars, tip, first, notes, journal, fresh, cut>>

\* /x402/verify: authSettled.
AuthSettled(s) ==
  /\ At(s, "spent")
  /\ IF IsSettled(db[HubOf(s)], CallOf(s).auth)
     THEN Finish(s, "duplicate_nonce") ELSE Goto(s, "held")
  /\ UNCHANGED <<ledgerVars, tip, first, notes, journal, fresh, cut>>

\* /x402/verify: guardHeld.
GuardCheck(s) ==
  /\ At(s, "held")
  /\ LET a == CallOf(s).auth IN
       IF GuardHeld(db[HubOf(s)], a, a.bind, now[HubOf(s)])
       THEN Finish(s, "duplicate_binding") ELSE Goto(s, "window")
  /\ UNCHANGED <<ledgerVars, tip, first, notes, journal, fresh, cut>>

\* /x402/redeem: a redemption already recorded is answered with its record.
RedemptionOf(s) ==
  /\ At(s, "noted")
  /\ IF \E n \in notes[HubOf(s)] : n.auth = CallOf(s).auth
     THEN Finish(s, "success") ELSE Goto(s, "window")
  /\ UNCHANGED <<ledgerVars, tip, first, notes, journal, fresh, cut>>

AfterWindow(op) == IF op = "verify" THEN "funds" ELSE "settle"

\* The record that speaks for this authorization and this key state.
FirstVerifyRow(h, a)        == \E r \in first[h] : r.auth = a
FirstVerifyOf(h, a, key)    == \E r \in first[h] : r.auth = a /\ r.key = key /\ r.tip
FirstVerifyCount(h, payer)  == Cardinality({r \in first[h] : r.auth.payer = payer})

\* recordFirstVerify writes nothing past a payer's bounds.
FirstVerifyRoom(h, a) ==
  LET n == FirstVerifyCount(h, a.payer) IN
  /\ n < MaxFirstVerifyPerPayer
  /\ db[h].balance[a.payer] >= Signed(a.amount) \/ n < MaxFirstVerifyUnfunded

\* Mutant: the key must be current whatever was recorded.
KeyAccepted_CurrentOnly(s, atTip) == CallOf(s).key = req[s].kel

\* The record finds the key at the tip, or the key is current (currentAuth) by
\* the key history the request read before.
KeyAccepted(s, atTip) == atTip \/ CallOf(s).key = req[s].kel

\* keyAtFirstVerify: the window at now, then the first whole verification is
\* recorded, in a transaction that reads the key history again, and the key is
\* held against the record.
KeyAtFirstVerify(s) ==
  /\ At(s, "window")
  /\ LET c     == CallOf(s)
         h     == c.hub
         a     == c.auth
         found == FirstVerifyRow(h, a)
         atTip == IF found THEN FirstVerifyOf(h, a, c.key) ELSE tip[h][a.payer] = c.key
     IN IF ~InWindow(a, now[h])
        THEN Finish(s, "expired_payment") /\ UNCHANGED first
        ELSE IF ~found /\ a.payer \notin db[h].registered
        THEN Finish(s, "settlement_failed") /\ UNCHANGED first
        ELSE /\ first' = IF found \/ ~FirstVerifyRoom(h, a) THEN first
                         ELSE [first EXCEPT ![h] = @ \cup {[auth |-> a, key |-> c.key, tip |-> atTip]}]
             /\ IF KeyAccepted(s, atTip)
                THEN Goto(s, AfterWindow(c.op)) ELSE Finish(s, "invalid_signature")
  /\ UNCHANGED <<ledgerVars, tip, notes, journal, fresh, cut>>

\* /x402/verify: the payer's balance covers the amount.
BalanceCheck(s) ==
  /\ At(s, "funds")
  /\ LET a == CallOf(s).auth IN
       Finish(s, IF db[HubOf(s)].balance[a.payer] < Signed(a.amount) THEN "insufficient_funds" ELSE "valid")
  /\ UNCHANGED <<ledgerVars, tip, first, notes, journal, fresh, cut>>

\* A redemption settles without its interaction id.
BindOf(c) == IF c.op = "redeem" THEN NoBind ELSE c.auth.bind

\* settleAuth's transaction.  One that loses on the primary key answers what
\* settleConflict finds, in a later read.
SettleAuth(s) ==
  /\ At(s, "settle")
  /\ LET c == CallOf(s)
         o == SettleOutcome(c.hub, db[c.hub], c.auth, BindOf(c), c.via, now[c.hub])
     IN \/ /\ Settle(c.hub, c.auth, BindOf(c), c.via)
           /\ journal' = [journal EXCEPT ![c.hub] =
                Append(@, [auth |-> c.auth, key |-> c.key, bind |-> BindOf(c), via |-> c.via, at |-> now[c.hub]])]
           /\ IF c.op = "redeem" THEN Goto(s, "note") ELSE Finish(s, "success")
        \/ /\ o # "settled"
           /\ IF o = "repeat" THEN Goto(s, "conflict") ELSE Finish(s, o)
           /\ UNCHANGED <<ledgerVars, journal>>
  /\ UNCHANGED <<tip, first, notes, fresh, cut>>

SettleConflict(s) ==
  /\ At(s, "conflict")
  /\ LET c == CallOf(s) IN
       IF ~IsSettled(db[c.hub], c.auth) THEN Finish(s, "settlement_failed")
       ELSE IF RepeatAnswer(s) = "success" /\ c.op = "redeem" THEN Goto(s, "note")
       ELSE Finish(s, RepeatAnswer(s))
  /\ UNCHANGED <<ledgerVars, tip, first, notes, journal, fresh, cut>>

\* Redeem's own insert, after the settlement's commit: auth_id is unique.
RecordRedemption(s) ==
  /\ At(s, "note")
  /\ LET c == CallOf(s) IN
       IF \E n \in notes[c.hub] : n.auth = c.auth
       THEN Finish(s, "note_failed") /\ UNCHANGED notes
       ELSE /\ notes' = [notes EXCEPT ![c.hub] = @ \cup {[auth |-> c.auth, at |-> now[c.hub]]}]
            /\ Finish(s, "success")
  /\ UNCHANGED <<ledgerVars, tip, first, journal, fresh, cut>>

\* The caller has its answer.
Release(s) ==
  /\ At(s, "done")
  /\ req' = [req EXCEPT ![s] = Idle]
  /\ UNCHANGED <<ledgerVars, tip, first, notes, journal, fresh, cut>>

RequestStep(s) ==
  \/ PayeeCheck(s) \/ VerifyPayer(s) \/ RepeatOf(s) \/ AuthSettled(s) \/ GuardCheck(s)
  \/ RedemptionOf(s) \/ KeyAtFirstVerify(s) \/ BalanceCheck(s) \/ SettleAuth(s)
  \/ SettleConflict(s) \/ RecordRedemption(s) \/ Release(s)

-----------------------------------------------------------------------------
(* The rest of the hub. *)

\* The hub takes a rotation of the payer's key.
Rotate(h, aid) ==
  /\ aid \in db[h].registered
  /\ tip[h][aid] < MaxKey
  /\ tip' = [tip EXCEPT ![h][aid] = @ + 1]
  /\ UNCHANGED <<ledgerVars, req, first, notes, journal, fresh, cut>>

\* The hub's process stops and starts again: its requests are gone.
Crash(h) ==
  /\ \E s \in Slots : req[s] # Idle /\ HubOf(s) = h
  /\ req' = [s \in Slots |-> IF req[s] # Idle /\ HubOf(s) = h THEN Idle ELSE req[s]]
  /\ cut' = cut \cup {CallOf(s).auth : s \in {x \in Slots : At(x, "note") /\ HubOf(x) = h}}
  /\ UNCHANGED <<ledgerVars, tip, first, notes, journal, fresh>>

\* Mutant: notes are kept for less than the list shows.
PruneNotes_Early(h) ==
  /\ notes' = [notes EXCEPT ![h] = {n \in @ : n.at >= now[h]}]
  /\ UNCHANGED <<ledgerVars, req, tip, first, journal, fresh, cut>>

\* The janitor's steps for the tables this module adds.
PruneNotes(h) ==
  /\ notes' = [notes EXCEPT ![h] = {n \in @ : n.at >= now[h] - NotesKept}]
  /\ UNCHANGED <<ledgerVars, req, tip, first, journal, fresh, cut>>

PruneFirstVerify(h) ==
  /\ first' = [first EXCEPT ![h] = {r \in @ : r.auth.notAfter + SettledKeptAfter > now[h]}]
  /\ UNCHANGED <<ledgerVars, req, tip, notes, journal, fresh, cut>>

\* No request outlives MaxInFlight.
FacilitatorTick(h) ==
  /\ \A s \in Slots : req[s] # Idle /\ HubOf(s) = h => now[h] - req[s].since < MaxInFlight
  /\ Tick(h)
  /\ UNCHANGED ownVars

\* The ledger's other operations, which no facilitator request is part of.
OtherLedgerStep(h) ==
  /\ \/ \E aid \in Agents, amt \in GrantAmounts : GrantCredit(h, aid, amt)
     \/ \E aid \in Agents : Register(h, aid) \/ Deregister(h, aid)
     \/ PruneLedger(h)
  /\ UNCHANGED ownVars

FacilitatorInit ==
  /\ LedgerInit
  /\ req = [s \in Slots |-> Idle]
  /\ tip = [h \in Hubs |-> [a \in Agents |-> 0]]
  /\ first = [h \in Hubs |-> {}]
  /\ notes = [h \in Hubs |-> {}]
  /\ journal = [h \in Hubs |-> <<>>]
  /\ fresh = {} /\ cut = {}

FacilitatorNext ==
  \/ \E s \in Slots : \/ \E c \in Calls : Arrive(s, c)
                      \/ RequestStep(s)
  \/ \E h \in Hubs : \/ \E aid \in Agents : Rotate(h, aid)
                     \/ Crash(h)
                     \/ PruneNotes(h)
                     \/ PruneFirstVerify(h)
                     \/ FacilitatorTick(h)
                     \/ OtherLedgerStep(h)

FacilitatorSpec == FacilitatorInit /\ [][FacilitatorNext]_vars

-----------------------------------------------------------------------------
(* Properties. *)

FacilitatorTypeOK ==
  /\ req \in [Slots -> RequestType \cup {Idle}]
  /\ tip \in [Hubs -> [Agents -> Nat]]
  /\ \A h \in Hubs :
       /\ first[h] \subseteq [auth: Auths, key: Nat, tip: BOOLEAN]
       /\ notes[h] \subseteq [auth: Auths, at: Nat]
       /\ journal[h] \in Seq([auth: Auths, key: Nat, bind: Binds \cup {NoBind},
                              via: Hubs \cup {NoHub}, at: Nat])
  /\ cut \subseteq Auths

\* No authorization is charged twice, however its requests, the janitor's
\* deletion of its settled row and the clock interleave (settleAuth, PAY-L2).
ChargedOnce ==
  \A h \in Hubs : \A i, j \in DOMAIN journal[h] :
    journal[h][i].auth = journal[h][j].auth => i = j

\* A payer pays for a task once in GuardKept, with different authorizations too,
\* though the row that names the first settlement is deleted long before that
\* (PAY-L3).
OnePaymentPerTask ==
  \A h \in Hubs : \A i, j \in DOMAIN journal[h] :
    LET e == journal[h][i]  f == journal[h][j] IN
    (i < j /\ e.bind # NoBind /\ e.bind = f.bind /\ e.auth.payer = f.auth.payer)
      => f.at >= e.at + GuardKept

\* A success names a charge, made for the same caller, on terms that meet the
\* ones it asked for: the payee it required, on this ledger, at its price or more.
SuccessMeansPaid ==
  \A s \in Slots : Answered(s, "success") =>
    \E i \in DOMAIN journal[HubOf(s)] :
      LET e == journal[HubOf(s)][i]  c == CallOf(s) IN
      /\ e.auth = c.auth /\ e.via = c.via /\ c.auth.network = c.hub
      /\ IF c.op = "redeem" THEN e.auth.payTo = c.hub
         ELSE e.auth.payTo = c.ask.payTo /\ e.auth.amount >= c.ask.amount

\* While its row is due to be kept, a charge is on record: a merchant that
\* retries until then is answered from it, after the window too.
ChargeOnRecord ==
  \A h \in Hubs : \A i \in DOMAIN journal[h] :
    LET e == journal[h][i] IN
    now[h] < e.auth.notAfter + SettledKeptAfter => SettledFor(db[h], e.auth, e.via)

\* The request in slot s is being answered o.
Answering(s, o) == ~At(s, "done") /\ Answered(s, o)'

\* A settlement that is told the task was paid by another authorization, or that
\* the credit is not there, has not been charged: the order of settleAuth's
\* checks keeps a retry of the charged one from being refused so.
RefusedUncharged ==
  [][\A s \in Slots : \A o \in {"duplicate_binding", "insufficient_funds"} :
       Answering(s, o) /\ CallOf(s).op # "verify" => ~IsSettled(db[HubOf(s)], CallOf(s).auth)]_vars

\* What is charged was shown to the hub before its key was rotated away: a
\* retired key cannot sign a payment by backdating IssuedAt (KEL H-40).
NoRetiredKeyPays ==
  \A h \in Hubs : \A i \in DOMAIN journal[h] :
    <<journal[h][i].auth, journal[h][i].key>> \in fresh

\* An authorization recorded at its key's tip is not refused for its key
\* later, whatever the payer rotates between verify and settle (KEL H-42).
RotationKeepsVerified ==
  [][\A s \in Slots : Answering(s, "invalid_signature") =>
       ~FirstVerifyOf(HubOf(s), CallOf(s).auth, CallOf(s).key)]_vars

\* What the comment on keyAtFirstVerify says: an authorization not recorded at
\* its key's tip needs the key to be current now (facilitator.go, KEL H-40).
\* The code compares with the key history the request read before.
UnrecordedKeyIsCurrent ==
  [][\A s \in Slots : At(s, "window") /\ At(s, "settle")' =>
       \/ FirstVerifyOf(HubOf(s), CallOf(s).auth, CallOf(s).key)'
       \/ CallOf(s).key = tip[HubOf(s)][CallOf(s).auth.payer]]_vars

\* Every redemption charged within the window of the redemption list has its
\* note, or a request about to write it, unless a crash cut that request off;
\* and no note exists for credit that was not taken.
RedemptionsNoted ==
  \A h \in Hubs :
    /\ \A i \in DOMAIN journal[h] :
         LET e == journal[h][i] IN
         (e.auth.payTo = h /\ now[h] <= e.at + NotesKept) =>
           \/ \E n \in notes[h] : n.auth = e.auth
           \/ \E s \in Slots : At(s, "note") /\ HubOf(s) = h /\ CallOf(s).auth = e.auth
           \/ e.auth \in cut
    /\ \A n \in notes[h] : \E i \in DOMAIN journal[h] : journal[h][i].auth = n.auth

\* The charges of a hub stand: one for an authorization, one for a task within
\* GuardKept, and each on record for as long as a merchant may ask again.
ChargesStand == ChargedOnce /\ OnePaymentPerTask /\ ChargeOnRecord

\* The requests under way and the notes of redemptions agree with the charges
\* (Redeem's two transactions, with a crash between).
RequestsSound == FacilitatorTypeOK /\ RedemptionsNoted

\* A rotation between verify and settle lets no retired key pay and turns no
\* recorded authorization away (keyAtFirstVerify).
KeysDecide == []NoRetiredKeyPays /\ RotationKeepsVerified
=============================================================================
