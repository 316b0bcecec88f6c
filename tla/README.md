# ANetHub in TLA+

ANetHub is a hub of an agent network: agents register at it, leave each other
mail in it, find each other through it and pay each other on its ledger; hubs
peer with each other, forward mail and payments, and keep what they owe one
another. This directory holds TLA+ models of the hub, the TLC runs that check
them on small instances, and proofs by TLAPS of theorems about them for every
value of the constants. File names without a directory are of
`src/internal/aghub/`.

1. [Inventory](#1-inventory)
2. [The modules and the code](#2-the-modules-and-the-code)
3. [Runs, bounds and fairness](#3-runs-bounds-and-fairness)
4. [Theorems](#4-theorems)
5. [Where code and comments part](#5-where-code-and-comments-part)
6. [What is not modelled](#6-what-is-not-modelled)
7. [Plan](#7-plan)

## 1. Inventory

State is in SQLite (one writer, `_txlock=immediate`: transactions are serial)
unless marked "memory". `ANetCore` is a library outside the repository
(payments, key histories, liability trees); the models take from it what the
hub relies on and mark it external.

| Component | Its state | Its operations | What is hard | What makes it correct |
|---|---|---|---|---|
| **Credit ledger** (`facilitator.go`, `amount.go`, `redemption.go`, `janitor.go`) | `credit_balance`, `supply_totals`, `credit_settled`, `settle_guard`, `credit_cleared`, `hub_due`, `hub_owed`, `hub_cleared` | settle, clear a peer's receipt, apply a discharge, discharge, grant, prune | idempotency rows with different lifetimes; sums near int64 | the rows add up; no charge twice; debts backed by movements |
| **x402 facilitator** (`facilitator.go`, `redemption.go`) | requests (memory), `x402_first_verify`, `credit_redemption` | verify, settle, forwarded settle, redeem | several reads before one write, with rotations, deletions and crashes between | a task is paid once; success means paid on the caller's terms; retired keys pay nothing |
| **Clearing between hubs** (`facilitator.go`, `../federation/settle.go`, `../../cmd/anet-hub/wire_federation.go`, `clear_fed.go`) | the two ledgers, exchanges in transit | forward, repeat, read the answer, `anet-hub clear` | lost and late answers, retries, two consoles | two books of one debt agree; credited once; a charge reaches its payee |
| **Supply epochs, balance proofs** (`supply.go`) | `supply_chain`, `supply_totals`, `liab_meta`, `liab_leaf`, tree cache (memory) | publish, prove, prune | restart at midnight, failing checks, a proof against a deletion | days covered once; published in time; snapshots go after 14 days |
| **Admission, registration** (`admission.go`, `registry.go`, `aghub.go`) | `agent`, `admitted_aid`, sign-up windows, per-day counters (memory) | register, admit, revoke, trial credit, inactive sweep | places counted in memory and in a table; budget and change of day | windows and budgets hold; trial paid once; no account swept that was used |
| **Deregistration, sessions** (`deregister.go`, `session.go`) | `departed_kel`, `dereg_event`, first-contact sessions (memory) | leave, expel, watch what other processes did; open a session | two processes; a session opened while its agent leaves | sessions of the departed are dropped; a returning key history extends the old one |
| **Key histories and key sets** (`kelpush.go`, `keys.go`, `notice.go`, `hubrotation.go`, `hubkels.go`) | `agent.kel`, key sets, notices | push, publish, confirm | concurrent publications, forks | histories only extend; one successor of a key set |
| **Mailbox and relay** (`relay.go`, `dack.go`, `quota.go`, `limits.go`, `fed_relay.go`) | `relay_message`, `relay_redelivery`, `relay_dack`, quota cache (memory) | enqueue, poll, acknowledge, status, expire, forward to a home hub | quotas read before the transaction; paging against deletion; confirmations bounded and expiring | bounded mailboxes; nothing acknowledged is lost or shown as pending; a poller skips nothing for ever |
| **Revocations** (`revoke.go`) | `cap_revocation`, cache (memory) | revoke, look up | a reader that fills the cache with what it read before | a revoked credential never delivers again |
| **Request authentication** (`auth2.go`, `../federation/authpeer.go`, `signer.go`, `peerkel.go`) | accepted times per signer (memory), pinned key histories | accept, sweep, relieve, sign again | eviction, restart, concurrent requests of one signer | one signed request is accepted once; pinned histories do not fork |
| **Restore** (`restore.go`) | the count of key-history changes (a row and the file `kel_hwm`), `restore_state` | count, compare, quarantine, release | crash between commit and file, two processes | after a rollback nothing is stated of a history that may be behind; no quarantine without one |
| **Directory, A2A cards** (`directory.go`, `a2acard*.go`, `fed_a2acard.go`, `fed_home.go`) | cards, cursors, caches | publish, withdraw, stream, resolve | streams with cursors, withdrawals overtaking | a withdrawn card does not come back |
| **Reviews** (`reviews.go`, `tagkey.go`) | `review`, `fed_review` | review, attest, stream | a cursor that stalls or passes | one review for an interaction; none lost |
| **Witnesses** (`witness.go`) | attestations of peers' heads | attest | - | the set only grows |
| **Federation service** (`../federation/federation.go`, `bodybudget.go`, `peerwire.go`) | peer table, byte budget (memory) | synchronise, admit bodies | budget shared by requests | the budget is given back |
| **Server, gateway** (`server.go`, `gateway.go`) | rate limiters (memory) | route, decode, render | - | - |
| **Hub identity** (`../hubid/`) | key files | create, rotate | files | - |
| **Operator console and CLI** (`../admin/`, `../../cmd/`) | sessions, jobs | every operation above, by hand | two consoles at once | as for the operations |
| **Wire codecs** (`../wire3/`) | - | strict decoding, refusals | - | - |

How they meet. HTTP handlers call `Store` methods; every write to credit is one
SQLite transaction. A merchant's `/x402/settle` ends in the local ledger, or,
for a payment on another hub's ledger, in a call to that hub's
`/fed/v3/settle`; the receipt that comes back is cleared into the local ledger.
`anet-hub clear` is a process of its own that calls a peer's `/fed/v3/clear`
and then writes the same database. Every movement that changes what the hub
owes in all is a *supply event*, counted in the same transaction, which is what
makes a supply epoch due. Registration pays a list's grant in the registering
transaction, which is `Register` followed by `GrantCredit` for the ledger.
The janitor and the supply schedule are goroutines that delete and publish
between the requests.

A synchronisation round pulls a peer's stream of cards and then its stream of
reviews; what it takes in depends on key histories twice, an agent's for a card
and the peer's own, pinned, for a review. A changed key history reaches the
sessions, the notices, the directory entry and the card of its agent in the
transaction or by a callback after it.

`PROJECT.json` lists the hazards line by line with the properties that cover
them.

## 2. The modules and the code

```
CreditLedger            one hub's ledger tables and transactions, for every hub
   |
Payment                 the checks a hub makes of a payment before its ledger
   |           \
Facilitator    Clearing          requests at one hub / exchanges between hubs

SupplyEpochs            publication, proofs and deletion (on its own)

Revocations             credentials, key sets, the revocation cache
   |
Mailbox                 sends, the queue, its reader, confirmations, status

Members                 registration, sessions, departures (on its own)

AcceptOnce              the promise: a signed time is taken once
   ^  (INSTANCE, TakenOnce)
Replay                  the rule RC1 of one hub
   |
Requests                the clients that sign, and the wire

Histories               key histories, notices, restore and quarantine (on its own)

Cards                   the stream of cards, publishers and one reader
   |
Reviews                 the stream of reviews and the pinned key histories

CreditLedgerProofs, FacilitatorProofs, ClearingProofs, SupplyEpochsProofs,
MailboxProofs (also of Histories), MembersProofs, RequestsProofs, StreamsProofs theorems
MCFacilitator, MCClearing, MCSupplyEpochs, MCMailbox, MCMembers, MCRequests,
MCHistories, MCCards, MCStreams                                                 instances for TLC
```

**CreditLedger** is the abstract specification. `db[h]` holds the tables of hub
`h`, `now[h]` its clock. Each transaction is a pair of operators: `...Outcome`,
the checks in the order of the code, which ends in success or the reason of the
refusal; and `...Tx`, a function from tables to tables. A step takes `Tx` when
`Outcome` is success; a refused transaction rolls back and is no step. Wire
amounts are uint64 (`0 .. MaxUint`), rows int64; `Signed` is Go's conversion,
`amountInt64` the check in front of it, `addToRow` and `supplyEvent` the
overflow guards, which are conjuncts of `SettleFits`, `ClearFits` and `IssueOK`.
The journal `credit_entry` is not a table here: `Facilitator` and `Clearing`
keep their own history of charges. Any transaction may be called at any time;
the two modules below say who calls them. No run has the ledger alone: the runs
of the facilitator and of clearing take its transactions, and a view of
`clearing_pay` ("ledger") calls them in any order near the largest amounts.

**Payment** has the pure checks: `CheckRequirements`, `parseAuth`,
`verifiedAuth`, `LocalPayee`, `ForwardedPayee`, each `"ok"` or the wire reason.

**Facilitator** takes a request apart. `req[s]` is a request with a phase; each
action is one database access and the checks that follow it:

| action | code | phase |
|---|---|---|
| `Arrive` | the handlers `hX402Verify`, `hX402Settle`, `ServeFedSettle`, `hRedeem` | -> payee, or payer for redeem |
| `PayeeCheck` | `payeeIsThisHub`, `payeeHere`, `SettleForPeer`'s payee checks | payee -> payer |
| `VerifyPayer` | `verifiedAuth` (reads the key history the request keeps), then `CheckRequirements` or `Redeem`'s term | payer -> repeat, spent or noted |
| `RepeatOf` / `AuthSettled`, `GuardCheck` / `RedemptionOf` | the early answers of settle, verify, redeem | -> window |
| `KeyAtFirstVerify` | the window, `recordFirstVerify` (a transaction), `currentAuth` | window -> funds or settle |
| `BalanceCheck` | the last check of verify | funds -> done |
| `SettleAuth` | the ledger transaction | settle -> done, conflict or note |
| `SettleConflict` | what a lost race is answered with | conflict -> done or note |
| `RecordRedemption` | `Redeem`'s insert, after the commit | note -> done |
| `Rotate`, `Crash`, `PruneNotes`, `PruneFirstVerify`, `FacilitatorTick`, `OtherLedgerStep` | key pushes, stops, the janitor, the clock, the rest of the ledger | |

Ghost state: `journal` (what was charged, with which key), `fresh` (which
authorizations were shown before their key was retired), `cut` (redemptions a
crash cut before their note). A request ends within `MaxInFlight`.

**Clearing** has two hubs and the wire. `fwd[s]` is a `/fed/v3/settle` exchange,
`clr[k]` an `anet-hub clear` command; a handler is one step (Facilitator takes
it apart). `BreakExchange` loses a request or an answer, `GiveUp` is the 20 s
timeout after which the request may still be served, `Unconfirmed` a discharge
whose answer never came. `heard[p]` is the final answer a merchant has, "open"
as long as it was told `settlement_pending` or nothing; it asks again until it
has one (A2A-DESIGN 8.3). Ghost state: `charged`, `credits`, `signed`,
`unbooked`.

**SupplyEpochs** has the schedule (`loop`), the two callers of the pruner
(`prune`), proof requests (`proof`), the tree cache and the epochs whose leaves
are stored (`kept`). An epoch is its days, its time and the number of supply
events before it; balances are CreditLedger's, whose `Consistent` is the check
`closeEpochTx` makes before it signs.

**Revocations** has the tables a send's credential is checked against and the
cache in front of one of them. `look[s]` is the check of a send in slot `s`:

| action | code | phase |
|---|---|---|
| `Present` | `hRelaySend` takes its time (`now`) | -> keys |
| `OwnerKeys` | `ownerMboxOf`, the epoch, `capExpOK` | keys -> cache or refused |
| `LookInCache` | `revokedCache.get`, then `generation` | cache -> row, or the verdict |
| `ReadRow` | the query of `CapRevoked` | row -> put |
| `PutInCache` | `revokedCache.put`, if the generation has not moved; the verdict | put -> admitted or refused |
| `RevokeCaps`, `RevocationCached` | the transaction; `revokedCache.add`, still under the store's lock | `work` |
| `PublishKeys`, `ForgetCaps` | the look at the stored set (`ReadKeys`) and the transaction; `forget` after a higher mailbox epoch | `work` |
| `RotateKey`, `Join`, `Leave`, `DeregCallback`, `ClearEvent`, `PurgeRevocations`, `LoseMemory`, `TimePasses` | key histories, registration, `DeregisterTx` in this process or another, its callback, its event, the janitor, a stop, the clock | |

`work` is what the holder of the store's lock still does to the cache after its
commit; other transactions of this process wait for it (`Unlocked`), readers and
another process's `Leave` do not. `served` is who has a signed request between its
authentication and its transaction: `RevokeCaps` and `PublishKeys` ask for that and no
longer for the agent's row, so either may come after a departure. `PublishKeys` reads the
stored set outside its transaction; a departure of another process may delete the set in
between, so for an owner that is gone without one `ReadKeys` takes any set as read, which
is more than the code allows. `banned` is ghost state: the credentials whose
revocation was answered and has not been voided by a new mailbox key or a
departure.

**Mailbox** extends it with the mail. `rows` is `relay_message`, `redelivery`
and `stored` are the two tables beside it, `dackRows` the count of
confirmations kept in memory. A send (`send[s]`) is `StartSend`, the credential
check or `Route`, `LookForDuplicate` (`RelayQueued`), the transaction
`RelayEnqueue` with its checks in order (`EnqueueOutcome`), and `Answer`, which
the sender may not get. `PollPage` is one request of the recipient's daemon,
which goes on from the last id of a page while the hub says there is more and
then starts at the head again (`poll[o]`); the daemon itself is not in `src/`.
`Acknowledge` is `StoreDAcks` with `boundDAcksTx`; a status check is the read
transaction `ReadStatus`, then `CutTime`, the write transaction that shortens a
fetched confirmation. The janitors are `PurgeUndelivered`, `PurgeByExp`,
`PurgeCounts`, `PurgeDAcks`. `MailboxLeaves` is a departure with its rows. Ghost
state: `known` (ids a daemon has been given), `missed`, `log` (what was queued
when), `told` (rids senders know), `promised` (until when a confirmation can be
learned).

A send that reaches the hub from a peer (`ServeForward`) is the same steps, with
an answer that can be lost. Both ends of a send are at the recipient's home hub:
what the entry hub remembers of refusals elsewhere is not modelled.

**Members** has the two ways a request reaches the `agent` table and everything
that removes a row from it. `call[s]` is a request with a phase:

| action | code | phase |
|---|---|---|
| `StartRegister` | `Server.admissionGate`: registered, listed, a window, the open door | -> reserve or check |
| `ReserveSignup`, `ReserveWindow` | a place in the gate's memory | reserve -> check |
| `CheckRequest` | the key history and the rest of the document | check -> write or release |
| `WriteRegistration`, `WriteRefused` | `putAgent` with `writeAdmissionTx`, `payListGrantTx` | write -> commit, release |
| `CommitPlace`, `ReleasePlace` | the place becomes a row, or is given back (today's only) | -> idle |
| `LookAtTrial`, `ReserveTrial`, `PayTrial`, `TrialNotPaid` | `maybeGrantTrial` in its steps | |
| `AuthSession`, `OpenSession`, `LookAgain` | `hRelaySession`: signature, opening, second look | |
| `PushKEL`, `KelHook`, `Leave`, `Revoke`, `AfterHooks`, `AfterClear`, `ReadEvents`, `DrainHooks`, `DrainClear` | key pushes and their callback; a departure in this process (`afterDereg`) or another (`drainDeregEvents`), hooks and deletion of the event apart | |
| `Admit`, `SetAdmissionMode`, `OpenWindow`, `CloseWindow`, `SweepScan`, `SweepOne` | the operator, the inactive sweep account by account | |
| `Poll`, `Earn`, `Review`, `Hour`, `NextDay`, `Restart` | what makes an account used; the clock; a stop | |

A request carries the day it arrived on (`on`), read before the gate is locked, as the
code passes it a `now`; `Rolled` is `rollDay`, which starts new counters for any other day
than the gate's, also an earlier one, under a day key of its own (`key`), by which a place is
given back. Ghost state: `today` (what was committed since the gate took its day, and in
`rewound` whether a request of an earlier day has taken it back), `left` (departures so
far) and `lost` (AIDs whose last event `afterDereg` deleted before any callback heard of it);
a key history is its length, since forks are refused before they get here.

**AcceptOnce** is three lines of promise: a time a signer signs is taken at most
once in a life of the hub process, and none from before that life. **Replay** is
`auth2.go`: a floor, a ring `recent` and `maxSeen` per signer, in shards. `Judge`
is `accept` with the sweep it may begin; `SweepNext`, `ValveSweeps`, `Relieve` and `ValveCloses`
are the background steps (the valve first sweeps every part, due or not: `unswept`); `ReplayRestart` begins with the floor just below the clock, which
goes forward and back as it likes. **Requests** adds the clients: `Send` and
`SignAgain` (`Signer.Do`), `SendAgain` (`doRetryingReplayed`), `NewProcess` (an
operator's command, which signs as the hub with a clock of its own), and the
server side in its two forms, `JudgeCall` for agents and `PeerHeaders` then
`JudgeCall` for peers, whose headers are looked at before the body is read.
`Lose` and `Redeliver` are the network. The library's `MonoClock` is external.

**Histories** is one database as a record, so that a *copy* of it can be kept and
put back. A history is the sequence of an agent's rotations ("here" when this
hub witnessed it, "away", or "dip", which ends it). `Register`, `SignedRequest`, `ReadKEL` and `PublishKeySet` (the code's `PublishKeys`),
`Push`, `LeaveHub`, `NoticeFor`, `Revoke` are the transactions, each with everything it seals again
(`Refreshed`) and what it releases from a quarantine; `SyncRead` and `SyncWrite`
are the two accesses to `kel_hwm` after the commit; `OpenRead`, `OpenCount`,
`Begin`, `OpenFile`, `Serve` are a process that opens the hub; `Restore` is `anet-hub
restore`; `TakeCopy`, `RollBack` and `Damage` are what befalls files.
Ghost state: `held` (agents nothing may be stated about), `back`, `replaced`.

**Cards** has the publishing hubs and one reader. `Register`, `AdmitCard`, `Recheck`,
`Delist`, `WithdrawCard`, `PublishKeys`, `Deregister` are transactions of a hub;
`SetVisibility`, `VisTake`, `VisPut`, `VisClear` the statements of one that is
not. `Fetch` is a page of `A2ACardsSince`, which changes may overtake while
`AdmitWithdrawal`, `Learn`, `PassOver` and `Stall` take it entry by entry;
`Finish` is the cursor's move; `ReaderStops` loses the page. `Move` is an agent
that registers at, or leaves, the reading hub. Ghost state: `taught` (every card
taken), `cut` (agents whose `SetVisibility` was interrupted) and `crossed` (agents whose
published card the reader dropped for an older withdrawal and has not come to again).
`CursorCovers` makes two exceptions for what the code does: while `SetVisibility` is
between its statements a peer serves the withdrawal of a card and the card, so that a
reader that takes both lists a card withdrawn before its cursor; and a round from the beginning that
takes that withdrawal and stops before the card has dropped a published card its cursor
has passed, until it comes to the card again.

**Reviews** extends it: `UploadThere` at a peer; `UploadHere` and `StoreReview`
with the look before and in the transaction; `SyncPin`, `RefreshPin` (at most
once a minute: `Minute`) and `Pinned`, which is `pinPeerKEL`; `FetchReviews`,
`AdmitReview`, `StallReviews`, `FinishReviews`; `RotateHub` gives a peer another
key. Whether a row is served follows the subject's consent, which is its
visibility or, for an agent of another hub, its card there (`CardElsewhere`).

## 3. Runs, bounds and fairness

All runs are exhaustive; the state counts are of distinct states. A property
that is a conjunction names its parts here.

| run | states | question, properties |
|---|---|---|
| `facilitator_pay` | 588 thousand | is anything charged twice, a task paid twice, a charge forgotten, by concurrent requests with crashes, janitor and clock (`ChargesStand` = `ChargedOnce`, `OnePaymentPerTask`, `ChargeOnRecord`; `RequestsSound` = types and `RedemptionsNoted`; `RefusedUncharged`) |
| `facilitator_answers` | 445 thousand | does success mean a charge on the caller's own terms (`SuccessMeansPaid`); what do rotations between verify and settle do (`KeysDecide` = `NoRetiredKeyPays`, `RotationKeepsVerified`) |
| `clearing_pay` | 256 thousand | one payment asked for at two hubs over a failing wire (`CreditsSound` = types, `CreditedOnce`, `SuccessMeansCredited`; `ChargedNotRefused`); do all ledgers add up (`LedgerSound` = types, `Consistent`, `DebtsBacked`, `SettlementAlwaysFits`) |
| `clearing_books` | 67 thousand | do the two books of a debt agree (`BooksAgree` = `DebtsAgree`, `AcceptedIsBooked`), does every charge reach its payee (`ChargeReachesPayee`) |
| `supply_publish` | 141 thousand | coverage and schedule (`SupplySound` = types, `ChainContiguous`, `EpochsAddUp`, `CheckedDaily`), proofs (`ProofAnsweredInTime`), publication and deletion (`SupplyMovesOn` = `DueIsPublished`, `LeavesDropped`) |
| `mailbox` | 394 thousand | is mail missed or queued too often, a sender told something untrue, a revoked credential admitted (`MailSound` = types, `RedeliveriesBounded`, `ConfirmationsBounded`); does mail wait for one that has left otherwise than with a key set (`MailNeedsKeys`) |
| `members` | 349 thousand | do places and gifts hold (`MembersSound` = types, `PlacesAccounted`; `GiftsPaidOnce`), is a day's quota kept as long as no request straddles midnight (`DayQuotaKept`), who comes in and with which history (`EntersByTheRules` = `NoEntryUngated`, `HistoryOnlyGrows`), do sessions end (`SessionsOwned`, `SessionsEnd`), is an account in use swept (`SweepSparesUsed`) |
| `requests` | 649 thousand | is a signed request taken twice (`TakenOnce`, a refinement), is a signer refused for what others sent (`RefusedForOwn`), does a second signature get through (`SignedAgainIsTaken`) |
| `histories` | 3.05 million | what is stated after a rollback (`HeldSaysNothing`), is a quarantine begun without one (`NoQuarantineUndue`), does what is served match what is held (`HistoriesSound` = types, `ServesWhatItHolds`) |
| `cards` | 616 thousand | is every end of a listing said (`WithdrawalStands`), what the cursor means (`CardsSound` = types, `CursorCovers`), does the directory go back (`DirectoryMovesOn`) |
| `streams` | 42 thousand | one review of an interaction (`OnceHere`), nothing lost or stuck (`ReviewCursorCovers`, `PinReaches`, `ReviewsArrive`), and the directory settles (`DirectorySettles`) |
| `streams_standing` | - | section 5 |

**Views.** A module composed of several protocols is not checked whole: its MC
module has a variable `focus`, chosen in the initial state and never changed,
and each value is a *view*, a constraint on steps that leaves out some
operations or fixes their arguments. A view is a set of behaviours of the
module, so a violation in it is one of the module; what no view has together is
not checked together. In each case the views share the transactions in which
the parts meet. Their text is in the MC modules (`Focused`).

*Facilitator and Clearing.* `MaxInt = 4` keeps both ends of int64 within reach:
one grant can issue all there is room for, and receipts of `MaxInt - 1` and
`MaxUint` reach every guard. Times are days scaled down with their order kept:
authorization window (1) < settled row (2) < binding (4), and receipt age (2) <
cleared row (3); the constants' assumptions state the order the proofs rest on.
`MaxNow` lets every row be deleted and, in `facilitator_pay`, a second payment
for the task be made after the binding has gone (days 4 and 5). Two requests in
flight (`Slots`) are enough for every race, since all races are between a
request's reads and one other transaction; crashes are not counted. `MaxLost`
bounds failed exchanges at two: one loses the answer and one the retry. Hubs:
one ledger hub and one or two others. `facilitator_answers` has the views
"terms" (payments held to different terms, directly and through peers; one refused for its
window or its size is alone) and
"keys" (one rotation, and two first-verification rows, so that both bounds of
`recordFirstVerify` are hit); `clearing_pay` the views "payments" and "ledger".
`SupplyEpochs` counts an epoch due by two events or two days and keeps a proof
two days. Symmetry is used only for slots and only in runs without liveness.

*Mailbox* has one mailbox in three views: credentials (two sends under one
credential; the second may come while the first is between its reading of the
row and its put, which is the only place where two checks meet), mailbox (two
first contacts, up to three rows, the daemon, the janitors), and sender (one
envelope sent again and again, status checks, stops). A clock of three units
with windows and lifetimes of one or two lets each of them end, and start anew,
within a behaviour; a page of one makes a second row a second page; one
confirmation kept makes the second one an eviction. The bounds do not reach
`mailbox_full` nor the refusal of many rows under one stranger's credential;
those two checks are as in the code and decide no property.

*Members* has two agents, two requests and two days or three in five views: signups and
windows (two newcomers compete for the last place, one of a network with two levels of
quota, and one may bring the day before to the gate), trials (two accounts ask for their
credit around midnight), sessions (one member leaves, is deregistered by another process,
changes its key, comes back, in any order), leaving (one member admitted with a grant, left
unused and swept, one departure's callbacks at a time). The history variable `taken` of `MCMembers` counts what each day gave out.

*Requests* has a window of one, rings of one and two, a clock of four instants and two lives of the
hub. View "agents": a daemon with its own requests while another agent of its
shard signs what it likes, which is what sweeps and the valve need; "peer": a
hub and its operator's command sign as one. The daemon's clock only goes up, as
a daemon that keeps running has it; the operator's starts over.

*Histories* has one agent with histories of at most two events, a wait of one
and three changes to count. Views: rollback (copies, restores and the wait),
entries (rotations of the hub, key sets, the directory), processes (two
processes at the database and the file). The write of the file does not fail in
the first and the last; a process stops before it instead.

*Cards* has views hub (one hub, two requests that overlap, a key rotation),
peers (an agent at two hubs), stream (two agents and a page of one or two,
arrivals at the reader) and turns (one visibility that changes back and forth, which
needs four positions). The page's room is any number up to `MaxPage`, which
stands for the limits of entries and of bytes. *streams* takes the cards of two
agents, the reviews of one hub that rotates, and one interaction at two hubs and
here; two positions and two key states let each cursor be overtaken once.

Deadlock is checked where the clock's last value is the only reason to stop and
another step is always possible; the other configurations say `CHECK_DEADLOCK
FALSE` because a system whose counters are at their bounds, or whose merchants
all have their answer, has nothing left to do.

**Fairness.** *Clearing*: merchants ask again until they have a final answer,
which is what the protocol asks of them; strong, because `Slots` is the model's
bound and a slot may be taken again and again. Requests that arrive are served
and answers read (weak). Nothing is assumed of the wire beyond `MaxLost`, nor of
the operator's console. *SupplyEpochs*: the process is started again after a
stop and its goroutines run (weak); a check and a deletion that can be made
again and again succeed in the end (strong), which is what "the database is busy
for a while" means. *Mailbox*: a daemon goes on polling while it is registered
(weak), which is what the daemon is for; nothing is assumed of senders, janitors
or acknowledgements. *Members*: callbacks once begun and the
watcher of `dereg_event` run, and a session request goes on (weak); nothing else
does; `SessionsEnd` asks nothing of a session whose event was deleted unheard (`lost`,
section 5). *streams*: a request and a visibility change run to their end; the reader
pulls both streams again and again, in some rounds from the beginning, and takes
a page entry by entry; of the reads of a peer's identity some answer with its
whole history (strong: any of them may fail). These are the loops of
`wire_federation.go` (`SyncOnce`) and `RunPeerKELSync`. They are stated in `MCStreams` because a
view that leaves an action out must not be asked to take it; the reader stops
between two entries at most once there, since one that stops every time would
never be done. No clock is fair: no property waits for time to pass.

What liveness needs is stated in the runs. `ChargeReachesPayee` holds in
`clearing_books`, where nobody moves, the federation layer refuses nothing, and
retries come before the charge's row is deleted; each of the three makes it
false in the code as well (section 5). `DirectorySettles` leaves out the cards
behind one of an agent registered at the reader too, at which the stream stalls.

## 4. Theorems

Proved by TLAPS for every value of the constants under the named assumptions
(`LedgerAssumption`, `PaymentAssumption`, `FacilitatorAssumption`,
`ClearingAssumption`, `SupplyAssumption`, `RevocationAssumption`, `MailboxAssumption`,
`MembersAssumption`, `ReplayAssumption`, `RequestsAssumption`, `CardsAssumption`,
`ReviewsAssumption`, `HistoriesAssumption`, `NoneAssumption`),
which TLC evaluates in every run.

**Ledger** (`CreditLedgerProofs`). `Total` counts coins, a set's cardinality, so
that sums need no recursion; `TotalAdded` is the lemma that a movement changes
the total by its amount. The inductive invariant `LedgerInv` is the conjunction
of the types, `AddsUp` (no negative balance, balances = issued - redeemed = the
negative of the hub's row), `0 <= due <= redeemed` and `0 <= owed <= issued`;
`issued <= MaxInt` bounds every sum, which is why no guard of `settleAuth` can
refuse a covered payment. The four parts follow, and with them `LedgerIsSound`.

**Facilitator** (`FacilitatorProofs`). `FacilitatorImplementsLedger`: every
behaviour of the concurrent facilitator is one of the ledger, because each
request step is a ledger transaction or leaves the ledger alone; so
`FacilitatorLedgerSound` follows from the ledger's theorem. `ChargedOnce` and
`OnePaymentPerTask` are not inductive: the rows that prevent a second charge
are deleted. `ChargesInv` adds `ChargeOnRecord` (a charge is on record until
its row is due to go), `GuardsHeld` (a binding lasts `GuardKept` from its
charge) and `RequestsInTime` (a request past the window check has an
authorization that was valid when it arrived and is younger than
`MaxInFlight`). With `MaxInFlight < SettledKeptAfter` the row of an
authorization that can still be in flight is there, so the primary key refuses
the second charge; with `SettledKeptAfter + MaxAuthWindow < GuardKept` a
binding outlives what could repeat it. `FacilitatorChargesStand` puts the three
together.

What the facilitator *answers* has an invariant of its own, `AnswersInv`. Its core is
`Sound`: at each phase a request's call has been shown to the checks before it, so
its terms are met from "repeat" on, its key was shown in time from the payer's check
on, and a request at its note, or told success, has its charge in the journal. Around it:
every settled row and every note is of a charge (`RowsCharged`), every first-verification
record that says "at the tip" is of a key shown then (`RecordsSound`), and a charge
without a note has a request about to write it, or was cut (`NotedSoon`, which needs
that a row is there as long as a redemption could be asked for again, from
`ChargesInv`). With both invariants each answer is read off its phase:
`FacilitatorSuccessMeansPaid`, `FacilitatorRequestsSound`, and, as properties of steps,
`FacilitatorRefusedUncharged` and `FacilitatorKeysDecide`.

**Clearing** (`ClearingProofs`). `CreditsSound` needs three facts
that hold together. An authorization is charged once: `Spent` says its row is
there, or it is past by as long as the row is kept, and a charge is made while it
is in its window. So all receipts for it that can still come, on their way or made
again from the row, carry one date (`Stamped`). So a hub that credited it either
has the row of the clearing, or that date is too old for another
(`NoMoreCredit`): this is where `PeerReceiptMaxAge < ClearedKeptAfter` of
`ClearingAssumption` is needed. `ClearingChargedNotRefused` follows from `Spent`
and from what the entry hub checked before it forwarded (`Forwardable`).
`BooksAgree`: `Worth` counts coins, so each step moves one charge or one statement
in or out of what is between the books and one row by its amount; that it is one
rests on the payments and, for statements, on `StatementsInv` (the id of a
statement that is still asked for is in no hub's table). `AcceptedIsBooked` is then
arithmetic: what the debtor owes covers every statement it has not booked.
`ClearingLedgerSound` is proved directly: each step of either hub is one ledger
transaction with arguments the ledger's lemmas allow.

**Supply** (`SupplyEpochsProofs`). `ChainInv`: the chain is contiguous and ends
at `last`, and the events since the last epoch are the ones not in it
(`TotalsMatch`), so each epoch tells of enough events or enough days.
`ScheduleInv` adds that a schedule that waits has handled its day, or has
marked it to be checked again; `CheckedDaily` follows for any number of
restarts, pruners and proof requests. `SupplyIsSound` is the run's property, with
the types (`SupplyTypeCorrect`). `SupplyProofAnsweredInTime` rests on `LeavesInv`: no
two epochs end on one day, so the time an epoch was published is fixed once it is on the
chain; leaves that are missing, or that a pruner has listed, are of epochs past their
time, and a request keeps the day and the clock it began with.

**Mailbox** (`MailboxProofs`). `RevokedStaysOut` is about a verdict and the tables
have moved on by then, so `CredInv` carries what a check may still rely on.
`BannedStands`: as long as a banned credential could pass `OwnerKeys` and be
decided, its revocation is in the table and `RevokeCaps` is done with the cache;
this is where `RevocationAssumption` is needed (a revocation is kept longer than
a credential lives, with the grace and the time of a check).
`CacheCurrent`: of such a credential the cache has nothing or a revocation.
`ReadsCurrent`: a reader that read the row before the revocation has seen the
generation move and may not put. `StillBanned`: a check that nothing overtook
will find its credential revoked. `OneCheck`, `KeepsChecks`, `GenerationInv` and
`VoidInv` say once what the four kinds of step do to these; each action is then
one of them. `MailWaitsWithKeys`: `kidAcceptable` reads the recipient's key set in the
transaction that writes the row, and a departure deletes the set with the rows, so though
`Route` asked about the registration long before, a row's recipient is registered or has a
set that a publication stored over its departure. That the second does happen is in section 5.

`PollerIsGivenAll` is about pages with anything between them. `PassesGood` says of a
pass that whatever waits at or behind its cursor was read in it or has expired; it is
kept because ids only grow (`RowsGood`: every row has another one, none above
`lastId`), so nothing comes to lie behind a cursor. `RedeliveriesStayBounded`
relates the count of an envelope, which starts over with its window, to the log of its
queueings: in any span of a window's length two windows meet, of which each allows
`MaxRedeliveries`; `CountGood` says how many of the log's entries the current count
stands for, and that before it less than that many lie within a window's length of any
time. `StatusIsTruthful` needs of a check between its two transactions that the row it did
not see cannot come back, since nobody holds the number of a row that is
still to come (`RIDsGiven`), and that a promised confirmation is stored
until it is due to go (`DAcksGood`). `MailboxSound` is the run's property.

**Members** (`MembersProofs`). `PlacesAccounted` equates counters with numbers of
requests, so `GateInv` adds what a request holds at each phase and by which way it came
in (`HoldsInv`), that a place held under the gate's day key was taken on its day, and
that an agent's requests about to look again are no more than its openings
(`LooksInv`, which keeps `opens` from going below zero). Each step then moves one
request in or out of one set of holders and a counter by one (`HoldersMove`,
`InWindowMove`); another day, later or earlier, takes a day key that no request holds a place
under yet, which empties the sets (`RolledCounts`). Only the hub's budget of trials, which
the code compares by the day and not by the key, may fall behind once the gate was taken
back: there `PlacesAccounted` says at most, and equality before that. `MembersAreSound` needs finitely many requests, and
`MembersGiftsPaidOnce` that a trial is worth more than the one unit `Earn` adds
(`TrialCredits > 1`; it is 20, `admission.go:68`): a gift is told from other income
by its size. `MembersEnterByTheRules` and `MembersSweepSparesUsed` are read off the step
that adds or removes the row, given what the request holds.

`MembersSessionsOwned` is about sessions, whose owners leave, come back and change keys while
callbacks and the watcher catch up. Two facts make it inductive. `NewInv`: a session not yet
answered is of one request that will look again, for the key it was opened under, so it is
answered only while its owner still signs. `ClearedInv`: once the callbacks of a departure have
run, every session left is owned or owed a drop for another reason than the departure's row,
so the row can go, as long as it carries the stamp the callbacks were for (`SameEvent`), since
a departure gets a stamp above all earlier ones (`StampInv`). The watcher compares the stamp;
`afterDereg` deletes the row whichever it is. The row of a later departure that it deletes
is known to another call or to the watcher, which then still owes the drop, or to nobody
(`Unheard`): that AID is in `lost` until some callback drops its sessions. The theorem is
of `MembersSpec`, with any order of departures, and says that this is the only way a session
outlives its owner; section 5 shows that it happens.

**Requests** (`RequestsProofs`). The replay rule refines the promise:
`ReplaySpec => TakenOnce`, where `TakenOnce` is `AcceptOnce`'s specification with
the ghost `uses` for its counter and `start` for its beginning. What a `Take`
needs is that a time already taken is refused, and the state that could say so
is evicted from rings, swept out and relieved by the valve. `IInv` therefore
carries `Covered`: every time taken is at or below the floor of its signer (its
own, or the part's if it is not held) or in its ring; and that floors never fall
within a life and begin just below `start`. Each way the state shrinks raises a
floor to what it forgets. `RequestsAreTakenOnce` carries it to the clients and
the wire: their steps are steps of the hub's rule or leave it alone
(`ClientsStepRC1`).

`RefusedForOwn` fails to be inductive at the sweep, which drops signers and keeps one
floor for all of them. `OwnInv` says what saves it: a floor held for signers that were
dropped lies outside the window of the latest clock (or before the life of the process),
and a floor of a held signer is due to a time of its own or lies there as well (`DueTo`);
that the window only moves forward is what `latest` is for. It holds of the rule alone
(`ReplayRefusesForOwn`) and with the clients (`RequestsRefuseForOwn`).
`AgentsAreTakenAgain` is about the other side: an agent whose request was refused for its
time signs above the floor it was told, and that second request is not refused
for its time unless the hub restarted or set its clock back. `AgentInv` says that what an
agent has in flight is above every time ever taken from it, and that a request signed
again is not from before the hub's process began; then the floor it meets is none of its
own. This is not so of every behaviour of `RequestsSpec`: the theorem is of `DaemonSpec`,
in which an agent's clock is not reset, and assumes `OneProcess`, one client for each
agent's key. That is an agent's daemon that keeps running, which is who
`Signer.Do` is written for, and the run checks the property of the same.

**Streams** (`StreamsProofs`). `ReviewedOnceHere` holds for any interleaving
because the look is in the inserting transaction; the look before the attestation
plays no part. `PinsReach`: `PinInv` types the page and the rows it names, and a pin
only ever grows towards its peer's own history, so no later answer takes it below
a review already admitted under it. `ReviewCursorHolds`: the cursor alone says nothing
while a page is being admitted; `PageCovers` says of each row the reader was sent
that it is reviewed, before the cursor, or still in the page, and no step deletes a
review (`ReviewsStay`) or a peer's row (`RowsStay`). `DirectoryOutranks`: `MovesInv`
says that the directory holds nothing of an agent it was taught nothing of, and
otherwise a row whose card its own history vouches for and which outranks every
card taught; then a card with a lower seq passes `Mark` only under a later key.
It rests on the publishers' rows being well formed (`PublisherKept`) and
on the entry admitted next being one of the page (`FirstIsEntry`).

`WithdrawalsStand` and `CursorDeals` share one invariant, `CardsInv`, since each is true
only because of what a page under way still holds. `HubInv`: the keys and positions of a
hub's rows, which it took itself, and what a visibility change has done so far.
`PlaceInv`: the cursor and the end of a page are positions of the peer, and a position
taken for a visibility change and not yet written is above everything served and
*ahead* of the reader. This is what could go wrong, and does when another process overtakes
the change: `cut` names those agents. `ReaderInv` says of every other agent: a card
listed, or on the page, and published no more has its withdrawal or the change that will
write it (`StandsIn`); a withdrawal behind the cursor was applied, and one behind the
page's end is on the page if the reader lists the card (`WithdrawnIn`); a card behind
the cursor is dealt with, and one behind the page's end dealt with or on the page
(`DealtIn`); and a card on the page that has not moved is the peer's (`SameIn`). The step
of a hub is seen from the reader as an `Effect`: whatever it does to an agent's card and
withdrawal, it does at positions ahead of the cursor and of the page (`Ahead`), so one
lemma takes all the transactions of a hub through the four parts
(`HubStepKeepsReader`), and what is left are the reader's own steps, entry by entry.
A first attempt at this proof failed on `CursorCovers` as it then stood, for what happens
around `SetVisibility` (section 2); with a third position TLC finds it too, in the view
"turns".

**Histories** (the second half of `MailboxProofs`, which only shares the file: the two
specifications have no variable in common). Each transaction of the hub is shown to write
the row of one agent (`Written`), operator by operator in the order the code calls them,
and to leave that row sound (`GoodAt`): a notice is about the tip held, and the directory
entry is what the tables make it, or was dropped by a quarantine the hub has not begun to
wait out. `RowStep` says this of a step, so that each part of the invariant meets the seven
transactions as one case. `ServesWhatItHolds` is `TableInv` seen while the hub is up; it
needs the same of the copy, which may be put back at any time.

`HeldSaysNothing` alone is not inductive: when an older copy is in place nothing in the
database says so. `HeldInv` has two phases. `Pending`: the file still tells
(`Found`), and no process that has begun to open the database has looked away from what
it read (`Alarmed`). `StayHeld`: every agent held is in the quarantine without a notice,
or the wait is over and it is not registered (`HeldAt`); this is why the quarantine
may end, when no registered agent is in it, while agents that left are still held.
That the hub's own idea of the wait (`WaitOver`) is never ahead of the agents'
(`WaitedOut`) rests on `Since`: a wait that runs, in the database or in memory, began once
the hub served again. The step from the one phase to the other is `Begin` or `Restore`.

`NoQuarantineUndue` rests on `CountInv`: counts only fall where an older copy is
put in place, so what the file, or a process that read it, holds above the database's count
is one count, and there is none unless a copy was put in place and no process has taken
the count up since. It holds although the file itself can be lowered (section 5).

Only model-checked: liveness under fairness (`MailGetsRead`, `SessionsEnd`, `ChargeReachesPayee`,
`SupplyMovesOn`, `DirectorySettles`, `ReviewsArrive`) stays with TLC: it is out of
the prover's reach. Every safety and action property of a passing run is a theorem, of
the specification named above for it (`DaemonSpec` for one of them), but for
`DayQuotaKept`, whose count by days is the run's.

## 5. Where code and comments part

One run checks what a comment says and finds a behaviour that does not do it;
`PROJECT.json` quotes the lines.

* `streams_standing`: "every so often" a round re-reads a peer's directory from
  the beginning, to recover what the cursor passed, and "reputation rides the
  same tick"; but only the cards are re-read. A review whose subject consents
  after the cursor has passed its row never reaches that reader
  (`StandingFollows`).

The same is true of these, each with a configuration that reproduces it: run
`tlc -config <cfg> <module>` and TLC reports the property violated.

| configuration, module | property | what happens |
|---|---|---|
| `FacilitatorStaleKey.cfg`, `MCFacilitator` | `UnrecordedKeyIsCurrent` | An authorization not recorded at its key's tip "needs the key to be current now" (`facilitator.go:470`); the code compares with the history it read before the first-verification transaction, so a rotation between the two is recorded as "not at the tip" and settles all the same. The charge is still one the payer signed with a key current when the request arrived (`KeysDecide` holds). |
| `ClearingMoves.cfg`, `MCClearing` | `RepeatGetsReceipt` | The ledger hub is said to answer a settled authorization with its receipt whenever asked (`facilitator.go:1268`); a payer who left, or a payee who registered there, turns the retry into a refusal, and the payee's credit does not come. |
| `SupplySnapshots.cfg`, `MCSupplyEpochs` | `SnapshotsDropped` | No snapshot is said to outlive its 14 days by more than a tick (`supply.go:428`); a proof request that read the leaves before the deletion puts their tree into the cache after the drop, where it stays until the cache starts over or the hub stops. |
| `MailboxEpoch.cfg`, `MCMailbox` | `RevokedNeverAdmitted` | A higher mailbox epoch is said to make the owner's revocations "of no use any more", because a send compares the epoch first (`keys.go:304`); the comparison and the look at the revocations are two reads, and a send between them finds the old key and no revocation. Only a send under way at that moment gets in (`RevokedStaysOut` holds). |
| `MailboxLeftKeys.cfg`, `MCMailbox` | `MailOnlyForMembers` | Mail waits for agents registered here (`relay.go:362` asks for the recipient's key set, which a departure deletes). A publication is authenticated before its transaction (`keys.go:429`), and that does not look at the agent's row (`keys.go:224-321`): one that overlaps the departure stores a key set for an AID that has left, and mail that asked for the recipient before it left is then queued for nobody. `MailNeedsKeys` says that there is no other way. |
| `MembersMidnight.cfg`, `MCMembers` | `EveryDayQuotaKept` | Open registration is "within a daily quota per network" (`admission.go:14-16`). A request takes its time before it locks the gate, and `rollDay` (`admission.go:844-857`) starts new counters for any other day, also an earlier one: one that arrived before midnight and is late at the gate takes it back, the next request of the new day starts its counters again, and that day gives out more than its quota. `DayQuotaKept` says that a day's quota holds as long as that has not happened, `MembersSound` what the counters then still count. |
| `MembersOverlap.cfg`, `MCMembers` | `SessionsAlwaysOwned` | `afterDereg` deletes the departure's row of `dereg_event` whatever its time (`deregister.go:303`), where the watcher compares it (`AND at=?`). An agent that left here, came back and was deregistered by another process before the deletion loses that departure's callbacks: its session stays, against `deregister.go:44-46`. `SessionsOwned` says that there is no other way. |
| `RequestsStale.cfg`, `MCRequests` | `StaleSignedAgain` | A peer's request at or below the floor is refused before its body is read as plain unauthorized, without naming the floor (`authpeer.go:193`), so the signer does not sign again, against `settle.go:134-138` and `signer.go:26-29`. Two processes of a hub that sign as one meet this. |
| `HistoriesKeys.cfg`, `MCHistories` | `KeysOfCurrentKey` | `hKeysPost` reads the key history before `PublishKeys` takes the lock (`keys.go:448`, `keys.go:236`); a rotation between the two leaves a key set signed by the retired key, which the rotation had deleted (`aghub.go:842-848`). |
| `HistoriesFile.cfg`, `MCHistories` | `FileNeverLowered` | Two processes read `kel_hwm` and then write their counts; the slower one lowers it (`restore.go:506`). The next synchronisation repairs it, and `NoQuarantineUndue` holds for all that, as a theorem. |
| `CardsNarrowing.cfg`, `MCCards` | `NarrowingIsSaid` | `SetVisibility` writes the visibility and the withdrawal in statements of their own (`fedstream.go:69-97`); a stop between them leaves the card listed at the peers with no withdrawal to read, against "the move is half of the change" above it. |

Smaller observations made while modelling, not checked by a run:

* a concurrent repeat whose window closed is answered `expired_payment` though
  the authorization was charged by the other request;
* a concurrent `Redeem`, or a crash between settlement and note, says the note
  "could not be recorded", or leaves none, until the caller asks again;
* a retry after the payee left the entry hub, or after the peer refused for
  another reason, is told that nothing was charged, which is true of that
  request only;
* "no retry makes it clearable" (`errReceiptOutOfWindow`) is not true of a receipt dated
  ahead of the entry hub's clock;
* a proof request that straddles the deletion of its leaves is answered as
  damaged ("keeps 0 of its N leaves") and not as unavailable;
* `RelayStatus` shortens a fetched confirmation in a transaction after the one
  that read it, though its comment says "in the same transaction"
  (`dack.go:258-259`); a confirmation stored anew in between is shortened too;
* a request that arrives after its entry hub gave up may charge a payer whose
  merchant was meanwhile given another final answer;
* a grant is "paid at most once per AID" (`admission.go:267`) in one listing: an
  agent revoked and admitted again with a grant is paid again, as a trial credit
  is after a departure and a new registration;
* `AdmitA2ACard` verifies a card with the key history it read before the lock; the
  recheck of the other request settles it;
* an agent registered at the reader and listed by a peer holds up every later
  entry of that peer's stream, also those of other agents, until it leaves;
* a card made visible again drops out of a reader's directory when a round from the
  beginning reads its old withdrawal just before `SetVisibility` deletes it and stops
  there; the next such round brings it back (`crossed`);
* a quarantine begun by a subcommand beside a running hub ends only with the
  hub's restart, whose memory has not heard of it;
* a publisher restored from a copy older than a card leaves that card listed at
  its peers, and gives out rowids of reviews again that its readers have passed.

## 6. What is not modelled

Within the modelled parts: signatures and encodings (a receipt or a statement
is what its signer wrote), the rate limits of the endpoints, listings
(`credit_entry`, redemptions, supply), the Merkle tree of a proof and the text
of refusals. One proof reader runs, so that `liabBuildMu` is there and is
never contended. Hubs are honest: a receipt in `Clearing` is the one its ledger
hub signed; `CreditLedger` lets a peer sign receipts of any amount and date.

In Mailbox: the rate-limit buckets and what a refused send gives back, sizes in
bytes (a mailbox is counted in messages, a page in envelopes), what an entry hub
remembers of a peer's refusals, and a status check
passed on to a peer. `QuotaFor`'s copy of an agent's quota may be older than the
table: the share is any value of `Shares` at each enqueue. A handle is its
envelope's own, as its sender derives it. `RevokeCaps` takes its time when it
commits; in the code it is read before the lock. The stored key set published again is
no step; published in other bytes it would be the same value.

In Requests: the least time between two runs of the valve (`nextValve`); it runs whenever the
state is above its bound.

In Members: the proof of work, the checks of the registration document (one free
choice), names and capabilities, `AdmitFile`'s reading of its file.

In Histories: the card in a directory entry (it is Cards'), event times
(R-9, R-10), the history the hub serves about itself (`hubkels.go`). A hub's start
is not interleaved with a `Restore`, which holds the lock, and the operator's
process is not open across one.

In Cards and Reviews: agents' key histories do not fork; a review's tags, its rating and the
reputation computed from it (`tagkey.go`, `reviews.go`); reviews dated ahead
(R-9); the refusals for a provider's key history; the search index; a publisher
restored from a copy. The first answer of a fetch is taken as the peer's own,
as trust on first use has it.

Not modelled: the home-hub resolution with its caches (`fed_home.go`), which asks
other hubs and keeps nothing the modelled parts read; the body budget
(`bodybudget.go`), a counter of bytes held; witnesses, a set that only grows. Left out for
good: the HTTP server, the gateway, the operator console and the codecs, which
have no protocol of their own, and hub identity, which is files and cryptography.

## 7. Plan

The ledger came first because everything else can be repaired and credit
cannot; then mail, membership, requests, histories and the streams. What is
left, in this order:

1. **Home hubs**: the resolution of an agent's home with its positive and
   negative caches, once the directory's entries carry cards.

The abstract specifications are kept small enough to prove about: functions and
folds, no recursion, one action per operation, invariants as conjunctions of
named parts.
