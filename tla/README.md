# Verification of the Guira back office

TLA+ modules, TLC configurations and TLAPS proofs for the NestJS back office in
this repository. It moves clients' money between bolivianos, dollars and
stablecoins through Bridge (an external payments API), keeps a ledger and
balances in Postgres (Supabase), and learns what happened to each transfer from
Bridge's webhooks.

No handler of the program runs in a database transaction. A request is a
sequence of single statements and calls to Bridge, two requests interleave at
every `await`, and the process may die in between. That is what the modules are
about.

## 1. Inventory

| Part | State | Operations | What is hard |
|---|---|---|---|
| Off-ramp orders (`payment-orders.service.ts`, `staff-review-gate.ts`, `cancellation-policy.ts`) | `payment_orders` (status, `bridge_execution_context`, `bridge_transfer_id`), `bridge_transfers`, `ledger_entries` | create, approve or reject the review, Bridge leg, markSent, completeOrder, failOrder, cancel by client and by staff | compare-and-set in some paths and read-then-write in others; reserve, order and transfer written by separate calls; lost answers; crashes |
| Bridge transfer webhooks (`webhooks.service.ts`) | the same tables | complete and payment_processed, failed and returned, refunded | events repeated, reordered, concurrent with staff; partial filters on the status |
| Balances and ledger (`balances`, trigger `update_balance_on_ledger_entry`, `settle_and_release_reserved`, `LedgerService`) | `amount`, `available_amount`, `reserved_amount` | write of an entry, reserve, release, manual adjustment | the three numbers must agree with the orders; CHECK constraints roll statements back |
| Webhook inbox (`sinkEvent`, `processWebhooks`, `processOne`) | `webhook_events` (status, `retry_count`, `processing_started_at`) | store, rescue, claim, handle, retry, give up | ticks of the cron overlap; crash in the middle; refused updates |
| On-ramp and deposit orders (seven flows) | `payment_orders`, `bridge_transfers`, `ledger_entries`, `audit_logs` | create, review, Bridge leg, confirmDeposit, approveOrder, expire, cancel, fail, credit on completion | expiry against deposit, double credit of the safety net, events that meet an order in any state |
| Letting an order in (`validateRateLimit`, `checkAmountLimits`, overrides, `order-review.service.ts`, `IdempotencyInterceptor`, the `assertNoConflicting…` checks and the unique indexes) | `order_review_requests`, `customer_limit_overrides`, `customer_flow_overrides`, `idempotency_keys`, slot columns of `payment_orders` | create, request a review, approve it, roll back, link, expire, override, replay a key | rows counted before an INSERT; a request approved before its order exists; a check in the code that must match an index |
| Payouts (`bridge.service.ts`) | `payout_requests`, `bridge_transfers`, balance | create, execute, approve, reject | no compare-and-set; release when an answer is lost |
| Virtual accounts, liquidation addresses, drains | rows that mirror Bridge, their fees, deposits, settled credits | create, change, revert, close; the webhooks of deposits and drains | two sides written one after the other; repeated events; a drain names no order |
| Onboarding, customer webhooks, compliance reviews | `kyc_applications`, `compliance_reviews`, `profiles.onboarding_status` | create, submit, approve, resend, reject, request changes, webhook | three tables and Bridge, no compare-and-set, several writers |
| The dossier of a client (`onboarding.service.ts`, `onboarding-draft.service.ts`, `bridge-customer.service.ts`) | `documents` and objects of Storage, `business_directors`, `business_ubos`, drafts, sessions of the telephone, persons at Bridge | upload, replace, discard, save a person, send, purge, sync with Bridge | two stores; rows the form saves again and again; sync that stops half way |
| Didit verification and screening | verdicts in JSON columns | run the checks, reuse, screen and rescreen wallets, block | long runs over data that change; columns written whole |
| Suppliers and external accounts | `suppliers`, `bridge_external_accounts`, `bridge_liquidation_addresses` | create with compensation, update, block, remove | undoing after a partial failure |
| Account members | `account_members` | invite, reopen, accept, revoke, change, expire | seats counted before an INSERT; old links |
| Attempts (`rate-limit.guard.ts`, `invitation-throttle.service.ts`) | `auth_rate_limits` | count an attempt, block | read, compare, write; edges of the window |
| Bank accounts of clients | `client_bank_accounts` | create, ask for a change, approve, reject | no compare-and-set |
| Fees, rates, PSAV accounts, profiles, notifications, e-mail, PDF, gateways | configuration and output | | arithmetic or pure I/O |

`PROJECT.json` lists every part with its status, and under `hazards` each place
where the code is hard to test, by line.

Correctness, part by part:

- *Off-ramp orders*: one transfer and one debit per order whatever staff,
  client, webhooks and failures do; the reserve is what the open orders hold; a
  refund answers a debit once; a transfer that was paid ends in a settled debit.
- *Balances*: never below zero, and equal to the settled ledger.
- *Webhook inbox*: every stored event is handled at least once or given up after
  the agreed attempts, and none is left half way. (Not every acknowledged one is
  stored: an INSERT that fails is answered 200, `webhooks.service.ts:193-199`.)
- *Deposit orders*: a wallet is credited once, and only with what Bridge
  delivered; a confirmed deposit is never expired; the order follows its
  transfer: a delivery is noticed, and a closed order has none left.
- *Letting orders in*: one order alive per request of review and per key,
  whatever was inserted and failed before it; the checks before a creation cover
  the indexes after it.
- *Payouts*: a large payout waits for staff; the reserve is that of the payouts
  neither given back nor charged; a rejected payout was never sent; a delivered
  one is completed.
- *Arrivals*: a deposit is credited once and only when delivered; a drain pays
  one order; accounts at Bridge and their rows agree.
- *Onboarding*: only Bridge's verdict approves; nobody waits for Bridge without
  a customer there; the three tables agree when nothing is in flight; staff were
  told what Bridge said last.
- *Dossier*: what was sent is kept; a person has one row, with his document, and
  is once at Bridge; nobody loses a document he uploaded.
- *Didit and beneficiaries*: what is approved was checked, on the data that were
  read; no order pays an address that was not screened; a block is carried out;
  a registration that fails leaves nothing behind.
- *Members, attempts, bank accounts*: an open access was offered and not revoked
  since; a window admits no more than its limit; money is withdrawn only to data
  that were reviewed.

## 2. Modules

| Module | Models |
|---|---|
| `BalanceLedger` | the row of `balances` of a user and a currency: the trigger, the CHECKs, the two RPCs |
| `OffRampOrders` | the off-ramp orders of one user with their handlers and webhooks; EXTENDS `BalanceLedger` |
| `OrderCharge` | the abstract specification: what the back office promises about the charge of an order |
| `OffRampMoney` | properties of `OffRampOrders` that sum over orders |
| `WebhookQueue` | the inbox of events and the overlapping ticks of the cron |
| `DepositOrders` | the orders of the seven flows that begin with a deposit |
| `Payouts`, `PayoutMoney` | payouts and manual adjustments over `BalanceLedger`; the properties that sum over payouts |
| `Onboarding` | one client's applications, their reviews, his profile and his customer in Bridge |
| `OrderAdmission`, `OrderSlots`, `Idempotency` | what stands between a client and a new order: limits, flows, requests of review; the slot each order takes; the key of a creation |
| `VirtualAccounts`, `Drains`, `BridgeAccounts` | deposits without an order; drains and the orders they pay; the accounts themselves, with their fees |
| `SupplierAccounts`, `Beneficiaries` | registering a beneficiary with its compensation; the wallet of one, screened and screened again |
| `Dossier`, `AssociatedPersons`, `MobileUploads` | a company's people and documents; those people at Bridge; uploads by telephone beside the desktop |
| `Verification`, `BridgeIssues` | the runs of Didit's checks; what Bridge still wants and what staff were told of it |
| `AccountMembers`, `RateLimits`, `BankAccounts` | the team of a client; the counters of attempts; the bank account for withdrawals |
| `*_proofs` | theorems and proofs |
| `MC*` | instances for TLC; `MCExact`, `MCServices` and `MCClients` put parts side by side and leave their constants to the configuration, so that proofs hold for any |

In every module an action is one statement of the database, or one call of
Bridge, Storage or Didit, with the reads that nothing can separate from it; a
`task` is a request, webhook or tick in flight, with what it has read.

### OffRampOrders

`status`, `ctx`, `link` are the columns `status`, `bridge_execution_context IS
NOT NULL` and `bridge_transfer_id IS NOT NULL` of an order. `row` is the status
of its `bridge_transfers` row, `debit` that of its debit in `ledger_entries`,
`credits` how many settled credits refund it, `bal` the balance, `bridge` the
transfer as Bridge knows it, `inbox` how many deliveries of each event are left.
`task` are the requests and webhooks in flight: where each is and what it read
before. `released` only counts releases.

An action is one statement or one call that other requests can observe, with
the reads that nothing can separate from it:

| Code | Actions |
|---|---|
| `createBridgeWalletTo…` | `CreateCheck` (balance and conflicting order read), `CreateReserve`, `CreateInsert` or `CreateConflict`, `CreateUnreserve` |
| `executeBridgeWalletTo…Leg` | `LegPost`, `LegRejected`, `LegTimeout`, `LegLink`, `LegRecord`, `LegDebit` |
| `handleBridgeLegFailure` | `LegReturn` (approval) or `LegRelease`, `LegMark` (creation without review) |
| `approveOrderReviewStep`, `rejectOrderReviewStep` | `Approve`, `Reject` (each is its compare-and-set), then the leg or `GiveBack` |
| `cancelOrder`, `cancelOrderByStaff` | `ClientCancel`, `StaffCancel`, then `GiveBack`, `Void`, `ReleaseDebit`, `Refund` |
| `failOrder` | `FailRead`, `FailWrite`, then the same |
| `markSent`, `completeOrder` | `MarkSentRead`, `MarkSentWrite`, `CompleteRead`, `CompleteWrite` |
| `handleTransferComplete` | `CompleteStart`, `CompleteLookup`, `CompleteMark`, `SettleOrder`, `SettleTransfer`, `SettleThrows` |
| `handleTransferFailed` | `FailedStart` … `FailedDebitOrder` |
| `handleTransferRefunded` | `RefundedStart`, `RefundedRead`, `RefundedCredit`, `RefundedMark` |
| Bridge | `BridgeCompletes`, `BridgeFails`, `BridgeRefunds`, `BridgeReturns` |
| death of the process | `Crash` |

A read before a compare-and-set on the same value decides nothing and is not an
action. Abstractions: the three kinds of flow (`fiat_bo`, `peru`, `direct`) keep
every difference in control between the four flows; amounts are small integers;
one user and one currency, since rows of `balances` are independent;
`SameCurrency` are the orders whose destination currency is the reserved one,
which is what the generic release of `handleTransferFailed` depends on. The
bodies of `reserve_balance` and `release_reserved_balance` are not in the
repository: `BalanceLedger` says what the callers' comments say of them, and a
release of more than is reserved has both outcomes the CHECK allows.

### OrderCharge

The charge of an order goes from none to pending after its transfer left, then
to settled if the transfer was paid, or to failed or reversed; a closed charge
stays closed. `OffRampOrders` implements it under `charge <- debit` and
`transfer <- TransferSeen`: the property `ChargesKept`.

### WebhookQueue

`status`, `retry`, `stamp` are the columns of an event (`stamp` is
`processing_started_at`: none, fresh, or older than two minutes); `tick` are the
ticks of the cron, each with the batch it claimed, the event at hand and the
`retry_count` of each event when it was claimed; `handled`, `thrown` and
`snatched` (the events a rescue put back although a tick had them or had
finished them) are history. `TickStart` reads the stuck events, `Rescue` puts
them back, `Claim` is the RPC (external, SKIP LOCKED) and `ClaimFails` its
error, `ProcessOne`, `Dispatch`, `DispatchThrows`, `MarkProcessed` and `Retry`
are `processOne`. No UPDATE or SELECT of a tick looks at its error, so each of
these has a disjunct in which it changes nothing (`QueryFails`) and the tick goes
on. Crashes, slow ticks and failing queries upset the queue, `Upsets` times in
all at most. `ClaimStamps` says whether the
RPC, whose text is not in the repository, sets `processing_started_at`; the runs
assume it does. The 50 of a batch is `Batch` and the 5 attempts are
`MaxRetries`.

### DepositOrders

`flow` is the column `flow_type`; the seven flows keep every difference in
control: which have a Bridge leg at creation, which need an address of it, which
wait for a proof of deposit, which credit a wallet. `deadline` abstracts
`deposit_expires_at` to none, running or due, `closer` is `cancelled_by_role`,
`flagged` whether the reconciliation alarm was written to `audit_logs`, `freed`
the releases of a reserve that `handleTransferFailed` ran (these flows reserve
nothing), `credit` the entry of the leg and `extra` what the safety net of the
webhook inserted.

| Code | Actions |
|---|---|
| the creations and their leg | `Create`, `Insert`, `LegPost`, `LegPostFails`, `LegNoAddress`, `LegRecord`, `LegLink`, `LegCredit`, `LegReturn`, `LegFail` |
| `approveOrderReviewStep`, `rejectOrderReviewStep` | `ApproveReview`, `RejectReview` |
| `confirmDeposit` | `ConfirmRead`, `ConfirmWrite` |
| `approveOrder` and the transfer it sends | `ApproveDeposit`, `SendPost`, `SendPostFails`, `SendLink`, `SendRecord`, `SendUndo` |
| `markSent`, `completeOrder`, `failOrder` | `MarkSentRead`, `CompleteRead`, `ManualWrite`, `FailRead`, `FailWrite`, `Void` |
| the cancellations, `expireUnpaidDeposits` | `ClientCancel`, `StaffCancel`, `Expire`, then `Delete` (the DELETE in Bridge), `RowOff`, `Extend`, `Close` (its compare-and-set), `Void` |
| `handleTransferComplete` with the safety net | `CompleteStart`, `CompleteLookup`, `CompleteMark`, `CompleteSettle`, `CompleteCount`, `CompleteInsert` |
| `handleTransferFailed`, `handleTransferRefunded`, `funds_received` | `FailedStart` … `FailedVoid`, `RefundedStart`, `RefundedRead`, `RefundedMark`, `Received` |

### Payouts

`debits` and `charges` count the pending and settled debits of a payout, since
nothing in the code keeps a second one out. `LinkChecked` says whether
`ledger_entries.bridge_transfer_id` is a foreign key: `executePayout` writes
Bridge's id there and not the local one, so with the key the INSERT fails and
without it the webhook does not find the entry (finding `charge`). `MaxDebits`
bounds the debits, `MaxBalance` what staff credit. The fallback of
`releaseReservedBalance` reads the row and writes it whole in another statement
(`FallbackRead`, `FallbackWrite`): `overwritten` counts what was credited in
between and is gone (`Overwrite`), up to `MaxLost`.

### Onboarding

`app`, `review` and `profile` are the three statuses, `linked` whether the
profile has a `bridge_customer_id`, `bridge` the customer there and `inbox` its
events in order. `approveReview`, `resendToBridge`, `rejectReview` and
`requestChanges` are one action per statement; a webhook is one handler whose
steps look the application up again, as the code does.

### The modules of `MCServices` and `MCClients`

These parts meet the ones above only through the client and Bridge, so each is a
module of its own and the two MC modules take one instance of each, whose
constants they declare as their own: the configuration gives them small values,
and the proofs leave them open. A behaviour is one of the part chosen in its
first state; the variables of the other parts keep the value 0. The same first
state chooses `faults`, one of the sets of failures in `Worlds`, so that one run
shows what survives every failure and what holds exactly where few happen; each
property says which failures it excepts. Every error of the database that the
code drops is dropped in the action too.

**`OrderAdmission`** (`payment-orders.service.ts`, `order-review.service.ts`)

| Code | Actions |
|---|---|
| `createInterbankOrder`, `createWalletRampOrder` | `Create` (approved, `Enabled`), `CountOrder`, `CheckAmountLimits`, `InsertOrder` |
| `createReviewRequest` | `LookupReview`, `InsertReview` |
| `approveReview`, `createOrderFromReview`, `linkPaymentOrder` | `ApproveReview`, `BuildOrder` (up to the INSERT), `ExecuteLeg`, `Rollback`, `LinkPaymentOrder` |
| `rejectReview`, `cancelReview`, `expireStaleRequests` | `RejectReview`, `CheckCancel`, `CancelReview`, `Expire` |
| limit and flow overrides | `CreateLimitOverride` … `DeleteFlowOverride` |

`made` counts the orders of a request that are alive. An order whose leg fails is
marked failed and its request goes back to pending, from where it may be approved
again and make a second row; where the UPDATE of the mark fails as well
("unmarked") the first order stays alive.

**`OrderSlots`**: `BoliviaToWorld` … `WalletToWorld` are the ten creations, each
with its own check (`Conflicting…`), then `Post`, `Insert`, `Leg`, `Link` and
`Undo` in the order of the flow; `Indexed` and `IndexKey` are the partial unique
indexes of the two migrations. `world_to_bolivia` is excepted: its check
compares the currency paid in, its index the one paid out, which is always BOB,
so that a second order with another currency passes the check and meets the
index (`payment-orders.service.ts:1753-1759`,
`20260909_pending_review_gate_indexes_interbank.sql:37-47`).

**`Idempotency`** (`idempotency.interceptor.ts`): `Lookup`, `Insert`, `Retry`,
`Handle` (the handler up to its INSERT) and `Leg`, or `HandleUnlocked` and
`UnlockedLeg` without the row of the key, then, after the answer has left,
`Store` or `Delete`. A leg that fails marks its order failed and throws
(`LegFails`), which deletes the key: the same key then makes a second row.
`created` are the requests whose order is alive. A row that is not finished has status 0: line 95 replays it as it is
("invalid"), line 134 answers 409. A row that expired is not found by the lookup
and still refuses the INSERT; nothing deletes it, so that its answer is replayed
for ever.

**`VirtualAccounts`**

| Code | Actions |
|---|---|
| `handleVaFundsReceived`, `handleInternalDepositPending`, `handleExternalSweepDeposit` | `FundsReceived`, `InsertPending`, `InsertSwept`, `SweepIn`, `SweepOut` |
| `handleVaPaymentSubmitted`, `handleVaInReview`, refund notices | `PaymentSubmitted`, `Notice` |
| `handleVaPaymentProcessed` | `PaymentProcessed`, `Late`, `Credit`, `Complete` |
| `handleVaRefunded` | `Refunded`, `Reverse`, `Refund` |
| `handleLiquidationPayment` | `LiquidationPayment` |

**`Drains`**: `DrainCreated`, `Link`; `DrainProcessed`, `LateMatch`,
`CompleteDrainOrder`; `DrainBroken`, `FailDrainOrder`; `DrainRefunded`, `Note`.
`Match` takes the oldest open order with the address, else with about the
amount.

**`BridgeAccounts`** (`bridge.service.ts`): `Begin`, `CountActive`, `Conflicts`,
`ResolveVaFee`, `Post`, `Insert` create; `Update`, `Put`, `Compare`, `WriteRow`,
`Revert` change; `Deactivate`, `Delete`, `Close` remove; `UpdateVaFeeDefault`,
`SetVaFeeOverride`, `ClearVaFeeOverride` are the staff's.

**`RateLimits`**: `Read`, then `InsertRow`, `Outside`, `Refuse` or `Track`; the
guard and the throttle differ in `Found` (how two rows are read) and `Exceeds`
(which attempt is refused). `now` is a clock of `Horizon` ticks.

**`SupplierAccounts`** (`suppliers.service.ts`, `bridge.service.ts`): `Check`,
`PostAccount`, `InsertAccount`, `PostAddress`, `InsertAddress`, `NextRail`,
`Insert`, and when one fails `Undo` with `UndoAccount` and `UndoAddresses`.

**`Beneficiaries`**

| Code | Actions |
|---|---|
| `rescreenDueWallets`, `rescreenById`, `rescreenSupplier` | `Claim`, `RescreenById`, `Screen`, `Follow` |
| `persistVerdict`, `onBlocked`, `findInFlightOrders` | `Persist`, `Cut`, `Tell` |
| `setComplianceStatus` | `SetStatus`, `SetPayable` |
| `update` | `Update`, `CheckAddress`, `Save` |
| `assertUsableForPayment` and the INSERT of the order, `remove` | `CheckUsable`, `InsertOrder`, `CheckRemovable`, `Remove` |

**`AccountMembers`**: `Invite`, `CountLive`, `InsertInvitation`; `Reopen`,
`CountOthers`, `WriteReopened`, `Lapse` (a count that fails is read as none,
`HasSeat`); `AcceptLookup`, `MarkExpired`,
`AcceptExisting`, `Accept`; `Revoke`, `WriteRevoked`; `UpdateCapabilities`,
`WriteCapabilities`; `List`, `ExpireStale`; and of the guard `CanActivate`,
`ResolveMembership`, `ResolveOwner`.

**`Dossier`** (one request at a time, as the form and the assisting staff send
them; two saves at once can double a row, and that is not in it)

| Code | Actions |
|---|---|
| `uploadDocument`, `replacePreviousDocuments` | `Upload`, `Insert`, `Undo`, `Previous`, `Retire`, `Supersede` |
| `upsertUbo`, `upsertLegalRepresentative`, `claimDraftDocuments` | `Save`, `Find`, `Write`, `Covered`, `Take`, `Drop`, `ClaimDraftDocuments` |
| `saveDraft`, `deleteDraft`, `purgeStaleDrafts`, `hardDeleteDocuments` | `SaveDraft`, `DeleteDraft`, `DeleteForm`, `Age`, `Remove`, `Delete` |
| `submitKybApplication`, `markSubmitted`, sending to Bridge, `requestChanges` | `SubmitKybApplication`, `Submit`, `MarkSubmitted`, `Send`, `RequestChanges` |

**`AssociatedPersons`** (`bridge-customer.service.ts`): `Start`, `PostCustomer`
or `PutCustomer`, `BuildAssociatedPersons`, `GetPersons`, then for each row
`PutPerson`, `PostPerson` or `Ambiguous`, `LinkPerson`, and `Store`.

**`MobileUploads`**: `CreateMobileToken`, `InsertSession`, `InsertTargets`,
`UndoSession`; `UploadMobileDocument` or `UploadAtDesktop`, `Insert`,
`Previous`, `Retire`, `Mark`; `CompleteMobileToken`, `Complete`, with one
request at a time that may fail, or with two at once. Two uploads of one
document each delete the row of the other (`onboarding.service.ts:1342`); a
session that a newer one replaced is 'completed', like one that the telephone
ended.

**`Verification`** (`didit-verification.service.ts`): `Begin`, `ReadPerson` or
`ReadBusiness`, `ShareChecks`, `SkipChecks`, `Launch`, `Persist`, `Log`, with
`Fingerprint`, `CanReuse`, `Resolve` and `Overall` translated.

**`BridgeIssues`**: `Take`, `Compare`, `Mark`, `Tell`, `Resolve`,
`RequestChanges` over `Blocking` and `SameIssueSet`.

**`BankAccounts`**: `Create`, `InsertAccount`, `RequestUpdate`, `WriteRequest`,
`ReadChange`, `ApproveChange`, `RejectChange`, `Withdraw`. No write has a
condition on what was read.

## 3. Runs

| Run | Shows |
|---|---|
| `interleavings` | one off-ramp order, two tasks, every operation and fault: exclusivity of the leg, the parts of the balance cover the amount, which is that of the ledger; refinement of `OrderCharge` |
| `gate` | two orders of two flows, creation, review, leg, completion and failure interleaved, with fairness: a completed transfer ends in a settled debit, unless its reserve had failed and the balance cannot pay it |
| `serial` | two orders with every manual operation, one handler at a time per order: reserves and refunds are exact |
| `drains` | the inbox, two ticks, throwing handlers, refused INSERTs and one upset (a crash, a slow tick or a failing query): two ticks hold one event only after a rescue put it back under one of them, none is given up early and, with fairness, every stored event ends processed or failed |
| `storm` | a deposit order of any flow, every operation and fault, two handlers at once: nothing is credited that Bridge did not deliver, and the expiry never closes a confirmed deposit |
| `calm` | the same without overlap, crash or lost call, but with refusals, missing credits and reordered and repeated events: the order follows its transfer (each delivery noticed, a completed order credited, a closed one without a transfer), credited once and, with fairness, always |
| `races` | a large payout, overlapping requests, crashes, lost answers, credits by staff, the fallback: it waits for its review, and the parts of the balance cover the amount but for the credits a fallback wrote over |
| `exact` | two payouts, or one client's onboarding, one handler at a time, with fairness: the reserve is that of the payouts neither given back nor charged, a rejected one was not sent, one debit, a delivered one is completed; the tables agree at rest, and an active customer ends approved |
| `meeting` | onboarding with client, staff and Bridge at once and every fault: only Bridge approves |
| `services` | deposits without orders, drains, admission, slots and keys of orders, the limiter, the accounts at Bridge |
| `clients` | beneficiaries, the team, the dossier with its uploads, the people at Bridge, Didit's verdicts, Bridge's issues, the bank account |
| `charge` (expects a violation) | the debit of a completed payout stays pending, because it was written under Bridge's id (`bridge.service.ts:1206`) |

No run checks for deadlock: a system whose orders and events are all finished
stops.

What survives every fault and what holds exactly under stated circumstances are
different properties, in pairs of runs (`interleavings`/`serial`,
`storm`/`calm`, `races`/`exact`, `meeting`/`exact`) or, in `services` and
`clients`, of worlds. The difference is not an artefact:

- With two handlers on one off-ramp order (`failOrder` over a cancellation, a
  repeated failed event) the reserve is given back twice.
- The UPDATE of the rescue goes by id only: after a slow tick, or a second SELECT
  of the same stuck event, it puts back an event that a tick is working on or
  has finished, and two ticks hold it.
- A credit that lands between the read and the write of the fallback of a release
  is overwritten (`bridge.service.ts:1998-2017`): the parts of the balance no
  longer cover its amount.
- An order whose leg failed and whose mark failed too stays alive beside a
  request, or a key, that can make another (`payment-orders.service.ts:2245-2266,
  8386-8461`).
- A count of seats that fails is read as none (`account-members.service.ts:211-217,
  448-455`), and the team goes over its limit.
- Two completions of one on-ramp at once both count no settled credit and both
  insert one (`webhooks.service.ts:3024-3025`); a crash or a failed write
  between the two leaves a completed order without its credit.
- Two approvals of a payout write two debits; a lost answer releases the
  reserve of a transfer that lives (`bridge.service.ts:1167`); a second failed
  event releases again; with the foreign key a sent payout stays 'pending' and
  can be rejected.
- `approveReview` and `resendToBridge` write 'pending_bridge' after the POST
  over an 'approved' that a webhook wrote meanwhile; a late 'rejected' or a
  rejection by staff leaves application and profile apart.
- A deposit handled again between its credit and the UPDATE of its order is
  credited twice, a liquidation payment whenever it is repeated, and a repeated
  drain may pay a second order.
- An approval beside a rejection of a change of bank account gives both answers;
  members, accounts at Bridge and orders of the hour are counted before they are
  added, so requests at once go over by one each.
- When `markSubmitted` fails, its error is swallowed and what was sent remains a
  draft that `purgeStaleDrafts` deletes (`onboarding-draft.service.ts:246-272,
  301`).

### Scenarios kept as documentation

These configurations are run by hand (`tlc -config <cfg> <module>`). Each gives
a counterexample that shows code and comment, or two parts of the code, apart.
One that lists several invariants stops at the first that is violated: take its
line out to see the next.

| Configuration | Property | What it shows |
|---|---|---|
| `MCOffRamp_releases` | `ReserveMatchesOrders` | `cancelOrder` does not select `bridge_execution_context` (`payment-orders.service.ts:5805`), so the reserve of an order in review is not given back |
| `MCOffRamp_releases` | `ReleasedOnce` | a second `failed` event releases again (`webhooks.service.ts:3220`) |
| `MCOffRamp_retry` | its property | after a lost answer the order is back in review with a live transfer, whose event is consumed before the retry links it; the debit is never settled (`payment-orders.service.ts:2216`) |
| `MCDepositOrders_scenarios` | `AddressUnambiguous` | two orders of one deposit address wait at once (`payment-orders.service.ts:1646-1663`) |
| `MCDepositOrders_scenarios` | `NothingToRelease` | the failure of a funded deposit order releases a reserve it never made (`webhooks.service.ts:3316-3327`) |
| `MCDepositOrders_scenarios` | `ConfirmedHasTransfer` | the cron deletes the transfer, a proof comes, the compare-and-set rightly loses: the confirmed order has no transfer (`payment-orders.service.ts:6133`) |
| `MCOnboarding_issues` | `IssuesAreShown` | issues that Bridge reports again after a resend are taken as known and the profile stays 'pending_bridge' (`webhooks.service.ts:1071`) |
| `MCClients_persons` | `NeverDuplicated` | a person whose row has no link and whose name was corrected is created again, though the comment promises to fail "instead of duplicating a compliance subject" (`bridge-customer.service.ts:1525-1527`) |

### Bounds

Off-ramp: two tasks are enough for every race between two handlers; a third
handler can only repeat one of them on the same rows. One order suffices where a
property is about one order; two orders of different amounts (2 and 1) where
orders share the balance, so that one's release cannot be mistaken for the
other's. In `gate` the two orders share a route (`SameRoute`), so that the
unique index refuses the second one and its creation gives the reserve back
(`CreateConflict`, `CreateUnreserve`); in `serial` the routes differ and both
exist at once. `Deliveries` bounds how often an event is handled: twice shows
repetition. The queue has two ticks, two events, `MaxRetries` 2 so that one
failure is below and one at the limit, batches of one, and one upset (`Upsets`).
By hand the invariants also hold with two upsets, with batches of two and with an
event that is not verified; `Drains` does not hold with two upsets (see
Fairness). `storm` and `calm` have one order of any flow and
two tasks: orders share nothing but the unique index and the deposit address,
which `OrderSlots` and the scenario `AddressUnambiguous` show with two. Payouts
share a balance: `exact` has two of different cost, one large and one small;
`MaxBalance` bounds what staff credit and how far repeated releases can go.
`races` has credits by staff and no debits, for only a credit can be overwritten;
with both and without crashes `FundsKept` holds too (by hand). `MaxMade` bounds
how many orders of one request are alive.
Onboarding has one application (`MaxApps`) and at most two events waiting
(`MaxEvents`), enough for a verdict to overtake another.

`services` and `clients` take two tasks wherever the code does not exclude them,
and of everything that is counted one more than its limit: two requests of
review and a maximum of 1, three virtual accounts for two places, two invitees
for one seat, three clock windows for a limiter of two attempts, two drains for
two orders that both fit the first, three requests for one key, three proposals
of bank data in two months, three runs of Didit over two days. A company has a
representative and one other person, and one document of each, because every
loop of the code treats each person alone; spellings, changes, edits and ids are
bounded by `MaxSpelling`, `MaxChanges`, `MaxEdits` and `Ids`. Symmetry permutes
tasks, rows and people that no property names; runs with liveness use none.

### Fairness

`OffRampOrders`, `DepositOrders`, `Payouts`, `Onboarding`: weak fairness of the
steps of each task, since the event loop of a live process serves every pending
call, and fairness of taking a waiting event, since the cron runs for ever. In
the last three the latter is strong: a task is taken from a pool that requests
share, and the code has no such limit, so a webhook must not starve for want of
a free task that the model alone lacks. The expiry cron is weakly fair. Nothing
obliges the client, staff or Bridge. `gate`, `calm` and `exact` have no crash
and no lost answer; `retry` adds the lost answer and the property fails.
`WebhookQueue`: weak fairness of each tick and of time; upsets are bounded,
because a process that dies for ever, or whose queries always fail, handles
nothing. With two of them `Drains` fails: a rescue takes an event from a slow
tick, which gives it up (`retry_count` at its maximum) while another tick has
marked it processing and is interrupted; the rescue looks for fewer attempts than
the maximum (`webhooks.service.ts:225-232`) and leaves it there. `services` and `clients`
state safety only and assume no fairness.

## 4. Proofs

Every theorem holds for any sets of orders, events, payouts, people and tasks,
any amounts and scenario, and any set of faults except where named, under the
assumptions on the constants that each module names. They say little: that sets
which must not be empty are not, that `Nil` and `None` are nobody's names, that
limits are natural numbers, and that what the code counts is finite. TLC
evaluates them on every run.

`OffRampOrders_proofs`:

- `TypeCorrect`, `LegInvariant`, and from it `LegIsExclusive`,
  `ReviewPrecedesLeg`, `OrderIsDebitedOnce`, `SettledDebitsArePaid`.
- `OrdersKeepCharges`: the specification implements `OrderCharge`.
- `PartsAlwaysCover`: available plus reserved never falls below the amount.
- `BalanceReconciles`: the amount is the deposit less every settled debit plus
  every settled credit, under every operation and fault. `NetOfAll` states it
  with the difference each order makes (`Nets`), so that a step on one order
  changes one term of one sum. It assumes finitely many orders.
- `ReserveIsTheOrders` and `RefundsAnswer`, in the circumstances of `serial`.

`LegExclusive` is not inductive: that no second leg starts depends on
`pending_review` being reached only from a creation or from a leg that failed,
which in turn depends on how far a leg has got. `LegInv` adds exactly that:
`CreateAlone` and `AbsentIsBlank` (nobody knows an order before its INSERT),
`LegStages` (what is written at each step of the leg), `ReviewIsBeforeLeg`
(a returned order has no trace of a leg) and `CompletionsArePaid` (a completion
is worked on only after Bridge paid). There is a lemma per group of actions; the
frame lemmas say which parts of the invariant read which variables.

The circumstances of `serial` are `Serial`: one handler at a time on an order;
no answer lost, event out of turn, crash or failing write; no client
cancels an order in review and staff cancel none without a refund; Bridge neither
fails nor returns a transfer (a `failed` event releases what the leg has turned
into a debit, a second one again); completions are announced; and the deposit
covers every order, for `createWalletToFiatOffRamp` does not look at the error
of `reserve_balance` for less. Any finite number of orders, any amounts, routes,
currencies, tasks and repetitions of an event remain, and staff may reject, cancel and fail
as they like. `SerialInv` says where an order stands for every step of the job at
work on it, or of none (`Sound`, a predicate of the order and that job, `Cur`),
and that the reserve is what the orders and their jobs claim (`Backed`): an order
claims its amount from its reservation on, and a job that is about to give it
back claims it still. A step of a job changes its own order's claim and the
reserve by the same amount; everybody else's is unchanged (`Handled`).

`WebhookQueue_proofs`:

- `QueueInvariant`, `GivenUpOnlyAfterRetries`, `ProcessedEventsWereHandled`,
  `TypeCorrect` under every fault. `QueueInv` adds to the properties that no
  count of failures, in a row or in the memory of a tick, is ahead of the
  handlers that threw.
- `ClaimsStayExclusive` and `StuckCanBeRescued` under every fault and for any
  number of upsets. Exclusivity is not inductive: a claim takes what is pending,
  so `ClaimInv` adds that an event a tick holds is in processing (`HeldRow`)
  unless a rescue snatched it. It also says that whatever is in processing has a
  stamp (`Stamped`) and, unless snatched, attempts left (`KeepsAttempt`).

`DepositOrders_proofs`:

- `CreditsArePaid` and `ProofAlwaysBeatsExpiry` under every fault;
  `CreditsHappenOnce` when no two handlers share an order (crashes and repeated
  events included). `DepositInv` adds to the type that whoever is about to
  credit, and every credit made, follows a delivery, and, when handlers are
  alone, that a task about to insert a credit has seen that there is none.
- `OrdersFollowTransfers` in the circumstances of `calm` (`Calm`: no overlap,
  crash, lost call or refused write, the completion announced at least once, and
  no two `wallet_to_wallet` orders that skip the review, `NoRival`): TLC finds a
  counterexample when any one of them is dropped. The invariant `Steady` says
  what holds of an order nobody is at work on (`Unattended`), and, for each step
  of each handler, how far the order is between two such states (`Phase`).

`Payouts_proofs`:

- `LargePayoutsAreReviewed` under every fault, through the fact that a large
  payout is at a step of `executePayout` only if staff approved it.
- `NoFundsLost` under every operation and fault: the parts lack at most what
  fallbacks overwrote. The invariant (`Kept`) says of a request between the read
  and the write of the fallback that what it read covers the amount it read, but
  for what had been overwritten by then.
- `PayoutsAreDebitedOnce` when one request at a time works on a payout and none
  is killed (`Alone`); `RejectedPayoutsAreNotSent` when, besides, the writes
  after the POST succeed (`Written`), which they do not where the foreign key
  refuses them. Here too the invariant gives a `Phase` of the payout for each
  step of the request at work on it.
- `ReserveIsThePayouts` when, besides those two, every release arrives, a failed
  transfer is told once (a second event releases again), staff debit nothing by
  hand and the deposit covers every payout of finitely many (`Calm`): it does not
  depend on the id the debits carry, so it says the same of a code in which the
  webhook finds and charges them. POSTs may be refused, answers lost, the review fail to open, and staff may approve, reject and
  credit. `CalmInv` has the shape of `SerialInv`: `Sound` for each payout with
  its job, `Backed` for the reserve, and `Funded`, without which the RPC of a
  release would stop at zero.

`Onboarding_proofs`:

- `OnlyBridgeApproves` and `NobodyWaitsForNothing` under every fault: each
  handler that approves carries the activation with it from the event to the
  last write.
- `TablesComeToAgree` for one application and one request at a time, no call or
  answer of which is lost, late or killed, while nobody rejects or sends again
  what was decided (`Orderly`; again TLC has a counterexample without each of
  them): the invariant ties what the task at work has still to write to what the
  inbox holds and to what Bridge decided.

`ClientTablesAgree`, in `Payouts_proofs`, is the same for the run `exact`, where
the client stands beside the payouts: the invariant is carried over through an
instance of `Onboarding_proofs`.

`Services_proofs`, over the parts of the run `services`:

- `KeysMakeOneOrder`, crashes included; excepted are a key whose own INSERT
  failed, which runs its handler without a lock, and a failed leg that could not
  mark its row. Whoever runs the handler for a key, or stores or deletes its row,
  holds the row, and only one does (`Locked`): the key is a lock, given back by a
  failed leg only when its order is dead.
- `ReviewsMakeOneOrder`: an approved request whose order is not made yet can be
  approved by nobody else, and while it can be approved none of its orders is
  alive (`OneAtATime`, `OneEach`), rows that could not be marked excepted; with
  calls that do not overlap a request at rest says what became of it (`InTurn`).
- `ArrivalsArePaidOnce`: for deposits, a phase of each deposit and the balance
  funded for every deposit that is on its way out; for drains, that a drain paid
  an order only if the order was still open (`Sequential`, one webhook at a
  time) and, when events come in their order, that a drain and its order are
  linked before it is paid (`Ordered`; the oldest open order exists because the
  rows are numbered).
- `ChecksCoverTheIndexes`: no two orders share a slot (`Slots`), so where
  requests come one at a time what the check of a creation saw is still so at
  its INSERT.
- `RowsFollowBridge`: the accounts of a client are counted against their limits,
  those that calls in flight may add included (`Limited`), and each account
  agrees with Bridge up to what the call at work on it has still to do
  (`Mirrored`).
- `LimitersAdmitWithinMax`: the row of a limiter counts at least what was
  admitted since its window began, at `first`, and nobody was admitted later than
  the window reaches (`Windowed`); the stretch that ends where a window begins
  lacks the first attempt of one of the two windows it meets, so no stretch as
  long as a window admits what two may. Restarting a row keeps this because the
  old window is over by then.
- `ServicesTypeOK`: the types of all seven parts, the limiter's included.

`Clients_proofs`, over all nine parts of the run `clients`:

- `AccessesAreOffered`: a call that holds a row knows one that is there
  (`Held`), a row that is open was offered (`Offered`), and, when requests do
  not overlap and no count fails, the seat a request counted as free still is
  (`InOrder`).
- `VerdictsAreOfTheAddress`: the address of the wallet, and any that a call
  saves or pays, was accepted by a screening, and the verdict is of that
  address; when nothing is overlapped, interrupted or edited by hand, where a
  call stands tells the columns of the verdict (`SettledAt`).
- `SupplierRowsAreBacked`: each step of a registration knows what of it exists
  already (`Stage`), so that undoing it leaves nothing (`Leaves`) unless the
  undoing itself fails.
- `BridgeIssuesAreTold`: while staff know nothing, nothing is wanted or the news
  are in the queue or in the hands of a handler (`Announced`); `Steady` adds,
  for events one at a time and in order, that the list being handled is the
  last.
- `UploadsStayThere`: a session is listed by the one request that made it, and
  one that was ended has a list and every document of it (`Listed`); without
  overlap the document a request has inserted is there when those it replaces
  are retired (`There`), and one session at most is usable (`OneByOne`).
- `ChangesAreAnswered`: with the requests of each side one at a time, a change
  of bank account waits in its row or has one answer (`Waits`); under every
  failure, data that a row or a withdrawal has were approved (`Approved`).
- `NobodyIsTwice`: whom an id at Bridge is of never changes once it is given, so
  links, keys and what a send remembers are about their own person (`Own`);
  without corrections of names everybody at Bridge is in the list a send was
  given or has a key (`Covers`), so nobody is created twice; and while one send
  at a time loses nothing, rows and keys go together and the names are those
  last sent (`Current`).
- `ApprovalsAreChecked`: a result that says Approved is an answer of Didit for
  the inputs it is sealed with (`Sealed`), so reusing it keeps it one; a run has
  results about what it read for everybody it is done with (`Backs`), and the
  representative comes before the owners, who may be him (`InLine`). `Counted`
  adds, without failures, that a run at work knows the verdict there is. It
  assumes that the owners of a company are finitely many, for the order in
  which they come is a choice of a sequence of them.
- `DossiersAreKept`: what was sent is a draft no longer, so no request that
  deletes drafts has it in hand (`Drafts`, `SentStays`); an object without a row,
  or a row without its object, is the one a request is at work on (`HasRow`,
  `HasObject`); between the check of an application and its sending nobody loses
  a document (`SentWhole`); and a request that saves a person knows that the
  rows it leaves him are one or at Bridge, and which documents still wait for
  him (`Saves`), so that nothing waits for whom it has saved (`SavedOnce`). It
  assumes that the rows are finitely many and that a row's id is nobody's
  `draft_key`.

Each `TypeCorrect` is more than a check of types where the balance is involved:
it says that no handler takes a part of it below zero.

Some invariants have a theorem and no run of their own, since the theorem says
it for every instance: the types of the first five modules, `LegInv`,
`QueueInv`, `DebitedOnce`, `ReviewIsBeforeLeg`, `SettledMeansCompleted`,
`ProcessedMeansHandled`, `StuckIsRescuable` (the part of `Drains` that is a safety
property), `PendingHasCustomer`.

`SumTheorems`: the sums the money and the limiter are about. What a fold over a
set computes cannot be had by the library's induction theorems, so that the sum
over a finite set is a sum, whatever the order of the fold, is proved from a
smallest counterexample, by the well-foundedness of the natural numbers:
`MapThenSumSet` over a set is the term of any one member plus the sum of the
rest. From it follow what a change of one term does to a sum, sums of equal
terms, of none, over parts of a set, and that a larger set of natural numbers has
the larger sum.

Every safety invariant and action property of a passing run has a theorem. What
remains:

- The liveness properties (`CompletedTransferSettles`, `Drains`,
  `DeliveredIsCredited`, `DeliveredIsCompleted`, `ActiveIsApproved`) are only
  model-checked: fairness and ENABLED are beyond the prover.
- Nothing is claimed of the exact reserve or of exact refunds where `Serial` or
  `Calm` fails to hold: section 3 lists what happens there instead.

## 5. Not modelled, and why

- The branches `refund_in_flight` and `underfunded` of the transfer webhooks,
  and events that only notify: no money moves in them.
- Quotes, fees and exchange rates: decimal arithmetic without interleaving.
- The fields of forms, the payload of a customer, what an answer of Didit or a
  bank is read from: data that no status depends on.
- The composition of `WebhookQueue` with the handlers: `Deliveries` stands for
  the queue's retries, which the run of the queue shows to be at least once.
- The transfer behind an order that was marked failed after a lost answer: that
  Bridge may have made it all the same is in `OffRampOrders` and `Payouts`;
  `Idempotency` and `OrderAdmission` count orders, not transfers.
- Two saves of one dossier at once: the form sends one after the other.
- Passwords, sessions and tokens (Supabase); notifications, e-mail, PDF,
  gateways (output only); reconciliation (read-only); CRUD of configuration.
