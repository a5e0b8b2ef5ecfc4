--------------------------- MODULE OffRampOrders ---------------------------
(***************************************************************************)
(* The life of the wallet off-ramp orders of one user: bolivianos through  *)
(* a PSAV, dollars or crypto sent by Bridge, Peru through a PSAV.  Creating*)
(* an order reserves balance; staff review it; approving it creates a      *)
(* transfer in Bridge and a pending debit; Bridge's webhooks settle it,    *)
(* fail it or refund it; staff and the client may close it by hand.        *)
(*                                                                         *)
(* No handler runs in a transaction.  Each is a sequence of database and   *)
(* Bridge calls, and any two of them interleave.  A task is one request or *)
(* one webhook in flight: it is at a pc, works on one order and carries    *)
(* what it read before.  One action is one call that the others can see.   *)
(*                                                                         *)
(* Ops is the set of requests and Bridge outcomes that a scenario contains *)
(* and Faults its set of failures:                                         *)
(*   "refuse"   Bridge rejects the POST of a transfer                      *)
(*   "timeout"  Bridge creates the transfer and the answer is lost         *)
(*   "crash"    the process dies with every request in flight              *)
(*   "overlap"  two requests work on one order at the same time            *)
(*   "early"    a webhook is handled while the request that created its    *)
(*              transfer is still writing                                  *)
(*   "reorder"  the events of a transfer are not handled first in first out*)
(*   "dbError"  a write whose error the code drops or only logs fails      *)
(***************************************************************************)
EXTENDS BalanceLedger, FiniteSets

CONSTANTS
  Orders,        \* ids of the orders that may be created
  Tasks,         \* requests and webhooks that may be in flight at once
  Flow,          \* Orders -> "fiat_bo", "peru" or "direct" (crypto, fiat_us)
  Route,         \* Orders -> what the partial unique indexes keep apart
  Amount,        \* Orders -> total_needed
  SameCurrency,  \* orders whose destination currency is the reserved one
  Deposit,       \* the balance at the start
  Deliveries,    \* how many times an event of each kind is handled
  Ops, Faults

ASSUME OrdersAssumption == Orders # {}
ASSUME FlowAssumption == Flow \in [Orders -> {"fiat_bo", "peru", "direct"}]
ASSUME AmountAssumption == Amount \in [Orders -> Nat \ {0}]
\* resolveFiatBoPsavMatch takes no account of another currency.
ASSUME SameCurrencyAssumption ==
  /\ SameCurrency \subseteq Orders
  /\ \A o \in Orders : Flow[o] = "fiat_bo" => o \in SameCurrency
ASSUME DepositAssumption == Deposit \in Nat
ASSUME DeliveriesAssumption ==
  Deliveries \in [{"complete", "failed", "refunded"} -> Nat]

VARIABLES
  status,    \* payment_orders.status; "absent" before the INSERT
  ctx,       \* payment_orders.bridge_execution_context is not null
  link,      \* payment_orders.bridge_transfer_id is not null
  row,       \* bridge_transfers.status of the transfer of the order
  debit,     \* ledger_entries.status of the debit of the order
  credits,   \* how many settled credits refund the order
  bal,       \* the row of balances
  bridge,    \* the transfer in Bridge under the idempotency key of the order
  inbox,     \* deliveries left of each Bridge event
  task,
  released   \* how many times the amount of the order has been released

orderVars == <<status, ctx, link>>
ledgerVars == <<row, debit, credits>>
vars == <<status, ctx, link, row, debit, credits, bal, bridge, inbox, task,
          released>>

Terminal == {"completed", "failed", "cancelled", "refunded"}
Active == {"created", "pending_review", "processing"}
Statuses == {"absent", "sent"} \cup Active \cup Terminal

StaffCancellable == {"created", "pending_review", "processing"}

RowStates == {"none", "pending", "completed", "failed", "refunded"}
EntryStates == {"none", "pending", "settled", "failed", "reversed"}
BridgeStates == {"none", "open", "complete", "failed", "refunded", "returned"}
\* Bridge did pay the transfer, whatever came later.
Paid == {"complete", "refunded"}
Kinds == {"complete", "failed", "refunded"}

CreatePcs == {"reserve", "insert", "unreserve"}
LegPcs == {"post", "link", "record", "debit"}
LegFailPcs == {"legReturn", "legRelease", "legMark"}
ClosePcs == {"fail", "giveBack", "void", "releaseDebit", "refund"}
StaffPcs == {"sent", "complete"}
CompletePcs == {"cLookup", "cMark", "settleOrder", "settleXfer"}
FailedPcs == {"fMark", "fDebit", "fLookup", "fRelease", "fMarkOrder",
              "fReleaseOrder", "fDebitOrder"}
RefundedPcs == {"rRead", "rCredit", "rMark"}
Pcs == {"idle"} \cup CreatePcs \cup LegPcs \cup LegFailPcs \cup ClosePcs
         \cup StaffPcs \cup CompletePcs \cup FailedPcs \cup RefundedPcs

AnOrder == CHOOSE o \in Orders : TRUE
Carrying(pc, o, seen, hasCtx, to) ==
  [pc |-> pc, o |-> o, seen |-> seen, skip |-> FALSE, ctx |-> hasCtx,
   row |-> FALSE, to |-> to]
Job(pc, o) == Carrying(pc, o, "absent", FALSE, "none")
Idle == Job("idle", AnOrder)

DualLeg(o) == Flow[o] # "direct"
OffRampWallet(o) == Flow[o] # "fiat_bo"

Init ==
  /\ status = [o \in Orders |-> "absent"]
  /\ ctx = [o \in Orders |-> FALSE]
  /\ link = [o \in Orders |-> FALSE]
  /\ row = [o \in Orders |-> "none"]
  /\ debit = [o \in Orders |-> "none"]
  /\ credits = [o \in Orders |-> 0]
  /\ bal = [amount |-> Deposit, available |-> Deposit, reserved |-> 0]
  /\ bridge = [o \in Orders |-> "none"]
  /\ inbox = [e \in Orders \X Kinds |-> 0]
  /\ task = [t \in Tasks |-> Idle]
  /\ released = [o \in Orders |-> 0]

(***************************************************************************)
(* Steps of a task.                                                        *)
(***************************************************************************)
At(t, pc) == task[t].pc = pc
\* Task t is free to start on order o.
Free(t, o) ==
  /\ At(t, "idle")
  /\ "overlap" \in Faults \/ \A u \in Tasks : At(u, "idle") \/ task[u].o # o
Start(t, job) == task' = [task EXCEPT ![t] = job]
Begin(t, o, pc) == Free(t, o) /\ Start(t, Job(pc, o))
Goto(t, pc) == task' = [task EXCEPT ![t].pc = pc]
Done(t) == Start(t, Idle)
InLeg(t, o) == task[t].o = o /\ task[t].pc \in LegPcs \cup LegFailPcs
Write(o, s) == status' = [status EXCEPT ![o] = s]

\* The RPC release_reserved_balance with the amount of the order.
Release(o) ==
  /\ bal' \in Releases(bal, Amount[o])
  /\ released' = [released EXCEPT ![o] = @ + 1]

\* Mutant: without the WHERE status = 'pending'.
LeaveAny(o, s) ==
  debit' = IF debit[o] # "none" THEN [debit EXCEPT ![o] = s] ELSE debit
\* UPDATE ledger_entries SET status = s WHERE status = 'pending'.
Leave(o, s) ==
  debit' = IF debit[o] = "pending" THEN [debit EXCEPT ![o] = s] ELSE debit

\* The partial unique indexes: one active off-ramp of the user per route.
RouteTaken(o) ==
  \E p \in Orders \ {o} : Route[p] = Route[o] /\ status[p] \in Active

(***************************************************************************)
(* The client creates an order.  The balance and the conflicting orders    *)
(* are read first; the reserve and the INSERT come later, and the error of *)
(* the reserve is not looked at.                                           *)
(***************************************************************************)
CreateCheck(t, o, skip) ==
  /\ "create" \in Ops
  /\ status[o] = "absent"
  /\ \A u \in Tasks : ~(task[u].pc \in CreatePcs /\ task[u].o = o)
  /\ bal.available >= Amount[o]
  /\ ~RouteTaken(o)
  /\ skip => "createSkip" \in Ops
  /\ Free(t, o)
  /\ Start(t, [Job("reserve", o) EXCEPT !.skip = skip])
  /\ UNCHANGED <<orderVars, ledgerVars, bal, bridge, inbox, released>>

CreateReserve(t) ==
  /\ At(t, "reserve")
  /\ \/ bal' = Reserved(bal, Amount[task[t].o])
     \/ "dbError" \in Faults /\ UNCHANGED bal
  /\ Goto(t, "insert")
  /\ UNCHANGED <<orderVars, ledgerVars, bridge, inbox, released>>

CreateInsert(t) ==
  LET o == task[t].o IN
  /\ At(t, "insert")
  /\ ~RouteTaken(o)
  /\ Write(o, IF task[t].skip THEN "created" ELSE "pending_review")
  /\ ctx' = [ctx EXCEPT ![o] = ~task[t].skip]
  /\ IF task[t].skip THEN Goto(t, "post") ELSE Done(t)
  /\ UNCHANGED <<link, ledgerVars, bal, bridge, inbox, released>>

CreateConflict(t) ==
  /\ At(t, "insert")
  /\ RouteTaken(task[t].o)
  /\ Goto(t, "unreserve")
  /\ UNCHANGED <<orderVars, ledgerVars, bal, bridge, inbox, released>>

CreateUnreserve(t) ==
  /\ At(t, "unreserve")
  /\ bal' \in Releases(bal, Amount[task[t].o])
  /\ Done(t)
  /\ UNCHANGED <<orderVars, ledgerVars, bridge, inbox, released>>

(***************************************************************************)
(* The leg: the transfer is created in Bridge, the order is linked to it   *)
(* (whatever its status is by then), then come its row and its debit.  The *)
(* idempotency key is the order's id: a second POST returns the transfer   *)
(* of the first.                                                           *)
(***************************************************************************)
LegPost(t) ==
  LET o == task[t].o IN
  /\ At(t, "post")
  /\ bridge' = IF bridge[o] = "none" THEN [bridge EXCEPT ![o] = "open"]
                                     ELSE bridge
  /\ Goto(t, "link")
  /\ UNCHANGED <<orderVars, ledgerVars, bal, inbox, released>>

LegFails(t) == Goto(t, IF task[t].skip THEN "legRelease" ELSE "legReturn")

LegRejected(t) ==
  /\ "refuse" \in Faults
  /\ At(t, "post")
  /\ LegFails(t)
  /\ UNCHANGED <<orderVars, ledgerVars, bal, bridge, inbox, released>>

LegTimeout(t) ==
  LET o == task[t].o IN
  /\ "timeout" \in Faults
  /\ At(t, "post")
  /\ bridge' = IF bridge[o] = "none" THEN [bridge EXCEPT ![o] = "open"]
                                     ELSE bridge
  /\ LegFails(t)
  /\ UNCHANGED <<orderVars, ledgerVars, bal, inbox, released>>

\* The UPDATE has no guard on the status; the route index may stop it, and its
\* error is not looked at.
LegLink(t) ==
  LET o == task[t].o IN
  /\ At(t, "link")
  /\ \/ /\ ~RouteTaken(o)
        /\ Write(o, "processing")
        /\ link' = [link EXCEPT ![o] = TRUE]
        /\ UNCHANGED ctx
     \/ /\ RouteTaken(o) \/ "dbError" \in Faults
        /\ UNCHANGED orderVars
  /\ Goto(t, "record")
  /\ UNCHANGED <<ledgerVars, bal, bridge, inbox, released>>

\* Mutant: a row of bridge_transfers that cannot be written fails the leg.
LegRecordRefused(t) ==
  /\ At(t, "record")
  /\ LegFails(t)
  /\ UNCHANGED <<orderVars, ledgerVars, bal, bridge, inbox, released>>
LegRecord(t) ==
  LET o == task[t].o IN
  /\ At(t, "record")
  /\ \/ row' = IF row[o] = "none" THEN [row EXCEPT ![o] = "pending"] ELSE row
     \/ "dbError" \in Faults /\ UNCHANGED row
  /\ Goto(t, "debit")
  /\ UNCHANGED <<orderVars, debit, credits, bal, bridge, inbox, released>>

LegDebit(t) ==
  /\ At(t, "debit")
  /\ \/ debit' = [debit EXCEPT ![task[t].o] = "pending"]
     \/ "dbError" \in Faults /\ UNCHANGED debit
  /\ Done(t)
  /\ UNCHANGED <<orderVars, row, credits, bal, bridge, inbox, released>>

\* handleBridgeLegFailure: back to review after an approval, failed after a
\* creation that skipped the review.
LegReturn(t) ==
  LET o == task[t].o IN
  /\ At(t, "legReturn")
  /\ IF status[o] = "processing" THEN Write(o, "pending_review")
                                 ELSE UNCHANGED status
  /\ Done(t)
  /\ UNCHANGED <<ctx, link, ledgerVars, bal, bridge, inbox, released>>

LegRelease(t) ==
  /\ At(t, "legRelease")
  /\ Release(task[t].o)
  /\ Goto(t, "legMark")
  /\ UNCHANGED <<orderVars, ledgerVars, bridge, inbox>>

LegMark(t) ==
  /\ At(t, "legMark")
  /\ Write(task[t].o, "failed")
  /\ Done(t)
  /\ UNCHANGED <<ctx, link, ledgerVars, bal, bridge, inbox, released>>

(***************************************************************************)
(* Staff review.  Both decisions claim the order with a compare-and-set,   *)
(* so the read before it decides nothing.                                  *)
(***************************************************************************)
Approve(t, o) ==
  /\ "approve" \in Ops
  /\ status[o] = "pending_review"
  /\ Write(o, "processing")
  /\ Free(t, o)
  /\ IF ctx[o]
     THEN Start(t, Job("post", o))
     ELSE UNCHANGED task   \* nothing to execute: the request ends, claimed
  /\ UNCHANGED <<ctx, link, ledgerVars, bal, bridge, inbox, released>>

Reject(t, o) ==
  /\ "reject" \in Ops
  /\ status[o] = "pending_review"
  /\ Free(t, o)
  /\ Write(o, "failed")
  /\ Start(t, Carrying("giveBack", o, "pending_review", ctx[o], "none"))
  /\ UNCHANGED <<ctx, link, ledgerVars, bal, bridge, inbox, released>>

(***************************************************************************)
(* Closing an order by hand.  cancelOrder and cancelOrderByStaff claim it  *)
(* with a compare-and-set; failOrder reads the status and writes "failed"  *)
(* later, whatever the status is then.  The query of cancelOrder does not  *)
(* select bridge_execution_context: the reserve it would give back is null.*)
(***************************************************************************)
Close(t, o, seen, hasCtx, to) ==
  Start(t, Carrying(IF seen = "pending_review" THEN "giveBack" ELSE "void",
                    o, seen, hasCtx, to))

ClientCancel(t, o) ==
  /\ "clientCancel" \in Ops
  /\ status[o] = "pending_review"
  /\ Free(t, o)
  /\ Write(o, "cancelled")
  /\ Close(t, o, status[o], FALSE, "reversed")
  /\ UNCHANGED <<ctx, link, ledgerVars, bal, bridge, inbox, released>>

StaffCancel(t, o, refund) ==
  /\ "staffCancel" \in Ops
  /\ refund \/ "noRefund" \in Ops
  /\ status[o] \in StaffCancellable
  /\ Free(t, o)
  /\ Write(o, "cancelled")
  /\ IF refund THEN Close(t, o, status[o], ctx[o], "reversed")
               ELSE UNCHANGED task
  /\ UNCHANGED <<ctx, link, ledgerVars, bal, bridge, inbox, released>>

FailRead(t, o) ==
  /\ "fail" \in Ops
  /\ status[o] \notin Terminal \cup {"absent"}
  /\ Free(t, o)
  /\ Start(t, Carrying("fail", o, status[o], ctx[o], "failed"))
  /\ UNCHANGED <<orderVars, ledgerVars, bal, bridge, inbox, released>>

FailWrite(t) ==
  LET k == task[t] IN
  /\ At(t, "fail")
  /\ Write(k.o, "failed")
  /\ Close(t, k.o, k.seen, k.ctx, "failed")
  /\ UNCHANGED <<ctx, link, ledgerVars, bal, bridge, inbox, released>>

\* releasePendingReviewReserve; a rejection ends with it, a cancellation or
\* a failure goes on to the ledger.
GiveBack(t) ==
  LET k == task[t] IN
  /\ At(t, "giveBack")
  /\ IF k.ctx THEN Release(k.o) ELSE UNCHANGED <<bal, released>>
  /\ IF k.to = "none" THEN Done(t) ELSE Goto(t, "void")
  /\ UNCHANGED <<orderVars, ledgerVars, bridge, inbox>>

\* Mutant: the debit is voided and its reserve stays.
VoidKeepsReserve(t) ==
  LET k == task[t] IN
  /\ At(t, "void")
  /\ Leave(k.o, k.to)
  /\ Goto(t, "refund")
  /\ UNCHANGED <<orderVars, row, credits, bal, bridge, inbox, released>>
Void(t) ==
  LET k == task[t] IN
  /\ At(t, "void")
  /\ Leave(k.o, k.to)
  /\ Goto(t, IF debit[k.o] = "pending" THEN "releaseDebit" ELSE "refund")
  /\ UNCHANGED <<orderVars, row, credits, bal, bridge, inbox, released>>

ReleaseDebit(t) ==
  /\ At(t, "releaseDebit")
  /\ Release(task[t].o)
  /\ Goto(t, "refund")
  /\ UNCHANGED <<orderVars, ledgerVars, bridge, inbox>>

\* A settled debit is given back with a settled credit.
Credit(o) ==
  /\ credits' = [credits EXCEPT ![o] = @ + 1]
  /\ bal' = Posted(bal, EntryDiff("credit", "none", "settled", Amount[o]))

Refund(t) ==
  LET o == task[t].o IN
  /\ At(t, "refund")
  /\ IF debit[o] = "settled" THEN Credit(o) ELSE UNCHANGED <<credits, bal>>
  /\ Done(t)
  /\ UNCHANGED <<orderVars, row, debit, bridge, inbox, released>>

\* markSent and completeOrder: read, then write without a guard.
MarkSentRead(t, o) ==
  /\ "markSent" \in Ops
  /\ status[o] = "processing"
  /\ Begin(t, o, "sent")
  /\ UNCHANGED <<orderVars, ledgerVars, bal, bridge, inbox, released>>

MarkSentWrite(t) ==
  /\ At(t, "sent")
  /\ Write(task[t].o, "sent")
  /\ Done(t)
  /\ UNCHANGED <<ctx, link, ledgerVars, bal, bridge, inbox, released>>

CompleteRead(t, o) ==
  /\ "complete" \in Ops
  /\ status[o] = "sent"
  /\ Begin(t, o, "complete")
  /\ UNCHANGED <<orderVars, ledgerVars, bal, bridge, inbox, released>>

CompleteWrite(t) ==
  /\ At(t, "complete")
  /\ Write(task[t].o, "completed")
  /\ Done(t)
  /\ UNCHANGED <<ctx, link, ledgerVars, bal, bridge, inbox, released>>

(***************************************************************************)
(* Bridge, external: the transfer leaves "open" once; one that was paid    *)
(* may still be refunded and one that was not may be returned, and both    *)
(* come as a refund.  Every outcome is announced by several events of the  *)
(* same state (transfer.updated and status_transitioned) and an event      *)
(* whose handler died is handled again: Deliveries bounds the attempts.    *)
(***************************************************************************)
BridgeMoves(o, from, to, kind) ==
  /\ bridge[o] = from
  /\ bridge' = [bridge EXCEPT ![o] = to]
  /\ inbox' = [inbox EXCEPT ![<<o, kind>>] = Deliveries[kind]]
  /\ UNCHANGED <<orderVars, ledgerVars, bal, task, released>>

BridgeCompletes(o) ==
  "bridgeComplete" \in Ops /\ BridgeMoves(o, "open", "complete", "complete")
BridgeFails(o) ==
  "bridgeFail" \in Ops /\ BridgeMoves(o, "open", "failed", "failed")
BridgeRefunds(o) ==
  "bridgeRefund" \in Ops /\ BridgeMoves(o, "complete", "refunded", "refunded")
BridgeReturns(o) ==
  "bridgeReturn" \in Ops /\ BridgeMoves(o, "open", "returned", "refunded")

\* A webhook of the order is taken from the queue.
Take(o, kind) ==
  /\ inbox[o, kind] > 0
  /\ "early" \in Faults \/ \A u \in Tasks : ~InLeg(u, o)
  /\ kind = "refunded" => "reorder" \in Faults \/ inbox[o, "complete"] = 0
  /\ inbox' = [inbox EXCEPT ![<<o, kind>>] = @ - 1]

SetRow(o, s) == row' = IF row[o] = "none" THEN row ELSE [row EXCEPT ![o] = s]
RowFound(o) == row[o] # "none"
BeginWebhook(t, o, pc) ==
  /\ Free(t, o)
  /\ Start(t, [Job(pc, o) EXCEPT !.row = RowFound(o)])

(* transfer complete, payment_processed *)
CompleteStart(t, o) ==
  /\ Take(o, "complete")
  /\ SetRow(o, "completed")
  /\ BeginWebhook(t, o, "cLookup")
  /\ UNCHANGED <<orderVars, debit, credits, bal, bridge, released>>

CompletableFound(o) == link[o] /\ status[o] \in {"pending_review", "processing"}

\* After the order's own settlement comes the one by local transfer id.
AfterOrder(t) == IF task[t].row THEN Goto(t, "settleXfer") ELSE Done(t)

CompleteLookup(t) ==
  LET o == task[t].o IN
  /\ At(t, "cLookup")
  /\ IF CompletableFound(o)
     THEN Goto(t, IF DualLeg(o) THEN "settleOrder" ELSE "cMark")
     ELSE AfterOrder(t)
  /\ UNCHANGED <<orderVars, ledgerVars, bal, bridge, inbox, released>>

CompleteMark(t) ==
  /\ At(t, "cMark")
  /\ Write(task[t].o, "completed")
  /\ Goto(t, "settleOrder")
  /\ UNCHANGED <<ctx, link, ledgerVars, bal, bridge, inbox, released>>

SettleDiff(o) == EntryDiff("debit", debit[o], "settled", Amount[o])
SettleFits(o) == debit[o] = "pending" => Postable(bal, SettleDiff(o))
SettleDebit(o) ==
  /\ SettleFits(o)
  /\ Leave(o, "settled")
  /\ bal' = IF debit[o] = "pending" THEN Posted(bal, SettleDiff(o)) ELSE bal

SettleOrder(t) ==
  /\ At(t, "settleOrder")
  /\ SettleDebit(task[t].o)
  /\ AfterOrder(t)
  /\ UNCHANGED <<orderVars, row, credits, bridge, inbox, released>>

SettleTransfer(t) ==
  /\ At(t, "settleXfer")
  /\ SettleDebit(task[t].o)
  /\ Done(t)
  /\ UNCHANGED <<orderVars, row, credits, bridge, inbox, released>>

\* The CHECK constraint rejects the settlement: the handler throws.
SettleThrows(t) ==
  /\ At(t, "settleOrder") \/ At(t, "settleXfer")
  /\ ~SettleFits(task[t].o)
  /\ Done(t)
  /\ UNCHANGED <<orderVars, ledgerVars, bal, bridge, inbox, released>>

(* transfer failed, returned.  to = "failed" says that an order was found. *)
FailedStart(t, o) ==
  /\ Take(o, "failed")
  /\ IF row[o] = "completed" THEN Free(t, o) /\ UNCHANGED task
                             ELSE BeginWebhook(t, o, "fMark")
  /\ UNCHANGED <<orderVars, ledgerVars, bal, bridge, released>>

FailedMark(t) ==
  LET o == task[t].o IN
  /\ At(t, "fMark")
  /\ SetRow(o, "failed")
  /\ task' = [task EXCEPT ![t].row = RowFound(o),
                          ![t].pc = IF RowFound(o) THEN "fDebit" ELSE "fLookup"]
  /\ UNCHANGED <<orderVars, debit, credits, bal, bridge, inbox, released>>

FailedDebit(t) ==
  /\ At(t, "fDebit")
  /\ Leave(task[t].o, "failed")
  /\ Goto(t, "fLookup")
  /\ UNCHANGED <<orderVars, row, credits, bal, bridge, inbox, released>>

FailableFound(o) ==
  link[o] /\ status[o] \in {"pending_review", "processing", "created"}

FailedLookup(t) ==
  LET o == task[t].o
      found == FailableFound(o)
      generic == task[t].row /\ ~(found /\ OffRampWallet(o)) IN
  /\ At(t, "fLookup")
  /\ IF generic \/ found
     THEN task' = [task EXCEPT
            ![t].pc = IF generic THEN "fRelease" ELSE "fMarkOrder",
            ![t].to = IF found THEN "failed" ELSE "none"]
     ELSE Done(t)
  /\ UNCHANGED <<orderVars, ledgerVars, bal, bridge, inbox, released>>

\* The generic release: in the destination currency of the transfer.
FailedRelease(t) ==
  LET o == task[t].o IN
  /\ At(t, "fRelease")
  /\ IF o \in SameCurrency THEN Release(o) ELSE UNCHANGED <<bal, released>>
  /\ IF task[t].to = "failed" THEN Goto(t, "fMarkOrder") ELSE Done(t)
  /\ UNCHANGED <<orderVars, ledgerVars, bridge, inbox>>

\* Mutant: a failed transfer sends its order back to review.
FailedToReview(t) ==
  LET o == task[t].o IN
  /\ At(t, "fMarkOrder")
  /\ Write(o, "pending_review")
  /\ Goto(t, IF OffRampWallet(o) THEN "fReleaseOrder" ELSE "fDebitOrder")
  /\ UNCHANGED <<ctx, link, ledgerVars, bal, bridge, inbox, released>>
FailedMarkOrder(t) ==
  LET o == task[t].o IN
  /\ At(t, "fMarkOrder")
  /\ Write(o, "failed")
  /\ Goto(t, IF OffRampWallet(o) THEN "fReleaseOrder" ELSE "fDebitOrder")
  /\ UNCHANGED <<ctx, link, ledgerVars, bal, bridge, inbox, released>>

FailedReleaseOrder(t) ==
  /\ At(t, "fReleaseOrder")
  /\ Release(task[t].o)
  /\ Goto(t, "fDebitOrder")
  /\ UNCHANGED <<orderVars, ledgerVars, bridge, inbox>>

FailedDebitOrder(t) ==
  /\ At(t, "fDebitOrder")
  /\ Leave(task[t].o, "failed")
  /\ Done(t)
  /\ UNCHANGED <<orderVars, row, credits, bal, bridge, inbox, released>>

(* transfer refunded *)
RefundedStart(t, o) ==
  /\ Take(o, "refunded")
  /\ SetRow(o, "refunded")
  /\ BeginWebhook(t, o, "rRead")
  /\ UNCHANGED <<orderVars, debit, credits, bal, bridge, released>>

\* Mutant: every refund event of a linked order is credited.
RefundedReadAgain(t) ==
  LET o == task[t].o IN
  /\ At(t, "rRead")
  /\ IF ~link[o] THEN Done(t)
     ELSE Goto(t, IF OffRampWallet(o) THEN "rCredit" ELSE "rMark")
  /\ UNCHANGED <<orderVars, ledgerVars, bal, bridge, inbox, released>>
RefundedRead(t) ==
  LET o == task[t].o IN
  /\ At(t, "rRead")
  /\ IF ~link[o] \/ status[o] = "refunded" THEN Done(t)
     ELSE Goto(t, IF status[o] = "completed" /\ OffRampWallet(o)
                  THEN "rCredit" ELSE "rMark")
  /\ UNCHANGED <<orderVars, ledgerVars, bal, bridge, inbox, released>>

RefundedCredit(t) ==
  /\ At(t, "rCredit")
  /\ Credit(task[t].o)
  /\ Goto(t, "rMark")
  /\ UNCHANGED <<orderVars, row, debit, bridge, inbox, released>>

RefundedMark(t) ==
  /\ At(t, "rMark")
  /\ Write(task[t].o, "refunded")
  /\ Done(t)
  /\ UNCHANGED <<ctx, link, ledgerVars, bal, bridge, inbox, released>>

(***************************************************************************)
(* The process dies: every request in flight stops where it is.            *)
(***************************************************************************)
Crash ==
  /\ "crash" \in Faults
  /\ \E t \in Tasks : ~At(t, "idle")
  /\ task' = [t \in Tasks |-> Idle]
  /\ UNCHANGED <<orderVars, ledgerVars, bal, bridge, inbox, released>>

ClientStarts(t, o) ==
  \/ \E skip \in BOOLEAN : CreateCheck(t, o, skip)
  \/ ClientCancel(t, o)

StaffStarts(t, o) ==
  \/ Approve(t, o)
  \/ Reject(t, o)
  \/ \E refund \in BOOLEAN : StaffCancel(t, o, refund)
  \/ FailRead(t, o)
  \/ MarkSentRead(t, o)
  \/ CompleteRead(t, o)

WebhookStarts(t, o) ==
  CompleteStart(t, o) \/ FailedStart(t, o) \/ RefundedStart(t, o)

BridgeSteps(o) ==
  BridgeCompletes(o) \/ BridgeFails(o) \/ BridgeRefunds(o) \/ BridgeReturns(o)

CreateStep(t) ==
  \/ CreateReserve(t) \/ CreateInsert(t) \/ CreateConflict(t)
  \/ CreateUnreserve(t)
LegStep(t) ==
  \/ LegPost(t) \/ LegRejected(t) \/ LegTimeout(t) \/ LegLink(t)
  \/ LegRecord(t) \/ LegDebit(t)
  \/ LegReturn(t) \/ LegRelease(t) \/ LegMark(t)
CloseStep(t) ==
  \/ FailWrite(t) \/ GiveBack(t) \/ Void(t) \/ ReleaseDebit(t) \/ Refund(t)
  \/ MarkSentWrite(t) \/ CompleteWrite(t)
WebhookStep(t) ==
  \/ CompleteLookup(t) \/ CompleteMark(t)
  \/ SettleOrder(t) \/ SettleTransfer(t) \/ SettleThrows(t)
  \/ FailedMark(t) \/ FailedDebit(t) \/ FailedLookup(t) \/ FailedRelease(t)
  \/ FailedMarkOrder(t) \/ FailedReleaseOrder(t) \/ FailedDebitOrder(t)
  \/ RefundedRead(t) \/ RefundedCredit(t) \/ RefundedMark(t)

Step(t) == CreateStep(t) \/ LegStep(t) \/ CloseStep(t) \/ WebhookStep(t)

Next ==
  \/ \E t \in Tasks : Step(t)
  \/ \E t \in Tasks, o \in Orders :
       ClientStarts(t, o) \/ StaffStarts(t, o) \/ WebhookStarts(t, o)
  \/ \E o \in Orders : BridgeSteps(o)
  \/ Crash

Spec == Init /\ [][Next]_vars

(***************************************************************************)
(* Every request in flight goes on (one process, whose event loop serves   *)
(* every pending call) and the cron takes every event that is waiting.     *)
(* Nothing obliges the client, the staff or Bridge to act.                 *)
(***************************************************************************)
Fairness ==
  /\ \A t \in Tasks : WF_vars(Step(t))
  /\ \A o \in Orders : WF_vars(\E t \in Tasks : WebhookStarts(t, o))

FairSpec == Spec /\ Fairness

(***************************************************************************)
(* Properties.                                                             *)
(***************************************************************************)
Task == [pc : Pcs, o : Orders, seen : Statuses, skip : BOOLEAN,
         ctx : BOOLEAN, row : BOOLEAN, to : {"none", "failed", "reversed"}]

TypeOK ==
  /\ status \in [Orders -> Statuses]
  /\ ctx \in [Orders -> BOOLEAN]
  /\ link \in [Orders -> BOOLEAN]
  /\ row \in [Orders -> RowStates]
  /\ debit \in [Orders -> EntryStates]
  /\ credits \in [Orders -> Nat]
  /\ bal \in Balance
  /\ bridge \in [Orders -> BridgeStates]
  /\ inbox \in [Orders \X Kinds -> Nat]
  /\ task \in [Tasks -> Task]
  /\ released \in [Orders -> Nat]

\* The claim of an approval is exclusive: at most one request at a time is
\* executing the Bridge leg of an order, and none while it is in review
\* (approveOrderReviewStep: "el segundo UPDATE no encuentra fila y nunca
\* llega a crear un segundo transfer").
LegExclusive ==
  \A t, u \in Tasks, o \in Orders :
    InLeg(t, o) => (InLeg(u, o) => t = u) /\ status[o] # "pending_review"

\* An order in review has left no trace of a finished leg: whoever closes it
\* has only a reserve to give back (releasePendingReviewReserve counts on it).
ReviewIsBeforeLeg ==
  \A o \in Orders : status[o] = "pending_review" =>
    ctx[o] /\ ~link[o] /\ row[o] = "none" /\ debit[o] = "none"

\* However many approvals are tried and retried, an order is debited once: a
\* leg about to write its debit finds none.
DebitedOnce ==
  \A t \in Tasks : At(t, "debit") => debit[task[t].o] = "none"

\* The debit is settled only for a transfer that Bridge did complete.
SettledMeansCompleted ==
  \A o \in Orders :
    debit[o] = "settled" => bridge[o] \in Paid

\* The balance is never short of what its parts hold: no interleaving lets
\* the account promise less than it owes.
PartsCoverAmount == bal.available + bal.reserved >= bal.amount

\* Every step of every handler is a step of OrderCharge or none: no race
\* charges an order twice or before its transfer left, settles a charge that
\* Bridge did not pay or reopens one that was closed.
TransferSeen(o) ==
  CASE bridge[o] = "none" -> "none"
    [] bridge[o] = "open" -> "sent"
    [] bridge[o] \in Paid -> "paid"
    [] OTHER -> "lost"
Charges == INSTANCE OrderCharge WITH
  charge <- debit, transfer <- [o \in Orders |-> TransferSeen(o)]
ChargesKept == Charges!Spec

(***************************************************************************)
(* The inductive invariant: what the exclusivity of the leg rests on.      *)
(***************************************************************************)
Creates(t, o) == task[t].o = o /\ task[t].pc \in CreatePcs

\* An order not yet inserted is known to nobody but the request creating it.
CreateAlone ==
  \A t \in Tasks, o \in Orders :
    Creates(t, o) =>
      status[o] = "absent" /\ \A u \in Tasks : Creates(u, o) => u = t
AbsentIsBlank ==
  \A o \in Orders : status[o] = "absent" =>
    /\ ~link[o] /\ row[o] = "none" /\ debit[o] = "none" /\ bridge[o] = "none"
    /\ \A k \in Kinds : inbox[<<o, k>>] = 0
WorkIsOnOrders ==
  \A t \in Tasks :
    task[t].pc \notin CreatePcs \cup {"idle"} => status[task[t].o] # "absent"

\* How much of the leg has been written when it is at each of its steps.
LegStage(t) ==
  LET o == task[t].o IN
  /\ task[t].pc \in {"post", "link", "legReturn"} => ~link[o]
  /\ task[t].pc \in {"post", "link", "legReturn", "record"} => row[o] = "none"
  /\ task[t].pc \in LegPcs \cup {"legReturn"} => debit[o] = "none"
  /\ task[t].pc \in LegPcs \ {"post"} => bridge[o] # "none"
  /\ task[t].pc = "post" /\ ~task[t].skip => ctx[o]
  /\ task[t].pc = "legReturn" => ctx[o]
LegStages == \A t \in Tasks : LegStage(t)

\* A completion is worked on only after Bridge paid.
CompletionsArePaid ==
  /\ \A t \in Tasks : task[t].pc \in CompletePcs => bridge[task[t].o] \in Paid
  /\ \A o \in Orders : inbox[<<o, "complete">>] > 0 => bridge[o] \in Paid

\* A debit is closed with a reason.
VoidHasReason == \A t \in Tasks : task[t].pc = "void" => task[t].to # "none"

LegInv ==
  /\ TypeOK
  /\ LegExclusive /\ ReviewIsBeforeLeg /\ LegStages
  /\ CreateAlone /\ AbsentIsBlank /\ WorkIsOnOrders
  /\ CompletionsArePaid /\ SettledMeansCompleted /\ VoidHasReason

(***************************************************************************)
(* What comments of the code say of it and some interleaving refutes.      *)
(***************************************************************************)
\* handleTransferFailed: a double release is what its status check avoids.
ReleasedOnce == \A o \in Orders : released[o] =< 1

\* A transfer that Bridge completes ends in a settled debit (handleTransferComplete),
\* unless the balance cannot pay it, since its reserve had failed.
\* handleBridgeLegFailure counts on it when it calls retrying an approval safe:
\* it is not after a lost answer.
CompletedTransferSettles ==
  \A o \in Orders :
    bridge[o] = "complete" ~> (debit[o] = "settled" \/ ~SettleFits(o))
=============================================================================
