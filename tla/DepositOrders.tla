--------------------------- MODULE DepositOrders ---------------------------
(***************************************************************************)
(* The orders that begin with a deposit of the client: bolivianos in the   *)
(* account of a PSAV, or crypto at an address of Bridge.  Nothing is       *)
(* reserved for them.  The order waits for its deposit, staff or Bridge    *)
(* confirm it, and a Bridge transfer (or staff, by hand) pays it out; in   *)
(* the two on-ramp flows the client's wallet is credited at the end.       *)
(*                                                                         *)
(* A task is one request, cron run or webhook in flight and one action is  *)
(* one call of the database or of Bridge, as in OffRampOrders.  The orders *)
(* are of one user and one corridor, so two orders of one flow share a     *)
(* deposit address and compete for the same partial unique index.          *)
(*                                                                         *)
(* Ops is the set of requests and outcomes of a scenario, Faults its set   *)
(* of failures: "refuse" (Bridge rejects a POST), "lost" (Bridge does the  *)
(* call, the answer is lost), "noAddress" (the transfer comes without a    *)
(* deposit address), "noCredit" (the INSERT of the pending credit fails),  *)
(* "dbError" (any other write whose error is dropped or thrown), "crash",  *)
(* "overlap" (two tasks on one order), "early" (a webhook handled during   *)
(* the leg) and "reorder".                                                 *)
(***************************************************************************)
EXTENDS Integers, FiniteSets

CONSTANTS
  Orders,      \* ids of the orders that may be created
  Tasks,       \* requests and webhooks that may be in flight at once
  Flows,       \* the flows a client may choose
  Deliveries,  \* how many times an event of each kind is handled
  Ops, Faults

Instructed == {"bolivia_to_world", "bolivia_to_wallet", "world_to_bolivia"}
OnRamp == {"fiat_bo_to_bridge_wallet", "crypto_to_bridge_wallet"}
PsavFlows == Instructed \cup {"fiat_bo_to_bridge_wallet"}
CryptoIn == {"wallet_to_wallet", "wallet_to_world", "crypto_to_bridge_wallet"}
AddressFlows == OnRamp \cup {"wallet_to_wallet"}
AllFlows == PsavFlows \cup CryptoIn
Kinds == {"received", "complete", "failed", "refunded"}

ASSUME OrdersAssumption == Orders # {}
ASSUME FlowsAssumption == Flows \subseteq AllFlows
ASSUME DeliveriesAssumption == Deliveries \in [Kinds -> Nat]

VARIABLES
  flow,      \* payment_orders.flow_type; "none" while nobody asked for it
  status,    \* payment_orders.status; "absent" before the INSERT
  link,      \* payment_orders.bridge_transfer_id is not null
  deadline,  \* payment_orders.deposit_expires_at: none, running or due
  closer,    \* payment_orders.cancelled_by_role
  row,       \* bridge_transfers.status of the transfer of the order
  credit,    \* ledger_entries.status of the on-ramp credit of the leg
  extra,     \* settled credits inserted by the safety net of the webhook
  freed,     \* releases of a reserve that handleTransferFailed ran
  flagged,   \* audit_logs has RECONCILIATION_REQUIRED for the order
  bridge,    \* the transfer in Bridge under the idempotency key of the order
  inbox,     \* deliveries left of each Bridge event
  task

orderVars == <<flow, status, link, deadline, closer>>
moneyVars == <<row, credit, extra, freed, flagged>>
vars == <<orderVars, moneyVars, bridge, inbox, task>>

Terminal == {"completed", "failed", "cancelled", "refunded"}
Statuses == {"absent", "created", "pending_review", "waiting_deposit",
             "deposit_received", "processing", "sent"} \cup Terminal
StaffCancellable == {"created", "pending_review", "waiting_deposit",
                     "deposit_received", "processing"}
RowStates == {"none", "pending", "completed", "failed", "refunded", "cancelled"}
EntryStates == {"none", "pending", "settled", "failed", "reversed"}
BridgeStates == {"none", "awaiting", "funded", "complete", "failed",
                 "refunded", "deleted"}
\* Bridge delivered the funds, whatever came later.
Delivered == {"complete", "refunded"}

LegPcs == {"insert", "post", "record", "link", "credit", "legReturn", "legFail"}
SendPcs == {"sendPost", "sendLink", "sendRecord", "sendUndo"}
ClosePcs == {"delete", "rowOff", "close", "void", "extend", "fail", "failVoid"}
StaffPcs == {"confirm", "sent", "complete"}
CompletePcs == {"cLookup", "cMark", "cSettle", "cCount", "cInsert"}
FailedPcs == {"fMark", "fLookup", "fOrder", "fVoid"}
Pcs == {"idle", "rRead", "rMark"} \cup LegPcs \cup SendPcs \cup ClosePcs
         \cup StaffPcs \cup CompletePcs \cup FailedPcs

AnOrder == CHOOSE o \in Orders : TRUE
Job(pc, o, seen, by, skip) ==
  [pc |-> pc, o |-> o, seen |-> seen, by |-> by, skip |-> skip]
Idle == Job("idle", AnOrder, "absent", "none", FALSE)

Init ==
  /\ flow = [o \in Orders |-> "none"]
  /\ status = [o \in Orders |-> "absent"]
  /\ link = [o \in Orders |-> FALSE]
  /\ deadline = [o \in Orders |-> "none"]
  /\ closer = [o \in Orders |-> "none"]
  /\ row = [o \in Orders |-> "none"]
  /\ credit = [o \in Orders |-> "none"]
  /\ extra = [o \in Orders |-> 0]
  /\ freed = [o \in Orders |-> 0]
  /\ flagged = [o \in Orders |-> FALSE]
  /\ bridge = [o \in Orders |-> "none"]
  /\ inbox = [e \in Orders \X Kinds |-> 0]
  /\ task = [t \in Tasks |-> Idle]

(***************************************************************************)
(* Steps of a task.                                                        *)
(***************************************************************************)
At(t, pc) == task[t].pc = pc
Free(t, o) ==
  /\ At(t, "idle")
  /\ "overlap" \in Faults \/ \A u \in Tasks : At(u, "idle") \/ task[u].o # o
Start(t, job) == task' = [task EXCEPT ![t] = job]
Done(t) == Start(t, Idle)
Goto(t, pc) ==
  IF pc = "idle" THEN Done(t) ELSE task' = [task EXCEPT ![t].pc = pc]
Begin(t, o, pc) ==
  /\ Free(t, o)
  /\ Start(t, Job(pc, o, status[o], "none", FALSE))
BeginBy(t, o, pc, by) ==
  /\ Free(t, o)
  /\ Start(t, Job(pc, o, status[o], by, FALSE))
InLeg(t, o) == task[t].o = o /\ task[t].pc \in LegPcs \cup SendPcs

Write(o, s) == status' = [status EXCEPT ![o] = s]
\* UPDATE ledger_entries SET status = s WHERE status = 'pending'.
Leave(o, s) ==
  credit' = IF credit[o] = "pending" THEN [credit EXCEPT ![o] = s] ELSE credit
SetRow(o, s) == row' = IF row[o] = "none" THEN row ELSE [row EXCEPT ![o] = s]

\* The partial unique index of the flow, which is also what the creation of
\* an order looks for (assertNoConflicting...).
Holds(p) ==
  CASE flow[p] \in Instructed ->
         status[p] \in {"pending_review", "waiting_deposit",
                        "deposit_received", "processing"}
    [] flow[p] = "wallet_to_world" ->
         status[p] \in {"created", "pending_review", "waiting_deposit",
                        "processing"}
    [] flow[p] \in AddressFlows ->
         status[p] = "pending_review" \/ (status[p] = "waiting_deposit" /\ link[p])
    [] OTHER -> FALSE
Taken(o, f) == \E p \in Orders \ {o} : flow[p] = f /\ Holds(p)

(***************************************************************************)
(* Creation and the Bridge leg.  An order under the review gate is inserted*)
(* in pending_review and the leg runs at its approval; one that skips the  *)
(* gate runs the same calls at once, in another order.  After says   *)
(* which call follows.                                                     *)
(***************************************************************************)
After(pc, f, skip) ==
  CASE pc = "post" ->
         IF f = "wallet_to_world" THEN (IF skip THEN "insert" ELSE "link")
                                  ELSE "record"
    [] pc = "record" ->
         IF f = "wallet_to_world" THEN "idle"
         ELSE IF f \in OnRamp /\ skip THEN "insert" ELSE "link"
    [] pc = "insert" ->
         IF ~skip \/ f \in Instructed THEN "idle"
         ELSE IF f = "wallet_to_world" THEN "record"
         ELSE IF f = "wallet_to_wallet" THEN "post" ELSE "credit"
    [] pc = "link" ->
         IF f = "wallet_to_world" THEN "record"
         ELSE IF f \in OnRamp THEN "credit" ELSE "idle"
    [] OTHER -> "idle"
GoOn(t) ==
  Goto(t, After(task[t].pc, flow[task[t].o], task[t].skip))

Create(t, o, f, skip) ==
  /\ "create" \in Ops
  /\ skip => "createSkip" \in Ops
  /\ flow[o] = "none"
  /\ ~Taken(o, f)
  /\ flow' = [flow EXCEPT ![o] = f]
  /\ Free(t, o)
  /\ Start(t, Job(IF skip /\ f \in OnRamp \cup {"wallet_to_world"}
                  THEN "post" ELSE "insert", o, "absent", "client", skip))
  /\ UNCHANGED <<status, link, deadline, closer, moneyVars, bridge, inbox>>

\* What the INSERT writes.
FirstStatus(f, skip) ==
  IF ~skip THEN "pending_review"
  ELSE IF f = "wallet_to_wallet" THEN "created" ELSE "waiting_deposit"
HasDeadline(f) == f \in PsavFlows
\* The index does not look at an order in "created".
InsertTaken(o, f, skip) ==
  Taken(o, f) /\ ~(skip /\ f = "wallet_to_wallet")

\* The index may refuse the INSERT: the request ends, its transfer stays.
Insert(t) ==
  LET k == task[t]  o == k.o  f == flow[o] IN
  /\ At(t, "insert")
  /\ IF InsertTaken(o, f, k.skip)
     THEN UNCHANGED <<status, link, deadline>> /\ Done(t)
     ELSE /\ Write(o, FirstStatus(f, k.skip))
          /\ link' = [link EXCEPT ![o] = bridge[o] # "none"]
          /\ deadline' = IF k.skip /\ HasDeadline(f)
                         THEN [deadline EXCEPT ![o] = "running"] ELSE deadline
          /\ GoOn(t)
  /\ UNCHANGED <<flow, closer, moneyVars, bridge, inbox>>

Posted(o) == IF bridge[o] = "none" THEN [bridge EXCEPT ![o] = "awaiting"]
                                   ELSE bridge
LegPost(t) ==
  /\ At(t, "post")
  /\ bridge' = Posted(task[t].o)
  /\ GoOn(t)
  /\ UNCHANGED <<orderVars, moneyVars, inbox>>

\* handleBridgeLegFailure; a creation that has no order yet just fails.
LegFails(t) ==
  Goto(t, IF status[task[t].o] = "absent" THEN "idle"
          ELSE IF task[t].skip THEN "legFail" ELSE "legReturn")

LegPostFails(t) ==
  /\ At(t, "post")
  /\ \/ "refuse" \in Faults /\ UNCHANGED bridge
     \/ "lost" \in Faults /\ bridge' = Posted(task[t].o)
  /\ LegFails(t)
  /\ UNCHANGED <<orderVars, moneyVars, inbox>>

\* wallet_to_world without an address: the order is closed, the transfer not.
LegNoAddress(t) ==
  /\ "noAddress" \in Faults
  /\ At(t, "post")
  /\ flow[task[t].o] = "wallet_to_world"
  /\ bridge' = Posted(task[t].o)
  /\ Goto(t, IF task[t].skip THEN "idle" ELSE "legFail")
  /\ UNCHANGED <<orderVars, moneyVars, inbox>>

LegRecord(t) ==
  LET o == task[t].o IN
  /\ At(t, "record")
  /\ \/ row' = IF row[o] = "none" THEN [row EXCEPT ![o] = "pending"] ELSE row
     \/ "dbError" \in Faults /\ UNCHANGED row
  /\ GoOn(t)
  /\ UNCHANGED <<orderVars, credit, extra, freed, flagged, bridge, inbox>>

\* The UPDATE has no guard on the status; the index may stop it, and its
\* error is not looked at.
LegLink(t) ==
  LET o == task[t].o  f == flow[o] IN
  /\ At(t, "link")
  /\ \/ /\ ~Taken(o, f)
        /\ Write(o, "waiting_deposit")
        /\ link' = [link EXCEPT ![o] = f \notin Instructed]
        /\ deadline' = IF HasDeadline(f) THEN [deadline EXCEPT ![o] = "running"]
                                         ELSE deadline
     \/ /\ Taken(o, f) \/ "dbError" \in Faults
        /\ UNCHANGED <<status, link, deadline>>
  /\ GoOn(t)
  /\ UNCHANGED <<flow, closer, moneyVars, bridge, inbox>>

\* The pending credit of the on-ramp flows.
LegCredit(t) ==
  /\ At(t, "credit")
  /\ \/ credit' = [credit EXCEPT ![task[t].o] = "pending"]
     \/ "noCredit" \in Faults /\ UNCHANGED credit
  /\ Done(t)
  /\ UNCHANGED <<orderVars, row, extra, freed, flagged, bridge, inbox>>

\* Back to review under WHERE status = 'processing'; the index may stop it.
LegReturn(t) ==
  LET o == task[t].o IN
  /\ At(t, "legReturn")
  /\ IF status[o] = "processing" /\ ~Taken(o, flow[o])
     THEN Write(o, "pending_review") ELSE UNCHANGED status
  /\ Done(t)
  /\ UNCHANGED <<flow, link, deadline, closer, moneyVars, bridge, inbox>>

LegFail(t) ==
  /\ At(t, "legFail")
  /\ Write(task[t].o, "failed")
  /\ Done(t)
  /\ UNCHANGED <<flow, link, deadline, closer, moneyVars, bridge, inbox>>

(***************************************************************************)
(* Staff review: both decisions are compare-and-sets.                      *)
(***************************************************************************)
FirstLegPc(f) == IF f \in Instructed THEN "link" ELSE "post"
ApproveReview(t, o) ==
  /\ "approve" \in Ops
  /\ status[o] = "pending_review"
  /\ Write(o, "processing")
  /\ Begin(t, o, FirstLegPc(flow[o]))
  /\ UNCHANGED <<flow, link, deadline, closer, moneyVars, bridge, inbox>>

RejectReview(t, o) ==
  /\ "reject" \in Ops
  /\ status[o] = "pending_review"
  /\ Write(o, "failed")
  /\ Free(t, o)
  /\ UNCHANGED <<flow, link, deadline, closer, moneyVars, bridge, inbox, task>>

(***************************************************************************)
(* The deposit of a PSAV flow: the client uploads a proof, staff approve.  *)
(* confirmDeposit looks at no flow, approveOrder only at those of a PSAV.  *)
(***************************************************************************)
TimePasses(o) ==
  /\ deadline[o] = "running"
  /\ deadline' = [deadline EXCEPT ![o] = "due"]
  /\ UNCHANGED <<flow, status, link, closer, moneyVars, bridge, inbox, task>>

ConfirmRead(t, o) ==
  /\ "confirm" \in Ops
  /\ status[o] = "waiting_deposit"
  /\ deadline[o] # "due"
  /\ Begin(t, o, "confirm")
  /\ UNCHANGED <<orderVars, moneyVars, bridge, inbox>>

ConfirmWrite(t) ==
  LET o == task[t].o IN
  /\ At(t, "confirm")
  /\ IF status[o] = "waiting_deposit" THEN Write(o, "deposit_received")
                                      ELSE UNCHANGED status
  /\ Done(t)
  /\ UNCHANGED <<flow, link, deadline, closer, moneyVars, bridge, inbox>>

\* assertNoDepositAddressCollision, for bolivia_to_world.
SendTaken(o) ==
  \E p \in Orders \ {o} :
    /\ flow[p] = "bolivia_to_world" /\ link[p]
    /\ status[p] \in {"waiting_deposit", "deposit_received", "processing"}

ApproveDeposit(t, o) ==
  /\ "approve" \in Ops
  /\ status[o] = "deposit_received"
  /\ flow[o] \in PsavFlows
  /\ flow[o] = "bolivia_to_world" => ~SendTaken(o)
  /\ Write(o, "processing")
  /\ IF flow[o] = "bolivia_to_world" THEN Begin(t, o, "sendPost")
                                     ELSE Free(t, o) /\ UNCHANGED task
  /\ UNCHANGED <<flow, link, deadline, closer, moneyVars, bridge, inbox>>

\* createBoliviaToWorldTransfer
SendPost(t) ==
  /\ At(t, "sendPost")
  /\ bridge' = Posted(task[t].o)
  /\ Goto(t, "sendLink")
  /\ UNCHANGED <<orderVars, moneyVars, inbox>>

SendPostFails(t) ==
  /\ At(t, "sendPost")
  /\ \/ "refuse" \in Faults /\ UNCHANGED bridge
     \/ "lost" \in Faults /\ bridge' = Posted(task[t].o)
  /\ Goto(t, "sendUndo")
  /\ UNCHANGED <<orderVars, moneyVars, inbox>>

SendLink(t) ==
  /\ At(t, "sendLink")
  /\ \/ link' = [link EXCEPT ![task[t].o] = TRUE]
     \/ "dbError" \in Faults /\ UNCHANGED link
  /\ Goto(t, "sendRecord")
  /\ UNCHANGED <<flow, status, deadline, closer, moneyVars, bridge, inbox>>

SendRecord(t) ==
  LET o == task[t].o IN
  /\ At(t, "sendRecord")
  /\ \/ row' = IF row[o] = "none" THEN [row EXCEPT ![o] = "pending"] ELSE row
     \/ "dbError" \in Faults /\ UNCHANGED row
  /\ Done(t)
  /\ UNCHANGED <<orderVars, credit, extra, freed, flagged, bridge, inbox>>

\* The approval is undone, whatever the status is by then.
SendUndo(t) ==
  /\ At(t, "sendUndo")
  /\ Write(task[t].o, "deposit_received")
  /\ Done(t)
  /\ UNCHANGED <<flow, link, deadline, closer, moneyVars, bridge, inbox>>

\* markSent and completeOrder: read, then write without a guard.
Manual == {"world_to_bolivia", "wallet_to_wallet", "wallet_to_world"}
MarkSentRead(t, o) ==
  /\ "markSent" \in Ops
  /\ flow[o] \in Manual
  /\ status[o] = "processing"
  /\ Begin(t, o, "sent")
  /\ UNCHANGED <<orderVars, moneyVars, bridge, inbox>>
CompleteRead(t, o) ==
  /\ "complete" \in Ops
  /\ status[o] = "sent"
  /\ Begin(t, o, "complete")
  /\ UNCHANGED <<orderVars, moneyVars, bridge, inbox>>
ManualWrite(t) ==
  /\ At(t, "sent") \/ At(t, "complete")
  /\ Write(task[t].o, IF At(t, "sent") THEN "sent" ELSE "completed")
  /\ Done(t)
  /\ UNCHANGED <<flow, link, deadline, closer, moneyVars, bridge, inbox>>

(***************************************************************************)
(* Closing an order.  The client, the cron of overdue deposits and staff   *)
(* delete the transfer in Bridge first, where they do at all, then mark its*)
(* row, close the order with a compare-and-set on the status they read, and*)
(* void the pending credit.  failOrder does neither: no DELETE, no CAS.    *)
(***************************************************************************)
ClientCancellable(f) ==
  {"created", "waiting_deposit"}
    \cup (IF f \in CryptoIn THEN {"pending_review"} ELSE {})

\* Crypto flows ask Bridge first whether the funds are on their way.
ClientCancel(t, o) ==
  /\ "clientCancel" \in Ops
  /\ status[o] \in ClientCancellable(flow[o])
  /\ link[o] /\ flow[o] \in CryptoIn => bridge[o] = "awaiting"
  /\ BeginBy(t, o, IF link[o] THEN "delete" ELSE "close", "client")
  /\ UNCHANGED <<orderVars, moneyVars, bridge, inbox>>

StaffCancel(t, o) ==
  /\ "staffCancel" \in Ops
  /\ status[o] \in StaffCancellable
  /\ BeginBy(t, o, IF link[o] /\ flow[o] \in PsavFlows THEN "delete" ELSE "close",
             "staff")
  /\ UNCHANGED <<orderVars, moneyVars, bridge, inbox>>

\* expireOverdueDepositOrders
Expire(t, o) ==
  /\ "expire" \in Ops
  /\ status[o] = "waiting_deposit"
  /\ flow[o] \in PsavFlows
  /\ deadline[o] = "due"
  /\ BeginBy(t, o, IF link[o] THEN "delete" ELSE "close", "system")
  /\ UNCHANGED <<orderVars, moneyVars, bridge, inbox>>

Delete(t) ==
  LET o == task[t].o
      refused == IF task[t].by = "system" THEN "extend" ELSE "idle" IN
  /\ At(t, "delete")
  /\ IF bridge[o] = "awaiting"
     THEN /\ bridge' = [bridge EXCEPT ![o] = "deleted"]
          /\ \/ Goto(t, "rowOff")
             \/ "lost" \in Faults /\ Goto(t, refused)
     ELSE UNCHANGED bridge /\ Goto(t, refused)
  /\ UNCHANGED <<orderVars, moneyVars, inbox>>

RowOff(t) ==
  /\ At(t, "rowOff")
  /\ SetRow(task[t].o, "cancelled")
  /\ Goto(t, "close")
  /\ UNCHANGED <<orderVars, credit, extra, freed, flagged, bridge, inbox>>

\* The cron gives up on the deadline and leaves the order to staff.
Extend(t) ==
  LET o == task[t].o IN
  /\ At(t, "extend")
  /\ deadline' = IF status[o] = "waiting_deposit"
                 THEN [deadline EXCEPT ![o] = "none"] ELSE deadline
  /\ Done(t)
  /\ UNCHANGED <<flow, status, link, closer, moneyVars, bridge, inbox>>

\* Mutant: the order is closed without the WHERE on its status.
CloseAny(t) ==
  LET k == task[t] IN
  /\ At(t, "close")
  /\ Write(k.o, "cancelled")
  /\ closer' = [closer EXCEPT ![k.o] = k.by]
  /\ Goto(t, "void")
  /\ UNCHANGED <<flow, link, deadline, moneyVars, bridge, inbox>>
Close(t) ==
  LET k == task[t] IN
  /\ At(t, "close")
  /\ IF status[k.o] = k.seen
     THEN /\ Write(k.o, "cancelled")
          /\ closer' = [closer EXCEPT ![k.o] = k.by]
          /\ Goto(t, "void")
     ELSE UNCHANGED <<status, closer>> /\ Done(t)
  /\ UNCHANGED <<flow, link, deadline, moneyVars, bridge, inbox>>

FailRead(t, o) ==
  /\ "fail" \in Ops
  /\ status[o] \notin Terminal \cup {"absent"}
  /\ Begin(t, o, "fail")
  /\ UNCHANGED <<orderVars, moneyVars, bridge, inbox>>
FailWrite(t) ==
  /\ At(t, "fail")
  /\ Write(task[t].o, "failed")
  /\ Goto(t, "failVoid")
  /\ UNCHANGED <<flow, link, deadline, closer, moneyVars, bridge, inbox>>

Void(t) ==
  /\ At(t, "void") \/ At(t, "failVoid")
  /\ Leave(task[t].o, IF At(t, "void") THEN "reversed" ELSE "failed")
  /\ Done(t)
  /\ UNCHANGED <<orderVars, row, extra, freed, flagged, bridge, inbox>>

(***************************************************************************)
(* Bridge, external.  A transfer waits for funds, gets them, and delivers  *)
(* them, fails or returns them; one it delivered may come back.  It can be *)
(* deleted only while it waits.  Each outcome is announced by events that  *)
(* are handled up to Deliveries times.                                     *)
(***************************************************************************)
BridgeMoves(o, from, to, kind) ==
  /\ bridge[o] \in from
  /\ bridge' = [bridge EXCEPT ![o] = to]
  /\ inbox' = [inbox EXCEPT ![<<o, kind>>] = Deliveries[kind]]
  /\ UNCHANGED <<orderVars, moneyVars, task>>
FundsArrive(o) == "fund" \in Ops /\ BridgeMoves(o, {"awaiting"}, "funded", "received")
BridgeCompletes(o) ==
  "bridgeComplete" \in Ops /\ BridgeMoves(o, {"funded"}, "complete", "complete")
BridgeFails(o) ==
  "bridgeFail" \in Ops /\ BridgeMoves(o, {"funded"}, "failed", "failed")
BridgeRefunds(o) ==
  "bridgeRefund" \in Ops /\ BridgeMoves(o, {"complete"}, "refunded", "refunded")

\* A webhook of the order is taken from the queue.
Take(o, kind) ==
  /\ inbox[<<o, kind>>] > 0
  /\ "early" \in Faults \/ \A u \in Tasks : ~InLeg(u, o)
  /\ \/ "reorder" \in Faults
     \/ /\ kind # "received" => inbox[<<o, "received">>] = 0
        /\ kind = "refunded" => inbox[<<o, "complete">>] = 0
  /\ inbox' = [inbox EXCEPT ![<<o, kind>>] = @ - 1]

\* markOrderDepositReceived: one UPDATE, by link.
Received(t, o) ==
  /\ Take(o, "received")
  /\ Free(t, o)
  /\ IF link[o] /\ status[o] = "waiting_deposit" /\ flow[o] \in CryptoIn
     THEN Write(o, "deposit_received") ELSE UNCHANGED status
  /\ UNCHANGED <<flow, link, deadline, closer, moneyVars, bridge, task>>

(* transfer complete, payment_processed *)
CompleteStart(t, o) ==
  /\ Take(o, "complete")
  /\ SetRow(o, "completed")
  /\ Begin(t, o, "cLookup")
  /\ UNCHANGED <<orderVars, credit, extra, freed, flagged, bridge>>

Completable == {"pending_review", "waiting_deposit", "processing",
                "deposit_received"}
\* Mutant: the lookup leaves out the orders whose deposit was confirmed.
CompleteLookupNarrow(t) ==
  LET o == task[t].o
      found == link[o] /\ status[o] \in Completable \ {"deposit_received"} IN
  /\ At(t, "cLookup")
  /\ flagged' = IF link[o] /\ status[o] \in {"cancelled", "failed"}
                THEN [flagged EXCEPT ![o] = TRUE] ELSE flagged
  /\ Goto(t, IF found THEN "cMark" ELSE "idle")
  /\ UNCHANGED <<orderVars, row, credit, extra, freed, bridge, inbox>>
CompleteLookup(t) ==
  LET o == task[t].o  found == link[o] /\ status[o] \in Completable IN
  /\ At(t, "cLookup")
  /\ flagged' = IF link[o] /\ status[o] \in {"cancelled", "failed"}
                THEN [flagged EXCEPT ![o] = TRUE] ELSE flagged
  /\ Goto(t, IF found THEN "cMark" ELSE "idle")
  /\ UNCHANGED <<orderVars, row, credit, extra, freed, bridge, inbox>>

CompleteMark(t) ==
  /\ At(t, "cMark")
  /\ Write(task[t].o, "completed")
  /\ Goto(t, "cSettle")
  /\ UNCHANGED <<flow, link, deadline, closer, moneyVars, bridge, inbox>>

\* Mutant: the safety net does not look at what has been settled.
CompleteSettleTwice(t) ==
  LET o == task[t].o IN
  /\ At(t, "cSettle")
  /\ Leave(o, "settled")
  /\ Goto(t, IF flow[o] \in OnRamp THEN "cInsert" ELSE "idle")
  /\ UNCHANGED <<orderVars, row, extra, freed, flagged, bridge, inbox>>
\* Mutant: only the debits are settled, and there is no safety net.
CompleteSettleDebits(t) ==
  /\ At(t, "cSettle")
  /\ Done(t)
  /\ UNCHANGED <<orderVars, moneyVars, bridge, inbox>>
\* Settle what is pending; an on-ramp without a pending credit goes on to the
\* safety net.
CompleteSettle(t) ==
  LET o == task[t].o IN
  /\ At(t, "cSettle")
  /\ \/ /\ Leave(o, "settled")
        /\ Goto(t, IF credit[o] # "pending" /\ flow[o] \in OnRamp
                   THEN "cCount" ELSE "idle")
     \/ "dbError" \in Faults /\ UNCHANGED credit /\ Done(t)
  /\ UNCHANGED <<orderVars, row, extra, freed, flagged, bridge, inbox>>

Credits(o) == extra[o] + (IF credit[o] = "settled" THEN 1 ELSE 0)
CompleteCount(t) ==
  /\ At(t, "cCount")
  /\ Goto(t, IF Credits(task[t].o) > 0 THEN "idle" ELSE "cInsert")
  /\ UNCHANGED <<orderVars, moneyVars, bridge, inbox>>

CompleteInsert(t) ==
  /\ At(t, "cInsert")
  /\ \/ extra' = [extra EXCEPT ![task[t].o] = @ + 1]
     \/ "dbError" \in Faults /\ UNCHANGED extra
  /\ Done(t)
  /\ UNCHANGED <<orderVars, row, credit, freed, flagged, bridge, inbox>>

(* transfer failed, returned *)
\* Mutant: a failed transfer is dispatched to the handler of completions.
FailedDispatched(t, o) ==
  /\ Take(o, "failed")
  /\ Begin(t, o, "cLookup")
  /\ UNCHANGED <<orderVars, moneyVars, bridge>>
FailedStart(t, o) ==
  /\ Take(o, "failed")
  /\ IF row[o] = "completed" THEN Free(t, o) /\ UNCHANGED task
                             ELSE Begin(t, o, "fMark")
  /\ UNCHANGED <<orderVars, moneyVars, bridge>>

FailedMark(t) ==
  /\ At(t, "fMark")
  /\ SetRow(task[t].o, "failed")
  /\ Goto(t, "fLookup")
  /\ UNCHANGED <<orderVars, credit, extra, freed, flagged, bridge, inbox>>

Failable == {"pending_review", "processing", "created", "waiting_deposit"}
NoReservation == {"wallet_to_world", "bolivia_to_world",
                  "fiat_bo_to_bridge_wallet"}
FailedLookup(t) ==
  LET o == task[t].o
      found == link[o] /\ status[o] \in Failable
      release == row[o] # "none" /\ ~(found /\ flow[o] \in NoReservation) IN
  /\ At(t, "fLookup")
  /\ freed' = IF release THEN [freed EXCEPT ![o] = @ + 1] ELSE freed
  /\ Goto(t, IF found THEN "fOrder" ELSE "idle")
  /\ UNCHANGED <<orderVars, row, credit, extra, flagged, bridge, inbox>>

FailedOrder(t) ==
  /\ At(t, "fOrder")
  /\ Write(task[t].o, "failed")
  /\ Goto(t, "fVoid")
  /\ UNCHANGED <<flow, link, deadline, closer, moneyVars, bridge, inbox>>

FailedVoid(t) ==
  /\ At(t, "fVoid")
  /\ Leave(task[t].o, "failed")
  /\ Done(t)
  /\ UNCHANGED <<orderVars, row, extra, freed, flagged, bridge, inbox>>

(* transfer refunded: no credit is taken back for these flows *)
RefundedStart(t, o) ==
  /\ Take(o, "refunded")
  /\ SetRow(o, "refunded")
  /\ Begin(t, o, "rRead")
  /\ UNCHANGED <<orderVars, credit, extra, freed, flagged, bridge>>
RefundedRead(t) ==
  LET o == task[t].o IN
  /\ At(t, "rRead")
  /\ Goto(t, IF link[o] /\ status[o] # "refunded" THEN "rMark" ELSE "idle")
  /\ UNCHANGED <<orderVars, moneyVars, bridge, inbox>>
RefundedMark(t) ==
  /\ At(t, "rMark")
  /\ Write(task[t].o, "refunded")
  /\ Done(t)
  /\ UNCHANGED <<flow, link, deadline, closer, moneyVars, bridge, inbox>>

Crash ==
  /\ "crash" \in Faults
  /\ \E t \in Tasks : ~At(t, "idle")
  /\ task' = [t \in Tasks |-> Idle]
  /\ UNCHANGED <<orderVars, moneyVars, bridge, inbox>>

ClientStarts(t, o) ==
  \/ \E f \in Flows, skip \in BOOLEAN : Create(t, o, f, skip)
  \/ ConfirmRead(t, o)
  \/ ClientCancel(t, o)
StaffStarts(t, o) ==
  \/ ApproveReview(t, o) \/ RejectReview(t, o) \/ ApproveDeposit(t, o)
  \/ MarkSentRead(t, o) \/ CompleteRead(t, o) \/ FailRead(t, o)
  \/ StaffCancel(t, o)
WebhookStarts(t, o) ==
  \/ Received(t, o) \/ CompleteStart(t, o) \/ FailedStart(t, o)
  \/ RefundedStart(t, o)
Outside(o) ==
  \/ TimePasses(o) \/ FundsArrive(o)
  \/ BridgeCompletes(o) \/ BridgeFails(o) \/ BridgeRefunds(o)

LegStep(t) ==
  \/ Insert(t) \/ LegPost(t) \/ LegPostFails(t)
  \/ LegNoAddress(t) \/ LegRecord(t) \/ LegLink(t) \/ LegCredit(t)
  \/ LegReturn(t) \/ LegFail(t)
  \/ SendPost(t) \/ SendPostFails(t) \/ SendLink(t) \/ SendRecord(t)
  \/ SendUndo(t)
CloseStep(t) ==
  \/ ConfirmWrite(t) \/ ManualWrite(t)
  \/ Delete(t) \/ RowOff(t) \/ Extend(t) \/ Close(t) \/ FailWrite(t) \/ Void(t)
WebhookStep(t) ==
  \/ CompleteLookup(t) \/ CompleteMark(t) \/ CompleteSettle(t)
  \/ CompleteCount(t) \/ CompleteInsert(t)
  \/ FailedMark(t) \/ FailedLookup(t) \/ FailedOrder(t) \/ FailedVoid(t)
  \/ RefundedRead(t) \/ RefundedMark(t)
Step(t) == LegStep(t) \/ CloseStep(t) \/ WebhookStep(t)

Next ==
  \/ \E t \in Tasks : Step(t)
  \/ \E t \in Tasks, o \in Orders :
       \/ ClientStarts(t, o) \/ StaffStarts(t, o) \/ WebhookStarts(t, o)
       \/ Expire(t, o)
  \/ \E o \in Orders : Outside(o)
  \/ Crash

Spec == Init /\ [][Next]_vars

(***************************************************************************)
(* A live process finishes what is in flight, takes every event and runs   *)
(* its cron; nobody else has to act.  The fairness of the webhooks is      *)
(* strong because only the bound on Tasks, and the exclusion of a scenario *)
(* without "overlap", can keep an event waiting: the code never does.      *)
(***************************************************************************)
Fairness ==
  /\ \A t \in Tasks : WF_vars(Step(t))
  /\ \A o \in Orders : SF_vars(\E t \in Tasks : WebhookStarts(t, o))
  /\ \A o \in Orders : WF_vars(\E t \in Tasks : Expire(t, o))
FairSpec == Spec /\ Fairness

(***************************************************************************)
(* Properties.                                                             *)
(***************************************************************************)
Task == [pc : Pcs, o : Orders, seen : Statuses,
         by : {"none", "client", "staff", "system"}, skip : BOOLEAN]

TypeOK ==
  /\ flow \in [Orders -> AllFlows \cup {"none"}]
  /\ status \in [Orders -> Statuses]
  /\ link \in [Orders -> BOOLEAN]
  /\ deadline \in [Orders -> {"none", "running", "due"}]
  /\ closer \in [Orders -> {"none", "client", "staff", "system"}]
  /\ row \in [Orders -> RowStates]
  /\ credit \in [Orders -> EntryStates]
  /\ extra \in [Orders -> Nat]
  /\ freed \in [Orders -> Nat]
  /\ flagged \in [Orders -> BOOLEAN]
  /\ bridge \in [Orders -> BridgeStates]
  /\ inbox \in [Orders \X Kinds -> Nat]
  /\ task \in [Tasks -> Task]

\* A wallet is credited only with what Bridge delivered, by the leg's credit
\* or by the safety net, whatever races or is retried.
CreditedIsPaid ==
  \A o \in Orders : Credits(o) > 0 => bridge[o] \in Delivered

\* The leg's credit and the safety net of handleTransferComplete together
\* credit an order at most once.
CreditedOnce == \A o \in Orders : Credits(o) =< 1

Completing(o) == \E t \in Tasks : task[t].o = o /\ task[t].pc \in CompletePcs
\* An on-ramp order shown as completed has been credited, or is about to be.
CompletedIsCredited ==
  \A o \in Orders :
    status[o] = "completed" /\ flow[o] \in OnRamp /\ ~Completing(o)
      => Credits(o) > 0

\* The expiry cron never closes an order whose deposit was confirmed: "si el
\* cliente subio el comprobante justo antes, gana el".
ProofBeatsExpiry ==
  [][\A o \in Orders :
       status[o] = "deposit_received" /\ status'[o] = "cancelled"
         => closer'[o] # "system"]_vars

\* When the events of a delivered transfer have been handled, its order is
\* completed or staff were told that money arrived without an order.
DeliveryIsNoticed ==
  \A o \in Orders :
    bridge[o] = "complete" /\ link[o] /\ inbox[<<o, "complete">>] = 0
      /\ ~(\E t \in Tasks : task[t].o = o /\ task[t].pc # "idle")
      => status[o] = "completed" \/ flagged[o]

\* An order that its client or the cron closed leaves no transfer in Bridge
\* to which a deposit could still go.
ClosedHasNoTransfer ==
  \A o \in Orders :
    status[o] = "cancelled" /\ closer[o] \in {"client", "system"}
      => bridge[o] \in {"none", "deleted"}

\* What an order shows follows what became of its transfer, when calls and handlers do
\* not fail half way: delivered, it is noticed (handleTransferComplete); completed, it
\* is credited (its safety net); closed, nothing is left to deliver (cancelOrder,
\* expireUnpaidDeposits).
OrderFollowsTransfer == DeliveryIsNoticed /\ CompletedIsCredited /\ ClosedHasNoTransfer

\* A confirmed on-ramp order still has the transfer that will pay it.
ConfirmedHasTransfer ==
  \A o \in Orders :
    status[o] = "deposit_received" => bridge[o] # "deleted"

\* At one address at most one transfer waits for funds, or Bridge may give a
\* deposit to the wrong one (assertNoConflictingBridgeDepositOrder).
AddressUnambiguous ==
  \A o, p \in Orders :
    flow[o] = flow[p] /\ flow[o] \in AddressFlows
      /\ bridge[o] = "awaiting" /\ bridge[p] = "awaiting" => o = p

\* No deposit flow reserves anything, so a failed transfer has nothing to
\* release (handleTransferFailed: "liberar aqui le acreditaria al cliente un
\* saldo que nunca tuvo").
NothingToRelease == \A o \in Orders : freed[o] = 0

\* An on-ramp transfer that Bridge completed ends in a credit, unless its
\* order was closed by hand or the funds came back.
DeliveredIsCredited ==
  \A o \in Orders :
    (bridge[o] = "complete" /\ flow[o] \in OnRamp)
      ~> (Credits(o) > 0 \/ status[o] \in {"cancelled", "failed", "refunded"})
=============================================================================
