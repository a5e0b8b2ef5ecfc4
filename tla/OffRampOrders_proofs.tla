------------------------ MODULE OffRampOrders_proofs ------------------------
(***************************************************************************)
(* Proofs about OffRampOrders, for any set of orders and of tasks, any     *)
(* amounts and deposit, and whatever requests and faults a scenario has.   *)
(***************************************************************************)
EXTENDS OffRampMoney, SumTheorems, TLAPS

(***************************************************************************)
(* The values a program counter and a status may take.                     *)
(***************************************************************************)
LEMMA AllPcs ==
  {"idle", "reserve", "insert", "unreserve", "post", "link", "record", "debit",
   "legReturn", "legRelease", "legMark", "fail", "giveBack", "void",
   "releaseDebit", "refund", "sent", "complete", "cLookup", "cMark",
   "settleOrder", "settleXfer", "fMark", "fDebit", "fLookup", "fRelease",
   "fMarkOrder", "fReleaseOrder", "fDebitOrder", "rRead", "rCredit", "rMark"}
  \subseteq Pcs
BY DEF Pcs, CreatePcs, LegPcs, LegFailPcs, ClosePcs, StaffPcs, CompletePcs,
       FailedPcs, RefundedPcs

LEMMA AllStatuses ==
  {"created", "pending_review", "processing", "sent", "completed", "failed",
   "cancelled", "refunded"} \subseteq Statuses
BY DEF Statuses, Active, Terminal

(***************************************************************************)
(* Jobs and tasks.                                                         *)
(***************************************************************************)
\* A job built for an order carries that order and the pc it was given.
LEMMA CarryingType ==
  ASSUME NEW pc \in Pcs, NEW o \in Orders, NEW seen \in Statuses,
         NEW c \in BOOLEAN, NEW to \in {"none", "failed", "reversed"}
  PROVE  LET job == Carrying(pc, o, seen, c, to) IN
           job \in Task /\ job.pc = pc /\ job.o = o /\ job.to = to
BY DEF Carrying, Task

LEMMA JobType ==
  ASSUME NEW pc \in Pcs, NEW o \in Orders
  PROVE  /\ Job(pc, o) \in Task
         /\ Job(pc, o).pc = pc /\ Job(pc, o).o = o /\ ~Job(pc, o).skip
BY DEF Job, Carrying, Task, Statuses

LEMMA IdleType == Idle \in Task /\ Idle.pc = "idle"
<1>1. AnOrder \in Orders BY OrdersAssumption DEF AnOrder
<1>2. "idle" \in Pcs BY DEF Pcs
<1> QED BY <1>1, <1>2, JobType DEF Idle

\* What starting a job, moving on and ending do to the tasks.
LEMMA StartTask ==
  ASSUME TypeOK, NEW t \in Tasks, NEW job \in Task, Start(t, job)
  PROVE  /\ task' \in [Tasks -> Task]
         /\ task'[t] = job
         /\ \A u \in Tasks : u # t => task'[u] = task[u]
BY DEF Start, TypeOK

LEMMA GotoTask ==
  ASSUME TypeOK, NEW t \in Tasks, NEW pc \in Pcs, Goto(t, pc)
  PROVE  /\ task' \in [Tasks -> Task]
         /\ task'[t].pc = pc
         /\ task'[t].o = task[t].o
         /\ task'[t].skip = task[t].skip /\ task'[t].to = task[t].to
         /\ \A u \in Tasks : u # t => task'[u] = task[u]
<1>1. task[t] \in Task BY DEF TypeOK
<1>2. [task[t] EXCEPT !.pc = pc] \in Task BY <1>1 DEF Task
<1>3. task' = [task EXCEPT ![t] = [task[t] EXCEPT !.pc = pc]] BY DEF Goto
<1>4. task \in [Tasks -> Task] BY DEF TypeOK
<1> QED BY <1>1, <1>2, <1>3, <1>4 DEF Task

LEMMA DoneTask ==
  ASSUME TypeOK, NEW t \in Tasks, Done(t)
  PROVE  /\ task' \in [Tasks -> Task]
         /\ task'[t].pc = "idle"
         /\ \A u \in Tasks : u # t => task'[u] = task[u]
BY IdleType, StartTask DEF Done

LEMMA TaskFields ==
  ASSUME TypeOK, NEW t \in Tasks
  PROVE  /\ task[t] \in Task
         /\ task[t].o \in Orders /\ task[t].pc \in Pcs /\ task[t].skip \in BOOLEAN
         /\ task[t].seen \in Statuses /\ task[t].ctx \in BOOLEAN
         /\ task[t].to \in {"none", "failed", "reversed"}
BY DEF TypeOK, Task

\* A request begins on an order.
LEMMA BeginTask ==
  ASSUME TypeOK, NEW t \in Tasks, NEW o \in Orders, NEW pc \in Pcs, Begin(t, o, pc)
  PROVE  /\ task' \in [Tasks -> Task]
         /\ task'[t].pc = pc /\ task'[t].o = o
         /\ \A u \in Tasks : u # t => task'[u] = task[u]
BY JobType, StartTask DEF Begin

\* A decision of the staff begins on an order, carrying what it has read.
LEMMA CarryTask ==
  ASSUME TypeOK, NEW t \in Tasks, NEW o \in Orders, NEW pc \in Pcs,
         NEW seen \in Statuses, NEW to \in {"none", "failed", "reversed"},
         Start(t, Carrying(pc, o, seen, ctx[o], to))
  PROVE  /\ task' \in [Tasks -> Task]
         /\ task'[t].pc = pc /\ task'[t].o = o
         /\ \A u \in Tasks : u # t => task'[u] = task[u]
<1>1. ctx[o] \in BOOLEAN BY DEF TypeOK
<1> QED BY <1>1, CarryingType, StartTask

\* An order is closed by hand: the job goes to the reserve or to the ledger.
LEMMA CloseTask ==
  ASSUME TypeOK, NEW t \in Tasks, NEW o \in Orders, NEW seen \in Statuses,
         NEW c \in BOOLEAN, NEW to \in {"none", "failed", "reversed"},
         Close(t, o, seen, c, to)
  PROVE  /\ task' \in [Tasks -> Task]
         /\ task'[t].pc \in {"giveBack", "void"}
         /\ task'[t].o = o /\ task'[t].to = to
         /\ \A u \in Tasks : u # t => task'[u] = task[u]
<1>1. (IF seen = "pending_review" THEN "giveBack" ELSE "void") \in Pcs
  BY AllPcs
<1> QED BY <1>1, CarryingType, StartTask DEF Close

\* A webhook begins on an order.
LEMMA BeginWebhookTask ==
  ASSUME TypeOK, NEW t \in Tasks, NEW o \in Orders, NEW pc \in Pcs,
         BeginWebhook(t, o, pc)
  PROVE  /\ task' \in [Tasks -> Task]
         /\ task'[t].pc = pc /\ task'[t].o = o
         /\ \A u \in Tasks : u # t => task'[u] = task[u]
<1> DEFINE job == [Job(pc, o) EXCEPT !.row = RowFound(o)]
<1>1. RowFound(o) \in BOOLEAN BY DEF RowFound
<1>2. job \in Task /\ job.pc = pc /\ job.o = o BY <1>1, JobType DEF Task
<1>3. Start(t, job) BY DEF BeginWebhook
<1> HIDE DEF job
<1> QED BY <1>2, <1>3, StartTask

\* A creation begins on an order.
LEMMA CreateTask ==
  ASSUME TypeOK, NEW t \in Tasks, NEW o \in Orders, NEW skip \in BOOLEAN,
         CreateCheck(t, o, skip)
  PROVE  /\ task' \in [Tasks -> Task]
         /\ task'[t].pc = "reserve" /\ task'[t].o = o
         /\ \A u \in Tasks : u # t => task'[u] = task[u]
<1> DEFINE job == [Job("reserve", o) EXCEPT !.skip = skip]
<1>1. job \in Task /\ job.pc = "reserve" /\ job.o = o
  BY AllPcs, JobType DEF Task
<1>2. Start(t, job) BY DEF CreateCheck
<1> HIDE DEF job
<1> QED BY <1>1, <1>2, StartTask

\* The handler of a failed transfer records whether it found its row.
LEMMA FailedMarkTask ==
  ASSUME TypeOK, NEW t \in Tasks, FailedMark(t)
  PROVE  /\ task' \in [Tasks -> Task]
         /\ task'[t].pc \in {"fDebit", "fLookup"} /\ task'[t].o = task[t].o
         /\ \A u \in Tasks : u # t => task'[u] = task[u]
<1> DEFINE o == task[t].o
           found == RowFound(o)
           r1 == [task[t] EXCEPT !.row = found]
           next == IF found THEN "fDebit" ELSE "fLookup"
           r2 == [r1 EXCEPT !.pc = next]
<1>1. task[t] \in Task BY TaskFields
<1>2. found \in BOOLEAN /\ next \in Pcs BY AllPcs DEF RowFound
<1>3. task' = [task EXCEPT ![t] = r2] BY DEF FailedMark
<1>4. next \in {"fDebit", "fLookup"} OBVIOUS
<1> HIDE DEF found, next
<1>5. r1 \in Task /\ r1.o = o BY <1>1, <1>2 DEF Task
<1> HIDE DEF r1
<1>6. r2 \in Task /\ r2.o = o /\ r2.pc = next BY <1>2, <1>5 DEF Task
<1> HIDE DEF r2
<1> QED BY <1>3, <1>4, <1>6 DEF TypeOK

\* It then looks for an order, and ends when it finds neither.
LEMMA FailedLookupTask ==
  ASSUME TypeOK, NEW t \in Tasks, FailedLookup(t)
  PROVE  /\ task' \in [Tasks -> Task]
         /\ \/ task'[t].pc = "idle"
            \/ /\ task'[t].pc \in {"fRelease", "fMarkOrder"}
               /\ task'[t].o = task[t].o
         /\ \A u \in Tasks : u # t => task'[u] = task[u]
<1> DEFINE o == task[t].o
           found == FailableFound(o)
           generic == task[t].row /\ ~(found /\ OffRampWallet(o))
           next == IF generic THEN "fRelease" ELSE "fMarkOrder"
           to == IF found THEN "failed" ELSE "none"
           r1 == [task[t] EXCEPT !.pc = next]
           r2 == [r1 EXCEPT !.to = to]
<1>1. CASE Done(t) BY <1>1, DoneTask
<1>2. CASE task' = [task EXCEPT ![t] = r2]
  <2>1. task[t] \in Task BY TaskFields
  <2>2. next \in Pcs /\ next \in {"fRelease", "fMarkOrder"} BY AllPcs
  <2>3. to \in {"none", "failed", "reversed"} OBVIOUS
  <2> HIDE DEF next, to
  <2>4. r1 \in Task /\ r1.o = o /\ r1.pc = next BY <2>1, <2>2 DEF Task
  <2> HIDE DEF r1
  <2>5. r2 \in Task /\ r2.o = o /\ r2.pc = next BY <2>3, <2>4 DEF Task
  <2> HIDE DEF r2
  <2> QED BY <1>2, <2>2, <2>5 DEF TypeOK
<1> QED BY <1>1, <1>2 DEF FailedLookup

(***************************************************************************)
(* The balance: neither part can go below zero, and the parts together     *)
(* never promise less than the row amounts to.                             *)
(***************************************************************************)
\* The trigger keeps the row well formed when the CHECK lets it through.
LEMMA PostedType ==
  ASSUME NEW b \in Balance, NEW d \in Int, Postable(b, d)
  PROVE  Posted(b, d) \in Balance
BY DEF Balance, Posted, Postable, AtLeast, AtMost

\* A credit always gets through.
LEMMA CreditPostable ==
  ASSUME NEW b \in Balance, NEW d \in Nat
  PROVE  Postable(b, d)
BY DEF Balance, Posted, Postable, AtLeast, AtMost

LEMMA ReservedType ==
  ASSUME NEW b \in Balance, NEW amt \in Nat
  PROVE  Reserved(b, amt) \in Balance
BY DEF Balance, Reserved, Freed

LEMMA ReleasesType ==
  ASSUME NEW b \in Balance, NEW amt \in Nat
  PROVE  Releases(b, amt) \subseteq Balance
BY DEF Balance, Releases, Freed

(***************************************************************************)
(* Type correctness.                                                       *)
(***************************************************************************)
LEMMA WriteType ==
  ASSUME TypeOK, NEW o \in Orders, NEW s \in Statuses, Write(o, s)
  PROVE  /\ status' \in [Orders -> Statuses] /\ status'[o] = s
         /\ \A p \in Orders : p # o => status'[p] = status[p]
BY DEF TypeOK, Write

LEMMA LeaveType ==
  ASSUME TypeOK, NEW o \in Orders, NEW s \in EntryStates, Leave(o, s)
  PROVE  debit' \in [Orders -> EntryStates]
BY DEF TypeOK, Leave

LEMMA ReleaseType ==
  ASSUME TypeOK, NEW o \in Orders, Release(o)
  PROVE  bal' \in Balance /\ released' \in [Orders -> Nat]
<1>1. Amount[o] \in Nat BY AmountAssumption
<1> QED BY <1>1, ReleasesType DEF TypeOK, Release

LEMMA CreditType ==
  ASSUME TypeOK, NEW o \in Orders, Credit(o)
  PROVE  bal' \in Balance /\ credits' \in [Orders -> Nat]
<1>1. Amount[o] \in Nat BY AmountAssumption
<1>2. EntryDiff("credit", "none", "settled", Amount[o]) = Amount[o]
  BY DEF EntryDiff, Signed
<1>3. bal \in Balance BY DEF TypeOK
<1>4. bal' \in Balance BY <1>1, <1>2, <1>3, CreditPostable, PostedType DEF Credit
<1> QED BY <1>4 DEF TypeOK, Credit

LEMMA SettleType ==
  ASSUME TypeOK, NEW o \in Orders, SettleDebit(o)
  PROVE  bal' \in Balance /\ debit' \in [Orders -> EntryStates]
<1>1. Amount[o] \in Nat BY AmountAssumption
<1>2. SettleDiff(o) \in Int BY <1>1 DEF SettleDiff, EntryDiff, Signed
<1>3. bal \in Balance BY DEF TypeOK
<1>4. bal' \in Balance
  BY <1>2, <1>3, PostedType DEF SettleDebit, SettleFits
<1>5. debit' \in [Orders -> EntryStates]
  BY LeaveType DEF SettleDebit, EntryStates
<1> QED BY <1>4, <1>5

LEMMA SetRowType ==
  ASSUME TypeOK, NEW o \in Orders, NEW s \in RowStates, SetRow(o, s)
  PROVE  row' \in [Orders -> RowStates]
BY DEF TypeOK, SetRow

\* A webhook takes one delivery of one event.
LEMMA TakeInbox ==
  ASSUME TypeOK, NEW o \in Orders, NEW kind \in Kinds, Take(o, kind)
  PROVE  /\ inbox' \in [Orders \X Kinds -> Nat]
         /\ inbox[<<o, kind>>] > 0
         /\ \A e \in Orders \X Kinds : inbox'[e] =< inbox[e]
<1>1. <<o, kind>> \in Orders \X Kinds OBVIOUS
<1>2. inbox \in [Orders \X Kinds -> Nat] BY DEF TypeOK
<1>3. inbox[<<o, kind>>] \in Nat BY <1>1, <1>2
<1>4. inbox[<<o, kind>>] > 0 BY DEF Take
<1>5. inbox' = [inbox EXCEPT ![<<o, kind>>] = inbox[<<o, kind>>] - 1] BY DEF Take
<1>6. inbox[<<o, kind>>] - 1 \in Nat BY <1>3, <1>4
<1>7. inbox' \in [Orders \X Kinds -> Nat] BY <1>2, <1>5, <1>6
<1>8. \A e \in Orders \X Kinds : inbox'[e] =< inbox[e] BY <1>1, <1>2, <1>3, <1>5
<1> QED BY <1>4, <1>7, <1>8

\* The steps of a creation.
LEMMA CreateStepType ==
  ASSUME TypeOK, NEW t \in Tasks, CreateStep(t)
  PROVE  TypeOK'
<1> USE AllPcs, AllStatuses, TaskFields
<1>1. CASE CreateReserve(t)
  BY <1>1, GotoTask, AmountAssumption, ReservedType
  DEF CreateReserve, TypeOK, orderVars, ledgerVars
<1>2. CASE CreateInsert(t)
  BY <1>2, GotoTask, DoneTask, WriteType
  DEF CreateInsert, TypeOK, orderVars, ledgerVars
<1>3. CASE CreateConflict(t)
  BY <1>3, GotoTask
  DEF CreateConflict, TypeOK, orderVars, ledgerVars
<1>4. CASE CreateUnreserve(t)
  BY <1>4, DoneTask, AmountAssumption, ReleasesType
  DEF CreateUnreserve, TypeOK, orderVars, ledgerVars
<1> QED BY <1>1, <1>2, <1>3, <1>4 DEF CreateStep

\* The steps of the Bridge leg.
LEMMA LegStepType ==
  ASSUME TypeOK, NEW t \in Tasks, LegStep(t)
  PROVE  TypeOK'
<1> USE AllPcs, AllStatuses, TaskFields
<1>1. CASE LegPost(t)
  BY <1>1, GotoTask
  DEF LegPost, BridgeStates, TypeOK, orderVars, ledgerVars
<1>2. CASE LegRejected(t)
  BY <1>2, GotoTask
  DEF LegRejected, LegFails, TypeOK, orderVars, ledgerVars
<1>3. CASE LegTimeout(t)
  BY <1>3, GotoTask
  DEF LegTimeout, BridgeStates, LegFails, TypeOK, orderVars, ledgerVars
<1>4. CASE LegLink(t)
  BY <1>4, GotoTask, WriteType
  DEF LegLink, TypeOK, orderVars, ledgerVars
<1>5. CASE LegRecord(t)
  BY <1>5, GotoTask
  DEF LegRecord, RowStates, TypeOK, orderVars, ledgerVars
<1>6. CASE LegDebit(t)
  BY <1>6, DoneTask
  DEF LegDebit, EntryStates, TypeOK, orderVars, ledgerVars
<1>7. CASE LegReturn(t)
  BY <1>7, DoneTask, WriteType
  DEF LegReturn, TypeOK, orderVars, ledgerVars
<1>8. CASE LegRelease(t)
  BY <1>8, GotoTask, ReleaseType
  DEF LegRelease, TypeOK, orderVars, ledgerVars
<1>9. CASE LegMark(t)
  BY <1>9, DoneTask, WriteType
  DEF LegMark, TypeOK, orderVars, ledgerVars
<1> QED BY <1>1, <1>2, <1>3, <1>4, <1>5, <1>6, <1>7, <1>8, <1>9 DEF LegStep

\* The steps of closing an order by hand.
LEMMA CloseStepType ==
  ASSUME TypeOK, NEW t \in Tasks, CloseStep(t)
  PROVE  TypeOK'
<1> USE AllPcs, AllStatuses, TaskFields
<1>1. CASE FailWrite(t)
  BY <1>1, WriteType, CloseTask
  DEF FailWrite, TypeOK, orderVars, ledgerVars
<1>2. CASE GiveBack(t)
  BY <1>2, GotoTask, DoneTask, ReleaseType
  DEF GiveBack, TypeOK, orderVars, ledgerVars
<1>3. CASE Void(t)
  BY <1>3, GotoTask, LeaveType
  DEF Void, EntryStates, TypeOK, orderVars, ledgerVars
<1>4. CASE ReleaseDebit(t)
  BY <1>4, GotoTask, ReleaseType
  DEF ReleaseDebit, TypeOK, orderVars, ledgerVars
<1>5. CASE Refund(t)
  BY <1>5, DoneTask, CreditType
  DEF Refund, TypeOK, orderVars, ledgerVars
<1>6. CASE MarkSentWrite(t)
  BY <1>6, DoneTask, WriteType
  DEF MarkSentWrite, TypeOK, orderVars, ledgerVars
<1>7. CASE CompleteWrite(t)
  BY <1>7, DoneTask, WriteType
  DEF CompleteWrite, TypeOK, orderVars, ledgerVars
<1> QED BY <1>1, <1>2, <1>3, <1>4, <1>5, <1>6, <1>7 DEF CloseStep

\* The steps of the handlers of Bridge events.
LEMMA WebhookStepType ==
  ASSUME TypeOK, NEW t \in Tasks, WebhookStep(t)
  PROVE  TypeOK'
<1> USE AllPcs, AllStatuses, TaskFields
<1>1. CASE CompleteLookup(t)
  BY <1>1, GotoTask, DoneTask
  DEF CompleteLookup, AfterOrder, TypeOK, orderVars, ledgerVars
<1>2. CASE CompleteMark(t)
  BY <1>2, GotoTask, WriteType
  DEF CompleteMark, TypeOK, orderVars, ledgerVars
<1>3. CASE SettleOrder(t)
  BY <1>3, GotoTask, DoneTask, SettleType
  DEF SettleOrder, AfterOrder, TypeOK, orderVars, ledgerVars
<1>4. CASE SettleTransfer(t)
  BY <1>4, DoneTask, SettleType
  DEF SettleTransfer, TypeOK, orderVars, ledgerVars
<1>5. CASE SettleThrows(t)
  BY <1>5, DoneTask
  DEF SettleThrows, TypeOK, orderVars, ledgerVars
<1>6. CASE FailedMark(t)
  BY <1>6, SetRowType, FailedMarkTask
  DEF FailedMark, RowStates, TypeOK, orderVars, ledgerVars
<1>7. CASE FailedDebit(t)
  BY <1>7, GotoTask, LeaveType
  DEF FailedDebit, EntryStates, TypeOK, orderVars, ledgerVars
<1>8. CASE FailedLookup(t)
  BY <1>8, FailedLookupTask
  DEF FailedLookup, TypeOK, orderVars, ledgerVars
<1>9. CASE FailedRelease(t)
  BY <1>9, GotoTask, DoneTask, ReleaseType
  DEF FailedRelease, TypeOK, orderVars, ledgerVars
<1>10. CASE FailedMarkOrder(t)
  BY <1>10, GotoTask, WriteType
  DEF FailedMarkOrder, TypeOK, orderVars, ledgerVars
<1>11. CASE FailedReleaseOrder(t)
  BY <1>11, GotoTask, ReleaseType
  DEF FailedReleaseOrder, TypeOK, orderVars, ledgerVars
<1>12. CASE FailedDebitOrder(t)
  BY <1>12, DoneTask, LeaveType
  DEF FailedDebitOrder, EntryStates, TypeOK, orderVars, ledgerVars
<1>13. CASE RefundedRead(t)
  BY <1>13, GotoTask, DoneTask
  DEF RefundedRead, TypeOK, orderVars, ledgerVars
<1>14. CASE RefundedCredit(t)
  BY <1>14, GotoTask, CreditType
  DEF RefundedCredit, TypeOK, orderVars, ledgerVars
<1>15. CASE RefundedMark(t)
  BY <1>15, DoneTask, WriteType
  DEF RefundedMark, TypeOK, orderVars, ledgerVars
<1> QED
  BY <1>1, <1>2, <1>3, <1>4, <1>5, <1>6, <1>7, <1>8, <1>9, <1>10, <1>11, <1>12, <1>13,
    <1>14, <1>15 DEF WebhookStep

\* The requests of the client.
LEMMA ClientStartsType ==
  ASSUME TypeOK, NEW t \in Tasks, NEW o \in Orders, ClientStarts(t, o)
  PROVE  TypeOK'
<1> USE AllPcs, AllStatuses, TaskFields
<1>1. CASE \E skip \in BOOLEAN : CreateCheck(t, o, skip)
  BY <1>1, CreateTask
  DEF CreateCheck, TypeOK, orderVars, ledgerVars
<1>2. CASE ClientCancel(t, o)
  BY <1>2, WriteType, CloseTask
  DEF ClientCancel, TypeOK, orderVars, ledgerVars
<1> QED BY <1>1, <1>2 DEF ClientStarts

\* The requests of the staff.
LEMMA StaffStartsType ==
  ASSUME TypeOK, NEW t \in Tasks, NEW o \in Orders, StaffStarts(t, o)
  PROVE  TypeOK'
<1> USE AllPcs, AllStatuses, TaskFields
<1>1. CASE Approve(t, o)
  BY <1>1, WriteType, JobType, StartTask
  DEF Approve, TypeOK, orderVars, ledgerVars
<1>2. CASE Reject(t, o)
  BY <1>2, WriteType, CarryTask
  DEF Reject, TypeOK, orderVars, ledgerVars
<1>3. CASE \E refund \in BOOLEAN : StaffCancel(t, o, refund)
  BY <1>3, WriteType, CloseTask
  DEF StaffCancel, TypeOK, orderVars, ledgerVars
<1>4. CASE FailRead(t, o)
  BY <1>4, CarryTask
  DEF FailRead, TypeOK, orderVars, ledgerVars
<1>5. CASE MarkSentRead(t, o)
  BY <1>5, BeginTask
  DEF MarkSentRead, TypeOK, orderVars, ledgerVars
<1>6. CASE CompleteRead(t, o)
  BY <1>6, BeginTask
  DEF CompleteRead, TypeOK, orderVars, ledgerVars
<1> QED BY <1>1, <1>2, <1>3, <1>4, <1>5, <1>6 DEF StaffStarts

\* The arrival of a Bridge event.
LEMMA WebhookStartsType ==
  ASSUME TypeOK, NEW t \in Tasks, NEW o \in Orders, WebhookStarts(t, o)
  PROVE  TypeOK'
<1> USE AllPcs, AllStatuses, TaskFields
<1>1. CASE CompleteStart(t, o)
  BY <1>1, SetRowType, TakeInbox, BeginWebhookTask
  DEF CompleteStart, Kinds, RowStates, TypeOK, orderVars, ledgerVars
<1>2. CASE FailedStart(t, o)
  BY <1>2, TakeInbox, BeginWebhookTask
  DEF FailedStart, Kinds, TypeOK, orderVars, ledgerVars
<1>3. CASE RefundedStart(t, o)
  BY <1>3, SetRowType, TakeInbox, BeginWebhookTask
  DEF RefundedStart, Kinds, RowStates, TypeOK, orderVars, ledgerVars
<1> QED BY <1>1, <1>2, <1>3 DEF WebhookStarts

\* What Bridge does on its own.
LEMMA BridgeStepsType ==
  ASSUME TypeOK, NEW o \in Orders, BridgeSteps(o)
  PROVE  TypeOK'
<1> USE AllPcs, AllStatuses, TaskFields
<1>1. CASE BridgeCompletes(o)
  BY <1>1, DeliveriesAssumption
  DEF BridgeCompletes, BridgeMoves, BridgeStates, Kinds, TypeOK, orderVars, ledgerVars
<1>2. CASE BridgeFails(o)
  BY <1>2, DeliveriesAssumption
  DEF BridgeFails, BridgeMoves, BridgeStates, Kinds, TypeOK, orderVars, ledgerVars
<1>3. CASE BridgeRefunds(o)
  BY <1>3, DeliveriesAssumption
  DEF BridgeRefunds, BridgeMoves, BridgeStates, Kinds, TypeOK, orderVars, ledgerVars
<1>4. CASE BridgeReturns(o)
  BY <1>4, DeliveriesAssumption
  DEF BridgeReturns, BridgeMoves, BridgeStates, Kinds, TypeOK, orderVars, ledgerVars
<1> QED BY <1>1, <1>2, <1>3, <1>4 DEF BridgeSteps

LEMMA InitType == Init => TypeOK
BY IdleType, DepositAssumption
DEF Init, TypeOK, Statuses, RowStates, EntryStates, BridgeStates, Balance

LEMMA NextKeepsType ==
  ASSUME TypeOK, [Next]_vars
  PROVE  TypeOK'
<1>1. CASE \E t \in Tasks : Step(t)
  BY <1>1, CreateStepType, LegStepType, CloseStepType, WebhookStepType DEF Step
<1>2. CASE \E t \in Tasks, o \in Orders :
             ClientStarts(t, o) \/ StaffStarts(t, o) \/ WebhookStarts(t, o)
  BY <1>2, ClientStartsType, StaffStartsType, WebhookStartsType
<1>3. CASE \E o \in Orders : BridgeSteps(o)
  BY <1>3, BridgeStepsType
<1>4. CASE Crash
  BY <1>4, IdleType DEF Crash, TypeOK, orderVars, ledgerVars
<1>5. CASE UNCHANGED vars
  BY <1>5 DEF vars, TypeOK
<1> QED BY <1>1, <1>2, <1>3, <1>4, <1>5 DEF Next

\* Every reachable state is well typed (OffRampOrders!TypeOK): no statement
\* leaves a status, an entry or a part of the balance outside its column.
THEOREM TypeCorrect == Spec => []TypeOK
<1>1. TypeOK /\ [Next]_vars => TypeOK' BY NextKeepsType
<1> QED BY <1>1, InitType, PTL DEF Spec

(***************************************************************************)
(* The inductive invariant LegInv.  Most steps of the system are calm: a   *)
(* task that is neither creating an order nor executing its leg moves on,  *)
(* and the order stays out of review.                                      *)
(***************************************************************************)
Outside == Pcs \ (CreatePcs \cup LegPcs \cup LegFailPcs)

ChargeConcludes ==
  \E o \in Orders, s \in {"settled", "failed", "reversed"} :
    /\ debit[o] = "pending"
    /\ s = "settled" => bridge[o] \in Paid
    /\ debit' = [debit EXCEPT ![o] = s]

CalmOrders ==
  /\ \A o \in Orders :
       \/ status'[o] = status[o]
       \/ status[o] # "absent" /\ status'[o] \notin {"absent", "pending_review"}
  /\ \A o \in Orders : row[o] = "none" => row'[o] = "none"
  /\ UNCHANGED debit \/ ChargeConcludes
  /\ \A e \in Orders \X Kinds : inbox'[e] =< inbox[e]
  /\ UNCHANGED <<ctx, link, bridge>>

CalmTask(t) ==
  /\ \A u \in Tasks : u # t => task'[u] = task[u]
  /\ task[t].pc \in Outside /\ task'[t].pc \in Outside
  /\ task'[t].pc # "idle" => status[task'[t].o] # "absent"
  /\ task'[t].pc \in CompletePcs => bridge[task'[t].o] \in Paid
  /\ task'[t].pc = "void" => task'[t].to # "none"

\* What is outside, in and before a leg does not overlap.
LEMMA PcsApart ==
  /\ Outside \cap (CreatePcs \cup LegPcs \cup LegFailPcs) = {}
  /\ CompletePcs \subseteq Outside
  /\ "idle" \in Outside \ CompletePcs
  /\ "void" \in Outside \ CompletePcs
  /\ CreatePcs \cap (LegPcs \cup LegFailPcs \cup CompletePcs \cup {"idle", "void"}) = {}
  /\ (LegPcs \cup LegFailPcs) \cap (CompletePcs \cup {"idle", "void"}) = {}
BY DEF Outside, Pcs, CreatePcs, LegPcs, LegFailPcs, ClosePcs, StaffPcs,
       CompletePcs, FailedPcs, RefundedPcs

LEMMA CalmKeepsInv ==
  ASSUME LegInv, TypeOK', NEW t \in Tasks, CalmTask(t), CalmOrders
  PROVE  LegInv'
<1> USE PcsApart, TaskFields DEF LegInv, CalmTask, CalmOrders
<1>1. \A o \in Orders : debit[o] = "none" => debit'[o] = "none"
  BY DEF ChargeConcludes, TypeOK
<1>2. LegExclusive' BY DEF LegExclusive, InLeg
<1>3. ReviewIsBeforeLeg'
  BY <1>1 DEF ReviewIsBeforeLeg, TypeOK
<1>4. LegStages'
  <2> SUFFICES ASSUME NEW u \in Tasks, task'[u].pc \in LegPcs \cup LegFailPcs
               PROVE  /\ task'[u] = task[u]
                      /\ task[u].o \in Orders
                      /\ row[task[u].o] = "none" => row'[task[u].o] = "none"
                      /\ debit[task[u].o] = "none" => debit'[task[u].o] = "none"
    BY DEF LegStages, LegStage, LegFailPcs, LegPcs
  <2> QED BY <1>1
<1>5. CreateAlone' BY DEF CreateAlone, Creates
<1>6. AbsentIsBlank'
  BY <1>1 DEF AbsentIsBlank, TypeOK
<1>7. WorkIsOnOrders'
  <2> SUFFICES ASSUME NEW u \in Tasks, task'[u].pc \notin CreatePcs \cup {"idle"}
               PROVE  status'[task'[u].o] # "absent"
    BY DEF WorkIsOnOrders
  <2>1. task'[u].o \in Orders BY DEF TypeOK, Task
  <2>2. CASE u = t BY <2>1, <2>2
  <2>3. CASE u # t BY <2>1, <2>3 DEF WorkIsOnOrders
  <2> QED BY <2>2, <2>3
<1>8. CompletionsArePaid' BY DEF CompletionsArePaid, TypeOK, Kinds
<1>9. SettledMeansCompleted'
  BY DEF SettledMeansCompleted, ChargeConcludes, TypeOK
<1>10. VoidHasReason' BY DEF VoidHasReason
<1> QED BY <1>2, <1>3, <1>4, <1>5, <1>6, <1>7, <1>8, <1>9, <1>10

LEMMA LeaveConcludes ==
  ASSUME TypeOK, NEW o \in Orders, NEW s \in {"failed", "reversed"}, Leave(o, s)
  PROVE  UNCHANGED debit \/ ChargeConcludes
BY DEF Leave, ChargeConcludes

LEMMA SettleConcludes ==
  ASSUME TypeOK, NEW o \in Orders, bridge[o] \in Paid, SettleDebit(o)
  PROVE  UNCHANGED debit \/ ChargeConcludes
BY DEF SettleDebit, Leave, ChargeConcludes

LEMMA SetRowCalm ==
  ASSUME TypeOK, NEW o \in Orders, NEW s \in RowStates, SetRow(o, s)
  PROVE  \A p \in Orders : row[p] = "none" => row'[p] = "none"
BY DEF SetRow, TypeOK

LEMMA OutsidePcs ==
  {"idle", "fail", "giveBack", "void", "releaseDebit", "refund", "sent",
   "complete", "cLookup", "cMark", "settleOrder", "settleXfer", "fMark",
   "fDebit", "fLookup", "fRelease", "fMarkOrder", "fReleaseOrder",
   "fDebitOrder", "rRead", "rCredit", "rMark"} \subseteq Outside
BY AllPcs DEF Outside, CreatePcs, LegPcs, LegFailPcs

\* A task at work is on an order that exists; an empty inbox bounds itself.
LEMMA InvFacts ==
  ASSUME LegInv
  PROVE  /\ TypeOK
         /\ \A t \in Tasks :
              task[t].pc \in Outside \ {"idle"} => status[task[t].o] # "absent"
         /\ \A t \in Tasks :
              task[t].pc \in CompletePcs => bridge[task[t].o] \in Paid
         /\ \A t \in Tasks : task[t].pc = "void" => task[t].to # "none"
         /\ \A e \in Orders \X Kinds : inbox[e] =< inbox[e]
         /\ \A o \in Orders, k \in Kinds :
              inbox[<<o, k>>] > 0 => status[o] # "absent"
         /\ \A o \in Orders : inbox[<<o, "complete">>] > 0 => bridge[o] \in Paid
<1> USE DEF LegInv
<1>1. \A t \in Tasks :
        task[t].pc \in Outside \ {"idle"} => status[task[t].o] # "absent"
  BY DEF WorkIsOnOrders, Outside
<1>2. \A e \in Orders \X Kinds : inbox[e] =< inbox[e] BY DEF TypeOK
<1>3. \A o \in Orders, k \in Kinds :
        inbox[<<o, k>>] > 0 => status[o] # "absent"
  BY DEF AbsentIsBlank
<1> QED BY <1>1, <1>2, <1>3 DEF CompletionsArePaid, VoidHasReason

\* Closing an order by hand.
LEMMA CloseStepCalm ==
  ASSUME LegInv, NEW t \in Tasks, CloseStep(t)
  PROVE  CalmTask(t) /\ CalmOrders
<1> USE OutsidePcs, AllPcs, AllStatuses, TaskFields, InvFacts DEF CompletePcs
<1>1. CASE FailWrite(t)
  BY <1>1, WriteType, CloseTask
  DEF FailWrite, CalmTask, CalmOrders, At, orderVars, ledgerVars
<1>2. CASE GiveBack(t)
  BY <1>2, GotoTask, DoneTask
  DEF GiveBack, CalmTask, CalmOrders, At, orderVars, ledgerVars
<1>3. CASE Void(t)
  BY <1>3, GotoTask, LeaveConcludes
  DEF Void, CalmTask, CalmOrders, At, orderVars, ledgerVars
<1>4. CASE ReleaseDebit(t)
  BY <1>4, GotoTask
  DEF ReleaseDebit, CalmTask, CalmOrders, At, orderVars, ledgerVars
<1>5. CASE Refund(t)
  BY <1>5, DoneTask
  DEF Refund, CalmTask, CalmOrders, At, orderVars, ledgerVars
<1>6. CASE MarkSentWrite(t)
  BY <1>6, DoneTask, WriteType
  DEF MarkSentWrite, CalmTask, CalmOrders, At, orderVars, ledgerVars
<1>7. CASE CompleteWrite(t)
  BY <1>7, DoneTask, WriteType
  DEF CompleteWrite, CalmTask, CalmOrders, At, orderVars, ledgerVars
<1> QED BY <1>1, <1>2, <1>3, <1>4, <1>5, <1>6, <1>7 DEF CloseStep

\* Handling a Bridge event.
LEMMA WebhookStepCalm ==
  ASSUME LegInv, NEW t \in Tasks, WebhookStep(t)
  PROVE  CalmTask(t) /\ CalmOrders
<1> USE OutsidePcs, AllPcs, AllStatuses, TaskFields, InvFacts DEF CompletePcs
<1>1. CASE CompleteLookup(t)
  BY <1>1, GotoTask, DoneTask
  DEF CompleteLookup, CalmTask, CalmOrders, AfterOrder, At, orderVars, ledgerVars
<1>2. CASE CompleteMark(t)
  BY <1>2, GotoTask, WriteType
  DEF CompleteMark, CalmTask, CalmOrders, At, orderVars, ledgerVars
<1>3. CASE SettleOrder(t)
  BY <1>3, GotoTask, DoneTask, SettleConcludes
  DEF SettleOrder, CalmTask, CalmOrders, AfterOrder, At, orderVars, ledgerVars
<1>4. CASE SettleTransfer(t)
  BY <1>4, DoneTask, SettleConcludes
  DEF SettleTransfer, CalmTask, CalmOrders, At, orderVars, ledgerVars
<1>5. CASE SettleThrows(t)
  BY <1>5, DoneTask
  DEF SettleThrows, CalmTask, CalmOrders, At, orderVars, ledgerVars
<1>6. CASE FailedMark(t)
  <2>1. At(t, "fMark") /\ SetRow(task[t].o, "failed") BY <1>6 DEF FailedMark
  <2>2. UNCHANGED <<status, ctx, link, debit, bridge, inbox>>
    BY <1>6 DEF FailedMark, orderVars
  <2>3. task'[t].pc \in {"fDebit", "fLookup"} /\ task'[t].o = task[t].o
    BY <1>6, FailedMarkTask
  <2>4. \A u \in Tasks : u # t => task'[u] = task[u] BY <1>6, FailedMarkTask
  <2>5. \A p \in Orders : row[p] = "none" => row'[p] = "none"
    BY <2>1, SetRowCalm DEF RowStates
  <2>6. \A e \in Orders \X Kinds : inbox'[e] =< inbox[e] BY <2>2
  <2>7. CalmOrders BY <2>2, <2>5, <2>6 DEF CalmOrders
  <2>8. CalmTask(t) BY <2>1, <2>3, <2>4 DEF CalmTask, At
  <2> QED BY <2>7, <2>8
<1>7. CASE FailedDebit(t)
  BY <1>7, GotoTask, LeaveConcludes
  DEF FailedDebit, CalmTask, CalmOrders, At, orderVars, ledgerVars
<1>8. CASE FailedLookup(t)
  BY <1>8, FailedLookupTask
  DEF FailedLookup, CalmTask, CalmOrders, At, orderVars, ledgerVars
<1>9. CASE FailedRelease(t)
  BY <1>9, GotoTask, DoneTask
  DEF FailedRelease, CalmTask, CalmOrders, At, orderVars, ledgerVars
<1>10. CASE FailedMarkOrder(t)
  BY <1>10, GotoTask, WriteType
  DEF FailedMarkOrder, CalmTask, CalmOrders, At, orderVars, ledgerVars
<1>11. CASE FailedReleaseOrder(t)
  BY <1>11, GotoTask
  DEF FailedReleaseOrder, CalmTask, CalmOrders, At, orderVars, ledgerVars
<1>12. CASE FailedDebitOrder(t)
  BY <1>12, DoneTask, LeaveConcludes
  DEF FailedDebitOrder, CalmTask, CalmOrders, At, orderVars, ledgerVars
<1>13. CASE RefundedRead(t)
  BY <1>13, GotoTask, DoneTask
  DEF RefundedRead, CalmTask, CalmOrders, At, orderVars, ledgerVars
<1>14. CASE RefundedCredit(t)
  BY <1>14, GotoTask
  DEF RefundedCredit, CalmTask, CalmOrders, At, orderVars, ledgerVars
<1>15. CASE RefundedMark(t)
  BY <1>15, DoneTask, WriteType
  DEF RefundedMark, CalmTask, CalmOrders, At, orderVars, ledgerVars
<1> QED
  BY <1>1, <1>2, <1>3, <1>4, <1>5, <1>6, <1>7, <1>8, <1>9, <1>10, <1>11, <1>12, <1>13,
    <1>14, <1>15 DEF WebhookStep

\* A request of the staff, approvals aside.
LEMMA StaffStartsCalm ==
  ASSUME LegInv, NEW t \in Tasks, NEW o \in Orders, ~Approve(t, o), StaffStarts(t, o)
  PROVE  CalmTask(t) /\ CalmOrders
<1> USE OutsidePcs, AllPcs, AllStatuses, TaskFields, InvFacts DEF CompletePcs
<1>1. CASE Reject(t, o)
  BY <1>1, WriteType, CarryTask
  DEF Reject, CalmTask, CalmOrders, Free, At, orderVars, ledgerVars
<1>2. CASE \E refund \in BOOLEAN : StaffCancel(t, o, refund)
  <2> PICK refund \in BOOLEAN : StaffCancel(t, o, refund) BY <1>2
  <2> USE DEF StaffCancel, StaffCancellable, Free, At
  <2>1. status[o] \in Statuses /\ ctx[o] \in BOOLEAN BY DEF TypeOK
  <2>2. CalmTask(t)
    <3>1. CASE refund BY <2>1, <3>1, CloseTask DEF CalmTask
    <3>2. CASE ~refund BY <3>2 DEF CalmTask
    <3> QED BY <3>1, <3>2
  <2>3. CalmOrders BY WriteType DEF CalmOrders, ledgerVars
  <2> QED BY <2>2, <2>3
<1>3. CASE FailRead(t, o)
  <2> USE <1>3 DEF FailRead, Free, At
  <2>1. status[o] \in Statuses BY DEF TypeOK
  <2>2. Start(t, Carrying("fail", o, status[o], ctx[o], "failed")) OBVIOUS
  <2>3. /\ task'[t].pc = "fail" /\ task'[t].o = o
        /\ \A u \in Tasks : u # t => task'[u] = task[u]
    BY <2>1, <2>2, CarryTask
  <2>4. CalmTask(t) BY <2>3 DEF CalmTask
  <2>5. CalmOrders BY DEF CalmOrders, orderVars, ledgerVars
  <2> QED BY <2>4, <2>5
<1>4. CASE MarkSentRead(t, o)
  BY <1>4, BeginTask
  DEF MarkSentRead, CalmTask, CalmOrders, Begin, Free, At, orderVars, ledgerVars
<1>5. CASE CompleteRead(t, o)
  BY <1>5, BeginTask
  DEF CompleteRead, CalmTask, CalmOrders, Begin, Free, At, orderVars, ledgerVars
<1> QED BY <1>1, <1>2, <1>3, <1>4, <1>5 DEF StaffStarts

\* A cancellation of the client.
LEMMA ClientCancelCalm ==
  ASSUME LegInv, NEW t \in Tasks, NEW o \in Orders, ClientCancel(t, o)
  PROVE  CalmTask(t) /\ CalmOrders
<1> USE OutsidePcs, AllStatuses, InvFacts DEF ClientCancel, Free, At, CompletePcs
<1>1. CalmTask(t) BY CloseTask DEF CalmTask
<1>2. CalmOrders BY WriteType DEF CalmOrders, ledgerVars
<1> QED BY <1>1, <1>2

\* The arrival of a Bridge event.
LEMMA WebhookStartsCalm ==
  ASSUME LegInv, NEW t \in Tasks, NEW o \in Orders, WebhookStarts(t, o)
  PROVE  CalmTask(t) /\ CalmOrders
<1> USE OutsidePcs, AllPcs, AllStatuses, TaskFields, InvFacts DEF CompletePcs
<1>1. CASE CompleteStart(t, o)
  <2> USE <1>1 DEF CompleteStart
  <2>1. /\ inbox[<<o, "complete">>] > 0
        /\ \A e \in Orders \X Kinds : inbox'[e] =< inbox[e]
    BY TakeInbox DEF Kinds
  <2>2. status[o] # "absent" BY <2>1 DEF Kinds
  <2>3. \A p \in Orders : row[p] = "none" => row'[p] = "none"
    BY SetRowCalm DEF RowStates
  <2>4. bridge[o] \in Paid BY <2>1
  <2>5. CalmTask(t)
    BY <2>2, <2>4, BeginWebhookTask DEF CalmTask, BeginWebhook, Free, At
  <2>6. CalmOrders BY <2>1, <2>3 DEF CalmOrders, orderVars
  <2> QED BY <2>5, <2>6
<1>2. CASE FailedStart(t, o)
  <2> USE <1>2 DEF FailedStart
  <2>1. /\ inbox[<<o, "failed">>] > 0
        /\ \A e \in Orders \X Kinds : inbox'[e] =< inbox[e]
    BY TakeInbox DEF Kinds
  <2>2. status[o] # "absent" BY <2>1 DEF Kinds
  <2>3. row' = row BY DEF ledgerVars
  <2>4. CASE BeginWebhook(t, o, "fMark")
    <3>1. CalmTask(t) BY <2>2, <2>4, BeginWebhookTask DEF CalmTask, BeginWebhook, Free, At
    <3> QED BY <2>1, <2>3, <3>1 DEF CalmOrders, orderVars, ledgerVars
  <2>5. CASE Free(t, o) /\ UNCHANGED task
    <3>1. CalmTask(t) BY <2>5 DEF CalmTask, Free, At
    <3> QED BY <2>1, <2>3, <3>1 DEF CalmOrders, orderVars, ledgerVars
  <2> QED BY <2>4, <2>5
<1>3. CASE RefundedStart(t, o)
  <2> USE <1>3 DEF RefundedStart
  <2>1. /\ inbox[<<o, "refunded">>] > 0
        /\ \A e \in Orders \X Kinds : inbox'[e] =< inbox[e]
    BY TakeInbox DEF Kinds
  <2>2. status[o] # "absent" BY <2>1 DEF Kinds
  <2>3. \A p \in Orders : row[p] = "none" => row'[p] = "none"
    BY SetRowCalm DEF RowStates
  <2>4. CalmTask(t)
    BY <2>2, BeginWebhookTask DEF CalmTask, BeginWebhook, Free, At
  <2>5. CalmOrders BY <2>1, <2>3 DEF CalmOrders, orderVars
  <2> QED BY <2>4, <2>5
<1> QED BY <1>1, <1>2, <1>3 DEF WebhookStarts

(***************************************************************************)
(* The other steps: creations, approvals and the leg.                      *)
(***************************************************************************)
LEMMA SmallPcs ==
  /\ CreatePcs = {"reserve", "insert", "unreserve"}
  /\ LegPcs = {"post", "link", "record", "debit"}
  /\ LegFailPcs = {"legReturn", "legRelease", "legMark"}
  /\ CompletePcs = {"cLookup", "cMark", "settleOrder", "settleXfer"}
BY DEF CreatePcs, LegPcs, LegFailPcs, CompletePcs

\* Whoever executes the leg of an order has it for himself.
LEMMA LegAlone ==
  ASSUME LegInv, NEW t \in Tasks, task[t].pc \in LegPcs \cup LegFailPcs
  PROVE  /\ task[t].o \in Orders
         /\ status[task[t].o] \notin {"absent", "pending_review"}
         /\ \A u \in Tasks : task[u].pc \in LegPcs \cup LegFailPcs /\ task[u].o = task[t].o
                               => u = t
         /\ \A u \in Tasks : task[u].pc \in CreatePcs => task[u].o # task[t].o
<1> USE SmallPcs, TaskFields DEF LegInv
<1>1. InLeg(t, task[t].o) BY DEF InLeg
<1>2. status[task[t].o] # "absent" BY DEF WorkIsOnOrders
<1>3. \A u \in Tasks : task[u].pc \in CreatePcs => task[u].o # task[t].o
  BY <1>2 DEF CreateAlone, Creates
<1> QED BY <1>1, <1>2, <1>3 DEF LegExclusive, InLeg

\* A step of the leg at t touches its order alone.
LegMoves(t) ==
  LET o == task[t].o IN
  /\ task[t].pc \in LegPcs \cup LegFailPcs
  /\ task'[t].pc \in LegPcs \cup LegFailPcs \cup {"idle"}
  /\ task'[t].pc # "idle" => task'[t].o = o
  /\ \A u \in Tasks : u # t => task'[u] = task[u]
  /\ \A p \in Orders : p # o =>
       /\ status'[p] = status[p] /\ ctx'[p] = ctx[p] /\ link'[p] = link[p]
       /\ row'[p] = row[p] /\ debit'[p] = debit[p] /\ bridge'[p] = bridge[p]
  /\ inbox' = inbox
  /\ status'[o] # "absent"
  /\ bridge[o] \in Paid => bridge'[o] \in Paid
  /\ debit'[o] = "settled" => debit[o] = "settled"
  /\ status'[o] = "pending_review" =>
       /\ task'[t].pc = "idle"
       /\ ctx'[o] /\ ~link'[o] /\ row'[o] = "none" /\ debit'[o] = "none"
  /\ LegStage(t)'

LEMMA LegMovesKeepsInv ==
  ASSUME LegInv, TypeOK', NEW t \in Tasks, LegMoves(t)
  PROVE  LegInv'
<1> DEFINE o == task[t].o
<1> USE SmallPcs, TaskFields, LegAlone DEF LegInv, LegMoves
<1>1. LegExclusive' BY DEF LegExclusive, InLeg
<1>2. ReviewIsBeforeLeg'
  <2> SUFFICES ASSUME NEW p \in Orders, status'[p] = "pending_review"
               PROVE  ctx'[p] /\ ~link'[p] /\ row'[p] = "none" /\ debit'[p] = "none"
    BY DEF ReviewIsBeforeLeg
  <2>1. CASE p = o BY <2>1
  <2>2. CASE p # o BY <2>2 DEF ReviewIsBeforeLeg
  <2> QED BY <2>1, <2>2
<1>3. LegStages'
  <2> SUFFICES ASSUME NEW u \in Tasks, u # t PROVE LegStage(u)'
    BY DEF LegStages
  <2>1. task'[u] = task[u] /\ LegStage(u) /\ task[u].o \in Orders
    BY DEF LegStages
  <2>2. CASE task[u].pc \in LegPcs \cup LegFailPcs
    <3>1. task[u].o # o BY <2>2
    <3> QED BY <2>1, <3>1 DEF LegStage
  <2>3. CASE task[u].pc \notin LegPcs \cup LegFailPcs
    BY <2>1, <2>3 DEF LegStage
  <2> QED BY <2>2, <2>3
<1>4. CreateAlone'
  <2> SUFFICES ASSUME NEW u \in Tasks, NEW p \in Orders, Creates(u, p)'
               PROVE  status'[p] = "absent" /\ \A v \in Tasks : Creates(v, p)' => v = u
    BY DEF CreateAlone
  <2>1. \A v \in Tasks : Creates(v, p)' => Creates(v, p) BY DEF Creates
  <2>2. p # o BY <2>1 DEF Creates
  <2> QED BY <2>1, <2>2 DEF CreateAlone
<1>5. AbsentIsBlank'
  <2> SUFFICES ASSUME NEW p \in Orders, status'[p] = "absent"
               PROVE  /\ p # o /\ status[p] = "absent"
    BY DEF AbsentIsBlank
  <2>1. p # o OBVIOUS
  <2> QED BY <2>1
<1>6. WorkIsOnOrders'
  <2> SUFFICES ASSUME NEW u \in Tasks, task'[u].pc \notin CreatePcs \cup {"idle"}
               PROVE  status'[task'[u].o] # "absent"
    BY DEF WorkIsOnOrders
  <2>1. CASE u = t BY <2>1
  <2>2. CASE u # t BY <2>2 DEF WorkIsOnOrders
  <2> QED BY <2>1, <2>2
<1>7. CompletionsArePaid'
  <2>1. \A p \in Orders : bridge[p] \in Paid => bridge'[p] \in Paid
    OBVIOUS
  <2>2. \A u \in Tasks : task'[u].pc \in CompletePcs => task'[u] = task[u]
    OBVIOUS
  <2> QED BY <2>1, <2>2 DEF CompletionsArePaid
<1>8. SettledMeansCompleted' BY DEF SettledMeansCompleted
<1>9. VoidHasReason' BY DEF VoidHasReason
<1> QED BY <1>1, <1>2, <1>3, <1>4, <1>5, <1>6, <1>7, <1>8, <1>9

LEMMA LegStepMoves ==
  ASSUME LegInv, NEW t \in Tasks, LegStep(t)
  PROVE  LegMoves(t)
<1> USE SmallPcs, TaskFields, AllPcs, AllStatuses, LegAlone
<1>1. TypeOK /\ LegStage(t) BY DEF LegInv, LegStages
<1>2. CASE LegPost(t)
  BY <1>1, <1>2, GotoTask
  DEF LegPost, BridgeStates, Paid, LegMoves, LegStage, TypeOK, At, orderVars, ledgerVars
<1>3. CASE LegRejected(t)
  BY <1>1, <1>3, GotoTask
  DEF LegRejected, LegFails, LegMoves, LegStage, TypeOK, At, orderVars, ledgerVars
<1>4. CASE LegTimeout(t)
  BY <1>1, <1>4, GotoTask
  DEF LegTimeout, LegFails, BridgeStates, Paid, LegMoves, LegStage, TypeOK, At, orderVars,
    ledgerVars
<1>5. CASE LegLink(t)
  BY <1>1, <1>5, GotoTask, WriteType
  DEF LegLink, LegMoves, LegStage, TypeOK, At, orderVars, ledgerVars
<1>6. CASE LegRecord(t)
  BY <1>1, <1>6, GotoTask
  DEF LegRecord, LegMoves, LegStage, TypeOK, At, orderVars, ledgerVars
<1>7. CASE LegDebit(t)
  BY <1>1, <1>7, DoneTask
  DEF LegDebit, LegMoves, LegStage, TypeOK, At, orderVars, ledgerVars
<1>8. CASE LegReturn(t)
  BY <1>1, <1>8, DoneTask, WriteType
  DEF LegReturn, LegMoves, LegStage, TypeOK, At, orderVars, ledgerVars
<1>9. CASE LegRelease(t)
  BY <1>1, <1>9, GotoTask
  DEF LegRelease, LegMoves, LegStage, TypeOK, At, orderVars, ledgerVars
<1>10. CASE LegMark(t)
  BY <1>1, <1>10, DoneTask, WriteType
  DEF LegMark, LegMoves, LegStage, TypeOK, At, orderVars, ledgerVars
<1> QED BY <1>2, <1>3, <1>4, <1>5, <1>6, <1>7, <1>8, <1>9, <1>10 DEF LegStep

\* Steps that write no order, entry or transfer: t is creating an order that
\* is not there yet and that nobody else is creating, or ends.
Creating(t) ==
  /\ \A u \in Tasks : u # t => task'[u] = task[u]
  /\ task[t].pc \in CreatePcs \cup {"idle"}
  /\ task'[t].pc \in CreatePcs \cup {"idle"}
  /\ task'[t].pc \in CreatePcs =>
       /\ status[task'[t].o] = "absent"
       /\ \A u \in Tasks : Creates(u, task'[t].o) => u = t
  /\ UNCHANGED <<orderVars, ledgerVars, bridge, inbox>>

LEMMA CreatingKeepsInv ==
  ASSUME LegInv, TypeOK', NEW t \in Tasks, Creating(t)
  PROVE  LegInv'
<1> USE SmallPcs, TaskFields DEF LegInv, Creating, orderVars, ledgerVars
<1>1. LegExclusive' BY DEF LegExclusive, InLeg
<1>2. ReviewIsBeforeLeg' BY DEF ReviewIsBeforeLeg
<1>3. LegStages'
  <2> SUFFICES ASSUME NEW u \in Tasks PROVE LegStage(u)' BY DEF LegStages
  <2>1. CASE u = t BY <2>1 DEF LegStage
  <2>2. CASE u # t BY <2>2 DEF LegStage, LegStages
  <2> QED BY <2>1, <2>2
<1>4. CreateAlone'
  <2> SUFFICES ASSUME NEW u \in Tasks, NEW p \in Orders, Creates(u, p)'
               PROVE  status'[p] = "absent" /\ \A v \in Tasks : Creates(v, p)' => v = u
    BY DEF CreateAlone
  <2>1. CASE u = t BY <2>1 DEF Creates
  <2>2. CASE u # t /\ Creates(t, p)' BY <2>2 DEF Creates
  <2>3. CASE u # t /\ ~Creates(t, p)' BY <2>3 DEF CreateAlone, Creates
  <2> QED BY <2>1, <2>2, <2>3
<1>5. AbsentIsBlank' BY DEF AbsentIsBlank
<1>6. WorkIsOnOrders' BY DEF WorkIsOnOrders
<1>7. CompletionsArePaid' BY DEF CompletionsArePaid
<1>8. SettledMeansCompleted' BY DEF SettledMeansCompleted
<1>9. VoidHasReason' BY DEF VoidHasReason
<1> QED BY <1>1, <1>2, <1>3, <1>4, <1>5, <1>6, <1>7, <1>8, <1>9

LEMMA CreateMoves ==
  ASSUME LegInv, NEW t \in Tasks,
         \/ \E o \in Orders, skip \in BOOLEAN : CreateCheck(t, o, skip)
         \/ CreateReserve(t) \/ CreateConflict(t) \/ CreateUnreserve(t)
  PROVE  Creating(t)
<1> USE SmallPcs, TaskFields, AllPcs DEF LegInv, Creating, At
<1>1. ASSUME NEW o \in Orders,
         NEW skip \in BOOLEAN, CreateCheck(t, o, skip)
      PROVE  Creating(t)
  BY <1>1, CreateTask DEF CreateCheck, Free, Creates
<1>2. CASE CreateReserve(t)
  BY <1>2, GotoTask DEF CreateReserve, CreateAlone, Creates
<1>3. CASE CreateConflict(t)
  BY <1>3, GotoTask DEF CreateConflict, CreateAlone, Creates
<1>4. CASE CreateUnreserve(t) BY <1>4, DoneTask DEF CreateUnreserve
<1> QED BY <1>1, <1>2, <1>3, <1>4

\* The order appears: in review, or at the start of its leg.
LEMMA CreateInsertInv ==
  ASSUME LegInv, TypeOK', NEW t \in Tasks, CreateInsert(t)
  PROVE  LegInv'
<1> DEFINE o == task[t].o
<1> USE SmallPcs, TaskFields, AllPcs, AllStatuses DEF LegInv
<1>1. /\ status[o] = "absent" /\ o \in Orders
      /\ \A u \in Tasks : Creates(u, o) => u = t
  BY DEF CreateAlone, Creates, CreateInsert, At
<1>2. /\ ~link[o] /\ row[o] = "none" /\ debit[o] = "none" /\ bridge[o] = "none"
      /\ \A k \in Kinds : inbox[<<o, k>>] = 0
  BY <1>1 DEF AbsentIsBlank
<1>3. \A u \in Tasks : task[u].o = o => u = t \/ task[u].pc = "idle"
  BY <1>1 DEF WorkIsOnOrders, Creates
<1>4. UNCHANGED <<link, row, debit, bridge, inbox>>
  BY DEF CreateInsert, ledgerVars
<1>5. \A u \in Tasks : u # t => task'[u] = task[u]
  BY GotoTask, DoneTask DEF CreateInsert
<1>6. \A p \in Orders : p # o => status'[p] = status[p] /\ ctx'[p] = ctx[p]
  BY <1>1, WriteType DEF CreateInsert, TypeOK
<1>7. \/ status'[o] = "pending_review" /\ ctx'[o] /\ task'[t].pc = "idle"
      \/ /\ status'[o] = "created"
         /\ task'[t].pc = "post" /\ task'[t].o = o /\ task'[t].skip
  <2>1. CASE task[t].skip
    <3>1. Write(o, "created") /\ Goto(t, "post") BY <2>1 DEF CreateInsert
    <3> QED BY <1>1, <2>1, <3>1, GotoTask, WriteType
  <2>2. CASE ~task[t].skip
    <3>1. Write(o, "pending_review") /\ Done(t) BY <2>2 DEF CreateInsert
    <3>2. ctx'[o] BY <1>1, <2>2 DEF CreateInsert, TypeOK
    <3> QED BY <1>1, <3>1, <3>2, DoneTask, WriteType
  <2> QED BY <2>1, <2>2
<1> HIDE DEF o
<1>8. LegExclusive' BY <1>3, <1>5, <1>6, <1>7 DEF LegExclusive, InLeg
<1>9. ReviewIsBeforeLeg'
  BY <1>2, <1>4, <1>6, <1>7 DEF ReviewIsBeforeLeg
<1>10. LegStages'
  <2> SUFFICES ASSUME NEW u \in Tasks PROVE LegStage(u)' BY DEF LegStages
  <2>1. CASE u = t BY <1>2, <1>4, <1>7, <2>1 DEF LegStage
  <2>2. CASE u # t
    <3>1. LegStage(u) BY DEF LegStages
    <3>2. task[u].o # o \/ task[u].pc = "idle" BY <1>3, <2>2
    <3> QED BY <1>4, <1>5, <1>6, <2>2, <3>1, <3>2 DEF LegStage
  <2> QED BY <2>1, <2>2
<1>11. CreateAlone'
  <2> SUFFICES ASSUME NEW u \in Tasks, NEW p \in Orders, Creates(u, p)'
               PROVE  status'[p] = "absent" /\ \A v \in Tasks : Creates(v, p)' => v = u
    BY DEF CreateAlone
  <2>1. \A v \in Tasks : Creates(v, p)' => Creates(v, p)
    BY <1>5, <1>7 DEF Creates
  <2>2. u # t BY <1>7 DEF Creates
  <2>3. p # o BY <1>1, <2>1, <2>2
  <2> QED BY <1>6, <2>1, <2>3 DEF CreateAlone
<1>12. AbsentIsBlank' BY <1>4, <1>6, <1>7 DEF AbsentIsBlank
<1>13. WorkIsOnOrders'
  BY <1>5, <1>6, <1>7 DEF WorkIsOnOrders
<1>14. CompletionsArePaid' BY <1>4, <1>5, <1>7 DEF CompletionsArePaid
<1>15. SettledMeansCompleted' BY <1>4 DEF SettledMeansCompleted
<1>16. VoidHasReason' BY <1>5, <1>7 DEF VoidHasReason
<1> QED BY <1>8, <1>9, <1>10, <1>11, <1>12, <1>13, <1>14, <1>15, <1>16

\* An approval wins the order and starts its leg.
LEMMA ApproveInv ==
  ASSUME LegInv, TypeOK', NEW t \in Tasks, NEW o \in Orders, Approve(t, o)
  PROVE  LegInv'
<1> USE SmallPcs, TaskFields, AllPcs, AllStatuses DEF LegInv
<1>1. /\ status[o] = "pending_review" /\ task[t].pc = "idle"
      /\ UNCHANGED <<ctx, link, row, debit, bridge, inbox>>
  BY DEF Approve, Free, At, ledgerVars
<1>2. ctx[o] /\ ~link[o] /\ row[o] = "none" /\ debit[o] = "none"
  BY <1>1 DEF ReviewIsBeforeLeg
<1>3. \A u \in Tasks : task[u].o = o =>
        task[u].pc \notin CreatePcs \cup LegPcs \cup LegFailPcs
  BY <1>1 DEF LegExclusive, InLeg, CreateAlone, Creates
<1>4. /\ task'[t].pc = "post" /\ task'[t].o = o /\ ~task'[t].skip
      /\ \A u \in Tasks : u # t => task'[u] = task[u]
  BY <1>2, JobType, StartTask DEF Approve
<1>5. /\ status'[o] = "processing"
      /\ \A p \in Orders : p # o => status'[p] = status[p]
  BY WriteType DEF Approve
<1>6. LegExclusive' BY <1>3, <1>4, <1>5 DEF LegExclusive, InLeg
<1>7. ReviewIsBeforeLeg' BY <1>1, <1>5 DEF ReviewIsBeforeLeg
<1>8. LegStages'
  <2> SUFFICES ASSUME NEW u \in Tasks PROVE LegStage(u)' BY DEF LegStages
  <2>1. CASE u = t BY <1>1, <1>2, <1>4, <2>1 DEF LegStage
  <2>2. CASE u # t BY <1>1, <1>4, <2>2 DEF LegStage, LegStages
  <2> QED BY <2>1, <2>2
<1>9. CreateAlone'
  <2> SUFFICES ASSUME NEW u \in Tasks, NEW p \in Orders, Creates(u, p)'
               PROVE  status'[p] = "absent" /\ \A v \in Tasks : Creates(v, p)' => v = u
    BY DEF CreateAlone
  <2>1. \A v \in Tasks : Creates(v, p)' => Creates(v, p) BY <1>4 DEF Creates
  <2>2. p # o BY <1>3, <2>1 DEF Creates
  <2> QED BY <1>5, <2>1, <2>2 DEF CreateAlone
<1>10. AbsentIsBlank' BY <1>1, <1>5 DEF AbsentIsBlank
<1>11. WorkIsOnOrders' BY <1>4, <1>5 DEF WorkIsOnOrders
<1>12. CompletionsArePaid' BY <1>1, <1>4 DEF CompletionsArePaid
<1>13. SettledMeansCompleted' BY <1>1 DEF SettledMeansCompleted
<1>14. VoidHasReason' BY <1>4 DEF VoidHasReason
<1> QED BY <1>6, <1>7, <1>8, <1>9, <1>10, <1>11, <1>12, <1>13, <1>14

\* Bridge moves a transfer and announces it.
LEMMA BridgeStepsInv ==
  ASSUME LegInv, TypeOK', NEW o \in Orders, BridgeSteps(o)
  PROVE  LegInv'
<1> USE SmallPcs, TaskFields DEF LegInv
<1>1. /\ UNCHANGED <<status, ctx, link, row, debit, task>>
      /\ bridge[o] # "none" /\ bridge'[o] # "none"
      /\ \A p \in Orders : p # o => bridge'[p] = bridge[p]
      /\ bridge[o] \in Paid => bridge'[o] \in Paid
      /\ \A p \in Orders, k \in Kinds : p # o => inbox'[<<p, k>>] = inbox[<<p, k>>]
  BY DEF BridgeSteps, BridgeCompletes, BridgeFails, BridgeRefunds, BridgeReturns,
         BridgeMoves, Paid, TypeOK, orderVars, ledgerVars
<1>2. inbox'[<<o, "complete">>] = inbox[<<o, "complete">>] \/ bridge'[o] \in Paid
  BY DEF BridgeSteps, BridgeCompletes, BridgeFails, BridgeRefunds, BridgeReturns,
         BridgeMoves, Paid, TypeOK, Kinds
<1>3. LegExclusive' BY <1>1 DEF LegExclusive, InLeg
<1>4. ReviewIsBeforeLeg' BY <1>1 DEF ReviewIsBeforeLeg
<1>5. LegStages' BY <1>1 DEF LegStages, LegStage
<1>6. CreateAlone' BY <1>1 DEF CreateAlone, Creates
<1>7. AbsentIsBlank' BY <1>1 DEF AbsentIsBlank
<1>8. WorkIsOnOrders' BY <1>1 DEF WorkIsOnOrders
<1>9. CompletionsArePaid' BY <1>1, <1>2 DEF CompletionsArePaid, Kinds
<1>10. SettledMeansCompleted' BY <1>1 DEF SettledMeansCompleted
<1>11. VoidHasReason' BY <1>1 DEF VoidHasReason
<1> QED BY <1>3, <1>4, <1>5, <1>6, <1>7, <1>8, <1>9, <1>10, <1>11

\* After a crash nothing is in flight.
LEMMA CrashInv ==
  ASSUME LegInv, TypeOK', Crash
  PROVE  LegInv'
<1>1. \A t \in Tasks : task'[t].pc = "idle" BY IdleType DEF Crash
<1>2. UNCHANGED <<orderVars, ledgerVars, bridge, inbox>> BY DEF Crash
<1> QED BY <1>1, <1>2, SmallPcs
  DEF LegInv, LegExclusive, InLeg, ReviewIsBeforeLeg, LegStages, LegStage,
      CreateAlone, Creates, AbsentIsBlank, WorkIsOnOrders, CompletionsArePaid,
      SettledMeansCompleted, VoidHasReason, orderVars, ledgerVars

(***************************************************************************)
(* The theorems.                                                           *)
(***************************************************************************)
LEMMA NextKeepsInv ==
  ASSUME LegInv, [Next]_vars
  PROVE  LegInv'
<1>1. TypeOK BY DEF LegInv
<1>2. TypeOK' BY <1>1, NextKeepsType
<1>3. ASSUME NEW t \in Tasks, CalmTask(t), CalmOrders PROVE LegInv'
  BY <1>2, <1>3, CalmKeepsInv
<1>4. CASE \E t \in Tasks : Step(t)
  <2> PICK t \in Tasks : Step(t) BY <1>4
  <2>1. CASE CreateStep(t)
    BY <1>2, <2>1, CreateMoves, CreatingKeepsInv, CreateInsertInv DEF CreateStep
  <2>2. CASE LegStep(t) BY <1>2, <2>2, LegStepMoves, LegMovesKeepsInv
  <2>3. CASE CloseStep(t) BY <1>3, <2>3, CloseStepCalm
  <2>4. CASE WebhookStep(t) BY <1>3, <2>4, WebhookStepCalm
  <2> QED BY <2>1, <2>2, <2>3, <2>4 DEF Step
<1>5. CASE \E t \in Tasks, o \in Orders :
             ClientStarts(t, o) \/ StaffStarts(t, o) \/ WebhookStarts(t, o)
  <2> PICK t \in Tasks, o \in Orders :
             ClientStarts(t, o) \/ StaffStarts(t, o) \/ WebhookStarts(t, o)
    BY <1>5
  <2>1. CASE \E skip \in BOOLEAN : CreateCheck(t, o, skip)
    BY <1>2, <2>1, CreateMoves, CreatingKeepsInv
  <2>2. CASE ClientCancel(t, o) BY <1>3, <2>2, ClientCancelCalm
  <2>3. CASE Approve(t, o) BY <1>2, <2>3, ApproveInv
  <2>4. CASE StaffStarts(t, o) /\ ~Approve(t, o) BY <1>3, <2>4, StaffStartsCalm
  <2>5. CASE WebhookStarts(t, o) BY <1>3, <2>5, WebhookStartsCalm
  <2> QED BY <2>1, <2>2, <2>3, <2>4, <2>5 DEF ClientStarts
<1>6. CASE \E o \in Orders : BridgeSteps(o) BY <1>2, <1>6, BridgeStepsInv
<1>7. CASE Crash BY <1>2, <1>7, CrashInv
<1>8. CASE UNCHANGED vars
  BY <1>8 DEF vars, LegInv, TypeOK, LegExclusive, InLeg, ReviewIsBeforeLeg,
     LegStages, LegStage, CreateAlone, Creates, AbsentIsBlank, WorkIsOnOrders,
     CompletionsArePaid, SettledMeansCompleted, VoidHasReason, orderVars, ledgerVars
<1> QED BY <1>4, <1>5, <1>6, <1>7, <1>8 DEF Next

LEMMA InitInv == Init => LegInv
<1> SUFFICES ASSUME Init PROVE LegInv
  OBVIOUS
<1>1. TypeOK BY InitType
<1>2. \A t \in Tasks : task[t].pc = "idle" BY IdleType DEF Init
<1> QED BY <1>1, <1>2, SmallPcs
  DEF Init, LegInv, LegExclusive, InLeg, ReviewIsBeforeLeg, LegStages, LegStage,
      CreateAlone, Creates, AbsentIsBlank, WorkIsOnOrders, CompletionsArePaid,
      SettledMeansCompleted, VoidHasReason, Kinds

\* The inductive invariant holds in every reachable state: the stages of a
\* leg, the exclusivity of creations and approvals and what Bridge has paid
\* agree, whatever requests, webhooks and failures interleave.
THEOREM LegInvariant == Spec => []LegInv
<1>1. LegInv /\ [Next]_vars => LegInv' BY NextKeepsInv
<1> QED BY <1>1, InitInv, PTL DEF Spec

\* At most one request executes the Bridge leg of an order, and none while
\* the order is in review (the compare-and-set of approveOrderReviewStep).
THEOREM LegIsExclusive == Spec => []LegExclusive
<1>1. LegInv => LegExclusive BY DEF LegInv
<1> QED BY <1>1, LegInvariant, PTL

\* An order in review carries no trace of a leg, so that giving back its
\* reserve settles it (releasePendingReviewReserve).
THEOREM ReviewPrecedesLeg == Spec => []ReviewIsBeforeLeg
<1>1. LegInv => ReviewIsBeforeLeg BY DEF LegInv
<1> QED BY <1>1, LegInvariant, PTL

\* However often an approval is retried, its order is debited once (the
\* INSERT of ledger_entries at the end of the legs).
THEOREM OrderIsDebitedOnce == Spec => []DebitedOnce
<1>1. LegInv => DebitedOnce
  BY SmallPcs DEF LegInv, LegStages, LegStage, DebitedOnce, At
<1> QED BY <1>1, LegInvariant, PTL

\* A debit is settled only for a transfer that Bridge paid
\* (handleTransferComplete).
THEOREM SettledDebitsArePaid == Spec => []SettledMeansCompleted
<1>1. LegInv => SettledMeansCompleted BY DEF LegInv
<1> QED BY <1>1, LegInvariant, PTL

(***************************************************************************)
(* OffRampOrders implements OrderCharge.                                   *)
(***************************************************************************)
Seen == [o \in Orders |-> TransferSeen(o)]

\* The steps of OrderCharge, under the refinement mapping.
ChargeStep == Charges!Next \/ UNCHANGED <<debit, Seen>>

LEMMA SeenValues ==
  ASSUME NEW o \in Orders
  PROVE  /\ (Seen[o] = "none") = (bridge[o] = "none")
         /\ (Seen[o] = "sent") = (bridge[o] = "open")
         /\ bridge[o] \in Paid => Seen[o] = "paid"
BY DEF Seen, TransferSeen, Paid

\* Nothing happens to the charges when neither the debits nor Bridge move.
LEMMA SeenStutters ==
  ASSUME UNCHANGED <<debit, bridge>>
  PROVE  ChargeStep
BY DEF ChargeStep, Seen, TransferSeen

LEMMA ConcludesCharge ==
  ASSUME TypeOK, ChargeConcludes, UNCHANGED bridge
  PROVE  ChargeStep
<1> PICK o \in Orders, s \in {"settled", "failed", "reversed"} :
      /\ debit[o] = "pending"
      /\ s = "settled" => bridge[o] \in Paid
      /\ debit' = [debit EXCEPT ![o] = s]
  BY DEF ChargeConcludes
<1>1. UNCHANGED Seen BY DEF Seen, TransferSeen
<1>2. CASE s = "settled"
  <2>1. Charges!Settle(o) BY <1>1, <1>2, SeenValues DEF Charges!Settle, Seen
  <2> QED BY <2>1 DEF ChargeStep, Charges!Next
<1>3. CASE s \in {"failed", "reversed"}
  <2>1. Charges!Void(o, s) BY <1>1, <1>3 DEF Charges!Void, Seen
  <2> QED BY <1>3, <2>1 DEF ChargeStep, Charges!Next
<1> QED BY <1>2, <1>3

\* A transfer is created in Bridge, or was there already.
LEMMA OpensTransfer ==
  ASSUME TypeOK, NEW o \in Orders, UNCHANGED debit,
         bridge' = IF bridge[o] = "none" THEN [bridge EXCEPT ![o] = "open"]
                                         ELSE bridge
  PROVE  ChargeStep
<1>1. CASE bridge[o] = "none"
  <2>1. Seen' = [Seen EXCEPT ![o] = "sent"]
    BY <1>1 DEF Seen, TransferSeen, TypeOK, Paid
  <2>2. Charges!Send(o) BY <1>1, <2>1, SeenValues DEF Charges!Send, Seen
  <2> QED BY <2>2 DEF ChargeStep, Charges!Next
<1>2. CASE bridge[o] # "none" BY <1>2, SeenStutters
<1> QED BY <1>1, <1>2

LEMMA BridgeCharge ==
  ASSUME TypeOK, NEW o \in Orders, BridgeSteps(o)
  PROVE  ChargeStep
<1>1. UNCHANGED debit
  BY DEF BridgeSteps, BridgeCompletes, BridgeFails, BridgeRefunds, BridgeReturns,
         BridgeMoves, ledgerVars
<1>2. \/ bridge[o] = "complete" /\ bridge' = [bridge EXCEPT ![o] = "refunded"]
      \/ /\ bridge[o] = "open"
         /\ \E to \in {"complete", "failed", "returned"} :
              bridge' = [bridge EXCEPT ![o] = to]
  BY DEF BridgeSteps, BridgeCompletes, BridgeFails, BridgeRefunds, BridgeReturns,
         BridgeMoves
<1>3. CASE bridge[o] = "complete" /\ bridge' = [bridge EXCEPT ![o] = "refunded"]
  <2>1. UNCHANGED Seen BY <1>3 DEF Seen, TransferSeen, TypeOK, Paid
  <2> QED BY <1>1, <2>1 DEF ChargeStep
<1>4. ASSUME bridge[o] = "open", NEW to \in {"complete", "failed", "returned"},
             bridge' = [bridge EXCEPT ![o] = to]
      PROVE  ChargeStep
  <2> DEFINE outcome == IF to = "complete" THEN "paid" ELSE "lost"
  <2>1. Seen' = [Seen EXCEPT ![o] = outcome]
    BY <1>4 DEF Seen, TransferSeen, TypeOK, Paid
  <2>2. outcome \in {"paid", "lost"} OBVIOUS
  <2> HIDE DEF outcome
  <2>3. Charges!Conclude(o, outcome)
    BY <1>1, <1>4, <2>1, SeenValues DEF Charges!Conclude, Seen
  <2> QED BY <2>2, <2>3 DEF ChargeStep, Charges!Next
<1> QED BY <1>2, <1>3, <1>4

LEMMA LegCharge ==
  ASSUME LegInv, NEW t \in Tasks, LegStep(t)
  PROVE  ChargeStep
<1> DEFINE o == task[t].o
<1>1. TypeOK /\ o \in Orders BY TaskFields DEF LegInv
<1>2. CASE LegPost(t) \/ LegTimeout(t)
  BY <1>1, <1>2, OpensTransfer DEF LegPost, LegTimeout, ledgerVars
<1>3. CASE LegDebit(t)
  <2>1. debit[o] = "none" /\ bridge[o] # "none"
    BY <1>3, SmallPcs DEF LegInv, LegStages, LegStage, LegDebit, At
  <2>2. UNCHANGED Seen BY <1>3 DEF LegDebit, Seen, TransferSeen
  <2>3. CASE debit' = [debit EXCEPT ![o] = "pending"]
    <3>1. Charges!Charge(o)
      BY <1>1, <2>1, <2>2, <2>3, SeenValues DEF Charges!Charge, Seen
    <3> QED BY <1>1, <3>1 DEF ChargeStep, Charges!Next
  <2>4. CASE UNCHANGED debit
    BY <1>1, <1>3, <2>4, SeenStutters DEF LegDebit
  <2> QED BY <1>3, <2>3, <2>4 DEF LegDebit
<1>4. CASE \/ LegRejected(t) \/ LegLink(t) \/ LegRecord(t)
           \/ LegReturn(t) \/ LegRelease(t) \/ LegMark(t)
  BY <1>4, SeenStutters
  DEF LegRejected, LegLink, LegRecord, LegReturn, LegRelease, LegMark, ledgerVars
<1> QED BY <1>2, <1>3, <1>4 DEF LegStep

LEMMA NextCharge ==
  ASSUME LegInv, [Next]_vars
  PROVE  ChargeStep
<1>1. TypeOK BY DEF LegInv
<1>2. ASSUME CalmOrders PROVE ChargeStep
  BY <1>1, <1>2, ConcludesCharge, SeenStutters DEF CalmOrders
<1>3. CASE \E t \in Tasks : Step(t)
  <2> PICK t \in Tasks : Step(t) BY <1>3
  <2>1. CASE CreateStep(t)
    BY <2>1, SeenStutters DEF CreateStep, CreateReserve, CreateInsert,
       CreateConflict, CreateUnreserve, ledgerVars
  <2>2. CASE LegStep(t) BY <2>2, LegCharge
  <2>3. CASE CloseStep(t) BY <1>2, <2>3, CloseStepCalm
  <2>4. CASE WebhookStep(t) BY <1>2, <2>4, WebhookStepCalm
  <2> QED BY <2>1, <2>2, <2>3, <2>4 DEF Step
<1>4. CASE \E t \in Tasks, o \in Orders :
             ClientStarts(t, o) \/ StaffStarts(t, o) \/ WebhookStarts(t, o)
  <2> PICK t \in Tasks, o \in Orders :
             ClientStarts(t, o) \/ StaffStarts(t, o) \/ WebhookStarts(t, o)
    BY <1>4
  <2>1. CASE ClientStarts(t, o)
    BY <2>1, SeenStutters DEF ClientStarts, CreateCheck, ClientCancel, ledgerVars
  <2>2. CASE Approve(t, o) BY <2>2, SeenStutters DEF Approve, ledgerVars
  <2>3. CASE StaffStarts(t, o) /\ ~Approve(t, o) BY <1>2, <2>3, StaffStartsCalm
  <2>4. CASE WebhookStarts(t, o) BY <1>2, <2>4, WebhookStartsCalm
  <2> QED BY <2>1, <2>2, <2>3, <2>4
<1>5. CASE \E o \in Orders : BridgeSteps(o) BY <1>1, <1>5, BridgeCharge
<1>6. CASE Crash BY <1>6, SeenStutters DEF Crash, ledgerVars
<1>7. CASE UNCHANGED vars BY <1>7, SeenStutters DEF vars
<1> QED BY <1>3, <1>4, <1>5, <1>6, <1>7 DEF Next

\* The orders keep the promise of OrderCharge: one charge each, after the
\* transfer left, settled only if Bridge paid, never reopened.
THEOREM OrdersKeepCharges == Spec => ChargesKept
<1>1. Init => Charges!Init
  <2> SUFFICES ASSUME Init PROVE Charges!Init
    OBVIOUS
  <2>1. \A o \in Orders : TransferSeen(o) = "none" BY DEF Init, TransferSeen, Paid
  <2> QED BY <2>1 DEF Init, Charges!Init
<1>2. LegInv /\ [Next]_vars => [Charges!Next]_<<debit, Seen>>
  BY NextCharge DEF ChargeStep
<1> QED BY <1>1, <1>2, LegInvariant, PTL DEF Spec, ChargesKept, Charges!Spec, Seen

(***************************************************************************)
(* The parts of the balance.                                               *)
(***************************************************************************)
Covers(b) == b.available + b.reserved >= b.amount

\* No write of the balance lowers what its parts hold above its amount.
LEMMA MovesCover ==
  ASSUME NEW b \in Balance, Covers(b), NEW amt \in Nat, NEW d \in Int
  PROVE  /\ Covers(Posted(b, d))
         /\ Covers(Reserved(b, amt))
         /\ \A c \in Releases(b, amt) : Covers(c)
<1>1. Covers(Posted(b, d)) BY DEF Balance, Covers, Posted, AtLeast, AtMost
<1>2. Covers(Reserved(b, amt)) BY DEF Balance, Covers, Reserved, Freed
<1>3. \A c \in Releases(b, amt) : Covers(c)
  BY DEF Balance, Covers, Releases, Freed
<1> QED BY <1>1, <1>2, <1>3

\* The ways a step changes the balance.
LEMMA BalanceSteps ==
  ASSUME TypeOK, [Next]_vars
  PROVE  \/ UNCHANGED bal
         \/ \E amt \in Nat : bal' = Reserved(bal, amt) \/ bal' \in Releases(bal, amt)
         \/ \E d \in Int : bal' = Posted(bal, d)
<1> DEFINE Moved == \/ UNCHANGED bal
                    \/ \E amt \in Nat :
                         bal' = Reserved(bal, amt) \/ bal' \in Releases(bal, amt)
                    \/ \E d \in Int : bal' = Posted(bal, d)
<1>1. \A t \in Tasks : task[t].o \in Orders BY TaskFields
<1>2. \A o \in Orders : Amount[o] \in Nat BY AmountAssumption
<1>3. \A o \in Orders : Release(o) => Moved BY <1>2 DEF Release
<1>4. \A o \in Orders : Credit(o) => Moved
  BY <1>2 DEF Credit, EntryDiff, Signed
<1>5. \A o \in Orders : SettleDebit(o) => Moved
  BY <1>2 DEF SettleDebit, SettleDiff, EntryDiff, Signed
<1>6. CASE \E t \in Tasks : Step(t)
  <2> PICK t \in Tasks : Step(t) BY <1>6
  <2>1. CASE CreateStep(t)
    BY <1>1, <1>2, <2>1
    DEF CreateStep, CreateReserve, CreateInsert, CreateConflict, CreateUnreserve
  <2>2. CASE LegStep(t)
    BY <1>1, <1>3, <2>2
    DEF LegStep, LegPost, LegRejected, LegTimeout, LegLink, LegRecord, LegDebit,
        LegReturn, LegRelease, LegMark
  <2>3. CASE CloseStep(t)
    BY <1>1, <1>3, <1>4, <2>3
    DEF CloseStep, FailWrite, GiveBack, Void, ReleaseDebit, Refund,
        MarkSentWrite, CompleteWrite
  <2>4. CASE WebhookStep(t)
    BY <1>1, <1>3, <1>4, <1>5, <2>4
    DEF WebhookStep, CompleteLookup, CompleteMark, SettleOrder, SettleTransfer,
        SettleThrows, FailedMark, FailedDebit, FailedLookup, FailedRelease,
        FailedMarkOrder, FailedReleaseOrder, FailedDebitOrder, RefundedRead,
        RefundedCredit, RefundedMark
  <2> QED BY <2>1, <2>2, <2>3, <2>4 DEF Step
<1>7. CASE \E t \in Tasks, o \in Orders :
             ClientStarts(t, o) \/ StaffStarts(t, o) \/ WebhookStarts(t, o)
  <2> PICK t \in Tasks, o \in Orders :
             ClientStarts(t, o) \/ StaffStarts(t, o) \/ WebhookStarts(t, o)
    BY <1>7
  <2>1. CASE ClientStarts(t, o)
    BY <2>1 DEF ClientStarts, CreateCheck, ClientCancel
  <2>2. CASE StaffStarts(t, o)
    BY <2>2 DEF StaffStarts, Approve, Reject, StaffCancel, FailRead,
       MarkSentRead, CompleteRead
  <2>3. CASE WebhookStarts(t, o)
    BY <2>3 DEF WebhookStarts, CompleteStart, FailedStart, RefundedStart
  <2> QED BY <2>1, <2>2, <2>3
<1>8. CASE (\E o \in Orders : BridgeSteps(o)) \/ Crash \/ UNCHANGED vars
  <2>1. CASE \E o \in Orders : BridgeSteps(o)
    BY <2>1 DEF BridgeSteps, BridgeCompletes, BridgeFails, BridgeRefunds,
       BridgeReturns, BridgeMoves
  <2>2. CASE Crash BY <2>2 DEF Crash
  <2>3. CASE UNCHANGED vars BY <2>3 DEF vars
  <2> QED BY <1>8, <2>1, <2>2, <2>3
<1> QED BY <1>6, <1>7, <1>8 DEF Next

\* The account never promises less than it owes: whatever reserves, releases
\* and settlements interleave (the trigger and the two RPCs).
THEOREM PartsAlwaysCover == Spec => []PartsCoverAmount
<1>1. Init => TypeOK /\ PartsCoverAmount
  BY InitType, DepositAssumption DEF Init, PartsCoverAmount
<1>2. TypeOK /\ PartsCoverAmount /\ [Next]_vars => TypeOK' /\ PartsCoverAmount'
  <2> SUFFICES ASSUME TypeOK, PartsCoverAmount, [Next]_vars
               PROVE  TypeOK' /\ PartsCoverAmount'
    OBVIOUS
  <2>1. bal \in Balance /\ Covers(bal) BY DEF TypeOK, PartsCoverAmount, Covers
  <2>2. Covers(bal')
    BY <2>1, BalanceSteps, MovesCover
  <2> QED BY <2>2, NextKeepsType DEF PartsCoverAmount, Covers
<1> QED BY <1>1, <1>2, PTL DEF Spec

(***************************************************************************)
(* What the balance amounts to.                                            *)
(***************************************************************************)
\* What an order has taken from the balance, or brought back to it.
Net(o) == credits[o] * Amount[o] - (IF debit[o] = "settled" THEN Amount[o] ELSE 0)
Nets == [o \in Orders |-> Net(o)]

SameNets == credits' = credits /\ \A o \in Orders : (debit'[o] = "settled") = (debit[o] = "settled")
\* The ways a step changes the amount.
KeepsAmount == bal'.amount = bal.amount /\ SameNets
Settles(o) ==
  /\ debit[o] = "pending" /\ debit' = [debit EXCEPT ![o] = "settled"]
  /\ credits' = credits
  /\ bal'.amount = bal.amount - Amount[o]
Credits(o) ==
  /\ debit' = debit
  /\ credits' = [credits EXCEPT ![o] = @ + 1]
  /\ bal'.amount = bal.amount + Amount[o]
AmountStep == KeepsAmount \/ \E o \in Orders : Settles(o) \/ Credits(o)

LEMMA ReleaseAmount ==
  ASSUME TypeOK, NEW o \in Orders, bal' \in Releases(bal, Amount[o]) \/ bal' = Reserved(bal, Amount[o])
  PROVE  bal'.amount = bal.amount
BY DEF Releases, Reserved, Freed

LEMMA CreditStep ==
  ASSUME TypeOK, NEW o \in Orders, Credit(o), debit' = debit
  PROVE  AmountStep
<1>1. EntryDiff("credit", "none", "settled", Amount[o]) = Amount[o]
  BY DEF EntryDiff, Signed
<1> QED
  BY <1>1 DEF Credit, AmountStep, Credits, Posted

LEMMA SettleStep ==
  ASSUME TypeOK, NEW o \in Orders, SettleDebit(o), credits' = credits
  PROVE  AmountStep
<1>1. CASE debit[o] = "pending"
  <2>1. SettleDiff(o) = -Amount[o]
    BY <1>1 DEF SettleDiff, EntryDiff, Signed
  <2>2. bal'.amount = bal.amount - Amount[o]
    BY <1>1, <2>1, AmountAssumption DEF SettleDebit, Posted, TypeOK, Balance
  <2>3. Settles(o)
    BY <1>1, <2>2 DEF SettleDebit, Leave, Settles
  <2> QED
    BY <2>3 DEF AmountStep
<1>2. CASE debit[o] # "pending"
  BY <1>2 DEF SettleDebit, Leave, AmountStep, KeepsAmount, SameNets
<1> QED
  BY <1>1, <1>2

LEMMA LeaveNets ==
  ASSUME TypeOK, NEW o \in Orders, NEW s \in {"failed", "reversed"}, Leave(o, s)
  PROVE  \A p \in Orders : (debit'[p] = "settled") = (debit[p] = "settled")
BY DEF Leave, TypeOK

\* Every step writes a balance that its entries account for.
LEMMA AmountSteps ==
  ASSUME LegInv, [Next]_vars
  PROVE  AmountStep
<1> USE DEF AmountStep, KeepsAmount, SameNets
<1>1. TypeOK /\ \A t \in Tasks : task[t].o \in Orders
  BY TaskFields DEF LegInv
<1>2. \A o \in Orders : Release(o) => bal'.amount = bal.amount
  BY <1>1, ReleaseAmount DEF Release
<1>3. CASE \E t \in Tasks : Step(t)
  <2> PICK t \in Tasks : Step(t)
    BY <1>3
  <2>1. CASE CreateStep(t)
    BY <1>1, <2>1, ReleaseAmount
    DEF CreateStep, CreateReserve, CreateInsert, CreateConflict, CreateUnreserve, ledgerVars
  <2>2. CASE LegStep(t)
    <3>1. CASE LegDebit(t)
      <4>1. debit[task[t].o] = "none"
        BY <3>1, SmallPcs DEF LegInv, LegStages, LegStage, LegDebit, At
      <4> QED
        BY <1>1, <3>1, <4>1 DEF LegDebit, TypeOK
    <3>2. CASE ~LegDebit(t)
      BY <1>1, <1>2, <2>2, <3>2
      DEF LegStep, LegPost, LegRejected, LegTimeout, LegLink, LegRecord, LegReturn,
          LegRelease, LegMark, ledgerVars
    <3> QED
      BY <3>1, <3>2
  <2>3. CASE CloseStep(t)
    <3>1. CASE Void(t)
      <4>1. task[t].to \in {"failed", "reversed"}
        BY <1>1, <3>1, TaskFields DEF LegInv, VoidHasReason, Void, At
      <4> QED
        BY <1>1, <3>1, <4>1, LeaveNets DEF Void
    <3>2. CASE Refund(t)
      <4>1. CASE debit[task[t].o] = "settled"
        BY <1>1, <3>2, <4>1, CreditStep DEF Refund
      <4>2. CASE debit[task[t].o] # "settled"
        BY <3>2, <4>2 DEF Refund
      <4> QED
        BY <4>1, <4>2
    <3>3. CASE GiveBack(t)
      BY <1>1, <1>2, <3>3 DEF GiveBack, ledgerVars
    <3>4. CASE FailWrite(t) \/ ReleaseDebit(t) \/ MarkSentWrite(t) \/ CompleteWrite(t)
      BY <1>1, <1>2, <3>4
      DEF FailWrite, ReleaseDebit, MarkSentWrite, CompleteWrite, ledgerVars
    <3> QED
      BY <2>3, <3>1, <3>2, <3>3, <3>4 DEF CloseStep
  <2>4. CASE WebhookStep(t)
    <3>1. CASE SettleOrder(t) \/ SettleTransfer(t)
      BY <1>1, <3>1, SettleStep DEF SettleOrder, SettleTransfer
    <3>2. CASE FailedDebit(t) \/ FailedDebitOrder(t)
      BY <1>1, <3>2, LeaveNets DEF FailedDebit, FailedDebitOrder
    <3>3. CASE RefundedCredit(t)
      BY <1>1, <3>3, CreditStep DEF RefundedCredit
    <3>4. CASE FailedRelease(t) \/ FailedReleaseOrder(t)
      BY <1>1, <1>2, <3>4 DEF FailedRelease, FailedReleaseOrder, ledgerVars
    <3>5. CASE \/ CompleteLookup(t) \/ CompleteMark(t) \/ SettleThrows(t) \/ FailedMark(t)
               \/ FailedLookup(t) \/ FailedMarkOrder(t) \/ RefundedRead(t) \/ RefundedMark(t)
      BY <3>5
      DEF CompleteLookup, CompleteMark, SettleThrows, FailedMark, FailedLookup,
          FailedMarkOrder, RefundedRead, RefundedMark, ledgerVars
    <3> QED
      BY <2>4, <3>1, <3>2, <3>3, <3>4, <3>5 DEF WebhookStep
  <2> QED
    BY <2>1, <2>2, <2>3, <2>4 DEF Step
<1>4. CASE \E t \in Tasks, o \in Orders :
             ClientStarts(t, o) \/ StaffStarts(t, o) \/ WebhookStarts(t, o)
  <2> PICK t \in Tasks, o \in Orders :
             ClientStarts(t, o) \/ StaffStarts(t, o) \/ WebhookStarts(t, o)
    BY <1>4
  <2>1. UNCHANGED <<debit, credits, bal>>
    BY DEF ClientStarts, CreateCheck, ClientCancel, StaffStarts, Approve, Reject,
       StaffCancel, FailRead, MarkSentRead, CompleteRead, WebhookStarts, CompleteStart,
       FailedStart, RefundedStart, ledgerVars
  <2> QED
    BY <2>1
<1>5. CASE \E o \in Orders : BridgeSteps(o)
  BY <1>5 DEF BridgeSteps, BridgeCompletes, BridgeFails, BridgeRefunds, BridgeReturns,
     BridgeMoves, ledgerVars
<1>6. CASE Crash
  BY <1>6 DEF Crash, ledgerVars
<1>7. CASE UNCHANGED vars
  BY <1>7 DEF vars
<1> QED
  BY <1>3, <1>4, <1>5, <1>6, <1>7 DEF Next

\* What the amount must be, in one sum.
NetOfAll == bal.amount = Deposit + Total(Nets, Orders)

LEMMA NetTypes ==
  ASSUME TypeOK
  PROVE  Ints(Nets, Orders) /\ (TypeOK' => Ints(Nets', Orders))
<1>1. /\ \A o \in Orders : credits[o] \in Nat /\ Amount[o] \in Nat
      /\ TypeOK' => \A o \in Orders : credits'[o] \in Nat
  BY AmountAssumption DEF TypeOK
<1>2. \A c, a \in Nat : c * a \in Int
  OBVIOUS
<1> QED
  BY <1>1, <1>2 DEF Ints, Nets, Net

LEMMA NetSettles ==
  ASSUME TypeOK, NEW o \in Orders, Settles(o)
  PROVE  Nets'[o] = Nets[o] - Amount[o]
<1>1. debit'[o] = "settled" /\ credits'[o] = credits[o]
  BY DEF Settles, TypeOK
<1>2. credits[o] * Amount[o] \in Int /\ Amount[o] \in Int
  BY AmountAssumption DEF TypeOK
<1>3. Nets'[o] = credits[o] * Amount[o] - Amount[o] /\ Nets[o] = credits[o] * Amount[o] - 0
  BY <1>1 DEF Nets, Net, Settles
<1> QED
  BY <1>2, <1>3

LEMMA NetCredits ==
  ASSUME TypeOK, NEW o \in Orders, Credits(o)
  PROVE  Nets'[o] = Nets[o] + Amount[o]
<1> DEFINE taken == IF debit[o] = "settled" THEN Amount[o] ELSE 0
<1>1. debit'[o] = debit[o] /\ credits'[o] = credits[o] + 1
  BY DEF Credits, TypeOK
<1>2. credits[o] \in Nat /\ Amount[o] \in Nat /\ taken \in Nat
  BY AmountAssumption DEF TypeOK
<1>3. Nets'[o] = (credits[o] + 1) * Amount[o] - taken /\ Nets[o] = credits[o] * Amount[o] - taken
  BY <1>1 DEF Nets, Net
<1> HIDE DEF taken
<1>4. \A c, a \in Nat : (c + 1) * a = c * a + a /\ c * a \in Nat
  OBVIOUS
<1> QED
  BY <1>2, <1>3, <1>4

LEMMA NetKept ==
  ASSUME LegInv, IsFiniteSet(Orders), NetOfAll, [Next]_vars
  PROVE  NetOfAll'
<1>1. TypeOK /\ TypeOK'
  BY NextKeepsType DEF LegInv
<1>2. Ints(Nets, Orders) /\ Ints(Nets', Orders)
  BY <1>1, NetTypes
<1>3. CASE KeepsAmount
  <2>1. \A o \in Orders : Nets'[o] = Nets[o]
    BY <1>3 DEF KeepsAmount, SameNets, Nets, Net
  <2>2. Total(Nets', Orders) = Total(Nets, Orders)
    BY <1>2, <2>1, TotalSame
  <2> QED
    BY <1>3, <2>2 DEF NetOfAll, KeepsAmount
<1>4. ASSUME NEW o \in Orders, Settles(o) \/ Credits(o)
      PROVE  NetOfAll'
  <2>1. \A p \in Orders \ {o} : Nets'[p] = Nets[p]
    BY <1>1, <1>4 DEF Settles, Credits, Nets, Net, TypeOK
  <2>2. Total(Nets', Orders) = Total(Nets, Orders) - Nets[o] + Nets'[o]
    BY <1>2, <2>1, TotalChanges
  <2>3. bal'.amount - bal.amount = Nets'[o] - Nets[o]
    BY <1>1, <1>2, <1>4, NetSettles, NetCredits, AmountAssumption
      DEF Settles, Credits, TypeOK, Balance, Ints
  <2>4. Total(Nets, Orders) \in Int /\ bal.amount \in Int /\ bal'.amount \in Int
        /\ Nets[o] \in Int /\ Nets'[o] \in Int
    BY <1>1, <1>2, TotalType DEF TypeOK, Balance, Ints
  <2> QED
    BY <2>2, <2>3, <2>4, DepositAssumption DEF NetOfAll
<1> QED
  BY <1>3, <1>4, AmountSteps DEF AmountStep

\* The sum of the nets is what Reconciled takes and gives.
LEMMA NetSum ==
  ASSUME TypeOK, IsFiniteSet(Orders)
  PROVE  NetOfAll <=> Reconciled
<1> DEFINE Settled == {o \in Orders : debit[o] = "settled"}
           back == [o \in Orders |-> credits[o] * Amount[o]]
           taken == [o \in Orders |-> IF o \in Settled THEN Amount[o] ELSE 0]
<1>1. \A c, a \in Nat : c * a \in Int
  OBVIOUS
<1>2. /\ Ints(back, Orders) /\ Ints(taken, Orders) /\ Ints(Amount, Settled)
      /\ Ints(Nets, Orders)
  BY <1>1, NetTypes, AmountAssumption DEF Ints, TypeOK
<1>3. \A o \in Orders : back[o] = Nets[o] + taken[o]
  BY <1>1, AmountAssumption DEF Nets, Net, TypeOK
<1>4. /\ Settled \subseteq Orders
      /\ \A o \in Orders : taken[o] = IF o \in Settled THEN Amount[o] ELSE 0
  OBVIOUS
<1>5. MapThenSumSet(LAMBDA o : credits[o] * Amount[o], Orders) = Total(back, Orders)
  <2>1. Total([o \in Orders |-> credits[o] * Amount[o]], Orders)
          = MapThenSumSet(LAMBDA o : credits[o] * Amount[o], Orders)
    BY DEF Total, MapThenSumSet, MapThenFoldSet
  <2> QED
    BY <2>1
<1>6. MapThenSumSet(LAMBDA o : Amount[o], {o \in Orders : debit[o] = "settled"})
        = Total(Amount, Settled)
  BY DEF Total, MapThenSumSet, MapThenFoldSet
<1> HIDE DEF back, taken, Settled
<1>7. Total(Amount, Settled) = Total(taken, Orders)
  BY <1>2, <1>4, TotalWhere
<1>8. Total(back, Orders) = Total(Nets, Orders) + Total(taken, Orders)
  BY <1>2, <1>3, TotalPlus
<1>9. /\ Total(back, Orders) \in Int /\ Total(Nets, Orders) \in Int
      /\ Total(taken, Orders) \in Int
  BY <1>2, TotalType
<1>10. Reconciled <=> bal.amount = Deposit - Total(taken, Orders) + Total(back, Orders)
  BY <1>5, <1>6, <1>7 DEF Reconciled
<1> QED
  BY <1>8, <1>9, <1>10, DepositAssumption DEF NetOfAll

LEMMA InitNets ==
  ASSUME IsFiniteSet(Orders), Init
  PROVE  NetOfAll
<1>1. TypeOK
  BY InitType
<1>2. \A a \in Nat : 0 * a - 0 = 0
  OBVIOUS
<1>3. \A o \in Orders : Nets[o] = 0
  BY <1>2, AmountAssumption DEF Init, Nets, Net
<1>4. Total(Nets, Orders) = 0
  <2>1. Ints(Nets, {}) /\ {} \subseteq Orders
    BY DEF Ints
  <2>2. \A o \in Orders : Nets[o] = IF o \in {} THEN Nets[o] ELSE 0
    BY <1>3
  <2> QED
    BY <2>1, <2>2, TotalWhere, TotalOfNone
<1> QED
  BY <1>4, DepositAssumption DEF Init, NetOfAll

\* The balance of the account is what its entries say (Reconciled): the deposit
\* less every settled debit plus every settled credit, whatever interleaves and
\* fails (the trigger update_balance_on_ledger_entry and runReconciliation).
THEOREM BalanceReconciles ==
  ASSUME IsFiniteSet(Orders)
  PROVE  Spec => []Reconciled
<1>1. Init => NetOfAll
  BY InitNets
<1>2. LegInv /\ NetOfAll /\ [Next]_vars => LegInv' /\ NetOfAll'
  BY NextKeepsInv, NetKept
<1>3. LegInv /\ NetOfAll => Reconciled
  BY NetSum DEF LegInv
<1> QED
  BY <1>1, <1>2, <1>3, InitInv, PTL DEF Spec

(***************************************************************************)
(* Quiet scenarios: one request or webhook at a time works on an order,    *)
(* every answer and every write arrives, and whoever closes an order gives *)
(* back what it holds.  The deposit covers every order, since the error of *)
(* reserve_balance is not looked at.                                       *)
(***************************************************************************)
Serial ==
  /\ Faults \cap {"overlap", "timeout", "reorder", "crash", "dbError"} = {}
  /\ Ops \cap {"clientCancel", "noRefund", "bridgeFail", "bridgeReturn"} = {}
  /\ Deliveries["complete"] > 0
  /\ IsFiniteSet(Orders)
  /\ Deposit >= Total(Amount, Orders)

Busy(t, o) == ~At(t, "idle") /\ task[t].o = o
Alone == \A t, u \in Tasks, o \in Orders : Busy(t, o) /\ Busy(u, o) => t = u
\* The one job on an order, if any.
Cur(o) ==
  IF \E t \in Tasks : Busy(t, o) THEN task[CHOOSE t \in Tasks : Busy(t, o)] ELSE Idle

Legging == LegPcs \cup LegFailPcs
ClosingPcs == {"giveBack", "void", "releaseDebit", "refund"}
\* How an order, its entries and its transfer stand while job k is on it.
Sound(o, k) ==
  LET s == status[o]  d == debit[o] IN
  /\ k.pc \notin FailedPcs
  /\ k.pc \in CreatePcs => s = "absent"
  /\ k.pc \in Legging => s \in {"created", "processing"} /\ d = "none" /\ credits[o] = 0
  /\ k.pc = "debit" => row[o] # "none"
  /\ k.pc = "legReturn" => s = "processing"
  /\ k.pc = "post" /\ ~k.skip => s = "processing"
  /\ s \in {"created", "processing", "sent", "completed"} /\ k.pc \notin Legging =>
       d \in {"pending", "settled"}
  /\ k.pc = "fail" => k.seen = s /\ k.ctx = ctx[o] /\ s \notin Terminal \cup {"absent"}
  /\ k.pc = "giveBack" => k.ctx /\ d = "none"
  /\ k.pc \in ClosingPcs => s \in {"failed", "cancelled"} /\ credits[o] = 0
  /\ k.pc = "releaseDebit" => d \in {"failed", "reversed"}
  /\ k.pc = "sent" => s = "processing"
  /\ k.pc = "complete" => s = "sent"
  /\ k.pc \in CompletePcs => d # "none" /\ k.row
  /\ k.pc = "cMark" => s = "processing"
  /\ k.pc \in RefundedPcs => inbox[<<o, "complete">>] = 0 /\ bridge[o] = "refunded"
  /\ k.pc = "rCredit" => s = "completed" /\ credits[o] = 0
  /\ bridge[o] \in Paid /\ d \in {"none", "pending"} =>
       inbox[<<o, "complete">>] > 0 \/ k.pc \in CompletePcs
  /\ credits[o] \in {0, 1}
  /\ credits[o] = 1 =>
       d = "settled" /\ (s \in {"failed", "cancelled", "refunded"} \/ k.pc = "rMark")
  /\ d # "none" => row[o] # "none"
  /\ bridge[o] # "none" /\ d = "none" => k.pc \in {"link", "record", "debit"}
  /\ inbox[<<o, "refunded">>] > 0 => bridge[o] = "refunded"
  /\ inbox[<<o, "failed">>] = 0

\* Whether a part of the reserve is the order's, and how much.
Claim(o, k) ==
  \/ k.pc \in {"insert", "unreserve", "giveBack", "releaseDebit"}
  \/ k.pc # "legMark" /\ Holds(o)
Share(o, k) == IF Claim(o, k) THEN Amount[o] ELSE 0
Shares == [o \in Orders |-> Share(o, Cur(o))]
Backed == bal.reserved = Total(Shares, Orders)

SerialInv ==
  /\ LegInv /\ NetOfAll /\ PartsCoverAmount
  /\ Alone
  /\ \A o \in Orders : Sound(o, Cur(o))
  /\ Backed

(***************************************************************************)
(* A step of one task on one order.                                        *)
(***************************************************************************)
Elsewhere(o) ==
  \A p \in Orders \ {o} :
    /\ status'[p] = status[p] /\ ctx'[p] = ctx[p] /\ row'[p] = row[p]
    /\ debit'[p] = debit[p] /\ credits'[p] = credits[p] /\ bridge'[p] = bridge[p]
    /\ \A kind \in Kinds : inbox'[<<p, kind>>] = inbox[<<p, kind>>]
Before(t) == IF At(t, "idle") THEN Idle ELSE task[t]
Moves(t, o) ==
  /\ \A u \in Tasks : u # t => task'[u] = task[u]
  /\ Busy(t, o) \/ (At(t, "idle") /\ \A u \in Tasks : ~Busy(u, o))
  /\ task'[t] = Idle \/ (task'[t].pc # "idle" /\ task'[t].o = o)
  /\ Elsewhere(o)
\* The reserve moves with the claim.
Paired(t, o) ==
  \/ bal'.reserved = bal.reserved /\ (Claim(o, task[t])' <=> Claim(o, Before(t)))
  \/ bal'.reserved = bal.reserved + Amount[o] /\ Claim(o, task[t])' /\ ~Claim(o, Before(t))
  \/ bal'.reserved = bal.reserved - Amount[o] /\ ~Claim(o, task[t])' /\ Claim(o, Before(t))
Handled(t, o) ==
  /\ Moves(t, o)
  /\ Sound(o, task[t])'
  /\ Paired(t, o)

LEMMA CurIs ==
  ASSUME Alone
  PROVE  /\ \A t \in Tasks, o \in Orders : Busy(t, o) => Cur(o) = task[t]
         /\ \A o \in Orders : (\A t \in Tasks : ~Busy(t, o)) => Cur(o) = Idle
<1>1. ASSUME NEW t \in Tasks, NEW o \in Orders, Busy(t, o) PROVE Cur(o) = task[t]
  <2>1. (CHOOSE u \in Tasks : Busy(u, o)) \in Tasks /\ Busy(CHOOSE u \in Tasks : Busy(u, o), o)
    BY <1>1
  <2>2. (CHOOSE u \in Tasks : Busy(u, o)) = t
    BY <1>1, <2>1 DEF Alone
  <2> QED
    BY <1>1, <2>2 DEF Cur
<1> QED
  BY <1>1 DEF Cur

LEMMA CurMoves ==
  ASSUME TypeOK, TypeOK', Alone, NEW t \in Tasks, NEW o \in Orders, Moves(t, o)
  PROVE  /\ Alone'
         /\ Cur(o) = Before(t)
         /\ Cur(o)' = task'[t]
         /\ \A p \in Orders \ {o} : Cur(p)' = Cur(p)
<1>1. Idle.pc = "idle"
  BY IdleType
<1>2. \A u \in Tasks, p \in Orders : u # t => (Busy(u, p)' <=> Busy(u, p))
  BY DEF Moves, Busy, At
<1>3. \A p \in Orders \ {o} : ~Busy(t, p) /\ ~Busy(t, p)'
  BY <1>1 DEF Moves, Busy, At
<1>4. \A u \in Tasks : u # t => ~Busy(u, o)
  BY DEF Moves, Alone
<1>5. Alone'
  <2> SUFFICES ASSUME NEW u \in Tasks, NEW v \in Tasks, NEW p \in Orders, Busy(u, p)', Busy(v, p)'
               PROVE  u = v
    BY DEF Alone
  <2>1. CASE p = o
    BY <1>2, <1>4, <2>1
  <2>2. CASE p # o
    BY <1>2, <1>3, <2>2 DEF Alone
  <2> QED
    BY <2>1, <2>2
<1>6. Cur(o) = Before(t)
  BY CurIs DEF Moves, Before, Busy
<1>7. Cur(o)' = task'[t]
  <2>1. CASE Busy(t, o)'
    <3>1. (CHOOSE u \in Tasks : Busy(u, o)') = t
      BY <1>2, <1>4, <2>1
    <3> QED
      BY <2>1, <3>1 DEF Cur
  <2>2. CASE ~Busy(t, o)'
    <3>1. task'[t] = Idle /\ \A u \in Tasks : ~Busy(u, o)'
      BY <1>2, <1>4, <2>2 DEF Moves, Busy, At
    <3> QED
      BY <3>1 DEF Cur, Idle, Job, Carrying, AnOrder
  <2> QED
    BY <2>1, <2>2
<1>8. ASSUME NEW p \in Orders \ {o} PROVE Cur(p)' = Cur(p)
  <2>1. \A u \in Tasks : Busy(u, p)' <=> Busy(u, p)
    BY <1>2, <1>3
  <2>2. CASE \E u \in Tasks : Busy(u, p)
    <3>1. PICK u \in Tasks : Busy(u, p)
      BY <2>2
    <3>2. (CHOOSE v \in Tasks : Busy(v, p)') = u
      BY <2>1, <3>1 DEF Alone
    <3>3. Cur(p)' = task'[u]
      BY <2>1, <3>1, <3>2 DEF Cur
    <3>4. Cur(p) = task[u] /\ u # t
      BY <1>3, <3>1, CurIs
    <3> QED
      BY <3>3, <3>4 DEF Moves
  <2>3. CASE \A u \in Tasks : ~Busy(u, p)
    BY <2>1, <2>3 DEF Cur, Idle, Job, Carrying, AnOrder
  <2> QED
    BY <2>2, <2>3
<1> QED
  BY <1>5, <1>6, <1>7, <1>8

LEMMA ShareType ==
  /\ Ints(Shares, Orders) /\ Ints(Shares', Orders)
  /\ \A o \in Orders : Shares[o] >= 0 /\ Shares'[o] >= 0 /\ Shares[o] = Share(o, Cur(o))
                          /\ Shares'[o] = Share(o, Cur(o))'
BY AmountAssumption DEF Ints, Shares, Share

\* What holds of one order and its job is all that a step must keep.
LEMMA HandledKeeps ==
  ASSUME Serial, SerialInv, LegInv', NetOfAll', PartsCoverAmount',
         NEW t \in Tasks, NEW o \in Orders, Handled(t, o)
  PROVE  SerialInv'
<1>1. TypeOK /\ TypeOK' /\ Alone /\ Moves(t, o)
  BY DEF SerialInv, LegInv, Handled
<1>2. /\ Alone'
      /\ Cur(o) = Before(t)
      /\ Cur(o)' = task'[t]
      /\ \A p \in Orders \ {o} : Cur(p)' = Cur(p)
  BY <1>1, CurMoves
<1>3. ASSUME NEW p \in Orders PROVE Sound(p, Cur(p))'
  <2>1. CASE p = o
    <3>1. Sound(o, task[t])'
      BY DEF Handled
    <3> QED
      BY <1>2, <2>1, <3>1 DEF Sound
  <2>2. CASE p # o
    <3>1. Sound(p, Cur(p)) /\ Cur(p)' = Cur(p)
      BY <1>2, <2>2 DEF SerialInv
    <3>2. /\ status'[p] = status[p] /\ ctx'[p] = ctx[p] /\ row'[p] = row[p]
          /\ debit'[p] = debit[p] /\ credits'[p] = credits[p] /\ bridge'[p] = bridge[p]
          /\ inbox'[<<p, "complete">>] = inbox[<<p, "complete">>]
          /\ inbox'[<<p, "failed">>] = inbox[<<p, "failed">>]
          /\ inbox'[<<p, "refunded">>] = inbox[<<p, "refunded">>]
      BY <1>1, <2>2 DEF Moves, Elsewhere, Kinds
    <3> QED
      BY <3>1, <3>2 DEF Sound
  <2> QED
    BY <2>1, <2>2
<1>4. \A p \in Orders \ {o} : Shares'[p] = Shares[p]
  <2> SUFFICES ASSUME NEW p \in Orders \ {o} PROVE Share(p, Cur(p))' = Share(p, Cur(p))
    BY ShareType
  <2>1. Cur(p)' = Cur(p) /\ (Holds(p)' <=> Holds(p))
    BY <1>1, <1>2 DEF Moves, Elsewhere, Holds
  <2> QED
    BY <2>1 DEF Share, Claim
<1>5. Shares[o] = Share(o, Before(t)) /\ Shares'[o] = Share(o, task[t])'
  <2>1. Share(o, Cur(o))' = Share(o, task[t])'
    BY <1>2 DEF Share, Claim
  <2>2. Share(o, Cur(o)) = Share(o, Before(t))
    BY <1>2
  <2> QED
    BY <2>1, <2>2, ShareType
<1>6. Total(Shares', Orders) = Total(Shares, Orders) - Shares[o] + Shares'[o]
  BY <1>4, ShareType, TotalChanges DEF Serial
<1>7. /\ Total(Shares, Orders) \in Int /\ Shares[o] \in Int /\ Shares'[o] \in Int
      /\ bal.reserved \in Int /\ bal'.reserved \in Int
  BY <1>1, ShareType, TotalType DEF Serial, Ints, TypeOK, Balance
<1>8. bal'.reserved - Shares'[o] = bal.reserved - Shares[o] /\ bal.reserved = Total(Shares, Orders)
  <2>1. bal.reserved = Total(Shares, Orders) /\ Paired(t, o) /\ Amount[o] \in Int
    BY AmountAssumption DEF Handled, SerialInv, Backed
  <2>2. /\ Shares[o] = IF Claim(o, Before(t)) THEN Amount[o] ELSE 0
        /\ Shares'[o] = IF Claim(o, task[t])' THEN Amount[o] ELSE 0
    BY <1>5 DEF Share
  <2> QED
    BY <1>7, <2>1, <2>2 DEF Paired
<1>9. Backed'
  <2>1. bal'.reserved = Total(Shares', Orders)
    BY <1>6, <1>7, <1>8
  <2> QED
    BY <2>1 DEF Backed
<1> QED
  BY <1>2, <1>3, <1>9 DEF SerialInv

(***************************************************************************)
(* The reserve holds what the orders claim, and the deposit suffices for   *)
(* those that claim nothing yet.                                           *)
(***************************************************************************)
LEMMA ReserveHolds ==
  ASSUME Serial, SerialInv, NEW o \in Orders, Claim(o, Cur(o))
  PROVE  bal.reserved >= Amount[o]
<1>1. Shares[o] = Amount[o]
  BY ShareType DEF Share
<1>2. Shares[o] =< Total(Shares, Orders)
  BY ShareType, TotalCovers DEF Serial
<1> QED
  BY <1>1, <1>2 DEF SerialInv, Backed

LEMMA DepositSuffices ==
  ASSUME Serial, SerialInv, NEW o \in Orders, ~Claim(o, Cur(o)), debit[o] # "settled"
  PROVE  bal.available >= Amount[o]
<1> DEFINE left == [p \in Orders |-> Amount[p] + Nets[p]]
           W == [p \in Orders |-> left[p] - Shares[p]]
<1>1. TypeOK
  BY DEF SerialInv, LegInv
<1>2. /\ \A p \in Orders : Amount[p] \in Nat /\ Nets[p] \in Int /\ Shares[p] \in Int
      /\ Ints(Amount, Orders) /\ Ints(Nets, Orders) /\ Ints(Shares, Orders)
      /\ Ints(left, Orders) /\ Ints(W, Orders)
  BY <1>1, AmountAssumption, NetTypes, ShareType DEF Ints
<1>3. \A c, a \in Nat : c * a >= 0 /\ c * a \in Int
  OBVIOUS
<1>4. \A p \in Orders : Nets[p] >= IF debit[p] = "settled" THEN -Amount[p] ELSE 0
  BY <1>1, <1>2, <1>3 DEF Nets, Net, TypeOK
<1>5. ASSUME NEW p \in Orders PROVE W[p] >= 0
  <2>1. Claim(p, Cur(p)) => debit[p] # "settled"
    <3>1. Sound(p, Cur(p))
      BY DEF SerialInv
    <3>2. AbsentIsBlank
      BY DEF SerialInv, LegInv
    <3> QED
      BY <3>1, <3>2, SmallPcs DEF Claim, Sound, AbsentIsBlank, Holds
  <2>2. Shares[p] = IF Claim(p, Cur(p)) THEN Amount[p] ELSE 0
    BY ShareType DEF Share
  <2>3. W[p] = Amount[p] + Nets[p] - Shares[p]
    BY <1>2
  <2> QED
    BY <1>2, <1>4, <2>1, <2>2, <2>3
<1>6. W[o] >= Amount[o]
  <2>1. Shares[o] = 0
    BY ShareType DEF Share
  <2>2. W[o] = Amount[o] + Nets[o] - Shares[o]
    BY <1>2
  <2> QED
    BY <1>2, <1>4, <2>1, <2>2
<1>7. \A p \in Orders : left[p] = Amount[p] + Nets[p] /\ left[p] = W[p] + Shares[p]
  BY <1>2
<1> HIDE DEF left, W
<1>8. Total(left, Orders) = Total(Amount, Orders) + Total(Nets, Orders)
  BY <1>2, <1>7, TotalPlus DEF Serial
<1>9. Total(left, Orders) = Total(W, Orders) + Total(Shares, Orders)
  BY <1>2, <1>7, TotalPlus DEF Serial
<1>10. W[o] =< Total(W, Orders)
  BY <1>2, <1>5, TotalCovers DEF Serial
<1>11. /\ Total(left, Orders) \in Int /\ Total(Amount, Orders) \in Int
       /\ Total(Nets, Orders) \in Int /\ Total(W, Orders) \in Int
       /\ Total(Shares, Orders) \in Int
  BY <1>2, TotalType DEF Serial
<1>12. /\ bal.amount = Deposit + Total(Nets, Orders) /\ bal.reserved = Total(Shares, Orders)
       /\ bal.available + bal.reserved >= bal.amount /\ Deposit >= Total(Amount, Orders)
  BY DEF SerialInv, NetOfAll, Backed, PartsCoverAmount, Serial
<1>13. bal.available \in Int /\ bal.reserved \in Int /\ bal.amount \in Int /\ W[o] \in Int
  BY <1>1, <1>2 DEF TypeOK, Balance, Ints
<1> QED
  BY <1>2, <1>6, <1>8, <1>9, <1>10, <1>11, <1>12, <1>13, DepositAssumption

(***************************************************************************)
(* What a step knows of its order.                                         *)
(***************************************************************************)
LEMMA GotoFields ==
  ASSUME TypeOK, NEW t \in Tasks, NEW pc \in Pcs, Goto(t, pc)
  PROVE  /\ task'[t].pc = pc /\ task'[t].o = task[t].o /\ task'[t].skip = task[t].skip
         /\ task'[t].ctx = task[t].ctx /\ task'[t].row = task[t].row
         /\ task'[t].seen = task[t].seen /\ task'[t].to = task[t].to
         /\ \A u \in Tasks : u # t => task'[u] = task[u]
<1>1. task[t] \in Task /\ task \in [Tasks -> Task]
  BY DEF TypeOK
<1>2. task' = [task EXCEPT ![t] = [task[t] EXCEPT !.pc = pc]]
  BY DEF Goto
<1> QED
  BY <1>1, <1>2 DEF Task

LEMMA StartFields ==
  ASSUME TypeOK, NEW t \in Tasks, NEW job, Start(t, job)
  PROVE  task'[t] = job /\ \A u \in Tasks : u # t => task'[u] = task[u]
BY DEF Start, TypeOK

LEMMA IdleFields == Idle.pc = "idle"
BY IdleType

\* What the invariant says of one order.
Known(o) ==
  /\ status[o] \in Statuses /\ debit[o] \in EntryStates /\ bal \in Balance
  /\ credits[o] \in Nat /\ Amount[o] \in Nat \ {0}
  /\ status[o] = "absent" =>
       /\ row[o] = "none" /\ debit[o] = "none" /\ bridge[o] = "none"
       /\ inbox[<<o, "complete">>] = 0 /\ inbox[<<o, "refunded">>] = 0
  /\ status[o] = "pending_review" => ctx[o] /\ ~link[o] /\ row[o] = "none" /\ debit[o] = "none"
  /\ inbox[<<o, "complete">>] > 0 => bridge[o] \in Paid
  /\ Claim(o, Cur(o)) => bal.reserved >= Amount[o]
  /\ ~Claim(o, Cur(o)) /\ debit[o] # "settled" => bal.available >= Amount[o]

LEMMA OrderKnown ==
  ASSUME Serial, SerialInv, NEW o \in Orders
  PROVE  Known(o)
<1>1. TypeOK /\ AbsentIsBlank /\ ReviewIsBeforeLeg /\ CompletionsArePaid
  BY DEF SerialInv, LegInv
<1>2. Amount[o] \in Nat \ {0}
  BY AmountAssumption
<1>3. /\ Claim(o, Cur(o)) => bal.reserved >= Amount[o]
      /\ ~Claim(o, Cur(o)) /\ debit[o] # "settled" => bal.available >= Amount[o]
  BY ReserveHolds, DepositSuffices
<1> QED
  BY <1>1, <1>2, <1>3 DEF Known, TypeOK, AbsentIsBlank, ReviewIsBeforeLeg, CompletionsArePaid, Kinds

\* Of one at work, and of one nobody works on.
LEMMA AtWork ==
  ASSUME Serial, SerialInv, NEW t \in Tasks, ~At(t, "idle"), NEW o, o = task[t].o
  PROVE  /\ o \in Orders /\ TypeOK /\ task[t] \in Task /\ Busy(t, o) /\ Before(t) = task[t]
         /\ Known(o) /\ Cur(o) = task[t] /\ Sound(o, task[t]) /\ LegStage(t)
         /\ task[t].pc \notin CreatePcs => status[o] # "absent"
<1>1. TypeOK /\ LegStages /\ WorkIsOnOrders /\ Alone
  BY DEF SerialInv, LegInv
<1>2. o \in Orders /\ task[t] \in Task /\ Busy(t, o)
  BY <1>1, TaskFields DEF Busy
<1>3. Cur(o) = task[t]
  BY <1>1, <1>2, CurIs
<1> QED
  BY <1>1, <1>2, <1>3, OrderKnown DEF Before, SerialInv, LegStages, WorkIsOnOrders, At

LEMMA AtRest ==
  ASSUME Serial, SerialInv, NEW t \in Tasks, NEW o \in Orders, Free(t, o)
  PROVE  /\ TypeOK /\ Before(t) = Idle /\ At(t, "idle") /\ \A u \in Tasks : ~Busy(u, o)
         /\ Known(o) /\ Cur(o) = Idle /\ Sound(o, Idle)
<1>1. TypeOK /\ Alone
  BY DEF SerialInv, LegInv
<1>2. At(t, "idle") /\ \A u \in Tasks : ~Busy(u, o)
  BY DEF Free, Busy, Serial
<1>3. Cur(o) = Idle
  BY <1>1, <1>2, CurIs
<1> QED
  BY <1>1, <1>2, <1>3, OrderKnown DEF Before, SerialInv

LEMMA VoidFacts ==
  ASSUME SerialInv, NEW t \in Tasks, Void(t)
  PROVE  task[t].to \in {"failed", "reversed"}
BY TaskFields DEF SerialInv, LegInv, VoidHasReason, Void, At

\* The phases, listed.
LEMMA SmallPhases ==
  /\ CreatePcs = {"reserve", "insert", "unreserve"}
  /\ Legging = {"post", "link", "record", "debit", "legReturn", "legRelease", "legMark"}
  /\ CompletePcs = {"cLookup", "cMark", "settleOrder", "settleXfer"}
  /\ ClosingPcs = {"giveBack", "void", "releaseDebit", "refund"}
  /\ RefundedPcs = {"rRead", "rCredit", "rMark"}
  /\ FailedPcs = {"fMark", "fDebit", "fLookup", "fRelease", "fMarkOrder",
                   "fReleaseOrder", "fDebitOrder"}
  /\ Terminal = {"completed", "failed", "cancelled", "refunded"}
  /\ Active = {"created", "pending_review", "processing"}
  /\ Paid = {"complete", "refunded"}
  /\ StaffCancellable = {"created", "pending_review", "processing"}
BY DEF CreatePcs, Legging, LegPcs, LegFailPcs, CompletePcs, ClosingPcs, RefundedPcs, FailedPcs,
   Terminal, Active, Paid, StaffCancellable

LEMMA CreateReserveHandled ==
  ASSUME Serial, SerialInv, NEW t \in Tasks, CreateReserve(t), NEW o, o = task[t].o
  PROVE  Handled(t, o)
<1>1. ~At(t, "idle")
  BY DEF CreateReserve, At
<1>2. /\ o \in Orders /\ TypeOK /\ task[t] \in Task /\ Busy(t, o) /\ Before(t) = task[t]
      /\ Known(o) /\ Cur(o) = task[t] /\ Sound(o, task[t]) /\ LegStage(t)
      /\ task[t].pc \notin CreatePcs => status[o] # "absent"
  BY <1>1, AtWork
<1> USE <1>1, <1>2, IdleFields, SmallPhases, GotoFields, AllPcs
<1>3. Moves(t, o)
  BY DEF CreateReserve, At, orderVars, ledgerVars, Moves, Elsewhere, Busy, TypeOK
<1>4. Sound(o, task[t])'
  BY DEF CreateReserve, At, orderVars, ledgerVars, Serial, Sound, Known, LegStage,
     TypeOK
<1>5. Paired(t, o)
  BY DEF CreateReserve, At, orderVars, ledgerVars, Freed, Reserved, Serial, Paired,
     Claim, Holds, Sound, Known, Balance, TypeOK
<1> QED
  BY <1>3, <1>4, <1>5 DEF Handled

LEMMA CreateInsertHandled ==
  ASSUME Serial, SerialInv, NEW t \in Tasks, CreateInsert(t), NEW o, o = task[t].o
  PROVE  Handled(t, o)
<1>1. ~At(t, "idle")
  BY DEF CreateInsert, At
<1>2. /\ o \in Orders /\ TypeOK /\ task[t] \in Task /\ Busy(t, o) /\ Before(t) = task[t]
      /\ Known(o) /\ Cur(o) = task[t] /\ Sound(o, task[t]) /\ LegStage(t)
      /\ task[t].pc \notin CreatePcs => status[o] # "absent"
  BY <1>1, AtWork
<1> USE <1>1, <1>2, IdleFields, SmallPhases, GotoFields, StartFields, AllPcs
<1>3. Moves(t, o)
  BY DEF CreateInsert, Write, At, orderVars, ledgerVars, Done, Moves, Elsewhere, Busy,
     TypeOK
<1>4. Sound(o, task[t])'
  BY DEF CreateInsert, Write, At, orderVars, ledgerVars, Done, Sound, Known, LegStage,
     TypeOK
<1>5. Paired(t, o)
  BY DEF CreateInsert, Write, At, orderVars, ledgerVars, Done, Paired, Claim, Holds,
     Sound, Known, Balance, TypeOK
<1> QED
  BY <1>3, <1>4, <1>5 DEF Handled

LEMMA CreateConflictHandled ==
  ASSUME Serial, SerialInv, NEW t \in Tasks, CreateConflict(t), NEW o, o = task[t].o
  PROVE  Handled(t, o)
<1>1. ~At(t, "idle")
  BY DEF CreateConflict, At
<1>2. /\ o \in Orders /\ TypeOK /\ task[t] \in Task /\ Busy(t, o) /\ Before(t) = task[t]
      /\ Known(o) /\ Cur(o) = task[t] /\ Sound(o, task[t]) /\ LegStage(t)
      /\ task[t].pc \notin CreatePcs => status[o] # "absent"
  BY <1>1, AtWork
<1> USE <1>1, <1>2, IdleFields, SmallPhases, GotoFields, AllPcs
<1>3. Moves(t, o)
  BY DEF CreateConflict, At, orderVars, ledgerVars, Moves, Elsewhere, Busy, TypeOK
<1>4. Sound(o, task[t])'
  BY DEF CreateConflict, At, orderVars, ledgerVars, Sound, Known, LegStage, TypeOK
<1>5. Paired(t, o)
  BY DEF CreateConflict, At, orderVars, ledgerVars, Paired, Claim, Holds, Sound, TypeOK
<1> QED
  BY <1>3, <1>4, <1>5 DEF Handled

LEMMA CreateUnreserveHandled ==
  ASSUME Serial, SerialInv, NEW t \in Tasks, CreateUnreserve(t), NEW o, o = task[t].o
  PROVE  Handled(t, o)
<1>1. ~At(t, "idle")
  BY DEF CreateUnreserve, At
<1>2. /\ o \in Orders /\ TypeOK /\ task[t] \in Task /\ Busy(t, o) /\ Before(t) = task[t]
      /\ Known(o) /\ Cur(o) = task[t] /\ Sound(o, task[t]) /\ LegStage(t)
      /\ task[t].pc \notin CreatePcs => status[o] # "absent"
  BY <1>1, AtWork
<1> USE <1>1, <1>2, IdleFields, SmallPhases, StartFields
<1>3. Moves(t, o)
  BY DEF CreateUnreserve, At, orderVars, ledgerVars, Done, Moves, Elsewhere, Busy,
     TypeOK
<1>4. Sound(o, task[t])'
  BY DEF CreateUnreserve, At, orderVars, ledgerVars, Done, Sound, Known, LegStage,
     TypeOK
<1>5. Paired(t, o)
  BY DEF CreateUnreserve, At, orderVars, ledgerVars, Done, Freed, Releases, Paired,
     Claim, Holds, Sound, Known, Balance, TypeOK
<1> QED
  BY <1>3, <1>4, <1>5 DEF Handled

LEMMA LegPostHandled ==
  ASSUME Serial, SerialInv, NEW t \in Tasks, LegPost(t), NEW o, o = task[t].o
  PROVE  Handled(t, o)
<1>1. ~At(t, "idle")
  BY DEF LegPost, At
<1>2. /\ o \in Orders /\ TypeOK /\ task[t] \in Task /\ Busy(t, o) /\ Before(t) = task[t]
      /\ Known(o) /\ Cur(o) = task[t] /\ Sound(o, task[t]) /\ LegStage(t)
      /\ task[t].pc \notin CreatePcs => status[o] # "absent"
  BY <1>1, AtWork
<1> USE <1>1, <1>2, IdleFields, SmallPhases, GotoFields, AllPcs
<1>3. Moves(t, o)
  BY DEF LegPost, At, orderVars, ledgerVars, Moves, Elsewhere, Busy, TypeOK
<1>4. Sound(o, task[t])'
  BY DEF LegPost, At, orderVars, ledgerVars, Sound, Known, LegStage, TypeOK
<1>5. Paired(t, o)
  BY DEF LegPost, At, orderVars, ledgerVars, Paired, Claim, Holds, Sound, TypeOK
<1> QED
  BY <1>3, <1>4, <1>5 DEF Handled

LEMMA LegRejectedHandled ==
  ASSUME Serial, SerialInv, NEW t \in Tasks, LegRejected(t), NEW o, o = task[t].o
  PROVE  Handled(t, o)
<1>1. ~At(t, "idle")
  BY DEF LegRejected, At
<1>2. /\ o \in Orders /\ TypeOK /\ task[t] \in Task /\ Busy(t, o) /\ Before(t) = task[t]
      /\ Known(o) /\ Cur(o) = task[t] /\ Sound(o, task[t]) /\ LegStage(t)
      /\ task[t].pc \notin CreatePcs => status[o] # "absent"
  BY <1>1, AtWork
<1> USE <1>1, <1>2, IdleFields, SmallPhases, GotoFields, AllPcs
<1>3. Moves(t, o)
  BY DEF LegRejected, LegFails, At, orderVars, ledgerVars, Moves, Elsewhere, Busy,
     TypeOK
<1>4. Sound(o, task[t])'
  BY DEF LegRejected, LegFails, At, orderVars, ledgerVars, Sound, Known, LegStage,
     TypeOK
<1>5. Paired(t, o)
  BY DEF LegRejected, LegFails, At, orderVars, ledgerVars, Paired, Claim, Holds, Sound,
     TypeOK
<1> QED
  BY <1>3, <1>4, <1>5 DEF Handled

LEMMA LegLinkHandled ==
  ASSUME Serial, SerialInv, NEW t \in Tasks, LegLink(t), NEW o, o = task[t].o
  PROVE  Handled(t, o)
<1>1. ~At(t, "idle")
  BY DEF LegLink, At
<1>2. /\ o \in Orders /\ TypeOK /\ task[t] \in Task /\ Busy(t, o) /\ Before(t) = task[t]
      /\ Known(o) /\ Cur(o) = task[t] /\ Sound(o, task[t]) /\ LegStage(t)
      /\ task[t].pc \notin CreatePcs => status[o] # "absent"
  BY <1>1, AtWork
<1> USE <1>1, <1>2, IdleFields, SmallPhases, GotoFields, AllPcs
<1>3. Moves(t, o)
  BY DEF LegLink, Write, At, orderVars, ledgerVars, Moves, Elsewhere, Busy, TypeOK
<1>4. Sound(o, task[t])'
  BY DEF LegLink, Write, At, orderVars, ledgerVars, Serial, Sound, Known, LegStage,
     TypeOK
<1>5. Paired(t, o)
  BY DEF LegLink, Write, At, orderVars, ledgerVars, Serial, Paired, Claim, Holds, Sound,
     TypeOK
<1> QED
  BY <1>3, <1>4, <1>5 DEF Handled

LEMMA LegRecordHandled ==
  ASSUME Serial, SerialInv, NEW t \in Tasks, LegRecord(t), NEW o, o = task[t].o
  PROVE  Handled(t, o)
<1>1. ~At(t, "idle")
  BY DEF LegRecord, At
<1>2. /\ o \in Orders /\ TypeOK /\ task[t] \in Task /\ Busy(t, o) /\ Before(t) = task[t]
      /\ Known(o) /\ Cur(o) = task[t] /\ Sound(o, task[t]) /\ LegStage(t)
      /\ task[t].pc \notin CreatePcs => status[o] # "absent"
  BY <1>1, AtWork
<1> USE <1>1, <1>2, IdleFields, SmallPhases, GotoFields, AllPcs
<1>3. Moves(t, o)
  BY DEF LegRecord, At, orderVars, ledgerVars, Moves, Elsewhere, Busy, TypeOK
<1>4. Sound(o, task[t])'
  BY DEF LegRecord, At, orderVars, ledgerVars, Serial, Sound, Known, LegStage, TypeOK
<1>5. Paired(t, o)
  BY DEF LegRecord, At, orderVars, ledgerVars, Serial, Paired, Claim, Holds, Sound,
     TypeOK
<1> QED
  BY <1>3, <1>4, <1>5 DEF Handled

LEMMA LegDebitHandled ==
  ASSUME Serial, SerialInv, NEW t \in Tasks, LegDebit(t), NEW o, o = task[t].o
  PROVE  Handled(t, o)
<1>1. ~At(t, "idle")
  BY DEF LegDebit, At
<1>2. /\ o \in Orders /\ TypeOK /\ task[t] \in Task /\ Busy(t, o) /\ Before(t) = task[t]
      /\ Known(o) /\ Cur(o) = task[t] /\ Sound(o, task[t]) /\ LegStage(t)
      /\ task[t].pc \notin CreatePcs => status[o] # "absent"
  BY <1>1, AtWork
<1> USE <1>1, <1>2, IdleFields, SmallPhases, StartFields
<1>3. Moves(t, o)
  BY DEF LegDebit, At, orderVars, ledgerVars, Done, Moves, Elsewhere, Busy, TypeOK
<1>4. Sound(o, task[t])'
  BY DEF LegDebit, At, orderVars, ledgerVars, Done, Serial, Sound, Known, LegStage,
     TypeOK
<1>5. Paired(t, o)
  BY DEF LegDebit, At, orderVars, ledgerVars, Done, Serial, Paired, Claim, Holds, Sound,
     Known, Balance, TypeOK
<1> QED
  BY <1>3, <1>4, <1>5 DEF Handled

LEMMA LegReturnHandled ==
  ASSUME Serial, SerialInv, NEW t \in Tasks, LegReturn(t), NEW o, o = task[t].o
  PROVE  Handled(t, o)
<1>1. ~At(t, "idle")
  BY DEF LegReturn, At
<1>2. /\ o \in Orders /\ TypeOK /\ task[t] \in Task /\ Busy(t, o) /\ Before(t) = task[t]
      /\ Known(o) /\ Cur(o) = task[t] /\ Sound(o, task[t]) /\ LegStage(t)
      /\ task[t].pc \notin CreatePcs => status[o] # "absent"
  BY <1>1, AtWork
<1> USE <1>1, <1>2, IdleFields, SmallPhases, StartFields
<1>3. Moves(t, o)
  BY DEF LegReturn, Write, At, orderVars, ledgerVars, Done, Moves, Elsewhere, Busy,
     TypeOK
<1>4. Sound(o, task[t])'
  BY DEF LegReturn, Write, At, orderVars, ledgerVars, Done, Sound, Known, LegStage,
     TypeOK
<1>5. Paired(t, o)
  BY DEF LegReturn, Write, At, orderVars, ledgerVars, Done, Paired, Claim, Holds, Sound,
     TypeOK
<1> QED
  BY <1>3, <1>4, <1>5 DEF Handled

LEMMA LegReleaseHandled ==
  ASSUME Serial, SerialInv, NEW t \in Tasks, LegRelease(t), NEW o, o = task[t].o
  PROVE  Handled(t, o)
<1>1. ~At(t, "idle")
  BY DEF LegRelease, At
<1>2. /\ o \in Orders /\ TypeOK /\ task[t] \in Task /\ Busy(t, o) /\ Before(t) = task[t]
      /\ Known(o) /\ Cur(o) = task[t] /\ Sound(o, task[t]) /\ LegStage(t)
      /\ task[t].pc \notin CreatePcs => status[o] # "absent"
  BY <1>1, AtWork
<1> USE <1>1, <1>2, IdleFields, SmallPhases, GotoFields, AllPcs
<1>3. Moves(t, o)
  BY DEF LegRelease, Release, At, orderVars, ledgerVars, Moves, Elsewhere, Busy, TypeOK
<1>4. Sound(o, task[t])'
  BY DEF LegRelease, Release, At, orderVars, ledgerVars, Sound, Known, LegStage, TypeOK
<1>5. Paired(t, o)
  BY DEF LegRelease, Release, At, orderVars, ledgerVars, Freed, Releases, Paired, Claim,
     Holds, Sound, Known, Balance, TypeOK
<1> QED
  BY <1>3, <1>4, <1>5 DEF Handled

LEMMA LegMarkHandled ==
  ASSUME Serial, SerialInv, NEW t \in Tasks, LegMark(t), NEW o, o = task[t].o
  PROVE  Handled(t, o)
<1>1. ~At(t, "idle")
  BY DEF LegMark, At
<1>2. /\ o \in Orders /\ TypeOK /\ task[t] \in Task /\ Busy(t, o) /\ Before(t) = task[t]
      /\ Known(o) /\ Cur(o) = task[t] /\ Sound(o, task[t]) /\ LegStage(t)
      /\ task[t].pc \notin CreatePcs => status[o] # "absent"
  BY <1>1, AtWork
<1> USE <1>1, <1>2, IdleFields, SmallPhases, StartFields
<1>3. Moves(t, o)
  BY DEF LegMark, Write, At, orderVars, ledgerVars, Done, Moves, Elsewhere, Busy, TypeOK
<1>4. Sound(o, task[t])'
  BY DEF LegMark, Write, At, orderVars, ledgerVars, Done, Sound, Known, LegStage, TypeOK
<1>5. Paired(t, o)
  BY DEF LegMark, Write, At, orderVars, ledgerVars, Done, Paired, Claim, Holds, Sound,
     TypeOK
<1> QED
  BY <1>3, <1>4, <1>5 DEF Handled

LEMMA FailWriteHandled ==
  ASSUME Serial, SerialInv, NEW t \in Tasks, FailWrite(t), NEW o, o = task[t].o
  PROVE  Handled(t, o)
<1>1. ~At(t, "idle")
  BY DEF FailWrite, At
<1>2. /\ o \in Orders /\ TypeOK /\ task[t] \in Task /\ Busy(t, o) /\ Before(t) = task[t]
      /\ Known(o) /\ Cur(o) = task[t] /\ Sound(o, task[t]) /\ LegStage(t)
      /\ task[t].pc \notin CreatePcs => status[o] # "absent"
  BY <1>1, AtWork
<1> USE <1>1, <1>2, IdleFields, SmallPhases, StartFields
<1>3. Moves(t, o)
  BY DEF FailWrite, Write, Close, Carrying, At, orderVars, ledgerVars, Done, Moves,
     Elsewhere, Busy, TypeOK
<1>4. Sound(o, task[t])'
  BY DEF FailWrite, Write, Close, Carrying, At, orderVars, ledgerVars, Done, Sound,
     Known, LegStage, TypeOK
<1>5. Paired(t, o)
  BY DEF FailWrite, Write, Close, Carrying, At, orderVars, ledgerVars, Done, Paired,
     Claim, Holds, Sound, Known, Balance, TypeOK
<1> QED
  BY <1>3, <1>4, <1>5 DEF Handled

LEMMA GiveBackHandled ==
  ASSUME Serial, SerialInv, NEW t \in Tasks, GiveBack(t), NEW o, o = task[t].o
  PROVE  Handled(t, o)
<1>1. ~At(t, "idle")
  BY DEF GiveBack, At
<1>2. /\ o \in Orders /\ TypeOK /\ task[t] \in Task /\ Busy(t, o) /\ Before(t) = task[t]
      /\ Known(o) /\ Cur(o) = task[t] /\ Sound(o, task[t]) /\ LegStage(t)
      /\ task[t].pc \notin CreatePcs => status[o] # "absent"
  BY <1>1, AtWork
<1> USE <1>1, <1>2, IdleFields, SmallPhases, GotoFields, StartFields, AllPcs
<1>3. Moves(t, o)
  BY DEF GiveBack, Release, At, orderVars, ledgerVars, Done, Moves, Elsewhere, Busy,
     TypeOK
<1>4. Sound(o, task[t])'
  BY DEF GiveBack, Release, At, orderVars, ledgerVars, Done, Sound, Known, LegStage,
     TypeOK
<1>5. Paired(t, o)
  BY DEF GiveBack, Release, At, orderVars, ledgerVars, Done, Freed, Releases, Paired,
     Claim, Holds, Sound, Known, Balance, TypeOK
<1> QED
  BY <1>3, <1>4, <1>5 DEF Handled

LEMMA VoidHandled ==
  ASSUME Serial, SerialInv, NEW t \in Tasks, Void(t), NEW o, o = task[t].o
  PROVE  Handled(t, o)
<1>1. ~At(t, "idle")
  BY DEF Void, At
<1>2. /\ o \in Orders /\ TypeOK /\ task[t] \in Task /\ Busy(t, o) /\ Before(t) = task[t]
      /\ Known(o) /\ Cur(o) = task[t] /\ Sound(o, task[t]) /\ LegStage(t)
      /\ task[t].pc \notin CreatePcs => status[o] # "absent"
  BY <1>1, AtWork
<1> USE <1>1, <1>2, IdleFields, SmallPhases, GotoFields, AllPcs
<1>3. Moves(t, o)
  BY DEF Void, Leave, At, orderVars, ledgerVars, Moves, Elsewhere, Busy, TypeOK
<1>4. Sound(o, task[t])'
  <2>1. /\ UNCHANGED <<status, ctx, row, credits, bridge, inbox>>
        /\ debit'[o] = IF debit[o] = "pending" THEN task[t].to ELSE debit[o]
    BY DEF Void, Leave, TypeOK, orderVars
  <2>2. /\ task'[t].pc = IF debit[o] = "pending" THEN "releaseDebit" ELSE "refund"
        /\ task[t].pc = "void"
    BY DEF Void, At
  <2>3. CASE debit[o] = "pending"
    <3>1. debit'[o] \in {"failed", "reversed"} /\ task'[t].pc = "releaseDebit"
      BY <2>1, <2>2, <2>3, VoidFacts
    <3> QED
      BY <2>1, <2>2, <2>3, <3>1 DEF Sound
  <2>4. CASE debit[o] # "pending"
    <3>1. debit'[o] = debit[o] /\ task'[t].pc = "refund"
      BY <2>1, <2>2, <2>4
    <3> QED
      BY <2>1, <2>2, <2>4, <3>1 DEF Sound
  <2> QED
    BY <2>3, <2>4
<1>5. Paired(t, o)
  BY DEF Void, Leave, At, orderVars, ledgerVars, Paired, Claim, Holds, Sound, TypeOK
<1> QED
  BY <1>3, <1>4, <1>5 DEF Handled

LEMMA ReleaseDebitHandled ==
  ASSUME Serial, SerialInv, NEW t \in Tasks, ReleaseDebit(t), NEW o, o = task[t].o
  PROVE  Handled(t, o)
<1>1. ~At(t, "idle")
  BY DEF ReleaseDebit, At
<1>2. /\ o \in Orders /\ TypeOK /\ task[t] \in Task /\ Busy(t, o) /\ Before(t) = task[t]
      /\ Known(o) /\ Cur(o) = task[t] /\ Sound(o, task[t]) /\ LegStage(t)
      /\ task[t].pc \notin CreatePcs => status[o] # "absent"
  BY <1>1, AtWork
<1> USE <1>1, <1>2, IdleFields, SmallPhases, GotoFields, AllPcs
<1>3. Moves(t, o)
  BY DEF ReleaseDebit, Release, At, orderVars, ledgerVars, Moves, Elsewhere, Busy,
     TypeOK
<1>4. Sound(o, task[t])'
  BY DEF ReleaseDebit, Release, At, orderVars, ledgerVars, Sound, Known, LegStage,
     TypeOK
<1>5. Paired(t, o)
  BY DEF ReleaseDebit, Release, At, orderVars, ledgerVars, Freed, Releases, Paired,
     Claim, Holds, Sound, Known, Balance, TypeOK
<1> QED
  BY <1>3, <1>4, <1>5 DEF Handled

LEMMA RefundHandled ==
  ASSUME Serial, SerialInv, NEW t \in Tasks, Refund(t), NEW o, o = task[t].o
  PROVE  Handled(t, o)
<1>1. ~At(t, "idle")
  BY DEF Refund, At
<1>2. /\ o \in Orders /\ TypeOK /\ task[t] \in Task /\ Busy(t, o) /\ Before(t) = task[t]
      /\ Known(o) /\ Cur(o) = task[t] /\ Sound(o, task[t]) /\ LegStage(t)
      /\ task[t].pc \notin CreatePcs => status[o] # "absent"
  BY <1>1, AtWork
<1> USE <1>1, <1>2, IdleFields, SmallPhases, StartFields
<1>3. Moves(t, o)
  BY DEF Refund, Credit, At, orderVars, ledgerVars, Done, Moves, Elsewhere, Busy, TypeOK
<1>4. Sound(o, task[t])'
  BY DEF Refund, Credit, At, orderVars, ledgerVars, Done, Sound, Known, LegStage, TypeOK
<1>5. Paired(t, o)
  BY DEF Refund, Credit, At, orderVars, ledgerVars, Done, EntryDiff, Posted, Signed,
     Paired, Claim, Holds, Sound, Known, Balance, TypeOK
<1> QED
  BY <1>3, <1>4, <1>5 DEF Handled

LEMMA MarkSentWriteHandled ==
  ASSUME Serial, SerialInv, NEW t \in Tasks, MarkSentWrite(t), NEW o, o = task[t].o
  PROVE  Handled(t, o)
<1>1. ~At(t, "idle")
  BY DEF MarkSentWrite, At
<1>2. /\ o \in Orders /\ TypeOK /\ task[t] \in Task /\ Busy(t, o) /\ Before(t) = task[t]
      /\ Known(o) /\ Cur(o) = task[t] /\ Sound(o, task[t]) /\ LegStage(t)
      /\ task[t].pc \notin CreatePcs => status[o] # "absent"
  BY <1>1, AtWork
<1> USE <1>1, <1>2, IdleFields, SmallPhases, StartFields
<1>3. Moves(t, o)
  BY DEF MarkSentWrite, Write, At, orderVars, ledgerVars, Done, Moves, Elsewhere, Busy,
     TypeOK
<1>4. Sound(o, task[t])'
  BY DEF MarkSentWrite, Write, At, orderVars, ledgerVars, Done, Sound, Known, LegStage,
     TypeOK
<1>5. Paired(t, o)
  BY DEF MarkSentWrite, Write, At, orderVars, ledgerVars, Done, Paired, Claim, Holds,
     Sound, TypeOK
<1> QED
  BY <1>3, <1>4, <1>5 DEF Handled

LEMMA CompleteWriteHandled ==
  ASSUME Serial, SerialInv, NEW t \in Tasks, CompleteWrite(t), NEW o, o = task[t].o
  PROVE  Handled(t, o)
<1>1. ~At(t, "idle")
  BY DEF CompleteWrite, At
<1>2. /\ o \in Orders /\ TypeOK /\ task[t] \in Task /\ Busy(t, o) /\ Before(t) = task[t]
      /\ Known(o) /\ Cur(o) = task[t] /\ Sound(o, task[t]) /\ LegStage(t)
      /\ task[t].pc \notin CreatePcs => status[o] # "absent"
  BY <1>1, AtWork
<1> USE <1>1, <1>2, IdleFields, SmallPhases, StartFields
<1>3. Moves(t, o)
  BY DEF CompleteWrite, Write, At, orderVars, ledgerVars, Done, Moves, Elsewhere, Busy,
     TypeOK
<1>4. Sound(o, task[t])'
  BY DEF CompleteWrite, Write, At, orderVars, ledgerVars, Done, Sound, Known, LegStage,
     TypeOK
<1>5. Paired(t, o)
  BY DEF CompleteWrite, Write, At, orderVars, ledgerVars, Done, Paired, Claim, Holds,
     Sound, TypeOK
<1> QED
  BY <1>3, <1>4, <1>5 DEF Handled

LEMMA CompleteLookupHandled ==
  ASSUME Serial, SerialInv, NEW t \in Tasks, CompleteLookup(t), NEW o, o = task[t].o
  PROVE  Handled(t, o)
<1>1. ~At(t, "idle")
  BY DEF CompleteLookup, At
<1>2. /\ o \in Orders /\ TypeOK /\ task[t] \in Task /\ Busy(t, o) /\ Before(t) = task[t]
      /\ Known(o) /\ Cur(o) = task[t] /\ Sound(o, task[t]) /\ LegStage(t)
      /\ task[t].pc \notin CreatePcs => status[o] # "absent"
  BY <1>1, AtWork
<1> USE <1>1, <1>2, IdleFields, SmallPhases, GotoFields, StartFields, AllPcs
<1>3. Moves(t, o)
  BY DEF CompleteLookup, AfterOrder, CompletableFound, At, orderVars, ledgerVars, Done,
     Moves, Elsewhere, Busy, TypeOK
<1>4. Sound(o, task[t])'
  BY DEF CompleteLookup, AfterOrder, CompletableFound, At, orderVars, ledgerVars, Done,
     Sound, Known, LegStage, TypeOK
<1>5. Paired(t, o)
  BY DEF CompleteLookup, AfterOrder, CompletableFound, At, orderVars, ledgerVars, Done,
     Paired, Claim, Holds, Sound, TypeOK
<1> QED
  BY <1>3, <1>4, <1>5 DEF Handled

LEMMA CompleteMarkHandled ==
  ASSUME Serial, SerialInv, NEW t \in Tasks, CompleteMark(t), NEW o, o = task[t].o
  PROVE  Handled(t, o)
<1>1. ~At(t, "idle")
  BY DEF CompleteMark, At
<1>2. /\ o \in Orders /\ TypeOK /\ task[t] \in Task /\ Busy(t, o) /\ Before(t) = task[t]
      /\ Known(o) /\ Cur(o) = task[t] /\ Sound(o, task[t]) /\ LegStage(t)
      /\ task[t].pc \notin CreatePcs => status[o] # "absent"
  BY <1>1, AtWork
<1> USE <1>1, <1>2, IdleFields, SmallPhases, GotoFields, AllPcs
<1>3. Moves(t, o)
  BY DEF CompleteMark, Write, At, orderVars, ledgerVars, Moves, Elsewhere, Busy, TypeOK
<1>4. Sound(o, task[t])'
  BY DEF CompleteMark, Write, At, orderVars, ledgerVars, Sound, Known, LegStage, TypeOK
<1>5. Paired(t, o)
  BY DEF CompleteMark, Write, At, orderVars, ledgerVars, Paired, Claim, Holds, Sound,
     TypeOK
<1> QED
  BY <1>3, <1>4, <1>5 DEF Handled

LEMMA SettleOrderHandled ==
  ASSUME Serial, SerialInv, NEW t \in Tasks, SettleOrder(t), NEW o, o = task[t].o
  PROVE  Handled(t, o)
<1>1. ~At(t, "idle")
  BY DEF SettleOrder, At
<1>2. /\ o \in Orders /\ TypeOK /\ task[t] \in Task /\ Busy(t, o) /\ Before(t) = task[t]
      /\ Known(o) /\ Cur(o) = task[t] /\ Sound(o, task[t]) /\ LegStage(t)
      /\ task[t].pc \notin CreatePcs => status[o] # "absent"
  BY <1>1, AtWork
<1> USE <1>1, <1>2, IdleFields, SmallPhases, GotoFields, StartFields, AllPcs
<1>3. Moves(t, o)
  BY DEF SettleOrder, SettleDebit, Leave, AfterOrder, At, orderVars, ledgerVars, Done,
     Moves, Elsewhere, Busy, TypeOK
<1>4. Sound(o, task[t])'
  BY DEF SettleOrder, SettleDebit, Leave, AfterOrder, At, orderVars, ledgerVars, Done,
     Sound, Known, LegStage, TypeOK
<1>5. Paired(t, o)
  BY DEF SettleOrder, SettleDebit, Leave, AfterOrder, At, orderVars, ledgerVars, Done,
     AtLeast, AtMost, EntryDiff, Posted, SettleDiff, Signed, Paired, Claim, Holds,
     Sound, Known, Balance, TypeOK
<1> QED
  BY <1>3, <1>4, <1>5 DEF Handled

LEMMA SettleTransferHandled ==
  ASSUME Serial, SerialInv, NEW t \in Tasks, SettleTransfer(t), NEW o, o = task[t].o
  PROVE  Handled(t, o)
<1>1. ~At(t, "idle")
  BY DEF SettleTransfer, At
<1>2. /\ o \in Orders /\ TypeOK /\ task[t] \in Task /\ Busy(t, o) /\ Before(t) = task[t]
      /\ Known(o) /\ Cur(o) = task[t] /\ Sound(o, task[t]) /\ LegStage(t)
      /\ task[t].pc \notin CreatePcs => status[o] # "absent"
  BY <1>1, AtWork
<1> USE <1>1, <1>2, IdleFields, SmallPhases, StartFields
<1>3. Moves(t, o)
  BY DEF SettleTransfer, SettleDebit, Leave, At, orderVars, ledgerVars, Done, Moves,
     Elsewhere, Busy, TypeOK
<1>4. Sound(o, task[t])'
  BY DEF SettleTransfer, SettleDebit, Leave, At, orderVars, ledgerVars, Done, Sound,
     Known, LegStage, TypeOK
<1>5. Paired(t, o)
  BY DEF SettleTransfer, SettleDebit, Leave, At, orderVars, ledgerVars, Done, AtLeast,
     AtMost, EntryDiff, Posted, SettleDiff, Signed, Paired, Claim, Holds, Sound, Known,
     Balance, TypeOK
<1> QED
  BY <1>3, <1>4, <1>5 DEF Handled

LEMMA RefundedReadHandled ==
  ASSUME Serial, SerialInv, NEW t \in Tasks, RefundedRead(t), NEW o, o = task[t].o
  PROVE  Handled(t, o)
<1>1. ~At(t, "idle")
  BY DEF RefundedRead, At
<1>2. /\ o \in Orders /\ TypeOK /\ task[t] \in Task /\ Busy(t, o) /\ Before(t) = task[t]
      /\ Known(o) /\ Cur(o) = task[t] /\ Sound(o, task[t]) /\ LegStage(t)
      /\ task[t].pc \notin CreatePcs => status[o] # "absent"
  BY <1>1, AtWork
<1> USE <1>1, <1>2, IdleFields, SmallPhases, GotoFields, StartFields, AllPcs
<1>3. Moves(t, o)
  BY DEF RefundedRead, At, orderVars, ledgerVars, Done, Moves, Elsewhere, Busy, TypeOK
<1>4. Sound(o, task[t])'
  BY DEF RefundedRead, At, orderVars, ledgerVars, Done, Sound, Known, LegStage, TypeOK
<1>5. Paired(t, o)
  BY DEF RefundedRead, At, orderVars, ledgerVars, Done, Paired, Claim, Holds, Sound,
     TypeOK
<1> QED
  BY <1>3, <1>4, <1>5 DEF Handled

LEMMA RefundedCreditHandled ==
  ASSUME Serial, SerialInv, NEW t \in Tasks, RefundedCredit(t), NEW o, o = task[t].o
  PROVE  Handled(t, o)
<1>1. ~At(t, "idle")
  BY DEF RefundedCredit, At
<1>2. /\ o \in Orders /\ TypeOK /\ task[t] \in Task /\ Busy(t, o) /\ Before(t) = task[t]
      /\ Known(o) /\ Cur(o) = task[t] /\ Sound(o, task[t]) /\ LegStage(t)
      /\ task[t].pc \notin CreatePcs => status[o] # "absent"
  BY <1>1, AtWork
<1> USE <1>1, <1>2, IdleFields, SmallPhases, GotoFields, AllPcs
<1>3. Moves(t, o)
  BY DEF RefundedCredit, Credit, At, orderVars, ledgerVars, Moves, Elsewhere, Busy,
     TypeOK
<1>4. Sound(o, task[t])'
  BY DEF RefundedCredit, Credit, At, orderVars, ledgerVars, Sound, Known, LegStage,
     TypeOK
<1>5. Paired(t, o)
  BY DEF RefundedCredit, Credit, At, orderVars, ledgerVars, EntryDiff, Posted, Signed,
     Paired, Claim, Holds, Sound, Known, Balance, TypeOK
<1> QED
  BY <1>3, <1>4, <1>5 DEF Handled

LEMMA RefundedMarkHandled ==
  ASSUME Serial, SerialInv, NEW t \in Tasks, RefundedMark(t), NEW o, o = task[t].o
  PROVE  Handled(t, o)
<1>1. ~At(t, "idle")
  BY DEF RefundedMark, At
<1>2. /\ o \in Orders /\ TypeOK /\ task[t] \in Task /\ Busy(t, o) /\ Before(t) = task[t]
      /\ Known(o) /\ Cur(o) = task[t] /\ Sound(o, task[t]) /\ LegStage(t)
      /\ task[t].pc \notin CreatePcs => status[o] # "absent"
  BY <1>1, AtWork
<1> USE <1>1, <1>2, IdleFields, SmallPhases, StartFields
<1>3. Moves(t, o)
  BY DEF RefundedMark, Write, At, orderVars, ledgerVars, Done, Moves, Elsewhere, Busy,
     TypeOK
<1>4. Sound(o, task[t])'
  BY DEF RefundedMark, Write, At, orderVars, ledgerVars, Done, Sound, Known, LegStage,
     TypeOK
<1>5. Paired(t, o)
  BY DEF RefundedMark, Write, At, orderVars, ledgerVars, Done, Paired, Claim, Holds,
     Sound, TypeOK
<1> QED
  BY <1>3, <1>4, <1>5 DEF Handled

(***************************************************************************)
(* Each request and webhook that begins keeps its order sound.             *)
(***************************************************************************)
LEMMA CreateCheckHandled ==
  ASSUME Serial, SerialInv, NEW t \in Tasks, NEW o \in Orders,
         NEW skip \in BOOLEAN, CreateCheck(t, o, skip)
  PROVE  Handled(t, o)
<1>1. Free(t, o)
  BY DEF CreateCheck
<1>2. /\ TypeOK /\ Before(t) = Idle /\ At(t, "idle") /\ \A u \in Tasks : ~Busy(u, o)
      /\ Known(o) /\ Cur(o) = Idle /\ Sound(o, Idle)
  BY <1>1, AtRest
<1> USE <1>1, <1>2, IdleFields, SmallPhases, StartFields
<1>3. Moves(t, o)
  BY DEF CreateCheck, Job, Carrying, orderVars, ledgerVars, Moves, Elsewhere, Known,
     TypeOK
<1>4. Sound(o, task[t])'
  BY DEF CreateCheck, Job, Carrying, orderVars, ledgerVars, Sound, Known, TypeOK
<1>5. Paired(t, o)
  BY DEF CreateCheck, Job, Carrying, orderVars, ledgerVars, Paired, Claim, Holds, Sound,
     Known, TypeOK
<1> QED
  BY <1>3, <1>4, <1>5 DEF Handled

LEMMA ApproveHandled ==
  ASSUME Serial, SerialInv, NEW t \in Tasks, NEW o \in Orders, Approve(t, o)
  PROVE  Handled(t, o)
<1>1. Free(t, o)
  BY DEF Approve
<1>2. /\ TypeOK /\ Before(t) = Idle /\ At(t, "idle") /\ \A u \in Tasks : ~Busy(u, o)
      /\ Known(o) /\ Cur(o) = Idle /\ Sound(o, Idle)
  BY <1>1, AtRest
<1> USE <1>1, <1>2, IdleFields, SmallPhases, StartFields
<1>3. Moves(t, o)
  BY DEF Approve, Write, Job, Carrying, orderVars, ledgerVars, Moves, Elsewhere, Known,
     TypeOK
<1>4. Sound(o, task[t])'
  <2>1. ctx[o] /\ status[o] = "pending_review" /\ debit[o] = "none" /\ row[o] = "none"
    BY DEF Approve, Known
  <2>2. /\ task'[t] = Job("post", o) /\ status'[o] = "processing"
        /\ UNCHANGED <<ctx, row, debit, credits, bridge, inbox>>
    BY <2>1 DEF Approve, Write, ledgerVars, TypeOK
  <2>3. /\ task'[t].pc = "post" /\ ~task'[t].skip
        /\ credits[o] = 0 /\ bridge[o] = "none" /\ inbox[<<o, "failed">>] = 0
    BY <2>1, <2>2 DEF Job, Carrying, Sound
  <2>4. inbox[<<o, "refunded">>] > 0 => bridge[o] = "refunded"
    BY DEF Sound
  <2> QED
    BY <2>1, <2>2, <2>3, <2>4 DEF Sound
<1>5. Paired(t, o)
  BY DEF Approve, Write, Job, Carrying, orderVars, ledgerVars, Paired, Claim, Holds,
     Sound, Known, TypeOK
<1> QED
  BY <1>3, <1>4, <1>5 DEF Handled

LEMMA RejectHandled ==
  ASSUME Serial, SerialInv, NEW t \in Tasks, NEW o \in Orders, Reject(t, o)
  PROVE  Handled(t, o)
<1>1. Free(t, o)
  BY DEF Reject
<1>2. /\ TypeOK /\ Before(t) = Idle /\ At(t, "idle") /\ \A u \in Tasks : ~Busy(u, o)
      /\ Known(o) /\ Cur(o) = Idle /\ Sound(o, Idle)
  BY <1>1, AtRest
<1> USE <1>1, <1>2, IdleFields, SmallPhases, StartFields
<1>3. Moves(t, o)
  BY DEF Reject, Write, Carrying, orderVars, ledgerVars, Moves, Elsewhere, Known, TypeOK
<1>4. Sound(o, task[t])'
  BY DEF Reject, Write, Carrying, orderVars, ledgerVars, Sound, Known, TypeOK
<1>5. Paired(t, o)
  BY DEF Reject, Write, Carrying, orderVars, ledgerVars, Paired, Claim, Holds, Sound,
     Known, TypeOK
<1> QED
  BY <1>3, <1>4, <1>5 DEF Handled

LEMMA StaffCancelHandled ==
  ASSUME Serial, SerialInv, NEW t \in Tasks, NEW o \in Orders, StaffCancel(t, o, TRUE)
  PROVE  Handled(t, o)
<1>1. Free(t, o)
  BY DEF StaffCancel
<1>2. /\ TypeOK /\ Before(t) = Idle /\ At(t, "idle") /\ \A u \in Tasks : ~Busy(u, o)
      /\ Known(o) /\ Cur(o) = Idle /\ Sound(o, Idle)
  BY <1>1, AtRest
<1> USE <1>1, <1>2, IdleFields, SmallPhases, StartFields
<1>3. Moves(t, o)
  BY DEF StaffCancel, Write, Close, Carrying, orderVars, ledgerVars, Moves, Elsewhere,
     Known, TypeOK
<1>4. Sound(o, task[t])'
  BY DEF StaffCancel, Write, Close, Carrying, orderVars, ledgerVars, Sound, Known,
     TypeOK
<1>5. Paired(t, o)
  BY DEF StaffCancel, Write, Close, Carrying, orderVars, ledgerVars, Paired, Claim,
     Holds, Sound, Known, TypeOK
<1> QED
  BY <1>3, <1>4, <1>5 DEF Handled

LEMMA FailReadHandled ==
  ASSUME Serial, SerialInv, NEW t \in Tasks, NEW o \in Orders, FailRead(t, o)
  PROVE  Handled(t, o)
<1>1. Free(t, o)
  BY DEF FailRead
<1>2. /\ TypeOK /\ Before(t) = Idle /\ At(t, "idle") /\ \A u \in Tasks : ~Busy(u, o)
      /\ Known(o) /\ Cur(o) = Idle /\ Sound(o, Idle)
  BY <1>1, AtRest
<1> USE <1>1, <1>2, IdleFields, SmallPhases, StartFields
<1>3. Moves(t, o)
  BY DEF FailRead, Carrying, orderVars, ledgerVars, Moves, Elsewhere, Known, TypeOK
<1>4. Sound(o, task[t])'
  BY DEF FailRead, Carrying, orderVars, ledgerVars, Sound, Known, TypeOK
<1>5. Paired(t, o)
  BY DEF FailRead, Carrying, orderVars, ledgerVars, Paired, Claim, Holds, Sound, Known,
     TypeOK
<1> QED
  BY <1>3, <1>4, <1>5 DEF Handled

LEMMA MarkSentReadHandled ==
  ASSUME Serial, SerialInv, NEW t \in Tasks, NEW o \in Orders, MarkSentRead(t, o)
  PROVE  Handled(t, o)
<1>1. Free(t, o)
  BY DEF Begin, MarkSentRead
<1>2. /\ TypeOK /\ Before(t) = Idle /\ At(t, "idle") /\ \A u \in Tasks : ~Busy(u, o)
      /\ Known(o) /\ Cur(o) = Idle /\ Sound(o, Idle)
  BY <1>1, AtRest
<1> USE <1>1, <1>2, IdleFields, SmallPhases, StartFields
<1>3. Moves(t, o)
  BY DEF MarkSentRead, Begin, Job, Carrying, orderVars, ledgerVars, Moves, Elsewhere,
     Known, TypeOK
<1>4. Sound(o, task[t])'
  BY DEF MarkSentRead, Begin, Job, Carrying, orderVars, ledgerVars, Sound, Known, TypeOK
<1>5. Paired(t, o)
  BY DEF MarkSentRead, Begin, Job, Carrying, orderVars, ledgerVars, Paired, Claim,
     Holds, Sound, Known, TypeOK
<1> QED
  BY <1>3, <1>4, <1>5 DEF Handled

LEMMA CompleteReadHandled ==
  ASSUME Serial, SerialInv, NEW t \in Tasks, NEW o \in Orders, CompleteRead(t, o)
  PROVE  Handled(t, o)
<1>1. Free(t, o)
  BY DEF Begin, CompleteRead
<1>2. /\ TypeOK /\ Before(t) = Idle /\ At(t, "idle") /\ \A u \in Tasks : ~Busy(u, o)
      /\ Known(o) /\ Cur(o) = Idle /\ Sound(o, Idle)
  BY <1>1, AtRest
<1> USE <1>1, <1>2, IdleFields, SmallPhases, StartFields
<1>3. Moves(t, o)
  BY DEF CompleteRead, Begin, Job, Carrying, orderVars, ledgerVars, Moves, Elsewhere,
     Known, TypeOK
<1>4. Sound(o, task[t])'
  BY DEF CompleteRead, Begin, Job, Carrying, orderVars, ledgerVars, Sound, Known, TypeOK
<1>5. Paired(t, o)
  BY DEF CompleteRead, Begin, Job, Carrying, orderVars, ledgerVars, Paired, Claim,
     Holds, Sound, Known, TypeOK
<1> QED
  BY <1>3, <1>4, <1>5 DEF Handled

LEMMA TakeOne ==
  ASSUME TypeOK, NEW o \in Orders, NEW kind \in Kinds, Take(o, kind)
  PROVE  /\ inbox[<<o, kind>>] > 0
         /\ inbox'[<<o, kind>>] = inbox[<<o, kind>>] - 1
         /\ \A p \in Orders, q \in Kinds :
              <<p, q>> # <<o, kind>> => inbox'[<<p, q>>] = inbox[<<p, q>>]
         /\ kind = "refunded" => "reorder" \in Faults \/ inbox[<<o, "complete">>] = 0
<1>1. inbox \in [Orders \X Kinds -> Nat]
  BY DEF TypeOK
<1>2. inbox' = [inbox EXCEPT ![<<o, kind>>] = inbox[<<o, kind>>] - 1]
  BY DEF Take
<1>3. kind = "refunded" => "reorder" \in Faults \/ inbox[<<o, "complete">>] = 0
  BY Zenon DEF Take
<1> QED
  BY <1>1, <1>2, <1>3, TakeInbox

LEMMA CompleteStartHandled ==
  ASSUME Serial, SerialInv, NEW t \in Tasks, NEW o \in Orders, CompleteStart(t, o)
  PROVE  Handled(t, o)
<1>1. Free(t, o)
  BY DEF CompleteStart, BeginWebhook
<1>2. /\ TypeOK /\ Before(t) = Idle /\ At(t, "idle") /\ \A u \in Tasks : ~Busy(u, o)
      /\ Known(o) /\ Cur(o) = Idle /\ Sound(o, Idle)
  BY <1>1, AtRest
<1>3. /\ inbox[<<o, "complete">>] > 0
      /\ inbox'[<<o, "complete">>] = inbox[<<o, "complete">>] - 1
      /\ inbox'[<<o, "refunded">>] = inbox[<<o, "refunded">>]
      /\ inbox'[<<o, "failed">>] = inbox[<<o, "failed">>]
      /\ \A p \in Orders \ {o}, q \in Kinds : inbox'[<<p, q>>] = inbox[<<p, q>>]
  <2>1. Take(o, "complete") /\ "complete" \in Kinds
    BY DEF CompleteStart, Kinds
  <2> QED
    BY <1>2, <2>1, TakeOne DEF Kinds
<1>4. bridge[o] \in Paid /\ debit[o] # "none" /\ row[o] # "none"
  <2>1. Idle.pc \notin {"link", "record", "debit"} /\ bridge[o] \in Paid
    BY <1>2, <1>3, IdleFields DEF Known
  <2>2. debit[o] # "none"
    BY <1>2, <2>1 DEF Sound, Paid
  <2> QED
    BY <1>2, <2>1, <2>2 DEF Sound
<1>5. /\ task'[t] = [Job("cLookup", o) EXCEPT !.row = RowFound(o)]
      /\ \A u \in Tasks : u # t => task'[u] = task[u]
  BY <1>2, StartFields DEF CompleteStart, BeginWebhook
<1>6. task'[t].pc = "cLookup" /\ task'[t].o = o /\ task'[t].row
  BY <1>4, <1>5 DEF Job, Carrying, RowFound
<1>7. /\ UNCHANGED <<status, ctx, debit, credits, bal, bridge>>
      /\ row'[o] # "none" /\ \A p \in Orders \ {o} : row'[p] = row[p]
  BY <1>2, <1>4 DEF CompleteStart, SetRow, orderVars, TypeOK
<1>8. Moves(t, o)
  BY <1>2, <1>3, <1>5, <1>6, <1>7 DEF Moves, Elsewhere
<1>9. Sound(o, task[t])'
  BY <1>2, <1>3, <1>4, <1>6, <1>7, IdleFields, SmallPhases DEF Sound
<1>10. Paired(t, o)
  BY <1>2, <1>6, <1>7, IdleFields DEF Paired, Claim, Holds
<1> QED
  BY <1>8, <1>9, <1>10 DEF Handled

LEMMA RefundedStartHandled ==
  ASSUME Serial, SerialInv, NEW t \in Tasks, NEW o \in Orders, RefundedStart(t, o)
  PROVE  Handled(t, o)
<1>1. Free(t, o)
  BY DEF RefundedStart, BeginWebhook
<1>2. /\ TypeOK /\ Before(t) = Idle /\ At(t, "idle") /\ \A u \in Tasks : ~Busy(u, o)
      /\ Known(o) /\ Cur(o) = Idle /\ Sound(o, Idle)
  BY <1>1, AtRest
<1>3. /\ inbox[<<o, "refunded">>] > 0 /\ inbox[<<o, "complete">>] = 0
      /\ inbox'[<<o, "refunded">>] = inbox[<<o, "refunded">>] - 1
      /\ inbox'[<<o, "complete">>] = inbox[<<o, "complete">>]
      /\ inbox'[<<o, "failed">>] = inbox[<<o, "failed">>]
      /\ \A p \in Orders \ {o}, q \in Kinds : inbox'[<<p, q>>] = inbox[<<p, q>>]
  <2>1. Take(o, "refunded") /\ "refunded" \in Kinds /\ "reorder" \notin Faults
    BY DEF RefundedStart, Kinds, Serial
  <2> QED
    BY <1>2, <2>1, TakeOne DEF Kinds
<1>4. /\ task'[t] = [Job("rRead", o) EXCEPT !.row = RowFound(o)]
      /\ \A u \in Tasks : u # t => task'[u] = task[u]
  BY <1>2, StartFields DEF RefundedStart, BeginWebhook
<1>5. task'[t].pc = "rRead" /\ task'[t].o = o
  BY <1>4 DEF Job, Carrying
<1>6. /\ UNCHANGED <<status, ctx, debit, credits, bal, bridge>>
      /\ row[o] # "none" => row'[o] # "none"
      /\ \A p \in Orders \ {o} : row'[p] = row[p]
  BY <1>2 DEF RefundedStart, SetRow, orderVars, TypeOK
<1>7. Moves(t, o)
  BY <1>2, <1>3, <1>4, <1>5, <1>6 DEF Moves, Elsewhere
<1>8. Sound(o, task[t])'
  BY <1>2, <1>3, <1>5, <1>6, IdleFields, SmallPhases DEF Sound
<1>9. Paired(t, o)
  BY <1>2, <1>5, <1>6, IdleFields DEF Paired, Claim, Holds
<1> QED
  BY <1>7, <1>8, <1>9 DEF Handled

(***************************************************************************)
(* Bridge moves a transfer and no job.                                     *)
(***************************************************************************)
LEMMA BridgeMovesSerial ==
  ASSUME Serial, SerialInv, LegInv', NetOfAll', PartsCoverAmount',
         NEW o \in Orders, BridgeSteps(o)
  PROVE  SerialInv'
<1>1. TypeOK /\ Sound(o, Cur(o)) /\ Deliveries["complete"] \in Nat
  BY DeliveriesAssumption DEF SerialInv, LegInv
<1>2. UNCHANGED <<status, ctx, link, row, debit, credits, bal, task>>
  BY DEF BridgeSteps, BridgeCompletes, BridgeFails, BridgeRefunds, BridgeReturns,
     BridgeMoves, orderVars, ledgerVars
<1>3. /\ \A p \in Orders : Cur(p)' = Cur(p) /\ (Holds(p)' <=> Holds(p))
      /\ Alone' <=> Alone
  BY <1>2 DEF Cur, Busy, At, Idle, Job, Carrying, AnOrder, Holds, Alone
<1>4. CASE BridgeCompletes(o)
  <2>1. /\ bridge[o] = "open" /\ bridge'[o] = "complete"
        /\ inbox'[<<o, "complete">>] = Deliveries["complete"]
        /\ inbox'[<<o, "refunded">>] = inbox[<<o, "refunded">>]
        /\ inbox'[<<o, "failed">>] = inbox[<<o, "failed">>]
        /\ \A p \in Orders \ {o} : bridge'[p] = bridge[p]
        /\ \A p \in Orders \ {o}, q \in Kinds : inbox'[<<p, q>>] = inbox[<<p, q>>]
    BY <1>1, <1>4 DEF BridgeCompletes, BridgeMoves, TypeOK, Kinds
  <2>2. Sound(o, Cur(o))'
    BY <1>1, <1>2, <1>3, <2>1, SmallPhases DEF Sound, Serial
  <2>3. ASSUME NEW p \in Orders \ {o} PROVE Sound(p, Cur(p))'
    <3>1. Sound(p, Cur(p))
      BY DEF SerialInv
    <3> QED
      BY <1>2, <1>3, <2>1, <3>1 DEF Sound, Kinds
  <2> QED
    BY <1>2, <1>3, <2>2, <2>3 DEF SerialInv, Backed, Shares, Share, Claim
<1>5. CASE BridgeRefunds(o)
  <2>1. /\ bridge[o] = "complete" /\ bridge'[o] = "refunded"
        /\ inbox'[<<o, "complete">>] = inbox[<<o, "complete">>]
        /\ inbox'[<<o, "failed">>] = inbox[<<o, "failed">>]
        /\ \A p \in Orders \ {o} : bridge'[p] = bridge[p]
        /\ \A p \in Orders \ {o}, q \in Kinds : inbox'[<<p, q>>] = inbox[<<p, q>>]
    BY <1>1, <1>5 DEF BridgeRefunds, BridgeMoves, TypeOK, Kinds
  <2>2. Sound(o, Cur(o))'
    BY <1>1, <1>2, <1>3, <2>1, SmallPhases DEF Sound
  <2>3. ASSUME NEW p \in Orders \ {o} PROVE Sound(p, Cur(p))'
    <3>1. Sound(p, Cur(p))
      BY DEF SerialInv
    <3> QED
      BY <1>2, <1>3, <2>1, <3>1 DEF Sound, Kinds
  <2> QED
    BY <1>2, <1>3, <2>2, <2>3 DEF SerialInv, Backed, Shares, Share, Claim
<1> QED
  BY <1>4, <1>5 DEF BridgeSteps, BridgeFails, BridgeReturns, Serial

(***************************************************************************)
(* Every step.                                                             *)
(***************************************************************************)
LEMMA NoThrow ==
  ASSUME Serial, SerialInv, NEW t \in Tasks
  PROVE  ~SettleThrows(t)
<1> SUFFICES ASSUME SettleThrows(t) PROVE FALSE
  OBVIOUS
<1> DEFINE o == task[t].o
<1>1. ~At(t, "idle") /\ task[t].pc \in {"settleOrder", "settleXfer"} /\ ~SettleFits(o)
  BY DEF SettleThrows, At
<1>2. TypeOK /\ o \in Orders /\ Known(o) /\ Cur(o) = task[t]
  BY <1>1, AtWork
<1> HIDE DEF o
<1>3. debit[o] = "pending"
  BY <1>1 DEF SettleFits
<1>4. bal.reserved >= Amount[o]
  BY <1>1, <1>2, <1>3 DEF Known, Claim, Holds
<1>5. SettleDiff(o) = -Amount[o]
  BY <1>3 DEF SettleDiff, EntryDiff, Signed
<1>6. bal \in Balance /\ Amount[o] \in Nat
  BY <1>2 DEF Known
<1>7. Postable(bal, SettleDiff(o))
  BY <1>4, <1>5, <1>6 DEF Postable, Posted, AtMost, Balance
<1> QED
  BY <1>1, <1>7 DEF SettleFits

LEMMA StepSerial ==
  ASSUME Serial, SerialInv, NEW t \in Tasks, Step(t)
  PROVE  \E o \in Orders : Handled(t, o)
<1> DEFINE o == task[t].o
<1>1. o \in Orders
  BY TaskFields DEF SerialInv, LegInv
<1>2. ~At(t, "idle") => Sound(o, task[t])
  BY AtWork
<1>3. CASE CreateStep(t)
  BY <1>1, <1>3, CreateReserveHandled, CreateInsertHandled, CreateConflictHandled,
     CreateUnreserveHandled DEF CreateStep
<1>4. CASE LegStep(t)
  BY <1>1, <1>4, LegPostHandled, LegRejectedHandled, LegLinkHandled, LegRecordHandled,
     LegDebitHandled, LegReturnHandled, LegReleaseHandled, LegMarkHandled
  DEF LegStep, LegTimeout, Serial
<1>5. CASE CloseStep(t)
  BY <1>1, <1>5, FailWriteHandled, GiveBackHandled, VoidHandled, ReleaseDebitHandled,
     RefundHandled, MarkSentWriteHandled, CompleteWriteHandled DEF CloseStep
<1>6. CASE WebhookStep(t)
  <2>1. ~(\/ FailedMark(t) \/ FailedDebit(t) \/ FailedLookup(t) \/ FailedRelease(t)
          \/ FailedMarkOrder(t) \/ FailedReleaseOrder(t) \/ FailedDebitOrder(t))
    <3>1. task[t].pc \notin FailedPcs
      BY <1>2, SmallPhases DEF Sound, At
    <3> QED
      BY <3>1, SmallPhases
      DEF FailedMark, FailedDebit, FailedLookup, FailedRelease, FailedMarkOrder,
          FailedReleaseOrder, FailedDebitOrder, At
  <2> QED
    BY <1>1, <1>6, <2>1, NoThrow, CompleteLookupHandled, CompleteMarkHandled,
       SettleOrderHandled, SettleTransferHandled, RefundedReadHandled,
       RefundedCreditHandled, RefundedMarkHandled DEF WebhookStep
<1> QED
  BY <1>3, <1>4, <1>5, <1>6 DEF Step

LEMMA StartSerial ==
  ASSUME Serial, SerialInv, NEW t \in Tasks, NEW o \in Orders,
         ClientStarts(t, o) \/ StaffStarts(t, o) \/ WebhookStarts(t, o)
  PROVE  Handled(t, o)
<1>1. CASE ClientStarts(t, o)
  BY <1>1, CreateCheckHandled DEF ClientStarts, ClientCancel, Serial
<1>2. CASE StaffStarts(t, o)
  <2>1. ASSUME NEW refund \in BOOLEAN, StaffCancel(t, o, refund) PROVE refund = TRUE
    BY <2>1 DEF StaffCancel, Serial
  <2> QED
    BY <1>2, <2>1, ApproveHandled, RejectHandled, StaffCancelHandled, FailReadHandled,
       MarkSentReadHandled, CompleteReadHandled DEF StaffStarts
<1>3. CASE WebhookStarts(t, o)
  <2>1. ~FailedStart(t, o)
    <3>1. Sound(o, Cur(o)) /\ TypeOK
      BY DEF SerialInv, LegInv
    <3>2. inbox[<<o, "failed">>] = 0
      BY <3>1 DEF Sound
    <3>3. "failed" \in Kinds
      BY DEF Kinds
    <3>4. ~Take(o, "failed")
      <4> SUFFICES ASSUME Take(o, "failed") PROVE FALSE
        OBVIOUS
      <4>1. inbox[<<o, "failed">>] > 0
        BY <3>1, <3>3, TakeOne
      <4> QED
        BY <3>2, <4>1
    <3> QED
      BY <3>4 DEF FailedStart
  <2> QED
    BY <1>3, <2>1, CompleteStartHandled, RefundedStartHandled DEF WebhookStarts
<1> QED
  BY <1>1, <1>2, <1>3

LEMMA PartsKept ==
  ASSUME TypeOK, PartsCoverAmount, [Next]_vars
  PROVE  PartsCoverAmount'
<1>1. bal \in Balance /\ Covers(bal)
  BY DEF TypeOK, PartsCoverAmount, Covers
<1> QED
  BY <1>1, BalanceSteps, MovesCover DEF PartsCoverAmount, Covers

LEMMA SerialKept ==
  ASSUME Serial, SerialInv, [Next]_vars
  PROVE  SerialInv'
<1>1. LegInv' /\ NetOfAll' /\ PartsCoverAmount'
  BY NextKeepsInv, NetKept, PartsKept DEF SerialInv, LegInv, Serial
<1>2. ASSUME NEW t \in Tasks, NEW o \in Orders, Handled(t, o) PROVE SerialInv'
  BY <1>1, <1>2, HandledKeeps
<1>3. CASE \E t \in Tasks : Step(t)
  BY <1>2, <1>3, StepSerial
<1>4. CASE \E t \in Tasks, o \in Orders :
             ClientStarts(t, o) \/ StaffStarts(t, o) \/ WebhookStarts(t, o)
  BY <1>2, <1>4, StartSerial
<1>5. CASE \E o \in Orders : BridgeSteps(o)
  BY <1>1, <1>5, BridgeMovesSerial
<1>6. ~Crash
  BY DEF Crash, Serial
<1>7. CASE UNCHANGED vars
  <2>1. UNCHANGED <<status, ctx, row, debit, credits, bal, bridge, inbox, task>>
    BY <1>7 DEF vars
  <2>2. /\ \A o \in Orders : Cur(o)' = Cur(o) /\ (Holds(o)' <=> Holds(o))
        /\ Alone' <=> Alone
    BY <2>1 DEF Cur, Busy, At, Idle, Job, Carrying, AnOrder, Holds, Alone
  <2>3. ASSUME NEW o \in Orders PROVE Sound(o, Cur(o))'
    BY <2>1, <2>2 DEF Sound, SerialInv
  <2> QED
    BY <1>1, <2>1, <2>2, <2>3 DEF SerialInv, Backed, Shares, Share, Claim
<1> QED
  BY <1>3, <1>4, <1>5, <1>6, <1>7 DEF Next

LEMMA SerialInit ==
  ASSUME Serial, Init
  PROVE  SerialInv
<1>1. LegInv /\ TypeOK
  BY InitInv, InitType
<1>2. NetOfAll
  BY <1>1, InitNets DEF Serial
<1>3. PartsCoverAmount
  BY DepositAssumption DEF Init, PartsCoverAmount
<1>4. \A t \in Tasks : At(t, "idle")
  BY IdleType DEF Init, At
<1>5. Alone /\ \A o \in Orders : Cur(o) = Idle
  BY <1>4 DEF Alone, Busy, Cur
<1>6. ASSUME NEW o \in Orders PROVE Sound(o, Idle)
  BY IdleFields, SmallPhases DEF Init, Sound, Kinds
<1>7. \A o \in Orders : Shares[o] = 0
  <2> SUFFICES ASSUME NEW o \in Orders PROVE ~Claim(o, Idle)
    BY <1>5, ShareType DEF Share
  <2> QED
    BY IdleFields, SmallPhases DEF Init, Claim, Holds
<1>8. Total(Shares, Orders) = 0
  <2>1. Ints(Shares, {}) /\ {} \subseteq Orders
    BY DEF Ints
  <2>2. \A o \in Orders : Shares[o] = IF o \in {} THEN Shares[o] ELSE 0
    BY <1>7
  <2> QED
    BY <2>1, <2>2, TotalWhere, TotalOfNone DEF Serial
<1> QED
  BY <1>1, <1>2, <1>3, <1>5, <1>6, <1>8 DEF SerialInv, Backed, Init

\* In a quiet scenario every order stays sound and the reserve is backed by
\* what the orders claim: the inductive invariant, for any orders and amounts.
THEOREM SerialInvariant ==
  ASSUME Serial
  PROVE  Spec => []SerialInv
<1>1. Init => SerialInv
  BY SerialInit
<1>2. SerialInv /\ [Next]_vars => SerialInv'
  BY SerialKept
<1> QED
  BY <1>1, <1>2, PTL DEF Spec

LEMMA QuietMatches ==
  ASSUME Serial, SerialInv
  PROVE  ReserveMatchesOrders /\ RefundsAnswerDebits
<1> SUFFICES ASSUME Quiet PROVE bal.reserved = Held /\ \A o \in Orders :
             credits[o] =< 1 /\ (credits[o] = 1 => debit[o] = "settled")
  BY DEF ReserveMatchesOrders, RefundsAnswerDebits
<1>1. \A o \in Orders : Cur(o) = Idle
  BY DEF Quiet, Cur, Busy
<1>2. \A o \in Orders : Sound(o, Idle)
  BY <1>1 DEF SerialInv
<1> DEFINE Holding == {o \in Orders : Holds(o)}
<1>3. Held = Total(Amount, Holding)
  BY DEF Held, Total, MapThenSumSet, MapThenFoldSet
<1>4. /\ Holding \subseteq Orders
      /\ \A o \in Orders : Shares[o] = IF o \in Holding THEN Amount[o] ELSE 0
  <2> SUFFICES ASSUME NEW o \in Orders PROVE Claim(o, Idle) <=> Holds(o)
    BY <1>1, ShareType DEF Share
  <2> QED
    BY IdleFields DEF Claim
<1>5. Ints(Amount, Holding)
  BY AmountAssumption DEF Ints
<1> HIDE DEF Holding
<1>6. Total(Amount, Holding) = Total(Shares, Orders)
  BY <1>4, <1>5, TotalWhere DEF Serial
<1>7. bal.reserved = Held
  BY <1>3, <1>6 DEF SerialInv, Backed
<1>8. ASSUME NEW o \in Orders
      PROVE  credits[o] =< 1 /\ (credits[o] = 1 => debit[o] = "settled")
  <2>1. /\ credits[o] \in {0, 1}
        /\ credits[o] = 1 => debit[o] = "settled"
    BY <1>2 DEF Sound
  <2> QED
    BY <2>1
<1> QED
  BY <1>7, <1>8

\* Between requests the reserved part of the balance is what the open orders
\* hold, in every quiet scenario (createWalletToFiatOffRamp, the leg of
\* approveOrder, failOrder, cancelOrderByStaff and handleTransferComplete).
THEOREM ReserveIsTheOrders ==
  ASSUME Serial
  PROVE  Spec => []ReserveMatchesOrders
<1>1. SerialInv => ReserveMatchesOrders
  BY QuietMatches
<1> QED
  BY <1>1, SerialInvariant, PTL

\* An order is credited back at most once, and only after it was debited, in
\* every quiet scenario (the closing handlers and handleTransferRefunded).
THEOREM RefundsAnswer ==
  ASSUME Serial
  PROVE  Spec => []RefundsAnswerDebits
<1>1. SerialInv => RefundsAnswerDebits
  BY QuietMatches
<1> QED
  BY <1>1, SerialInvariant, PTL
=============================================================================
