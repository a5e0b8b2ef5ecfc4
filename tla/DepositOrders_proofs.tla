------------------------ MODULE DepositOrders_proofs ------------------------
(***************************************************************************)
(* Proofs about DepositOrders, for any orders, tasks, flows, deliveries    *)
(* and faults.                                                             *)
(***************************************************************************)
EXTENDS DepositOrders, TLAPS

(***************************************************************************)
(* The inductive invariant.  Paid: whoever is about to credit a wallet, or *)
(* to be told to, has a transfer that Bridge delivered; and the expiry cron*)
(* is about to close only orders it read as waiting for their deposit.     *)
(* Single, when no two tasks share an order: a credit of the safety net    *)
(* stands only beside a leg credit that will never settle, and an order    *)
(* that has ended is not written by the tasks that would reopen it.        *)
(***************************************************************************)
ExpiryPcs == {"delete", "rowOff", "close"}
TaskPaid(t) ==
  /\ task[t].pc \in CompletePcs => bridge[task[t].o] \in Delivered
  /\ task[t].by = "system" /\ task[t].pc \in ExpiryPcs =>
       task[t].seen = "waiting_deposit"
Paid ==
  /\ CreditedIsPaid
  /\ \A o \in Orders : inbox[<<o, "complete">>] > 0 => bridge[o] \in Delivered
  /\ \A t \in Tasks : TaskPaid(t)

Ended == {"completed", "refunded"}
WritePcs == LegPcs \cup SendPcs \cup StaffPcs \cup {"extend", "fail", "fOrder"}
              \cup ExpiryPcs
CreditingPcs == {"cSettle", "cCount", "cInsert"}
OrderOnce(o) ==
  /\ flow[o] = "none" => status[o] = "absent" /\ bridge[o] = "none"
  /\ \A k \in Kinds : inbox[<<o, k>>] > 0 => bridge[o] # "none"
  /\ extra[o] =< 1
  /\ extra[o] > 0 => status[o] \in Ended /\ credit[o] \notin {"pending", "settled"}
TaskOnce(t) ==
  /\ task[t].pc # "idle" => flow[task[t].o] # "none"
  /\ task[t].pc \in WritePcs => status[task[t].o] \notin Ended
  /\ task[t].pc \in CreditingPcs => status[task[t].o] = "completed"
  /\ task[t].pc \in {"cCount", "cInsert"} => credit[task[t].o] # "pending"
  /\ task[t].pc = "cInsert" => credit[task[t].o] # "settled" /\ extra[task[t].o] = 0
Apart ==
  \A t, u \in Tasks :
    t # u /\ task[t].pc # "idle" /\ task[u].pc # "idle" => task[t].o # task[u].o
Single ==
  /\ Apart
  /\ \A o \in Orders : OrderOnce(o)
  /\ \A t \in Tasks : TaskOnce(t)
Alone == "overlap" \notin Faults

DepositInv == TypeOK /\ Paid /\ (Alone => Single)

(***************************************************************************)
(* Facts about tasks.                                                      *)
(***************************************************************************)
LEMMA AllPcs ==
  /\ LegPcs \subseteq Pcs /\ SendPcs \subseteq Pcs /\ ClosePcs \subseteq Pcs
  /\ StaffPcs \subseteq Pcs /\ CompletePcs \subseteq Pcs /\ FailedPcs \subseteq Pcs
  /\ "idle" \in Pcs /\ "rRead" \in Pcs /\ "rMark" \in Pcs
BY DEF Pcs

LEMMA TaskFields ==
  ASSUME TypeOK, NEW t \in Tasks
  PROVE  /\ task[t].o \in Orders /\ task[t].pc \in Pcs /\ task[t].skip \in BOOLEAN
         /\ task[t].seen \in Statuses
         /\ task[t].by \in {"none", "client", "staff", "system"}
BY DEF TypeOK, Task

LEMMA IdleType == Idle \in Task /\ Idle.pc = "idle"
<1>1. AnOrder \in Orders
  BY OrdersAssumption DEF AnOrder
<1>2. "idle" \in Pcs /\ "absent" \in Statuses
  BY DEF Pcs, Statuses
<1> QED
  BY <1>1, <1>2 DEF Idle, Job, Task

\* What a step does to its own task; the others it leaves alone.
Moved(t, pc) ==
  /\ task' \in [Tasks -> Task]
  /\ \A u \in Tasks : u # t => task'[u] = task[u]
  /\ task'[t].pc = pc
Kept(t) ==
  /\ task'[t].o = task[t].o /\ task'[t].by = task[t].by
  /\ task'[t].seen = task[t].seen
Began(t, o, by) ==
  /\ task'[t].o = o /\ task'[t].by = by /\ task'[t].seen = status[o]

LEMMA GotoType ==
  ASSUME TypeOK, NEW t \in Tasks, NEW pc \in Pcs, Goto(t, pc)
  PROVE  Moved(t, pc) /\ (pc # "idle" => Kept(t))
<1>1. task' = [task EXCEPT ![t] = task'[t]]
      /\ task'[t] = IF pc = "idle" THEN Idle ELSE [task[t] EXCEPT !.pc = pc]
  BY DEF Goto, Done, Start, TypeOK
<1>2. task'[t] \in Task
  BY <1>1, IdleType DEF TypeOK, Task
<1>3. task'[t].pc = pc /\ (pc # "idle" => Kept(t))
  BY <1>1, IdleType DEF TypeOK, Task, Kept
<1> QED
  BY <1>1, <1>2, <1>3 DEF TypeOK, Moved

LEMMA DoneType ==
  ASSUME TypeOK, NEW t \in Tasks, Done(t)
  PROVE  Moved(t, "idle")
<1>1. "idle" \in Pcs /\ Goto(t, "idle")
  BY AllPcs DEF Goto
<1> QED
  BY <1>1, GotoType

LEMMA BeginType ==
  ASSUME TypeOK, NEW t \in Tasks, NEW o \in Orders, NEW pc \in Pcs,
         NEW by \in {"none", "client", "staff", "system"}, NEW skip \in BOOLEAN,
         Start(t, Job(pc, o, status[o], by, skip))
  PROVE  Moved(t, pc) /\ Began(t, o, by)
BY DEF Start, Job, Task, TypeOK, Moved, Began

LEMMA TakeFacts ==
  ASSUME TypeOK, NEW o \in Orders, NEW kind \in Kinds, Take(o, kind)
  PROVE  /\ inbox' \in [Orders \X Kinds -> Nat] /\ inbox[<<o, kind>>] > 0
         /\ \A p \in Orders, k \in Kinds : inbox'[<<p, k>>] =< inbox[<<p, k>>]
<1>1. <<o, kind>> \in Orders \X Kinds
  OBVIOUS
<1>2. inbox' = [inbox EXCEPT ![<<o, kind>>] = inbox[<<o, kind>>] - 1]
      /\ inbox[<<o, kind>>] > 0
  BY DEF Take
<1>3. inbox' \in [Orders \X Kinds -> Nat]
  BY <1>1, <1>2 DEF TypeOK
<1>4. \A e \in Orders \X Kinds : inbox'[e] =< inbox[e]
  BY <1>1, <1>2 DEF TypeOK
<1> QED
  BY <1>2, <1>3, <1>4

(***************************************************************************)
(* What a step has to show.                                                *)
(***************************************************************************)
BridgeKeeps == \A o \in Orders : bridge[o] \in Delivered => bridge'[o] \in Delivered
InboxShrinks ==
  \A o \in Orders, k \in Kinds : inbox'[<<o, k>>] =< inbox[<<o, k>>]
NoNewCredit ==
  \A o \in Orders :
    /\ extra'[o] # extra[o] => bridge[o] \in Delivered
    /\ credit'[o] = "settled" => credit[o] = "settled" \/ bridge[o] \in Delivered

LEMMA PaidKept ==
  ASSUME TypeOK, TypeOK', Paid, NEW t \in Tasks,
         \A u \in Tasks : u # t => task'[u] = task[u],
         TaskPaid(t)', BridgeKeeps, InboxShrinks, NoNewCredit
  PROVE  Paid'
<1>1. (CreditedIsPaid)'
  <2> SUFFICES ASSUME NEW o \in Orders, Credits(o)' > 0 PROVE bridge'[o] \in Delivered
    BY DEF CreditedIsPaid
  <2>1. CASE extra'[o] # extra[o]
    BY <2>1 DEF NoNewCredit, BridgeKeeps
  <2>2. CASE extra'[o] = extra[o] /\ extra[o] > 0
    <3>1. Credits(o) > 0
      BY <2>2 DEF Credits, TypeOK
    <3> QED
      BY <3>1 DEF Paid, CreditedIsPaid, BridgeKeeps
  <2>3. CASE extra'[o] = 0 /\ extra[o] = 0
    <3>1. credit'[o] = "settled"
      BY <2>3 DEF Credits
    <3>2. CASE credit[o] = "settled"
      <4>1. Credits(o) > 0
        BY <2>3, <3>2 DEF Credits
      <4> QED
        BY <4>1 DEF Paid, CreditedIsPaid, BridgeKeeps
    <3> QED
      BY <3>1, <3>2 DEF NoNewCredit, BridgeKeeps
  <2> QED
    BY <2>1, <2>2, <2>3 DEF TypeOK
<1>2. \A o \in Orders : inbox'[<<o, "complete">>] > 0 => bridge'[o] \in Delivered
  <2> TAKE o \in Orders
  <2>1. "complete" \in Kinds /\ <<o, "complete">> \in Orders \X Kinds
    BY DEF Kinds
  <2>2. inbox'[<<o, "complete">>] =< inbox[<<o, "complete">>]
        /\ inbox[<<o, "complete">>] \in Nat /\ inbox'[<<o, "complete">>] \in Nat
    BY <2>1 DEF InboxShrinks, TypeOK
  <2> QED
    BY <2>2 DEF Paid, BridgeKeeps
<1>3. \A u \in Tasks : TaskPaid(u)'
  BY DEF Paid, TaskPaid, BridgeKeeps, TypeOK, Task
<1> QED
  BY <1>1, <1>2, <1>3 DEF Paid

\* Nobody but task t is at work on order o.
Owns(t, o) ==
  \/ task[t].pc # "idle" /\ task[t].o = o
  \/ Free(t, o)
Elsewhere(o) ==
  \A p \in Orders : p # o =>
    /\ status'[p] = status[p] /\ flow'[p] = flow[p] /\ bridge'[p] = bridge[p]
    /\ extra'[p] = extra[p] /\ credit'[p] = credit[p]

LEMMA SingleKept ==
  ASSUME TypeOK, TypeOK', Alone, Single, NEW t \in Tasks, NEW o \in Orders,
         Owns(t, o), Elsewhere(o), InboxShrinks,
         \A u \in Tasks : u # t => task'[u] = task[u],
         task'[t].pc # "idle" => task'[t].o = o,
         OrderOnce(o)', TaskOnce(t)'
  PROVE  Single'
<1>1. \A u \in Tasks : u # t /\ task[u].pc # "idle" => task[u].o # o
  BY DEF Owns, Free, At, Single, Apart, Alone
<1>2. Apart'
  BY <1>1 DEF Single, Apart
<1>3. \A p \in Orders : OrderOnce(p)'
  <2> TAKE p \in Orders
  <2>1. \A k \in Kinds : inbox'[<<p, k>>] > 0 => inbox[<<p, k>>] > 0
    <3> TAKE k \in Kinds
    <3>1. inbox'[<<p, k>>] =< inbox[<<p, k>>] /\ inbox[<<p, k>>] \in Nat
          /\ inbox'[<<p, k>>] \in Nat
      BY DEF InboxShrinks, TypeOK
    <3> QED
      BY <3>1
  <2>2. CASE p # o
    BY <2>1, <2>2 DEF Single, OrderOnce, Elsewhere
  <2> QED
    BY <2>2
<1>4. \A u \in Tasks : TaskOnce(u)'
  <2> TAKE u \in Tasks
  <2>1. CASE u # t /\ task[u].pc # "idle"
    <3>1. task'[u] = task[u] /\ task[u].o # o /\ task[u].o \in Orders
      BY <1>1, <2>1, TaskFields
    <3> QED
      BY <3>1 DEF Single, TaskOnce, Elsewhere
  <2>2. CASE u # t /\ task[u].pc = "idle"
    BY <2>2, AllPcs DEF Single, TaskOnce, WritePcs, CreditingPcs, LegPcs, SendPcs,
      StaffPcs, ExpiryPcs
  <2> QED
    BY <2>1, <2>2
<1> QED
  BY <1>2, <1>3, <1>4 DEF Single

\* Creation, the Bridge leg and the approval of a deposit.
LEMMA LegStepInv ==
  ASSUME DepositInv, NEW t \in Tasks, LegStep(t)
  PROVE  DepositInv'
<1> USE DEF LegPcs, SendPcs, StaffPcs, ExpiryPcs, WritePcs, CreditingPcs, Ended,
        orderVars, moneyVars
<1>0. PICK o \in Orders :
        /\ task[t].o = o /\ task[t].pc \in Pcs /\ task[t].seen \in Statuses
        /\ task[t].by \in {"none", "client", "staff", "system"}
        /\ TypeOK /\ Paid
  BY TaskFields DEF DepositInv
<1>1. CASE Insert(t)
  <2>1. PICK pc \in LegPcs \cup {"idle"} : Goto(t, pc)
    BY <1>0, <1>1, AllPcs DEF Insert, Goto, GoOn, After
  <2>2. Moved(t, pc) /\ (pc # "idle" => Kept(t)) /\ pc \in Pcs
    BY <1>0, <2>1, AllPcs, GotoType DEF Pcs, ClosePcs, CompletePcs, FailedPcs
  <2>3. TypeOK'
    <3>1. FirstStatus(flow[o], task[t].skip) \in Statuses
      BY DEF FirstStatus, Statuses
    <3>2. status' \in [Orders -> Statuses]
      BY <1>0, <1>1, <3>1 DEF Insert, Write, TypeOK
    <3>3. link' \in [Orders -> BOOLEAN]
      BY <1>0, <1>1 DEF Insert, TypeOK
    <3>4. deadline' \in [Orders -> {"none", "running", "due"}]
      BY <1>0, <1>1 DEF Insert, TypeOK
    <3> QED
      BY <1>0, <1>1, <2>2, <3>2, <3>3, <3>4 DEF Insert, TypeOK, Moved
  <2>4. BridgeKeeps /\ InboxShrinks /\ NoNewCredit
    BY <1>0, <1>1 DEF Insert, InboxShrinks, NoNewCredit, BridgeKeeps, TypeOK
  <2>5. Paid'
    <3>1. TaskPaid(t)'
      BY <1>0, <1>1, <2>1, <2>2, <2>4 DEF Insert, At, Moved, Kept, Paid, TaskPaid,
        BridgeKeeps, CompletePcs
    <3> QED
      BY <1>0, <2>2, <2>3, <2>4, <3>1, PaidKept DEF Moved
  <2>6. ASSUME Alone PROVE Single'
    <3>1. Single /\ OrderOnce(o) /\ TaskOnce(t)
      BY <1>0, <2>6 DEF DepositInv, Single
    <3>2. Owns(t, o) /\ Elsewhere(o)
      BY <1>0, <1>1 DEF Insert, Elsewhere, TypeOK, Write, At, Owns
    <3>3. OrderOnce(o)' /\ TaskOnce(t)'
      BY <1>0, <1>1, <2>1, <2>2, <3>1 DEF Insert, At, OrderOnce, TaskOnce, TypeOK,
        Kinds, Write, FirstStatus, Moved, Kept
    <3> QED
      BY <1>0, <2>2, <2>3, <2>4, <2>6, <3>1, <3>2, <3>3, SingleKept DEF Moved,
        Kept
  <2> QED
    BY <2>3, <2>5, <2>6 DEF DepositInv
<1>2. CASE LegPost(t)
  <2>1. PICK pc \in LegPcs \cup {"idle"} : Goto(t, pc)
    BY <1>0, <1>2, AllPcs DEF LegPost, Goto, GoOn, After
  <2>2. Moved(t, pc) /\ (pc # "idle" => Kept(t)) /\ pc \in Pcs
    BY <1>0, <2>1, AllPcs, GotoType DEF Pcs, ClosePcs, CompletePcs, FailedPcs
  <2>3. TypeOK'
    BY <1>0, <1>2, <2>2 DEF LegPost, TypeOK, Moved, Statuses, Posted, BridgeStates
  <2>4. BridgeKeeps /\ InboxShrinks /\ NoNewCredit
    BY <1>0, <1>2 DEF LegPost, InboxShrinks, NoNewCredit, BridgeKeeps, Posted,
      Delivered, TypeOK
  <2>5. Paid'
    <3>1. TaskPaid(t)'
      BY <1>0, <1>2, <2>1, <2>2, <2>4 DEF LegPost, At, Moved, Kept, Paid,
        TaskPaid, BridgeKeeps, CompletePcs
    <3> QED
      BY <1>0, <2>2, <2>3, <2>4, <3>1, PaidKept DEF Moved
  <2>6. ASSUME Alone PROVE Single'
    <3>1. Single /\ OrderOnce(o) /\ TaskOnce(t)
      BY <1>0, <2>6 DEF DepositInv, Single
    <3>2. Owns(t, o) /\ Elsewhere(o)
      BY <1>0, <1>2 DEF LegPost, Elsewhere, TypeOK, Posted, At, Owns
    <3>3. OrderOnce(o)' /\ TaskOnce(t)'
      BY <1>0, <1>2, <2>1, <2>2, <3>1 DEF LegPost, At, OrderOnce, TaskOnce,
        TypeOK, Kinds, Posted, Moved, Kept
    <3> QED
      BY <1>0, <2>2, <2>3, <2>4, <2>6, <3>1, <3>2, <3>3, SingleKept DEF Moved,
        Kept
  <2> QED
    BY <2>3, <2>5, <2>6 DEF DepositInv
<1>3. CASE LegPostFails(t)
  <2>1. PICK pc \in LegPcs \cup {"idle"} : Goto(t, pc)
    BY <1>0, <1>3, AllPcs DEF LegPostFails, Goto, LegFails
  <2>2. Moved(t, pc) /\ (pc # "idle" => Kept(t)) /\ pc \in Pcs
    BY <1>0, <2>1, AllPcs, GotoType DEF Pcs, ClosePcs, CompletePcs, FailedPcs
  <2>3. TypeOK'
    BY <1>0, <1>3, <2>2 DEF LegPostFails, TypeOK, Moved, Statuses, Posted,
      BridgeStates
  <2>4. BridgeKeeps /\ InboxShrinks /\ NoNewCredit
    BY <1>0, <1>3 DEF LegPostFails, InboxShrinks, NoNewCredit, BridgeKeeps,
      Posted, Delivered, TypeOK
  <2>5. Paid'
    <3>1. TaskPaid(t)'
      BY <1>0, <1>3, <2>1, <2>2, <2>4 DEF LegPostFails, At, Moved, Kept, Paid,
        TaskPaid, BridgeKeeps, CompletePcs
    <3> QED
      BY <1>0, <2>2, <2>3, <2>4, <3>1, PaidKept DEF Moved
  <2>6. ASSUME Alone PROVE Single'
    <3>1. Single /\ OrderOnce(o) /\ TaskOnce(t)
      BY <1>0, <2>6 DEF DepositInv, Single
    <3>2. Owns(t, o) /\ Elsewhere(o)
      BY <1>0, <1>3 DEF LegPostFails, Elsewhere, TypeOK, Posted, At, Owns
    <3>3. OrderOnce(o)' /\ TaskOnce(t)'
      BY <1>0, <1>3, <2>1, <2>2, <3>1 DEF LegPostFails, At, OrderOnce, TaskOnce,
        TypeOK, Kinds, Posted, Moved, Kept
    <3> QED
      BY <1>0, <2>2, <2>3, <2>4, <2>6, <3>1, <3>2, <3>3, SingleKept DEF Moved,
        Kept
  <2> QED
    BY <2>3, <2>5, <2>6 DEF DepositInv
<1>4. CASE LegNoAddress(t)
  <2>1. PICK pc \in LegPcs \cup {"idle"} : Goto(t, pc)
    BY <1>0, <1>4, AllPcs DEF LegNoAddress, Goto
  <2>2. Moved(t, pc) /\ (pc # "idle" => Kept(t)) /\ pc \in Pcs
    BY <1>0, <2>1, AllPcs, GotoType DEF Pcs, ClosePcs, CompletePcs, FailedPcs
  <2>3. TypeOK'
    BY <1>0, <1>4, <2>2 DEF LegNoAddress, TypeOK, Moved, Statuses, Posted,
      BridgeStates
  <2>4. BridgeKeeps /\ InboxShrinks /\ NoNewCredit
    BY <1>0, <1>4 DEF LegNoAddress, InboxShrinks, NoNewCredit, BridgeKeeps,
      Posted, Delivered, TypeOK
  <2>5. Paid'
    <3>1. TaskPaid(t)'
      BY <1>0, <1>4, <2>1, <2>2, <2>4 DEF LegNoAddress, At, Moved, Kept, Paid,
        TaskPaid, BridgeKeeps, CompletePcs
    <3> QED
      BY <1>0, <2>2, <2>3, <2>4, <3>1, PaidKept DEF Moved
  <2>6. ASSUME Alone PROVE Single'
    <3>1. Single /\ OrderOnce(o) /\ TaskOnce(t)
      BY <1>0, <2>6 DEF DepositInv, Single
    <3>2. Owns(t, o) /\ Elsewhere(o)
      BY <1>0, <1>4 DEF LegNoAddress, Elsewhere, TypeOK, Posted, At, Owns
    <3>3. OrderOnce(o)' /\ TaskOnce(t)'
      BY <1>0, <1>4, <2>1, <2>2, <3>1 DEF LegNoAddress, At, OrderOnce, TaskOnce,
        TypeOK, Kinds, Posted, Moved, Kept
    <3> QED
      BY <1>0, <2>2, <2>3, <2>4, <2>6, <3>1, <3>2, <3>3, SingleKept DEF Moved,
        Kept
  <2> QED
    BY <2>3, <2>5, <2>6 DEF DepositInv
<1>5. CASE LegRecord(t)
  <2>1. PICK pc \in LegPcs \cup {"idle"} : Goto(t, pc)
    BY <1>0, <1>5, AllPcs DEF LegRecord, Goto, GoOn, After
  <2>2. Moved(t, pc) /\ (pc # "idle" => Kept(t)) /\ pc \in Pcs
    BY <1>0, <2>1, AllPcs, GotoType DEF Pcs, ClosePcs, CompletePcs, FailedPcs
  <2>3. TypeOK'
    BY <1>0, <1>5, <2>2 DEF LegRecord, TypeOK, Moved, Statuses, RowStates
  <2>4. BridgeKeeps /\ InboxShrinks /\ NoNewCredit
    BY <1>0, <1>5 DEF LegRecord, InboxShrinks, NoNewCredit, BridgeKeeps, TypeOK
  <2>5. Paid'
    <3>1. TaskPaid(t)'
      BY <1>0, <1>5, <2>1, <2>2, <2>4 DEF LegRecord, At, Moved, Kept, Paid,
        TaskPaid, BridgeKeeps, CompletePcs
    <3> QED
      BY <1>0, <2>2, <2>3, <2>4, <3>1, PaidKept DEF Moved
  <2>6. ASSUME Alone PROVE Single'
    <3>1. Single /\ OrderOnce(o) /\ TaskOnce(t)
      BY <1>0, <2>6 DEF DepositInv, Single
    <3>2. Owns(t, o) /\ Elsewhere(o)
      BY <1>0, <1>5 DEF LegRecord, Elsewhere, TypeOK, At, Owns
    <3>3. OrderOnce(o)' /\ TaskOnce(t)'
      BY <1>0, <1>5, <2>1, <2>2, <3>1 DEF LegRecord, At, OrderOnce, TaskOnce,
        TypeOK, Kinds, Moved, Kept
    <3> QED
      BY <1>0, <2>2, <2>3, <2>4, <2>6, <3>1, <3>2, <3>3, SingleKept DEF Moved,
        Kept
  <2> QED
    BY <2>3, <2>5, <2>6 DEF DepositInv
<1>6. CASE LegLink(t)
  <2>1. PICK pc \in LegPcs \cup {"idle"} : Goto(t, pc)
    BY <1>0, <1>6, AllPcs DEF LegLink, Goto, GoOn, After
  <2>2. Moved(t, pc) /\ (pc # "idle" => Kept(t)) /\ pc \in Pcs
    BY <1>0, <2>1, AllPcs, GotoType DEF Pcs, ClosePcs, CompletePcs, FailedPcs
  <2>3. TypeOK'
    <3>1. status' \in [Orders -> Statuses]
      BY <1>0, <1>6 DEF LegLink, Write, TypeOK, Statuses
    <3>2. link' \in [Orders -> BOOLEAN]
      BY <1>0, <1>6 DEF LegLink, TypeOK
    <3>3. deadline' \in [Orders -> {"none", "running", "due"}]
      BY <1>0, <1>6 DEF LegLink, TypeOK
    <3> QED
      BY <1>0, <1>6, <2>2, <3>1, <3>2, <3>3 DEF LegLink, TypeOK, Moved
  <2>4. BridgeKeeps /\ InboxShrinks /\ NoNewCredit
    BY <1>0, <1>6 DEF LegLink, InboxShrinks, NoNewCredit, BridgeKeeps, TypeOK
  <2>5. Paid'
    <3>1. TaskPaid(t)'
      BY <1>0, <1>6, <2>1, <2>2, <2>4 DEF LegLink, At, Moved, Kept, Paid,
        TaskPaid, BridgeKeeps, CompletePcs
    <3> QED
      BY <1>0, <2>2, <2>3, <2>4, <3>1, PaidKept DEF Moved
  <2>6. ASSUME Alone PROVE Single'
    <3>1. Single /\ OrderOnce(o) /\ TaskOnce(t)
      BY <1>0, <2>6 DEF DepositInv, Single
    <3>2. Owns(t, o) /\ Elsewhere(o)
      BY <1>0, <1>6 DEF LegLink, Elsewhere, TypeOK, Write, At, Owns
    <3>3. OrderOnce(o)' /\ TaskOnce(t)'
      BY <1>0, <1>6, <2>1, <2>2, <3>1 DEF LegLink, At, OrderOnce, TaskOnce,
        TypeOK, Kinds, Write, Moved, Kept
    <3> QED
      BY <1>0, <2>2, <2>3, <2>4, <2>6, <3>1, <3>2, <3>3, SingleKept DEF Moved,
        Kept
  <2> QED
    BY <2>3, <2>5, <2>6 DEF DepositInv
<1>7. CASE LegCredit(t)
  <2>1. PICK pc \in {"idle"} : Goto(t, pc)
    BY <1>0, <1>7, AllPcs DEF LegCredit, Goto
  <2>2. Moved(t, pc) /\ (pc # "idle" => Kept(t)) /\ pc \in Pcs
    BY <1>0, <2>1, AllPcs, GotoType DEF Pcs, ClosePcs, CompletePcs, FailedPcs
  <2>3. TypeOK'
    BY <1>0, <1>7, <2>2 DEF LegCredit, TypeOK, Moved, Statuses, EntryStates
  <2>4. BridgeKeeps /\ InboxShrinks /\ NoNewCredit
    BY <1>0, <1>7 DEF LegCredit, InboxShrinks, NoNewCredit, BridgeKeeps, TypeOK
  <2>5. Paid'
    <3>1. TaskPaid(t)'
      BY <1>0, <1>7, <2>1, <2>2, <2>4 DEF LegCredit, At, Moved, Kept, Paid,
        TaskPaid, BridgeKeeps, CompletePcs
    <3> QED
      BY <1>0, <2>2, <2>3, <2>4, <3>1, PaidKept DEF Moved
  <2>6. ASSUME Alone PROVE Single'
    <3>1. Single /\ OrderOnce(o) /\ TaskOnce(t)
      BY <1>0, <2>6 DEF DepositInv, Single
    <3>2. Owns(t, o) /\ Elsewhere(o)
      BY <1>0, <1>7 DEF LegCredit, Elsewhere, TypeOK, At, Owns
    <3>3. OrderOnce(o)' /\ TaskOnce(t)'
      BY <1>0, <1>7, <2>1, <2>2, <3>1 DEF LegCredit, At, OrderOnce, TaskOnce,
        TypeOK, Kinds, Moved, Kept
    <3> QED
      BY <1>0, <2>2, <2>3, <2>4, <2>6, <3>1, <3>2, <3>3, SingleKept DEF Moved,
        Kept
  <2> QED
    BY <2>3, <2>5, <2>6 DEF DepositInv
<1>8. CASE LegReturn(t)
  <2>1. PICK pc \in {"idle"} : Goto(t, pc)
    BY <1>0, <1>8, AllPcs DEF LegReturn, Goto
  <2>2. Moved(t, pc) /\ (pc # "idle" => Kept(t)) /\ pc \in Pcs
    BY <1>0, <2>1, AllPcs, GotoType DEF Pcs, ClosePcs, CompletePcs, FailedPcs
  <2>3. TypeOK'
    BY <1>0, <1>8, <2>2 DEF LegReturn, TypeOK, Moved, Statuses, Terminal, Write
  <2>4. BridgeKeeps /\ InboxShrinks /\ NoNewCredit
    BY <1>0, <1>8 DEF LegReturn, InboxShrinks, NoNewCredit, BridgeKeeps, TypeOK
  <2>5. Paid'
    <3>1. TaskPaid(t)'
      BY <1>0, <1>8, <2>1, <2>2, <2>4 DEF LegReturn, At, Moved, Kept, Paid,
        TaskPaid, BridgeKeeps, CompletePcs
    <3> QED
      BY <1>0, <2>2, <2>3, <2>4, <3>1, PaidKept DEF Moved
  <2>6. ASSUME Alone PROVE Single'
    <3>1. Single /\ OrderOnce(o) /\ TaskOnce(t)
      BY <1>0, <2>6 DEF DepositInv, Single
    <3>2. Owns(t, o) /\ Elsewhere(o)
      BY <1>0, <1>8 DEF LegReturn, Elsewhere, TypeOK, Write, At, Owns
    <3>3. OrderOnce(o)' /\ TaskOnce(t)'
      BY <1>0, <1>8, <2>1, <2>2, <3>1 DEF LegReturn, At, OrderOnce, TaskOnce,
        TypeOK, Kinds, Write, Moved, Kept
    <3> QED
      BY <1>0, <2>2, <2>3, <2>4, <2>6, <3>1, <3>2, <3>3, SingleKept DEF Moved,
        Kept
  <2> QED
    BY <2>3, <2>5, <2>6 DEF DepositInv
<1>9. CASE LegFail(t)
  <2>1. PICK pc \in {"idle"} : Goto(t, pc)
    BY <1>0, <1>9, AllPcs DEF LegFail, Goto
  <2>2. Moved(t, pc) /\ (pc # "idle" => Kept(t)) /\ pc \in Pcs
    BY <1>0, <2>1, AllPcs, GotoType DEF Pcs, ClosePcs, CompletePcs, FailedPcs
  <2>3. TypeOK'
    BY <1>0, <1>9, <2>2 DEF LegFail, TypeOK, Moved, Statuses, Terminal, Write
  <2>4. BridgeKeeps /\ InboxShrinks /\ NoNewCredit
    BY <1>0, <1>9 DEF LegFail, InboxShrinks, NoNewCredit, BridgeKeeps, TypeOK
  <2>5. Paid'
    <3>1. TaskPaid(t)'
      BY <1>0, <1>9, <2>1, <2>2, <2>4 DEF LegFail, At, Moved, Kept, Paid,
        TaskPaid, BridgeKeeps, CompletePcs
    <3> QED
      BY <1>0, <2>2, <2>3, <2>4, <3>1, PaidKept DEF Moved
  <2>6. ASSUME Alone PROVE Single'
    <3>1. Single /\ OrderOnce(o) /\ TaskOnce(t)
      BY <1>0, <2>6 DEF DepositInv, Single
    <3>2. Owns(t, o) /\ Elsewhere(o)
      BY <1>0, <1>9 DEF LegFail, Elsewhere, TypeOK, Write, At, Owns
    <3>3. OrderOnce(o)' /\ TaskOnce(t)'
      BY <1>0, <1>9, <2>1, <2>2, <3>1 DEF LegFail, At, OrderOnce, TaskOnce,
        TypeOK, Kinds, Write, Moved, Kept
    <3> QED
      BY <1>0, <2>2, <2>3, <2>4, <2>6, <3>1, <3>2, <3>3, SingleKept DEF Moved,
        Kept
  <2> QED
    BY <2>3, <2>5, <2>6 DEF DepositInv
<1>10. CASE SendPost(t)
  <2>1. PICK pc \in {"sendLink"} : Goto(t, pc)
    BY <1>0, <1>10, AllPcs DEF SendPost, Goto
  <2>2. Moved(t, pc) /\ (pc # "idle" => Kept(t)) /\ pc \in Pcs
    BY <1>0, <2>1, AllPcs, GotoType DEF Pcs, ClosePcs, CompletePcs, FailedPcs
  <2>3. TypeOK'
    BY <1>0, <1>10, <2>2 DEF SendPost, TypeOK, Moved, Statuses, Posted,
      BridgeStates
  <2>4. BridgeKeeps /\ InboxShrinks /\ NoNewCredit
    BY <1>0, <1>10 DEF SendPost, InboxShrinks, NoNewCredit, BridgeKeeps, Posted,
      Delivered, TypeOK
  <2>5. Paid'
    <3>1. TaskPaid(t)'
      BY <1>0, <1>10, <2>1, <2>2, <2>4 DEF SendPost, At, Moved, Kept, Paid,
        TaskPaid, BridgeKeeps, CompletePcs
    <3> QED
      BY <1>0, <2>2, <2>3, <2>4, <3>1, PaidKept DEF Moved
  <2>6. ASSUME Alone PROVE Single'
    <3>1. Single /\ OrderOnce(o) /\ TaskOnce(t)
      BY <1>0, <2>6 DEF DepositInv, Single
    <3>2. Owns(t, o) /\ Elsewhere(o)
      BY <1>0, <1>10 DEF SendPost, Elsewhere, TypeOK, Posted, At, Owns
    <3>3. OrderOnce(o)' /\ TaskOnce(t)'
      BY <1>0, <1>10, <2>1, <2>2, <3>1 DEF SendPost, At, OrderOnce, TaskOnce,
        TypeOK, Kinds, Posted, Moved, Kept
    <3> QED
      BY <1>0, <2>2, <2>3, <2>4, <2>6, <3>1, <3>2, <3>3, SingleKept DEF Moved,
        Kept
  <2> QED
    BY <2>3, <2>5, <2>6 DEF DepositInv
<1>11. CASE SendPostFails(t)
  <2>1. PICK pc \in {"sendUndo"} : Goto(t, pc)
    BY <1>0, <1>11, AllPcs DEF SendPostFails, Goto
  <2>2. Moved(t, pc) /\ (pc # "idle" => Kept(t)) /\ pc \in Pcs
    BY <1>0, <2>1, AllPcs, GotoType DEF Pcs, ClosePcs, CompletePcs, FailedPcs
  <2>3. TypeOK'
    BY <1>0, <1>11, <2>2 DEF SendPostFails, TypeOK, Moved, Statuses, Posted,
      BridgeStates
  <2>4. BridgeKeeps /\ InboxShrinks /\ NoNewCredit
    BY <1>0, <1>11 DEF SendPostFails, InboxShrinks, NoNewCredit, BridgeKeeps,
      Posted, Delivered, TypeOK
  <2>5. Paid'
    <3>1. TaskPaid(t)'
      BY <1>0, <1>11, <2>1, <2>2, <2>4 DEF SendPostFails, At, Moved, Kept, Paid,
        TaskPaid, BridgeKeeps, CompletePcs
    <3> QED
      BY <1>0, <2>2, <2>3, <2>4, <3>1, PaidKept DEF Moved
  <2>6. ASSUME Alone PROVE Single'
    <3>1. Single /\ OrderOnce(o) /\ TaskOnce(t)
      BY <1>0, <2>6 DEF DepositInv, Single
    <3>2. Owns(t, o) /\ Elsewhere(o)
      BY <1>0, <1>11 DEF SendPostFails, Elsewhere, TypeOK, Posted, At, Owns
    <3>3. OrderOnce(o)' /\ TaskOnce(t)'
      BY <1>0, <1>11, <2>1, <2>2, <3>1 DEF SendPostFails, At, OrderOnce, TaskOnce,
        TypeOK, Kinds, Posted, Moved, Kept
    <3> QED
      BY <1>0, <2>2, <2>3, <2>4, <2>6, <3>1, <3>2, <3>3, SingleKept DEF Moved,
        Kept
  <2> QED
    BY <2>3, <2>5, <2>6 DEF DepositInv
<1>12. CASE SendLink(t)
  <2>1. PICK pc \in {"sendRecord"} : Goto(t, pc)
    BY <1>0, <1>12, AllPcs DEF SendLink, Goto
  <2>2. Moved(t, pc) /\ (pc # "idle" => Kept(t)) /\ pc \in Pcs
    BY <1>0, <2>1, AllPcs, GotoType DEF Pcs, ClosePcs, CompletePcs, FailedPcs
  <2>3. TypeOK'
    BY <1>0, <1>12, <2>2 DEF SendLink, TypeOK, Moved, Statuses
  <2>4. BridgeKeeps /\ InboxShrinks /\ NoNewCredit
    BY <1>0, <1>12 DEF SendLink, InboxShrinks, NoNewCredit, BridgeKeeps, TypeOK
  <2>5. Paid'
    <3>1. TaskPaid(t)'
      BY <1>0, <1>12, <2>1, <2>2, <2>4 DEF SendLink, At, Moved, Kept, Paid,
        TaskPaid, BridgeKeeps, CompletePcs
    <3> QED
      BY <1>0, <2>2, <2>3, <2>4, <3>1, PaidKept DEF Moved
  <2>6. ASSUME Alone PROVE Single'
    <3>1. Single /\ OrderOnce(o) /\ TaskOnce(t)
      BY <1>0, <2>6 DEF DepositInv, Single
    <3>2. Owns(t, o) /\ Elsewhere(o)
      BY <1>0, <1>12 DEF SendLink, Elsewhere, TypeOK, At, Owns
    <3>3. OrderOnce(o)' /\ TaskOnce(t)'
      BY <1>0, <1>12, <2>1, <2>2, <3>1 DEF SendLink, At, OrderOnce, TaskOnce,
        TypeOK, Kinds, Moved, Kept
    <3> QED
      BY <1>0, <2>2, <2>3, <2>4, <2>6, <3>1, <3>2, <3>3, SingleKept DEF Moved,
        Kept
  <2> QED
    BY <2>3, <2>5, <2>6 DEF DepositInv
<1>13. CASE SendRecord(t)
  <2>1. PICK pc \in {"idle"} : Goto(t, pc)
    BY <1>0, <1>13, AllPcs DEF SendRecord, Goto
  <2>2. Moved(t, pc) /\ (pc # "idle" => Kept(t)) /\ pc \in Pcs
    BY <1>0, <2>1, AllPcs, GotoType DEF Pcs, ClosePcs, CompletePcs, FailedPcs
  <2>3. TypeOK'
    BY <1>0, <1>13, <2>2 DEF SendRecord, TypeOK, Moved, Statuses, RowStates
  <2>4. BridgeKeeps /\ InboxShrinks /\ NoNewCredit
    BY <1>0, <1>13 DEF SendRecord, InboxShrinks, NoNewCredit, BridgeKeeps, TypeOK
  <2>5. Paid'
    <3>1. TaskPaid(t)'
      BY <1>0, <1>13, <2>1, <2>2, <2>4 DEF SendRecord, At, Moved, Kept, Paid,
        TaskPaid, BridgeKeeps, CompletePcs
    <3> QED
      BY <1>0, <2>2, <2>3, <2>4, <3>1, PaidKept DEF Moved
  <2>6. ASSUME Alone PROVE Single'
    <3>1. Single /\ OrderOnce(o) /\ TaskOnce(t)
      BY <1>0, <2>6 DEF DepositInv, Single
    <3>2. Owns(t, o) /\ Elsewhere(o)
      BY <1>0, <1>13 DEF SendRecord, Elsewhere, TypeOK, At, Owns
    <3>3. OrderOnce(o)' /\ TaskOnce(t)'
      BY <1>0, <1>13, <2>1, <2>2, <3>1 DEF SendRecord, At, OrderOnce, TaskOnce,
        TypeOK, Kinds, Moved, Kept
    <3> QED
      BY <1>0, <2>2, <2>3, <2>4, <2>6, <3>1, <3>2, <3>3, SingleKept DEF Moved,
        Kept
  <2> QED
    BY <2>3, <2>5, <2>6 DEF DepositInv
<1>14. CASE SendUndo(t)
  <2>1. PICK pc \in {"idle"} : Goto(t, pc)
    BY <1>0, <1>14, AllPcs DEF SendUndo, Goto
  <2>2. Moved(t, pc) /\ (pc # "idle" => Kept(t)) /\ pc \in Pcs
    BY <1>0, <2>1, AllPcs, GotoType DEF Pcs, ClosePcs, CompletePcs, FailedPcs
  <2>3. TypeOK'
    BY <1>0, <1>14, <2>2 DEF SendUndo, TypeOK, Moved, Statuses, Terminal, Write
  <2>4. BridgeKeeps /\ InboxShrinks /\ NoNewCredit
    BY <1>0, <1>14 DEF SendUndo, InboxShrinks, NoNewCredit, BridgeKeeps, TypeOK
  <2>5. Paid'
    <3>1. TaskPaid(t)'
      BY <1>0, <1>14, <2>1, <2>2, <2>4 DEF SendUndo, At, Moved, Kept, Paid,
        TaskPaid, BridgeKeeps, CompletePcs
    <3> QED
      BY <1>0, <2>2, <2>3, <2>4, <3>1, PaidKept DEF Moved
  <2>6. ASSUME Alone PROVE Single'
    <3>1. Single /\ OrderOnce(o) /\ TaskOnce(t)
      BY <1>0, <2>6 DEF DepositInv, Single
    <3>2. Owns(t, o) /\ Elsewhere(o)
      BY <1>0, <1>14 DEF SendUndo, Elsewhere, TypeOK, Write, At, Owns
    <3>3. OrderOnce(o)' /\ TaskOnce(t)'
      BY <1>0, <1>14, <2>1, <2>2, <3>1 DEF SendUndo, At, OrderOnce, TaskOnce,
        TypeOK, Kinds, Write, Moved, Kept
    <3> QED
      BY <1>0, <2>2, <2>3, <2>4, <2>6, <3>1, <3>2, <3>3, SingleKept DEF Moved,
        Kept
  <2> QED
    BY <2>3, <2>5, <2>6 DEF DepositInv
<1> QED
  BY <1>1, <1>2, <1>3, <1>4, <1>5, <1>6, <1>7, <1>8, <1>9, <1>10, <1>11, <1>12,
    <1>13, <1>14 DEF LegStep

\* Proofs, staff's manual writes and the ways an order is closed.
LEMMA CloseStepInv ==
  ASSUME DepositInv, NEW t \in Tasks, CloseStep(t)
  PROVE  DepositInv'
<1> USE DEF LegPcs, SendPcs, StaffPcs, ExpiryPcs, WritePcs, CreditingPcs, Ended,
        orderVars, moneyVars
<1>0. PICK o \in Orders :
        /\ task[t].o = o /\ task[t].pc \in Pcs /\ task[t].seen \in Statuses
        /\ task[t].by \in {"none", "client", "staff", "system"}
        /\ TypeOK /\ Paid
  BY TaskFields DEF DepositInv
<1>1. CASE ConfirmWrite(t)
  <2>1. PICK pc \in {"idle"} : Goto(t, pc)
    BY <1>0, <1>1, AllPcs DEF ConfirmWrite, Goto
  <2>2. Moved(t, pc) /\ (pc # "idle" => Kept(t)) /\ pc \in Pcs
    BY <1>0, <2>1, AllPcs, GotoType DEF Pcs, ClosePcs, CompletePcs, FailedPcs
  <2>3. TypeOK'
    BY <1>0, <1>1, <2>2 DEF ConfirmWrite, TypeOK, Moved, Statuses, Terminal, Write
  <2>4. BridgeKeeps /\ InboxShrinks /\ NoNewCredit
    BY <1>0, <1>1 DEF ConfirmWrite, InboxShrinks, NoNewCredit, BridgeKeeps, TypeOK
  <2>5. Paid'
    <3>1. TaskPaid(t)'
      BY <1>0, <1>1, <2>1, <2>2, <2>4 DEF ConfirmWrite, At, Moved, Kept, Paid,
        TaskPaid, BridgeKeeps, CompletePcs
    <3> QED
      BY <1>0, <2>2, <2>3, <2>4, <3>1, PaidKept DEF Moved
  <2>6. ASSUME Alone PROVE Single'
    <3>1. Single /\ OrderOnce(o) /\ TaskOnce(t)
      BY <1>0, <2>6 DEF DepositInv, Single
    <3>2. Owns(t, o) /\ Elsewhere(o)
      BY <1>0, <1>1 DEF ConfirmWrite, Elsewhere, TypeOK, Write, At, Owns
    <3>3. OrderOnce(o)' /\ TaskOnce(t)'
      BY <1>0, <1>1, <2>1, <2>2, <3>1 DEF ConfirmWrite, At, OrderOnce, TaskOnce,
        TypeOK, Kinds, Write, Moved, Kept
    <3> QED
      BY <1>0, <2>2, <2>3, <2>4, <2>6, <3>1, <3>2, <3>3, SingleKept DEF Moved,
        Kept
  <2> QED
    BY <2>3, <2>5, <2>6 DEF DepositInv
<1>2. CASE ManualWrite(t)
  <2>1. PICK pc \in {"idle"} : Goto(t, pc)
    BY <1>0, <1>2, AllPcs DEF ManualWrite, Goto
  <2>2. Moved(t, pc) /\ (pc # "idle" => Kept(t)) /\ pc \in Pcs
    BY <1>0, <2>1, AllPcs, GotoType DEF Pcs, ClosePcs, CompletePcs, FailedPcs
  <2>3. TypeOK'
    BY <1>0, <1>2, <2>2 DEF ManualWrite, TypeOK, Moved, Statuses, Terminal, Write
  <2>4. BridgeKeeps /\ InboxShrinks /\ NoNewCredit
    BY <1>0, <1>2 DEF ManualWrite, InboxShrinks, NoNewCredit, BridgeKeeps, TypeOK
  <2>5. Paid'
    <3>1. TaskPaid(t)'
      BY <1>0, <1>2, <2>1, <2>2, <2>4 DEF ManualWrite, At, Moved, Kept, Paid,
        TaskPaid, BridgeKeeps, CompletePcs
    <3> QED
      BY <1>0, <2>2, <2>3, <2>4, <3>1, PaidKept DEF Moved
  <2>6. ASSUME Alone PROVE Single'
    <3>1. Single /\ OrderOnce(o) /\ TaskOnce(t)
      BY <1>0, <2>6 DEF DepositInv, Single
    <3>2. Owns(t, o) /\ Elsewhere(o)
      BY <1>0, <1>2 DEF ManualWrite, Elsewhere, TypeOK, Write, At, Owns
    <3>3. OrderOnce(o)' /\ TaskOnce(t)'
      BY <1>0, <1>2, <2>1, <2>2, <3>1 DEF ManualWrite, At, OrderOnce, TaskOnce,
        TypeOK, Kinds, Write, Moved, Kept
    <3> QED
      BY <1>0, <2>2, <2>3, <2>4, <2>6, <3>1, <3>2, <3>3, SingleKept DEF Moved,
        Kept
  <2> QED
    BY <2>3, <2>5, <2>6 DEF DepositInv
<1>3. CASE Delete(t)
  <2>1. PICK pc \in {"rowOff", "extend", "idle"} : Goto(t, pc)
    BY <1>0, <1>3, AllPcs DEF Delete, Goto
  <2>2. Moved(t, pc) /\ (pc # "idle" => Kept(t)) /\ pc \in Pcs
    BY <1>0, <2>1, AllPcs, GotoType DEF Pcs, ClosePcs, CompletePcs, FailedPcs
  <2>3. TypeOK'
    BY <1>0, <1>3, <2>2 DEF Delete, TypeOK, Moved, Statuses, BridgeStates
  <2>4. BridgeKeeps /\ InboxShrinks /\ NoNewCredit
    BY <1>0, <1>3 DEF Delete, InboxShrinks, NoNewCredit, BridgeKeeps, Delivered,
      TypeOK
  <2>5. Paid'
    <3>1. TaskPaid(t)'
      BY <1>0, <1>3, <2>1, <2>2, <2>4 DEF Delete, At, Moved, Kept, Paid, TaskPaid,
        BridgeKeeps, CompletePcs
    <3> QED
      BY <1>0, <2>2, <2>3, <2>4, <3>1, PaidKept DEF Moved
  <2>6. ASSUME Alone PROVE Single'
    <3>1. Single /\ OrderOnce(o) /\ TaskOnce(t)
      BY <1>0, <2>6 DEF DepositInv, Single
    <3>2. Owns(t, o) /\ Elsewhere(o)
      BY <1>0, <1>3 DEF Delete, Elsewhere, TypeOK, At, Owns
    <3>3. OrderOnce(o)' /\ TaskOnce(t)'
      BY <1>0, <1>3, <2>1, <2>2, <3>1 DEF Delete, At, OrderOnce, TaskOnce, TypeOK,
        Kinds, Moved, Kept
    <3> QED
      BY <1>0, <2>2, <2>3, <2>4, <2>6, <3>1, <3>2, <3>3, SingleKept DEF Moved,
        Kept
  <2> QED
    BY <2>3, <2>5, <2>6 DEF DepositInv
<1>4. CASE RowOff(t)
  <2>1. PICK pc \in {"close"} : Goto(t, pc)
    BY <1>0, <1>4, AllPcs DEF RowOff, Goto
  <2>2. Moved(t, pc) /\ (pc # "idle" => Kept(t)) /\ pc \in Pcs
    BY <1>0, <2>1, AllPcs, GotoType DEF Pcs, ClosePcs, CompletePcs, FailedPcs
  <2>3. TypeOK'
    BY <1>0, <1>4, <2>2 DEF RowOff, TypeOK, Moved, Statuses, SetRow, RowStates
  <2>4. BridgeKeeps /\ InboxShrinks /\ NoNewCredit
    BY <1>0, <1>4 DEF RowOff, InboxShrinks, NoNewCredit, BridgeKeeps, TypeOK
  <2>5. Paid'
    <3>1. TaskPaid(t)'
      BY <1>0, <1>4, <2>1, <2>2, <2>4 DEF RowOff, At, Moved, Kept, Paid, TaskPaid,
        BridgeKeeps, CompletePcs
    <3> QED
      BY <1>0, <2>2, <2>3, <2>4, <3>1, PaidKept DEF Moved
  <2>6. ASSUME Alone PROVE Single'
    <3>1. Single /\ OrderOnce(o) /\ TaskOnce(t)
      BY <1>0, <2>6 DEF DepositInv, Single
    <3>2. Owns(t, o) /\ Elsewhere(o)
      BY <1>0, <1>4 DEF RowOff, Elsewhere, TypeOK, At, Owns
    <3>3. OrderOnce(o)' /\ TaskOnce(t)'
      BY <1>0, <1>4, <2>1, <2>2, <3>1 DEF RowOff, At, OrderOnce, TaskOnce, TypeOK,
        Kinds, Moved, Kept
    <3> QED
      BY <1>0, <2>2, <2>3, <2>4, <2>6, <3>1, <3>2, <3>3, SingleKept DEF Moved,
        Kept
  <2> QED
    BY <2>3, <2>5, <2>6 DEF DepositInv
<1>5. CASE Extend(t)
  <2>1. PICK pc \in {"idle"} : Goto(t, pc)
    BY <1>0, <1>5, AllPcs DEF Extend, Goto
  <2>2. Moved(t, pc) /\ (pc # "idle" => Kept(t)) /\ pc \in Pcs
    BY <1>0, <2>1, AllPcs, GotoType DEF Pcs, ClosePcs, CompletePcs, FailedPcs
  <2>3. TypeOK'
    BY <1>0, <1>5, <2>2 DEF Extend, TypeOK, Moved, Statuses
  <2>4. BridgeKeeps /\ InboxShrinks /\ NoNewCredit
    BY <1>0, <1>5 DEF Extend, InboxShrinks, NoNewCredit, BridgeKeeps, TypeOK
  <2>5. Paid'
    <3>1. TaskPaid(t)'
      BY <1>0, <1>5, <2>1, <2>2, <2>4 DEF Extend, At, Moved, Kept, Paid, TaskPaid,
        BridgeKeeps, CompletePcs
    <3> QED
      BY <1>0, <2>2, <2>3, <2>4, <3>1, PaidKept DEF Moved
  <2>6. ASSUME Alone PROVE Single'
    <3>1. Single /\ OrderOnce(o) /\ TaskOnce(t)
      BY <1>0, <2>6 DEF DepositInv, Single
    <3>2. Owns(t, o) /\ Elsewhere(o)
      BY <1>0, <1>5 DEF Extend, Elsewhere, TypeOK, At, Owns
    <3>3. OrderOnce(o)' /\ TaskOnce(t)'
      BY <1>0, <1>5, <2>1, <2>2, <3>1 DEF Extend, At, OrderOnce, TaskOnce, TypeOK,
        Kinds, Moved, Kept
    <3> QED
      BY <1>0, <2>2, <2>3, <2>4, <2>6, <3>1, <3>2, <3>3, SingleKept DEF Moved,
        Kept
  <2> QED
    BY <2>3, <2>5, <2>6 DEF DepositInv
<1>6. CASE Close(t)
  <2>1. PICK pc \in {"void", "idle"} : Goto(t, pc)
    BY <1>0, <1>6, AllPcs DEF Close, Goto
  <2>2. Moved(t, pc) /\ (pc # "idle" => Kept(t)) /\ pc \in Pcs
    BY <1>0, <2>1, AllPcs, GotoType DEF Pcs, ClosePcs, CompletePcs, FailedPcs
  <2>3. TypeOK'
    BY <1>0, <1>6, <2>2 DEF Close, TypeOK, Moved, Statuses, Terminal, Write, Task
  <2>4. BridgeKeeps /\ InboxShrinks /\ NoNewCredit
    BY <1>0, <1>6 DEF Close, InboxShrinks, NoNewCredit, BridgeKeeps, TypeOK
  <2>5. Paid'
    <3>1. TaskPaid(t)'
      BY <1>0, <1>6, <2>1, <2>2, <2>4 DEF Close, At, Moved, Kept, Paid, TaskPaid,
        BridgeKeeps, CompletePcs
    <3> QED
      BY <1>0, <2>2, <2>3, <2>4, <3>1, PaidKept DEF Moved
  <2>6. ASSUME Alone PROVE Single'
    <3>1. Single /\ OrderOnce(o) /\ TaskOnce(t)
      BY <1>0, <2>6 DEF DepositInv, Single
    <3>2. Owns(t, o) /\ Elsewhere(o)
      BY <1>0, <1>6 DEF Close, Elsewhere, TypeOK, Write, At, Owns
    <3>3. OrderOnce(o)' /\ TaskOnce(t)'
      BY <1>0, <1>6, <2>1, <2>2, <3>1 DEF Close, At, OrderOnce, TaskOnce, TypeOK,
        Kinds, Write, Moved, Kept
    <3> QED
      BY <1>0, <2>2, <2>3, <2>4, <2>6, <3>1, <3>2, <3>3, SingleKept DEF Moved,
        Kept
  <2> QED
    BY <2>3, <2>5, <2>6 DEF DepositInv
<1>7. CASE FailWrite(t)
  <2>1. PICK pc \in {"failVoid"} : Goto(t, pc)
    BY <1>0, <1>7, AllPcs DEF FailWrite, Goto
  <2>2. Moved(t, pc) /\ (pc # "idle" => Kept(t)) /\ pc \in Pcs
    BY <1>0, <2>1, AllPcs, GotoType DEF Pcs, ClosePcs, CompletePcs, FailedPcs
  <2>3. TypeOK'
    BY <1>0, <1>7, <2>2 DEF FailWrite, TypeOK, Moved, Statuses, Terminal, Write
  <2>4. BridgeKeeps /\ InboxShrinks /\ NoNewCredit
    BY <1>0, <1>7 DEF FailWrite, InboxShrinks, NoNewCredit, BridgeKeeps, TypeOK
  <2>5. Paid'
    <3>1. TaskPaid(t)'
      BY <1>0, <1>7, <2>1, <2>2, <2>4 DEF FailWrite, At, Moved, Kept, Paid,
        TaskPaid, BridgeKeeps, CompletePcs
    <3> QED
      BY <1>0, <2>2, <2>3, <2>4, <3>1, PaidKept DEF Moved
  <2>6. ASSUME Alone PROVE Single'
    <3>1. Single /\ OrderOnce(o) /\ TaskOnce(t)
      BY <1>0, <2>6 DEF DepositInv, Single
    <3>2. Owns(t, o) /\ Elsewhere(o)
      BY <1>0, <1>7 DEF FailWrite, Elsewhere, TypeOK, Write, At, Owns
    <3>3. OrderOnce(o)' /\ TaskOnce(t)'
      BY <1>0, <1>7, <2>1, <2>2, <3>1 DEF FailWrite, At, OrderOnce, TaskOnce,
        TypeOK, Kinds, Write, Moved, Kept
    <3> QED
      BY <1>0, <2>2, <2>3, <2>4, <2>6, <3>1, <3>2, <3>3, SingleKept DEF Moved,
        Kept
  <2> QED
    BY <2>3, <2>5, <2>6 DEF DepositInv
<1>8. CASE Void(t)
  <2>1. PICK pc \in {"idle"} : Goto(t, pc)
    BY <1>0, <1>8, AllPcs DEF Void, Goto
  <2>2. Moved(t, pc) /\ (pc # "idle" => Kept(t)) /\ pc \in Pcs
    BY <1>0, <2>1, AllPcs, GotoType DEF Pcs, ClosePcs, CompletePcs, FailedPcs
  <2>3. TypeOK'
    BY <1>0, <1>8, <2>2 DEF Void, TypeOK, Moved, Statuses, Leave, EntryStates
  <2>4. BridgeKeeps /\ InboxShrinks /\ NoNewCredit
    BY <1>0, <1>8 DEF Void, InboxShrinks, NoNewCredit, BridgeKeeps, Leave, TypeOK
  <2>5. Paid'
    <3>1. TaskPaid(t)'
      BY <1>0, <1>8, <2>1, <2>2, <2>4 DEF Void, At, Moved, Kept, Paid, TaskPaid,
        BridgeKeeps, CompletePcs
    <3> QED
      BY <1>0, <2>2, <2>3, <2>4, <3>1, PaidKept DEF Moved
  <2>6. ASSUME Alone PROVE Single'
    <3>1. Single /\ OrderOnce(o) /\ TaskOnce(t)
      BY <1>0, <2>6 DEF DepositInv, Single
    <3>2. Owns(t, o) /\ Elsewhere(o)
      BY <1>0, <1>8 DEF Void, Elsewhere, TypeOK, Leave, At, Owns
    <3>3. OrderOnce(o)' /\ TaskOnce(t)'
      BY <1>0, <1>8, <2>1, <2>2, <3>1 DEF Void, At, OrderOnce, TaskOnce, TypeOK,
        Kinds, Leave, Moved, Kept
    <3> QED
      BY <1>0, <2>2, <2>3, <2>4, <2>6, <3>1, <3>2, <3>3, SingleKept DEF Moved,
        Kept
  <2> QED
    BY <2>3, <2>5, <2>6 DEF DepositInv
<1> QED
  BY <1>1, <1>2, <1>3, <1>4, <1>5, <1>6, <1>7, <1>8 DEF CloseStep

\* The webhooks.
LEMMA WebhookStepInv ==
  ASSUME DepositInv, NEW t \in Tasks, WebhookStep(t)
  PROVE  DepositInv'
<1> USE DEF LegPcs, SendPcs, StaffPcs, ExpiryPcs, WritePcs, CreditingPcs, Ended,
        orderVars, moneyVars
<1>0. PICK o \in Orders :
        /\ task[t].o = o /\ task[t].pc \in Pcs /\ task[t].seen \in Statuses
        /\ task[t].by \in {"none", "client", "staff", "system"}
        /\ TypeOK /\ Paid
  BY TaskFields DEF DepositInv
<1>1. CASE CompleteLookup(t)
  <2>1. PICK pc \in {"cMark", "idle"} : Goto(t, pc)
    BY <1>0, <1>1, AllPcs DEF CompleteLookup, Goto
  <2>2. Moved(t, pc) /\ (pc # "idle" => Kept(t)) /\ pc \in Pcs
    BY <1>0, <2>1, AllPcs, GotoType DEF Pcs, ClosePcs, CompletePcs, FailedPcs
  <2>3. TypeOK'
    BY <1>0, <1>1, <2>2 DEF CompleteLookup, TypeOK, Moved, Statuses
  <2>4. BridgeKeeps /\ InboxShrinks /\ NoNewCredit
    BY <1>0, <1>1 DEF CompleteLookup, InboxShrinks, NoNewCredit, BridgeKeeps,
      TypeOK
  <2>5. Paid'
    <3>1. TaskPaid(t)'
      BY <1>0, <1>1, <2>1, <2>2, <2>4 DEF CompleteLookup, At, Moved, Kept, Paid,
        TaskPaid, BridgeKeeps, CompletePcs
    <3> QED
      BY <1>0, <2>2, <2>3, <2>4, <3>1, PaidKept DEF Moved
  <2>6. ASSUME Alone PROVE Single'
    <3>1. Single /\ OrderOnce(o) /\ TaskOnce(t)
      BY <1>0, <2>6 DEF DepositInv, Single
    <3>2. Owns(t, o) /\ Elsewhere(o)
      BY <1>0, <1>1 DEF CompleteLookup, Elsewhere, TypeOK, At, Owns
    <3>3. OrderOnce(o)' /\ TaskOnce(t)'
      BY <1>0, <1>1, <2>1, <2>2, <3>1 DEF CompleteLookup, At, OrderOnce, TaskOnce,
        TypeOK, Kinds, Moved, Kept
    <3> QED
      BY <1>0, <2>2, <2>3, <2>4, <2>6, <3>1, <3>2, <3>3, SingleKept DEF Moved,
        Kept
  <2> QED
    BY <2>3, <2>5, <2>6 DEF DepositInv
<1>2. CASE CompleteMark(t)
  <2>1. PICK pc \in {"cSettle"} : Goto(t, pc)
    BY <1>0, <1>2, AllPcs DEF CompleteMark, Goto
  <2>2. Moved(t, pc) /\ (pc # "idle" => Kept(t)) /\ pc \in Pcs
    BY <1>0, <2>1, AllPcs, GotoType DEF Pcs, ClosePcs, CompletePcs, FailedPcs
  <2>3. TypeOK'
    BY <1>0, <1>2, <2>2 DEF CompleteMark, TypeOK, Moved, Statuses, Terminal, Write
  <2>4. BridgeKeeps /\ InboxShrinks /\ NoNewCredit
    BY <1>0, <1>2 DEF CompleteMark, InboxShrinks, NoNewCredit, BridgeKeeps, TypeOK
  <2>5. Paid'
    <3>1. TaskPaid(t)'
      BY <1>0, <1>2, <2>1, <2>2, <2>4 DEF CompleteMark, At, Moved, Kept, Paid,
        TaskPaid, BridgeKeeps, CompletePcs
    <3> QED
      BY <1>0, <2>2, <2>3, <2>4, <3>1, PaidKept DEF Moved
  <2>6. ASSUME Alone PROVE Single'
    <3>1. Single /\ OrderOnce(o) /\ TaskOnce(t)
      BY <1>0, <2>6 DEF DepositInv, Single
    <3>2. Owns(t, o) /\ Elsewhere(o)
      BY <1>0, <1>2 DEF CompleteMark, Elsewhere, TypeOK, Write, At, Owns
    <3>3. OrderOnce(o)' /\ TaskOnce(t)'
      BY <1>0, <1>2, <2>1, <2>2, <3>1 DEF CompleteMark, At, OrderOnce, TaskOnce,
        TypeOK, Kinds, Write, Moved, Kept
    <3> QED
      BY <1>0, <2>2, <2>3, <2>4, <2>6, <3>1, <3>2, <3>3, SingleKept DEF Moved,
        Kept
  <2> QED
    BY <2>3, <2>5, <2>6 DEF DepositInv
<1>3. CASE CompleteSettle(t)
  <2>1. PICK pc \in {"cCount", "idle"} :
          Goto(t, pc) /\ (pc = "cCount" => credit[task[t].o] # "pending")
    BY <1>0, <1>3, AllPcs DEF CompleteSettle, Goto
  <2>2. Moved(t, pc) /\ (pc # "idle" => Kept(t)) /\ pc \in Pcs
    BY <1>0, <2>1, AllPcs, GotoType DEF Pcs, ClosePcs, CompletePcs, FailedPcs
  <2>3. TypeOK'
    BY <1>0, <1>3, <2>2 DEF CompleteSettle, TypeOK, Moved, Statuses, Leave,
      EntryStates
  <2>4. BridgeKeeps /\ InboxShrinks /\ NoNewCredit
    BY <1>0, <1>3 DEF CompleteSettle, InboxShrinks, NoNewCredit, BridgeKeeps,
      Leave, Paid, TaskPaid, At, CompletePcs, TypeOK
  <2>5. Paid'
    <3>1. TaskPaid(t)'
      BY <1>0, <1>3, <2>1, <2>2, <2>4 DEF CompleteSettle, At, Moved, Kept, Paid,
        TaskPaid, BridgeKeeps, CompletePcs
    <3> QED
      BY <1>0, <2>2, <2>3, <2>4, <3>1, PaidKept DEF Moved
  <2>6. ASSUME Alone PROVE Single'
    <3>1. Single /\ OrderOnce(o) /\ TaskOnce(t)
      BY <1>0, <2>6 DEF DepositInv, Single
    <3>2. Owns(t, o) /\ Elsewhere(o)
      BY <1>0, <1>3 DEF CompleteSettle, Elsewhere, TypeOK, Leave, At, Owns
    <3>3. OrderOnce(o)' /\ TaskOnce(t)'
      BY <1>0, <1>3, <2>1, <2>2, <3>1 DEF CompleteSettle, At, OrderOnce, TaskOnce,
        TypeOK, Kinds, Leave, Moved, Kept
    <3> QED
      BY <1>0, <2>2, <2>3, <2>4, <2>6, <3>1, <3>2, <3>3, SingleKept DEF Moved,
        Kept
  <2> QED
    BY <2>3, <2>5, <2>6 DEF DepositInv
<1>4. CASE CompleteCount(t)
  <2>1. PICK pc \in {"idle", "cInsert"} :
          Goto(t, pc) /\ (pc = "cInsert" => Credits(task[t].o) = 0)
    BY <1>0, <1>4, AllPcs DEF CompleteCount, Goto, Credits, TypeOK
  <2>2. Moved(t, pc) /\ (pc # "idle" => Kept(t)) /\ pc \in Pcs
    BY <1>0, <2>1, AllPcs, GotoType DEF Pcs, ClosePcs, CompletePcs, FailedPcs
  <2>3. TypeOK'
    BY <1>0, <1>4, <2>2 DEF CompleteCount, TypeOK, Moved, Statuses
  <2>4. BridgeKeeps /\ InboxShrinks /\ NoNewCredit
    BY <1>0, <1>4 DEF CompleteCount, InboxShrinks, NoNewCredit, BridgeKeeps,
      TypeOK
  <2>5. Paid'
    <3>1. TaskPaid(t)'
      BY <1>0, <1>4, <2>1, <2>2, <2>4 DEF CompleteCount, At, Moved, Kept, Paid,
        TaskPaid, BridgeKeeps, CompletePcs
    <3> QED
      BY <1>0, <2>2, <2>3, <2>4, <3>1, PaidKept DEF Moved
  <2>6. ASSUME Alone PROVE Single'
    <3>1. Single /\ OrderOnce(o) /\ TaskOnce(t)
      BY <1>0, <2>6 DEF DepositInv, Single
    <3>2. Owns(t, o) /\ Elsewhere(o)
      BY <1>0, <1>4 DEF CompleteCount, Elsewhere, TypeOK, At, Owns
    <3>3. OrderOnce(o)' /\ TaskOnce(t)'
      BY <1>0, <1>4, <2>1, <2>2, <3>1 DEF CompleteCount, At, OrderOnce, TaskOnce,
        TypeOK, Kinds, Moved, Kept, Credits
    <3> QED
      BY <1>0, <2>2, <2>3, <2>4, <2>6, <3>1, <3>2, <3>3, SingleKept DEF Moved,
        Kept
  <2> QED
    BY <2>3, <2>5, <2>6 DEF DepositInv
<1>5. CASE CompleteInsert(t)
  <2>1. PICK pc \in {"idle"} : Goto(t, pc)
    BY <1>0, <1>5, AllPcs DEF CompleteInsert, Goto
  <2>2. Moved(t, pc) /\ (pc # "idle" => Kept(t)) /\ pc \in Pcs
    BY <1>0, <2>1, AllPcs, GotoType DEF Pcs, ClosePcs, CompletePcs, FailedPcs
  <2>3. TypeOK'
    BY <1>0, <1>5, <2>2 DEF CompleteInsert, TypeOK, Moved, Statuses
  <2>4. BridgeKeeps /\ InboxShrinks /\ NoNewCredit
    BY <1>0, <1>5 DEF CompleteInsert, InboxShrinks, NoNewCredit, BridgeKeeps,
      Paid, TaskPaid, At, CompletePcs, TypeOK
  <2>5. Paid'
    <3>1. TaskPaid(t)'
      BY <1>0, <1>5, <2>1, <2>2, <2>4 DEF CompleteInsert, At, Moved, Kept, Paid,
        TaskPaid, BridgeKeeps, CompletePcs
    <3> QED
      BY <1>0, <2>2, <2>3, <2>4, <3>1, PaidKept DEF Moved
  <2>6. ASSUME Alone PROVE Single'
    <3>1. Single /\ OrderOnce(o) /\ TaskOnce(t)
      BY <1>0, <2>6 DEF DepositInv, Single
    <3>2. Owns(t, o) /\ Elsewhere(o)
      BY <1>0, <1>5 DEF CompleteInsert, Elsewhere, TypeOK, At, Owns
    <3>3. OrderOnce(o)' /\ TaskOnce(t)'
      BY <1>0, <1>5, <2>1, <2>2, <3>1 DEF CompleteInsert, At, OrderOnce, TaskOnce,
        TypeOK, Kinds, Moved, Kept
    <3> QED
      BY <1>0, <2>2, <2>3, <2>4, <2>6, <3>1, <3>2, <3>3, SingleKept DEF Moved,
        Kept
  <2> QED
    BY <2>3, <2>5, <2>6 DEF DepositInv
<1>6. CASE FailedMark(t)
  <2>1. PICK pc \in {"fLookup"} : Goto(t, pc)
    BY <1>0, <1>6, AllPcs DEF FailedMark, Goto
  <2>2. Moved(t, pc) /\ (pc # "idle" => Kept(t)) /\ pc \in Pcs
    BY <1>0, <2>1, AllPcs, GotoType DEF Pcs, ClosePcs, CompletePcs, FailedPcs
  <2>3. TypeOK'
    BY <1>0, <1>6, <2>2 DEF FailedMark, TypeOK, Moved, Statuses, SetRow, RowStates
  <2>4. BridgeKeeps /\ InboxShrinks /\ NoNewCredit
    BY <1>0, <1>6 DEF FailedMark, InboxShrinks, NoNewCredit, BridgeKeeps, TypeOK
  <2>5. Paid'
    <3>1. TaskPaid(t)'
      BY <1>0, <1>6, <2>1, <2>2, <2>4 DEF FailedMark, At, Moved, Kept, Paid,
        TaskPaid, BridgeKeeps, CompletePcs
    <3> QED
      BY <1>0, <2>2, <2>3, <2>4, <3>1, PaidKept DEF Moved
  <2>6. ASSUME Alone PROVE Single'
    <3>1. Single /\ OrderOnce(o) /\ TaskOnce(t)
      BY <1>0, <2>6 DEF DepositInv, Single
    <3>2. Owns(t, o) /\ Elsewhere(o)
      BY <1>0, <1>6 DEF FailedMark, Elsewhere, TypeOK, At, Owns
    <3>3. OrderOnce(o)' /\ TaskOnce(t)'
      BY <1>0, <1>6, <2>1, <2>2, <3>1 DEF FailedMark, At, OrderOnce, TaskOnce,
        TypeOK, Kinds, Moved, Kept
    <3> QED
      BY <1>0, <2>2, <2>3, <2>4, <2>6, <3>1, <3>2, <3>3, SingleKept DEF Moved,
        Kept
  <2> QED
    BY <2>3, <2>5, <2>6 DEF DepositInv
<1>7. CASE FailedLookup(t)
  <2>1. PICK pc \in {"fOrder", "idle"} :
          Goto(t, pc) /\ (pc = "fOrder" => status[task[t].o] \in Failable)
    BY <1>0, <1>7, AllPcs DEF FailedLookup, Goto
  <2>2. Moved(t, pc) /\ (pc # "idle" => Kept(t)) /\ pc \in Pcs
    BY <1>0, <2>1, AllPcs, GotoType DEF Pcs, ClosePcs, CompletePcs, FailedPcs
  <2>3. TypeOK'
    BY <1>0, <1>7, <2>2 DEF FailedLookup, TypeOK, Moved, Statuses
  <2>4. BridgeKeeps /\ InboxShrinks /\ NoNewCredit
    BY <1>0, <1>7 DEF FailedLookup, InboxShrinks, NoNewCredit, BridgeKeeps, TypeOK
  <2>5. Paid'
    <3>1. TaskPaid(t)'
      BY <1>0, <1>7, <2>1, <2>2, <2>4 DEF FailedLookup, At, Moved, Kept, Paid,
        TaskPaid, BridgeKeeps, CompletePcs
    <3> QED
      BY <1>0, <2>2, <2>3, <2>4, <3>1, PaidKept DEF Moved
  <2>6. ASSUME Alone PROVE Single'
    <3>1. Single /\ OrderOnce(o) /\ TaskOnce(t)
      BY <1>0, <2>6 DEF DepositInv, Single
    <3>2. Owns(t, o) /\ Elsewhere(o)
      BY <1>0, <1>7 DEF FailedLookup, Elsewhere, TypeOK, At, Owns
    <3>3. OrderOnce(o)' /\ TaskOnce(t)'
      BY <1>0, <1>7, <2>1, <2>2, <3>1 DEF FailedLookup, At, OrderOnce, TaskOnce,
        TypeOK, Kinds, Failable, Moved, Kept
    <3> QED
      BY <1>0, <2>2, <2>3, <2>4, <2>6, <3>1, <3>2, <3>3, SingleKept DEF Moved,
        Kept
  <2> QED
    BY <2>3, <2>5, <2>6 DEF DepositInv
<1>8. CASE FailedOrder(t)
  <2>1. PICK pc \in {"fVoid"} : Goto(t, pc)
    BY <1>0, <1>8, AllPcs DEF FailedOrder, Goto
  <2>2. Moved(t, pc) /\ (pc # "idle" => Kept(t)) /\ pc \in Pcs
    BY <1>0, <2>1, AllPcs, GotoType DEF Pcs, ClosePcs, CompletePcs, FailedPcs
  <2>3. TypeOK'
    BY <1>0, <1>8, <2>2 DEF FailedOrder, TypeOK, Moved, Statuses, Terminal, Write
  <2>4. BridgeKeeps /\ InboxShrinks /\ NoNewCredit
    BY <1>0, <1>8 DEF FailedOrder, InboxShrinks, NoNewCredit, BridgeKeeps, TypeOK
  <2>5. Paid'
    <3>1. TaskPaid(t)'
      BY <1>0, <1>8, <2>1, <2>2, <2>4 DEF FailedOrder, At, Moved, Kept, Paid,
        TaskPaid, BridgeKeeps, CompletePcs
    <3> QED
      BY <1>0, <2>2, <2>3, <2>4, <3>1, PaidKept DEF Moved
  <2>6. ASSUME Alone PROVE Single'
    <3>1. Single /\ OrderOnce(o) /\ TaskOnce(t)
      BY <1>0, <2>6 DEF DepositInv, Single
    <3>2. Owns(t, o) /\ Elsewhere(o)
      BY <1>0, <1>8 DEF FailedOrder, Elsewhere, TypeOK, Write, At, Owns
    <3>3. OrderOnce(o)' /\ TaskOnce(t)'
      BY <1>0, <1>8, <2>1, <2>2, <3>1 DEF FailedOrder, At, OrderOnce, TaskOnce,
        TypeOK, Kinds, Write, Failable, Moved, Kept
    <3> QED
      BY <1>0, <2>2, <2>3, <2>4, <2>6, <3>1, <3>2, <3>3, SingleKept DEF Moved,
        Kept
  <2> QED
    BY <2>3, <2>5, <2>6 DEF DepositInv
<1>9. CASE FailedVoid(t)
  <2>1. PICK pc \in {"idle"} : Goto(t, pc)
    BY <1>0, <1>9, AllPcs DEF FailedVoid, Goto
  <2>2. Moved(t, pc) /\ (pc # "idle" => Kept(t)) /\ pc \in Pcs
    BY <1>0, <2>1, AllPcs, GotoType DEF Pcs, ClosePcs, CompletePcs, FailedPcs
  <2>3. TypeOK'
    BY <1>0, <1>9, <2>2 DEF FailedVoid, TypeOK, Moved, Statuses, Leave,
      EntryStates
  <2>4. BridgeKeeps /\ InboxShrinks /\ NoNewCredit
    BY <1>0, <1>9 DEF FailedVoid, InboxShrinks, NoNewCredit, BridgeKeeps, Leave,
      TypeOK
  <2>5. Paid'
    <3>1. TaskPaid(t)'
      BY <1>0, <1>9, <2>1, <2>2, <2>4 DEF FailedVoid, At, Moved, Kept, Paid,
        TaskPaid, BridgeKeeps, CompletePcs
    <3> QED
      BY <1>0, <2>2, <2>3, <2>4, <3>1, PaidKept DEF Moved
  <2>6. ASSUME Alone PROVE Single'
    <3>1. Single /\ OrderOnce(o) /\ TaskOnce(t)
      BY <1>0, <2>6 DEF DepositInv, Single
    <3>2. Owns(t, o) /\ Elsewhere(o)
      BY <1>0, <1>9 DEF FailedVoid, Elsewhere, TypeOK, Leave, At, Owns
    <3>3. OrderOnce(o)' /\ TaskOnce(t)'
      BY <1>0, <1>9, <2>1, <2>2, <3>1 DEF FailedVoid, At, OrderOnce, TaskOnce,
        TypeOK, Kinds, Leave, Moved, Kept
    <3> QED
      BY <1>0, <2>2, <2>3, <2>4, <2>6, <3>1, <3>2, <3>3, SingleKept DEF Moved,
        Kept
  <2> QED
    BY <2>3, <2>5, <2>6 DEF DepositInv
<1>10. CASE RefundedRead(t)
  <2>1. PICK pc \in {"rMark", "idle"} : Goto(t, pc)
    BY <1>0, <1>10, AllPcs DEF RefundedRead, Goto
  <2>2. Moved(t, pc) /\ (pc # "idle" => Kept(t)) /\ pc \in Pcs
    BY <1>0, <2>1, AllPcs, GotoType DEF Pcs, ClosePcs, CompletePcs, FailedPcs
  <2>3. TypeOK'
    BY <1>0, <1>10, <2>2 DEF RefundedRead, TypeOK, Moved, Statuses
  <2>4. BridgeKeeps /\ InboxShrinks /\ NoNewCredit
    BY <1>0, <1>10 DEF RefundedRead, InboxShrinks, NoNewCredit, BridgeKeeps,
      TypeOK
  <2>5. Paid'
    <3>1. TaskPaid(t)'
      BY <1>0, <1>10, <2>1, <2>2, <2>4 DEF RefundedRead, At, Moved, Kept, Paid,
        TaskPaid, BridgeKeeps, CompletePcs
    <3> QED
      BY <1>0, <2>2, <2>3, <2>4, <3>1, PaidKept DEF Moved
  <2>6. ASSUME Alone PROVE Single'
    <3>1. Single /\ OrderOnce(o) /\ TaskOnce(t)
      BY <1>0, <2>6 DEF DepositInv, Single
    <3>2. Owns(t, o) /\ Elsewhere(o)
      BY <1>0, <1>10 DEF RefundedRead, Elsewhere, TypeOK, At, Owns
    <3>3. OrderOnce(o)' /\ TaskOnce(t)'
      BY <1>0, <1>10, <2>1, <2>2, <3>1 DEF RefundedRead, At, OrderOnce, TaskOnce,
        TypeOK, Kinds, Moved, Kept
    <3> QED
      BY <1>0, <2>2, <2>3, <2>4, <2>6, <3>1, <3>2, <3>3, SingleKept DEF Moved,
        Kept
  <2> QED
    BY <2>3, <2>5, <2>6 DEF DepositInv
<1>11. CASE RefundedMark(t)
  <2>1. PICK pc \in {"idle"} : Goto(t, pc)
    BY <1>0, <1>11, AllPcs DEF RefundedMark, Goto
  <2>2. Moved(t, pc) /\ (pc # "idle" => Kept(t)) /\ pc \in Pcs
    BY <1>0, <2>1, AllPcs, GotoType DEF Pcs, ClosePcs, CompletePcs, FailedPcs
  <2>3. TypeOK'
    BY <1>0, <1>11, <2>2 DEF RefundedMark, TypeOK, Moved, Statuses, Terminal,
      Write
  <2>4. BridgeKeeps /\ InboxShrinks /\ NoNewCredit
    BY <1>0, <1>11 DEF RefundedMark, InboxShrinks, NoNewCredit, BridgeKeeps,
      TypeOK
  <2>5. Paid'
    <3>1. TaskPaid(t)'
      BY <1>0, <1>11, <2>1, <2>2, <2>4 DEF RefundedMark, At, Moved, Kept, Paid,
        TaskPaid, BridgeKeeps, CompletePcs
    <3> QED
      BY <1>0, <2>2, <2>3, <2>4, <3>1, PaidKept DEF Moved
  <2>6. ASSUME Alone PROVE Single'
    <3>1. Single /\ OrderOnce(o) /\ TaskOnce(t)
      BY <1>0, <2>6 DEF DepositInv, Single
    <3>2. Owns(t, o) /\ Elsewhere(o)
      BY <1>0, <1>11 DEF RefundedMark, Elsewhere, TypeOK, Write, At, Owns
    <3>3. OrderOnce(o)' /\ TaskOnce(t)'
      BY <1>0, <1>11, <2>1, <2>2, <3>1 DEF RefundedMark, At, OrderOnce, TaskOnce,
        TypeOK, Kinds, Write, Moved, Kept
    <3> QED
      BY <1>0, <2>2, <2>3, <2>4, <2>6, <3>1, <3>2, <3>3, SingleKept DEF Moved,
        Kept
  <2> QED
    BY <2>3, <2>5, <2>6 DEF DepositInv
<1> QED
  BY <1>1, <1>2, <1>3, <1>4, <1>5, <1>6, <1>7, <1>8, <1>9, <1>10, <1>11 DEF
    WebhookStep

\* The requests, the cron and the webhooks that begin.
Starts(t, o) ==
  ClientStarts(t, o) \/ StaffStarts(t, o) \/ WebhookStarts(t, o) \/ Expire(t, o)
LEMMA StartsInv ==
  ASSUME DepositInv, NEW t \in Tasks, NEW o \in Orders, Starts(t, o)
  PROVE  DepositInv'
<1> USE DEF LegPcs, SendPcs, StaffPcs, ExpiryPcs, WritePcs, CreditingPcs, Ended,
        orderVars, moneyVars
<1>0. /\ TypeOK /\ Paid /\ status[o] \in Statuses
      /\ task \in [Tasks -> Task]
  BY DEF DepositInv, TypeOK
<1>1. ASSUME NEW f \in Flows, NEW skip \in BOOLEAN, Create(t, o, f, skip)
      PROVE  DepositInv'
  <2>1. InboxShrinks /\ inbox' \in [Orders \X Kinds -> Nat]
    BY <1>0, <1>1 DEF Create, InboxShrinks, TypeOK
  <2>2. PICK pc \in {"post", "insert"} : Start(t, Job(pc, o, "absent", "client", skip))
    BY <1>1 DEF Create
  <2>3. task' \in [Tasks -> Task] /\ (\A u \in Tasks : u # t => task'[u] = task[u])
        /\ task'[t].pc = pc /\ task'[t].o = o /\ task'[t].by = "client"
    BY <1>0, <2>2, AllPcs DEF Start, Job, Task, TypeOK, Pcs, Statuses
  <2>4. TypeOK'
    BY <1>0, <1>1, <2>1, <2>3, FlowsAssumption DEF Create, TypeOK, Moved
  <2>5. BridgeKeeps /\ NoNewCredit
    BY <1>0, <1>1 DEF Create, BridgeKeeps, NoNewCredit, TypeOK
  <2>6. Paid'
    <3>1. TaskPaid(t)'
      BY <1>0, <1>1, <2>1, <2>3, <2>5 DEF Create, Moved, Began, Paid, TaskPaid,
        BridgeKeeps, CompletePcs, Free, At
    <3> QED
      BY <1>0, <1>1, <2>1, <2>3, <2>4, <2>5, <3>1, PaidKept DEF Create, Moved
  <2>7. ASSUME Alone PROVE Single'
    <3>1. Single /\ OrderOnce(o) /\ TaskOnce(t)
      BY <2>7 DEF DepositInv, Single
    <3>2. Owns(t, o) /\ Elsewhere(o)
      BY <1>0, <1>1 DEF Create, Elsewhere, TypeOK, Begin, BeginBy, Owns
    <3>3. OrderOnce(o)' /\ TaskOnce(t)'
      BY <1>0, <1>1, <2>1, <2>3, <2>4, <3>1, FlowsAssumption DEF Create,
        OrderOnce, TaskOnce, Free, At, Begin, BeginBy, TypeOK, Kinds, Moved,
        Began, AllFlows, PsavFlows, CryptoIn, OnRamp, Instructed, InboxShrinks
    <3>4. /\ \A u \in Tasks : u # t => task'[u] = task[u]
          /\ task'[t].pc # "idle" => task'[t].o = o
      BY <1>1, <2>3 DEF Create, Moved, Began, Free, At
    <3> QED
      BY <1>0, <2>1, <2>4, <2>7, <3>1, <3>2, <3>3, <3>4, SingleKept
  <2> QED
    BY <2>4, <2>6, <2>7 DEF DepositInv
<1>2. CASE ConfirmRead(t, o)
  <2>1. InboxShrinks /\ inbox' \in [Orders \X Kinds -> Nat]
    BY <1>0, <1>2 DEF ConfirmRead, InboxShrinks, TypeOK
  <2>2. PICK pc \in {"confirm"} :
          Start(t, Job(pc, o, status[o], "none", FALSE))
    BY <1>2 DEF ConfirmRead, Begin, BeginBy, FirstLegPc
  <2>3. (Moved(t, pc) /\ Began(t, o, "none"))
    BY <1>0, <2>2, AllPcs, BeginType DEF Pcs, ClosePcs, CompletePcs, FailedPcs
  <2>4. TypeOK'
    BY <1>0, <1>2, <2>1, <2>3 DEF ConfirmRead, TypeOK, Moved
  <2>5. BridgeKeeps /\ NoNewCredit
    BY <1>0, <1>2 DEF ConfirmRead, BridgeKeeps, NoNewCredit, TypeOK
  <2>6. Paid'
    <3>1. TaskPaid(t)'
      BY <1>0, <1>2, <2>1, <2>3, <2>5 DEF ConfirmRead, Moved, Began, Paid,
        TaskPaid, BridgeKeeps, CompletePcs, Free, At
    <3> QED
      BY <1>0, <1>2, <2>1, <2>3, <2>4, <2>5, <3>1, PaidKept DEF ConfirmRead, Moved
  <2>7. ASSUME Alone PROVE Single'
    <3>1. Single /\ OrderOnce(o) /\ TaskOnce(t)
      BY <2>7 DEF DepositInv, Single
    <3>2. Owns(t, o) /\ Elsewhere(o)
      BY <1>0, <1>2 DEF ConfirmRead, Elsewhere, TypeOK, Begin, BeginBy, Owns
    <3>3. OrderOnce(o)' /\ TaskOnce(t)'
      BY <1>0, <1>2, <2>1, <2>3, <2>4, <3>1 DEF ConfirmRead, OrderOnce, TaskOnce,
        Free, At, Begin, BeginBy, TypeOK, Kinds, Moved, Began, InboxShrinks
    <3>4. /\ \A u \in Tasks : u # t => task'[u] = task[u]
          /\ task'[t].pc # "idle" => task'[t].o = o
      BY <1>2, <2>3 DEF ConfirmRead, Moved, Began, Free, At
    <3> QED
      BY <1>0, <2>1, <2>4, <2>7, <3>1, <3>2, <3>3, <3>4, SingleKept
  <2> QED
    BY <2>4, <2>6, <2>7 DEF DepositInv
<1>3. CASE ClientCancel(t, o)
  <2>1. InboxShrinks /\ inbox' \in [Orders \X Kinds -> Nat]
    BY <1>0, <1>3 DEF ClientCancel, InboxShrinks, TypeOK
  <2>2. PICK pc \in {"delete", "close"} :
          Start(t, Job(pc, o, status[o], "client", FALSE))
    BY <1>3 DEF ClientCancel, Begin, BeginBy, FirstLegPc
  <2>3. (Moved(t, pc) /\ Began(t, o, "client"))
    BY <1>0, <2>2, AllPcs, BeginType DEF Pcs, ClosePcs, CompletePcs, FailedPcs
  <2>4. TypeOK'
    BY <1>0, <1>3, <2>1, <2>3 DEF ClientCancel, TypeOK, Moved
  <2>5. BridgeKeeps /\ NoNewCredit
    BY <1>0, <1>3 DEF ClientCancel, BridgeKeeps, NoNewCredit, TypeOK
  <2>6. Paid'
    <3>1. TaskPaid(t)'
      BY <1>0, <1>3, <2>1, <2>3, <2>5 DEF ClientCancel, Moved, Began, Paid,
        TaskPaid, BridgeKeeps, CompletePcs, Free, At
    <3> QED
      BY <1>0, <1>3, <2>1, <2>3, <2>4, <2>5, <3>1, PaidKept DEF ClientCancel,
        Moved
  <2>7. ASSUME Alone PROVE Single'
    <3>1. Single /\ OrderOnce(o) /\ TaskOnce(t)
      BY <2>7 DEF DepositInv, Single
    <3>2. Owns(t, o) /\ Elsewhere(o)
      BY <1>0, <1>3 DEF ClientCancel, Elsewhere, TypeOK, Begin, BeginBy, Owns
    <3>3. OrderOnce(o)' /\ TaskOnce(t)'
      BY <1>0, <1>3, <2>1, <2>3, <2>4, <3>1 DEF ClientCancel, OrderOnce, TaskOnce,
        Free, At, Begin, BeginBy, TypeOK, Kinds, Moved, Began, ClientCancellable,
        InboxShrinks
    <3>4. /\ \A u \in Tasks : u # t => task'[u] = task[u]
          /\ task'[t].pc # "idle" => task'[t].o = o
      BY <1>3, <2>3 DEF ClientCancel, Moved, Began, Free, At
    <3> QED
      BY <1>0, <2>1, <2>4, <2>7, <3>1, <3>2, <3>3, <3>4, SingleKept
  <2> QED
    BY <2>4, <2>6, <2>7 DEF DepositInv
<1>4. CASE ApproveReview(t, o)
  <2>1. InboxShrinks /\ inbox' \in [Orders \X Kinds -> Nat]
    BY <1>0, <1>4 DEF ApproveReview, InboxShrinks, TypeOK
  <2>2. PICK pc \in {"link", "post"} :
          Start(t, Job(pc, o, status[o], "none", FALSE))
    BY <1>4 DEF ApproveReview, Begin, BeginBy, FirstLegPc
  <2>3. (Moved(t, pc) /\ Began(t, o, "none"))
    BY <1>0, <2>2, AllPcs, BeginType DEF Pcs, ClosePcs, CompletePcs, FailedPcs
  <2>4. TypeOK'
    BY <1>0, <1>4, <2>1, <2>3 DEF ApproveReview, TypeOK, Moved, Write, Statuses
  <2>5. BridgeKeeps /\ NoNewCredit
    BY <1>0, <1>4 DEF ApproveReview, BridgeKeeps, NoNewCredit, TypeOK
  <2>6. Paid'
    <3>1. TaskPaid(t)'
      BY <1>0, <1>4, <2>1, <2>3, <2>5 DEF ApproveReview, Moved, Began, Paid,
        TaskPaid, BridgeKeeps, CompletePcs, Free, At
    <3> QED
      BY <1>0, <1>4, <2>1, <2>3, <2>4, <2>5, <3>1, PaidKept DEF ApproveReview,
        Moved
  <2>7. ASSUME Alone PROVE Single'
    <3>1. Single /\ OrderOnce(o) /\ TaskOnce(t)
      BY <2>7 DEF DepositInv, Single
    <3>2. Owns(t, o) /\ Elsewhere(o)
      BY <1>0, <1>4 DEF ApproveReview, Elsewhere, TypeOK, Write, Begin, BeginBy,
        Owns
    <3>3. OrderOnce(o)' /\ TaskOnce(t)'
      BY <1>0, <1>4, <2>1, <2>3, <2>4, <3>1 DEF ApproveReview, OrderOnce,
        TaskOnce, Free, At, Begin, BeginBy, TypeOK, Kinds, Moved, Began, Write,
        InboxShrinks
    <3>4. /\ \A u \in Tasks : u # t => task'[u] = task[u]
          /\ task'[t].pc # "idle" => task'[t].o = o
      BY <1>4, <2>3 DEF ApproveReview, Moved, Began, Free, At
    <3> QED
      BY <1>0, <2>1, <2>4, <2>7, <3>1, <3>2, <3>3, <3>4, SingleKept
  <2> QED
    BY <2>4, <2>6, <2>7 DEF DepositInv
<1>5. CASE RejectReview(t, o)
  <2>1. InboxShrinks /\ inbox' \in [Orders \X Kinds -> Nat]
    BY <1>0, <1>5 DEF RejectReview, InboxShrinks, TypeOK
  <2>4. TypeOK'
    BY <1>0, <1>5, <2>1 DEF RejectReview, TypeOK, Moved, Write, Statuses, Terminal
  <2>5. BridgeKeeps /\ NoNewCredit
    BY <1>0, <1>5 DEF RejectReview, BridgeKeeps, NoNewCredit, TypeOK
  <2>6. Paid'
    <3>1. TaskPaid(t)'
      BY <1>0, <1>5, <2>1, <2>5 DEF RejectReview, Moved, Began, Paid, TaskPaid,
        BridgeKeeps, CompletePcs, Free, At
    <3> QED
      BY <1>0, <1>5, <2>1, <2>4, <2>5, <3>1, PaidKept DEF RejectReview, Moved
  <2>7. ASSUME Alone PROVE Single'
    <3>1. Single /\ OrderOnce(o) /\ TaskOnce(t)
      BY <2>7 DEF DepositInv, Single
    <3>2. Owns(t, o) /\ Elsewhere(o)
      BY <1>0, <1>5 DEF RejectReview, Elsewhere, TypeOK, Write, Begin, BeginBy,
        Owns
    <3>3. OrderOnce(o)' /\ TaskOnce(t)'
      BY <1>0, <1>5, <2>1, <2>4, <3>1 DEF RejectReview, OrderOnce, TaskOnce, Free,
        At, Begin, BeginBy, TypeOK, Kinds, Moved, Began, Write, InboxShrinks
    <3>4. /\ \A u \in Tasks : u # t => task'[u] = task[u]
          /\ task'[t].pc # "idle" => task'[t].o = o
      BY <1>5 DEF RejectReview, Moved, Began, Free, At
    <3> QED
      BY <1>0, <2>1, <2>4, <2>7, <3>1, <3>2, <3>3, <3>4, SingleKept
  <2> QED
    BY <2>4, <2>6, <2>7 DEF DepositInv
<1>6. CASE ApproveDeposit(t, o)
  <2>1. InboxShrinks /\ inbox' \in [Orders \X Kinds -> Nat]
    BY <1>0, <1>6 DEF ApproveDeposit, InboxShrinks, TypeOK
  <2>2. PICK pc \in {"sendPost"} :
          Start(t, Job(pc, o, status[o], "none", FALSE)) \/ UNCHANGED task
    BY <1>6 DEF ApproveDeposit, Begin, BeginBy, FirstLegPc
  <2>3. UNCHANGED task \/ (Moved(t, pc) /\ Began(t, o, "none"))
    BY <1>0, <2>2, AllPcs, BeginType DEF Pcs, ClosePcs, CompletePcs, FailedPcs
  <2>4. TypeOK'
    BY <1>0, <1>6, <2>1, <2>3 DEF ApproveDeposit, TypeOK, Moved, Write, Statuses
  <2>5. BridgeKeeps /\ NoNewCredit
    BY <1>0, <1>6 DEF ApproveDeposit, BridgeKeeps, NoNewCredit, TypeOK
  <2>6. Paid'
    <3>1. TaskPaid(t)'
      BY <1>0, <1>6, <2>1, <2>3, <2>5 DEF ApproveDeposit, Moved, Began, Paid,
        TaskPaid, BridgeKeeps, CompletePcs, Free, At
    <3> QED
      BY <1>0, <1>6, <2>1, <2>3, <2>4, <2>5, <3>1, PaidKept DEF ApproveDeposit,
        Moved
  <2>7. ASSUME Alone PROVE Single'
    <3>1. Single /\ OrderOnce(o) /\ TaskOnce(t)
      BY <2>7 DEF DepositInv, Single
    <3>2. Owns(t, o) /\ Elsewhere(o)
      BY <1>0, <1>6 DEF ApproveDeposit, Elsewhere, TypeOK, Write, Begin, BeginBy,
        Owns
    <3>3. OrderOnce(o)' /\ TaskOnce(t)'
      BY <1>0, <1>6, <2>1, <2>3, <2>4, <3>1 DEF ApproveDeposit, OrderOnce,
        TaskOnce, Free, At, Begin, BeginBy, TypeOK, Kinds, Moved, Began, Write,
        InboxShrinks
    <3>4. /\ \A u \in Tasks : u # t => task'[u] = task[u]
          /\ task'[t].pc # "idle" => task'[t].o = o
      BY <1>6, <2>3 DEF ApproveDeposit, Moved, Began, Free, At, Begin
    <3> QED
      BY <1>0, <2>1, <2>4, <2>7, <3>1, <3>2, <3>3, <3>4, SingleKept
  <2> QED
    BY <2>4, <2>6, <2>7 DEF DepositInv
<1>7. CASE MarkSentRead(t, o)
  <2>1. InboxShrinks /\ inbox' \in [Orders \X Kinds -> Nat]
    BY <1>0, <1>7 DEF MarkSentRead, InboxShrinks, TypeOK
  <2>2. PICK pc \in {"sent"} :
          Start(t, Job(pc, o, status[o], "none", FALSE))
    BY <1>7 DEF MarkSentRead, Begin, BeginBy, FirstLegPc
  <2>3. (Moved(t, pc) /\ Began(t, o, "none"))
    BY <1>0, <2>2, AllPcs, BeginType DEF Pcs, ClosePcs, CompletePcs, FailedPcs
  <2>4. TypeOK'
    BY <1>0, <1>7, <2>1, <2>3 DEF MarkSentRead, TypeOK, Moved
  <2>5. BridgeKeeps /\ NoNewCredit
    BY <1>0, <1>7 DEF MarkSentRead, BridgeKeeps, NoNewCredit, TypeOK
  <2>6. Paid'
    <3>1. TaskPaid(t)'
      BY <1>0, <1>7, <2>1, <2>3, <2>5 DEF MarkSentRead, Moved, Began, Paid,
        TaskPaid, BridgeKeeps, CompletePcs, Free, At
    <3> QED
      BY <1>0, <1>7, <2>1, <2>3, <2>4, <2>5, <3>1, PaidKept DEF MarkSentRead,
        Moved
  <2>7. ASSUME Alone PROVE Single'
    <3>1. Single /\ OrderOnce(o) /\ TaskOnce(t)
      BY <2>7 DEF DepositInv, Single
    <3>2. Owns(t, o) /\ Elsewhere(o)
      BY <1>0, <1>7 DEF MarkSentRead, Elsewhere, TypeOK, Begin, BeginBy, Owns
    <3>3. OrderOnce(o)' /\ TaskOnce(t)'
      BY <1>0, <1>7, <2>1, <2>3, <2>4, <3>1 DEF MarkSentRead, OrderOnce, TaskOnce,
        Free, At, Begin, BeginBy, TypeOK, Kinds, Moved, Began, InboxShrinks
    <3>4. /\ \A u \in Tasks : u # t => task'[u] = task[u]
          /\ task'[t].pc # "idle" => task'[t].o = o
      BY <1>7, <2>3 DEF MarkSentRead, Moved, Began, Free, At
    <3> QED
      BY <1>0, <2>1, <2>4, <2>7, <3>1, <3>2, <3>3, <3>4, SingleKept
  <2> QED
    BY <2>4, <2>6, <2>7 DEF DepositInv
<1>8. CASE CompleteRead(t, o)
  <2>1. InboxShrinks /\ inbox' \in [Orders \X Kinds -> Nat]
    BY <1>0, <1>8 DEF CompleteRead, InboxShrinks, TypeOK
  <2>2. PICK pc \in {"complete"} :
          Start(t, Job(pc, o, status[o], "none", FALSE))
    BY <1>8 DEF CompleteRead, Begin, BeginBy, FirstLegPc
  <2>3. (Moved(t, pc) /\ Began(t, o, "none"))
    BY <1>0, <2>2, AllPcs, BeginType DEF Pcs, ClosePcs, CompletePcs, FailedPcs
  <2>4. TypeOK'
    BY <1>0, <1>8, <2>1, <2>3 DEF CompleteRead, TypeOK, Moved
  <2>5. BridgeKeeps /\ NoNewCredit
    BY <1>0, <1>8 DEF CompleteRead, BridgeKeeps, NoNewCredit, TypeOK
  <2>6. Paid'
    <3>1. TaskPaid(t)'
      BY <1>0, <1>8, <2>1, <2>3, <2>5 DEF CompleteRead, Moved, Began, Paid,
        TaskPaid, BridgeKeeps, CompletePcs, Free, At
    <3> QED
      BY <1>0, <1>8, <2>1, <2>3, <2>4, <2>5, <3>1, PaidKept DEF CompleteRead,
        Moved
  <2>7. ASSUME Alone PROVE Single'
    <3>1. Single /\ OrderOnce(o) /\ TaskOnce(t)
      BY <2>7 DEF DepositInv, Single
    <3>2. Owns(t, o) /\ Elsewhere(o)
      BY <1>0, <1>8 DEF CompleteRead, Elsewhere, TypeOK, Begin, BeginBy, Owns
    <3>3. OrderOnce(o)' /\ TaskOnce(t)'
      BY <1>0, <1>8, <2>1, <2>3, <2>4, <3>1 DEF CompleteRead, OrderOnce, TaskOnce,
        Free, At, Begin, BeginBy, TypeOK, Kinds, Moved, Began, InboxShrinks
    <3>4. /\ \A u \in Tasks : u # t => task'[u] = task[u]
          /\ task'[t].pc # "idle" => task'[t].o = o
      BY <1>8, <2>3 DEF CompleteRead, Moved, Began, Free, At
    <3> QED
      BY <1>0, <2>1, <2>4, <2>7, <3>1, <3>2, <3>3, <3>4, SingleKept
  <2> QED
    BY <2>4, <2>6, <2>7 DEF DepositInv
<1>9. CASE FailRead(t, o)
  <2>1. InboxShrinks /\ inbox' \in [Orders \X Kinds -> Nat]
    BY <1>0, <1>9 DEF FailRead, InboxShrinks, TypeOK
  <2>2. PICK pc \in {"fail"} :
          Start(t, Job(pc, o, status[o], "none", FALSE))
    BY <1>9 DEF FailRead, Begin, BeginBy, FirstLegPc
  <2>3. (Moved(t, pc) /\ Began(t, o, "none"))
    BY <1>0, <2>2, AllPcs, BeginType DEF Pcs, ClosePcs, CompletePcs, FailedPcs
  <2>4. TypeOK'
    BY <1>0, <1>9, <2>1, <2>3 DEF FailRead, TypeOK, Moved
  <2>5. BridgeKeeps /\ NoNewCredit
    BY <1>0, <1>9 DEF FailRead, BridgeKeeps, NoNewCredit, TypeOK
  <2>6. Paid'
    <3>1. TaskPaid(t)'
      BY <1>0, <1>9, <2>1, <2>3, <2>5 DEF FailRead, Moved, Began, Paid, TaskPaid,
        BridgeKeeps, CompletePcs, Free, At
    <3> QED
      BY <1>0, <1>9, <2>1, <2>3, <2>4, <2>5, <3>1, PaidKept DEF FailRead, Moved
  <2>7. ASSUME Alone PROVE Single'
    <3>1. Single /\ OrderOnce(o) /\ TaskOnce(t)
      BY <2>7 DEF DepositInv, Single
    <3>2. Owns(t, o) /\ Elsewhere(o)
      BY <1>0, <1>9 DEF FailRead, Elsewhere, TypeOK, Begin, BeginBy, Owns
    <3>3. OrderOnce(o)' /\ TaskOnce(t)'
      BY <1>0, <1>9, <2>1, <2>3, <2>4, <3>1 DEF FailRead, OrderOnce, TaskOnce,
        Free, At, Begin, BeginBy, TypeOK, Kinds, Moved, Began, Terminal,
        InboxShrinks
    <3>4. /\ \A u \in Tasks : u # t => task'[u] = task[u]
          /\ task'[t].pc # "idle" => task'[t].o = o
      BY <1>9, <2>3 DEF FailRead, Moved, Began, Free, At
    <3> QED
      BY <1>0, <2>1, <2>4, <2>7, <3>1, <3>2, <3>3, <3>4, SingleKept
  <2> QED
    BY <2>4, <2>6, <2>7 DEF DepositInv
<1>10. CASE StaffCancel(t, o)
  <2>1. InboxShrinks /\ inbox' \in [Orders \X Kinds -> Nat]
    BY <1>0, <1>10 DEF StaffCancel, InboxShrinks, TypeOK
  <2>2. PICK pc \in {"delete", "close"} :
          Start(t, Job(pc, o, status[o], "staff", FALSE))
    BY <1>10 DEF StaffCancel, Begin, BeginBy, FirstLegPc
  <2>3. (Moved(t, pc) /\ Began(t, o, "staff"))
    BY <1>0, <2>2, AllPcs, BeginType DEF Pcs, ClosePcs, CompletePcs, FailedPcs
  <2>4. TypeOK'
    BY <1>0, <1>10, <2>1, <2>3 DEF StaffCancel, TypeOK, Moved
  <2>5. BridgeKeeps /\ NoNewCredit
    BY <1>0, <1>10 DEF StaffCancel, BridgeKeeps, NoNewCredit, TypeOK
  <2>6. Paid'
    <3>1. TaskPaid(t)'
      BY <1>0, <1>10, <2>1, <2>3, <2>5 DEF StaffCancel, Moved, Began, Paid,
        TaskPaid, BridgeKeeps, CompletePcs, Free, At
    <3> QED
      BY <1>0, <1>10, <2>1, <2>3, <2>4, <2>5, <3>1, PaidKept DEF StaffCancel,
        Moved
  <2>7. ASSUME Alone PROVE Single'
    <3>1. Single /\ OrderOnce(o) /\ TaskOnce(t)
      BY <2>7 DEF DepositInv, Single
    <3>2. Owns(t, o) /\ Elsewhere(o)
      BY <1>0, <1>10 DEF StaffCancel, Elsewhere, TypeOK, Begin, BeginBy, Owns
    <3>3. OrderOnce(o)' /\ TaskOnce(t)'
      BY <1>0, <1>10, <2>1, <2>3, <2>4, <3>1 DEF StaffCancel, OrderOnce, TaskOnce,
        Free, At, Begin, BeginBy, TypeOK, Kinds, Moved, Began, StaffCancellable,
        InboxShrinks
    <3>4. /\ \A u \in Tasks : u # t => task'[u] = task[u]
          /\ task'[t].pc # "idle" => task'[t].o = o
      BY <1>10, <2>3 DEF StaffCancel, Moved, Began, Free, At
    <3> QED
      BY <1>0, <2>1, <2>4, <2>7, <3>1, <3>2, <3>3, <3>4, SingleKept
  <2> QED
    BY <2>4, <2>6, <2>7 DEF DepositInv
<1>11. CASE Expire(t, o)
  <2>1. InboxShrinks /\ inbox' \in [Orders \X Kinds -> Nat]
    BY <1>0, <1>11 DEF Expire, InboxShrinks, TypeOK
  <2>2. PICK pc \in {"delete", "close"} :
          Start(t, Job(pc, o, status[o], "system", FALSE))
    BY <1>11 DEF Expire, Begin, BeginBy, FirstLegPc
  <2>3. (Moved(t, pc) /\ Began(t, o, "system"))
    BY <1>0, <2>2, AllPcs, BeginType DEF Pcs, ClosePcs, CompletePcs, FailedPcs
  <2>4. TypeOK'
    BY <1>0, <1>11, <2>1, <2>3 DEF Expire, TypeOK, Moved
  <2>5. BridgeKeeps /\ NoNewCredit
    BY <1>0, <1>11 DEF Expire, BridgeKeeps, NoNewCredit, TypeOK
  <2>6. Paid'
    <3>1. TaskPaid(t)'
      BY <1>0, <1>11, <2>1, <2>3, <2>5 DEF Expire, Moved, Began, Paid, TaskPaid,
        BridgeKeeps, CompletePcs, Free, At
    <3> QED
      BY <1>0, <1>11, <2>1, <2>3, <2>4, <2>5, <3>1, PaidKept DEF Expire, Moved
  <2>7. ASSUME Alone PROVE Single'
    <3>1. Single /\ OrderOnce(o) /\ TaskOnce(t)
      BY <2>7 DEF DepositInv, Single
    <3>2. Owns(t, o) /\ Elsewhere(o)
      BY <1>0, <1>11 DEF Expire, Elsewhere, TypeOK, Begin, BeginBy, Owns
    <3>3. OrderOnce(o)' /\ TaskOnce(t)'
      BY <1>0, <1>11, <2>1, <2>3, <2>4, <3>1 DEF Expire, OrderOnce, TaskOnce,
        Free, At, Begin, BeginBy, TypeOK, Kinds, Moved, Began, InboxShrinks
    <3>4. /\ \A u \in Tasks : u # t => task'[u] = task[u]
          /\ task'[t].pc # "idle" => task'[t].o = o
      BY <1>11, <2>3 DEF Expire, Moved, Began, Free, At
    <3> QED
      BY <1>0, <2>1, <2>4, <2>7, <3>1, <3>2, <3>3, <3>4, SingleKept
  <2> QED
    BY <2>4, <2>6, <2>7 DEF DepositInv
<1>12. CASE Received(t, o)
  <2>1. InboxShrinks /\ inbox' \in [Orders \X Kinds -> Nat]
        /\ inbox[<<o, "received">>] > 0
    <3>1. "received" \in Kinds /\ Take(o, "received")
      BY <1>12 DEF Received, Kinds
    <3> QED
      BY <1>0, <3>1, TakeFacts DEF InboxShrinks
  <2>4. TypeOK'
    BY <1>0, <1>12, <2>1 DEF Received, TypeOK, Moved, Write, Statuses
  <2>5. BridgeKeeps /\ NoNewCredit
    BY <1>0, <1>12 DEF Received, BridgeKeeps, NoNewCredit, TypeOK
  <2>6. Paid'
    <3>1. TaskPaid(t)'
      BY <1>0, <1>12, <2>1, <2>5 DEF Received, Moved, Began, Paid, TaskPaid,
        BridgeKeeps, CompletePcs, Free, At
    <3> QED
      BY <1>0, <1>12, <2>1, <2>4, <2>5, <3>1, PaidKept DEF Received, Moved
  <2>7. ASSUME Alone PROVE Single'
    <3>1. Single /\ OrderOnce(o) /\ TaskOnce(t)
      BY <2>7 DEF DepositInv, Single
    <3>2. Owns(t, o) /\ Elsewhere(o)
      BY <1>0, <1>12 DEF Received, Elsewhere, TypeOK, Write, Begin, BeginBy, Owns
    <3>3. OrderOnce(o)' /\ TaskOnce(t)'
      BY <1>0, <1>12, <2>1, <2>4, <3>1 DEF Received, OrderOnce, TaskOnce, Free,
        At, Begin, BeginBy, TypeOK, Kinds, Moved, Began, Write, InboxShrinks
    <3>4. /\ \A u \in Tasks : u # t => task'[u] = task[u]
          /\ task'[t].pc # "idle" => task'[t].o = o
      BY <1>12 DEF Received, Moved, Began, Free, At
    <3> QED
      BY <1>0, <2>1, <2>4, <2>7, <3>1, <3>2, <3>3, <3>4, SingleKept
  <2> QED
    BY <2>4, <2>6, <2>7 DEF DepositInv
<1>13. CASE CompleteStart(t, o)
  <2>1. InboxShrinks /\ inbox' \in [Orders \X Kinds -> Nat]
        /\ inbox[<<o, "complete">>] > 0
    <3>1. "complete" \in Kinds /\ Take(o, "complete")
      BY <1>13 DEF CompleteStart, Kinds
    <3> QED
      BY <1>0, <3>1, TakeFacts DEF InboxShrinks
  <2>2. PICK pc \in {"cLookup"} :
          Start(t, Job(pc, o, status[o], "none", FALSE))
    BY <1>13 DEF CompleteStart, Begin, BeginBy, FirstLegPc
  <2>3. (Moved(t, pc) /\ Began(t, o, "none"))
    BY <1>0, <2>2, AllPcs, BeginType DEF Pcs, ClosePcs, CompletePcs, FailedPcs
  <2>4. TypeOK'
    BY <1>0, <1>13, <2>1, <2>3 DEF CompleteStart, TypeOK, Moved, SetRow, RowStates
  <2>5. BridgeKeeps /\ NoNewCredit
    BY <1>0, <1>13 DEF CompleteStart, BridgeKeeps, NoNewCredit, TypeOK
  <2>6. Paid'
    <3>1. TaskPaid(t)'
      BY <1>0, <1>13, <2>1, <2>3, <2>5 DEF CompleteStart, Moved, Began, Paid,
        TaskPaid, BridgeKeeps, CompletePcs, Free, At
    <3> QED
      BY <1>0, <1>13, <2>1, <2>3, <2>4, <2>5, <3>1, PaidKept DEF CompleteStart,
        Moved
  <2>7. ASSUME Alone PROVE Single'
    <3>1. Single /\ OrderOnce(o) /\ TaskOnce(t)
      BY <2>7 DEF DepositInv, Single
    <3>2. Owns(t, o) /\ Elsewhere(o)
      BY <1>0, <1>13 DEF CompleteStart, Elsewhere, TypeOK, Begin, BeginBy, Owns
    <3>3. OrderOnce(o)' /\ TaskOnce(t)'
      BY <1>0, <1>13, <2>1, <2>3, <2>4, <3>1 DEF CompleteStart, OrderOnce,
        TaskOnce, Free, At, Begin, BeginBy, TypeOK, Kinds, Moved, Began,
        InboxShrinks
    <3>4. /\ \A u \in Tasks : u # t => task'[u] = task[u]
          /\ task'[t].pc # "idle" => task'[t].o = o
      BY <1>13, <2>3 DEF CompleteStart, Moved, Began, Free, At
    <3> QED
      BY <1>0, <2>1, <2>4, <2>7, <3>1, <3>2, <3>3, <3>4, SingleKept
  <2> QED
    BY <2>4, <2>6, <2>7 DEF DepositInv
<1>14. CASE FailedStart(t, o)
  <2>1. InboxShrinks /\ inbox' \in [Orders \X Kinds -> Nat]
        /\ inbox[<<o, "failed">>] > 0
    <3>1. "failed" \in Kinds /\ Take(o, "failed")
      BY <1>14 DEF FailedStart, Kinds
    <3> QED
      BY <1>0, <3>1, TakeFacts DEF InboxShrinks
  <2>2. PICK pc \in {"fMark"} :
          Start(t, Job(pc, o, status[o], "none", FALSE)) \/ UNCHANGED task
    BY <1>14 DEF FailedStart, Begin, BeginBy, FirstLegPc
  <2>3. UNCHANGED task \/ (Moved(t, pc) /\ Began(t, o, "none"))
    BY <1>0, <2>2, AllPcs, BeginType DEF Pcs, ClosePcs, CompletePcs, FailedPcs
  <2>4. TypeOK'
    BY <1>0, <1>14, <2>1, <2>3 DEF FailedStart, TypeOK, Moved
  <2>5. BridgeKeeps /\ NoNewCredit
    BY <1>0, <1>14 DEF FailedStart, BridgeKeeps, NoNewCredit, TypeOK
  <2>6. Paid'
    <3>1. TaskPaid(t)'
      BY <1>0, <1>14, <2>1, <2>3, <2>5 DEF FailedStart, Moved, Began, Paid,
        TaskPaid, BridgeKeeps, CompletePcs, Free, At
    <3> QED
      BY <1>0, <1>14, <2>1, <2>3, <2>4, <2>5, <3>1, PaidKept DEF FailedStart,
        Moved
  <2>7. ASSUME Alone PROVE Single'
    <3>1. Single /\ OrderOnce(o) /\ TaskOnce(t)
      BY <2>7 DEF DepositInv, Single
    <3>2. Owns(t, o) /\ Elsewhere(o)
      BY <1>0, <1>14 DEF FailedStart, Elsewhere, TypeOK, Begin, BeginBy, Owns
    <3>3. OrderOnce(o)' /\ TaskOnce(t)'
      BY <1>0, <1>14, <2>1, <2>3, <2>4, <3>1 DEF FailedStart, OrderOnce, TaskOnce,
        Free, At, Begin, BeginBy, TypeOK, Kinds, Moved, Began, InboxShrinks
    <3>4. /\ \A u \in Tasks : u # t => task'[u] = task[u]
          /\ task'[t].pc # "idle" => task'[t].o = o
      BY <1>14, <2>3 DEF FailedStart, Moved, Began, Free, At, Begin
    <3> QED
      BY <1>0, <2>1, <2>4, <2>7, <3>1, <3>2, <3>3, <3>4, SingleKept
  <2> QED
    BY <2>4, <2>6, <2>7 DEF DepositInv
<1>15. CASE RefundedStart(t, o)
  <2>1. InboxShrinks /\ inbox' \in [Orders \X Kinds -> Nat]
        /\ inbox[<<o, "refunded">>] > 0
    <3>1. "refunded" \in Kinds /\ Take(o, "refunded")
      BY <1>15 DEF RefundedStart, Kinds
    <3> QED
      BY <1>0, <3>1, TakeFacts DEF InboxShrinks
  <2>2. PICK pc \in {"rRead"} :
          Start(t, Job(pc, o, status[o], "none", FALSE))
    BY <1>15 DEF RefundedStart, Begin, BeginBy, FirstLegPc
  <2>3. (Moved(t, pc) /\ Began(t, o, "none"))
    BY <1>0, <2>2, AllPcs, BeginType DEF Pcs, ClosePcs, CompletePcs, FailedPcs
  <2>4. TypeOK'
    BY <1>0, <1>15, <2>1, <2>3 DEF RefundedStart, TypeOK, Moved, SetRow, RowStates
  <2>5. BridgeKeeps /\ NoNewCredit
    BY <1>0, <1>15 DEF RefundedStart, BridgeKeeps, NoNewCredit, TypeOK
  <2>6. Paid'
    <3>1. TaskPaid(t)'
      BY <1>0, <1>15, <2>1, <2>3, <2>5 DEF RefundedStart, Moved, Began, Paid,
        TaskPaid, BridgeKeeps, CompletePcs, Free, At
    <3> QED
      BY <1>0, <1>15, <2>1, <2>3, <2>4, <2>5, <3>1, PaidKept DEF RefundedStart,
        Moved
  <2>7. ASSUME Alone PROVE Single'
    <3>1. Single /\ OrderOnce(o) /\ TaskOnce(t)
      BY <2>7 DEF DepositInv, Single
    <3>2. Owns(t, o) /\ Elsewhere(o)
      BY <1>0, <1>15 DEF RefundedStart, Elsewhere, TypeOK, Begin, BeginBy, Owns
    <3>3. OrderOnce(o)' /\ TaskOnce(t)'
      BY <1>0, <1>15, <2>1, <2>3, <2>4, <3>1 DEF RefundedStart, OrderOnce,
        TaskOnce, Free, At, Begin, BeginBy, TypeOK, Kinds, Moved, Began,
        InboxShrinks
    <3>4. /\ \A u \in Tasks : u # t => task'[u] = task[u]
          /\ task'[t].pc # "idle" => task'[t].o = o
      BY <1>15, <2>3 DEF RefundedStart, Moved, Began, Free, At
    <3> QED
      BY <1>0, <2>1, <2>4, <2>7, <3>1, <3>2, <3>3, <3>4, SingleKept
  <2> QED
    BY <2>4, <2>6, <2>7 DEF DepositInv
<1> QED
  BY <1>1, <1>2, <1>3, <1>4, <1>5, <1>6, <1>7, <1>8, <1>9, <1>10, <1>11, <1>12,
    <1>13, <1>14, <1>15 DEF Starts, ClientStarts, StaffStarts, WebhookStarts

(***************************************************************************)
(* The clock and Bridge.  They touch no task and no credit, and Bridge     *)
(* announces a completion only when it delivered.                          *)
(***************************************************************************)
LEMMA ClockInv ==
  ASSUME DepositInv, NEW o \in Orders, TimePasses(o)
  PROVE  DepositInv'
<1>1. TypeOK'
  BY DEF DepositInv, TimePasses, TypeOK, moneyVars
<1>2. Paid'
  BY DEF DepositInv, TimePasses, Paid, TaskPaid, CreditedIsPaid, Credits,
    moneyVars
<1>3. ASSUME Alone PROVE Single'
  BY <1>3 DEF DepositInv, TimePasses, Single, Apart, OrderOnce, TaskOnce,
    moneyVars
<1> QED
  BY <1>1, <1>2, <1>3 DEF DepositInv

LEMMA BridgeInv ==
  ASSUME DepositInv, NEW o \in Orders, NEW from \in SUBSET (BridgeStates \ {"none"}),
         NEW to \in BridgeStates \ {"none"}, NEW kind \in Kinds,
         BridgeMoves(o, from, to, kind),
         kind = "complete" \/ from \cap Delivered # {} => to \in Delivered
  PROVE  DepositInv'
<1>0. TypeOK /\ Paid /\ <<o, kind>> \in Orders \X Kinds /\ Deliveries[kind] \in Nat
  BY DeliveriesAssumption DEF DepositInv
<1>1. /\ bridge' = [bridge EXCEPT ![o] = to] /\ bridge[o] \in from
      /\ inbox' = [inbox EXCEPT ![<<o, kind>>] = Deliveries[kind]]
      /\ UNCHANGED <<flow, status, link, deadline, closer>>
      /\ UNCHANGED <<row, credit, extra, freed, flagged, task>>
  BY DEF BridgeMoves, orderVars, moneyVars
<1>2. TypeOK'
  BY <1>0, <1>1 DEF TypeOK
<1>3. /\ bridge'[o] = to /\ \A p \in Orders : p # o => bridge'[p] = bridge[p]
      /\ bridge[o] \in Delivered => to \in Delivered
  BY <1>0, <1>1 DEF TypeOK
<1>4. \A e \in Orders \X Kinds : e # <<o, kind>> => inbox'[e] = inbox[e]
  BY <1>0, <1>1 DEF TypeOK
<1>5. Paid'
  <2>1. BridgeKeeps
    BY <1>3 DEF BridgeKeeps
  <2>2. (CreditedIsPaid)'
    BY <1>0, <1>1, <2>1 DEF Paid, CreditedIsPaid, Credits, BridgeKeeps
  <2>3. \A p \in Orders : inbox'[<<p, "complete">>] > 0 => bridge'[p] \in Delivered
    <3> SUFFICES ASSUME NEW p \in Orders, inbox'[<<p, "complete">>] > 0
                 PROVE  bridge'[p] \in Delivered
      OBVIOUS
    <3>1. CASE p = o /\ kind = "complete"
      BY <1>3, <3>1
    <3>2. CASE <<p, "complete">> # <<o, kind>>
      <4>1. <<p, "complete">> \in Orders \X Kinds
        BY DEF Kinds
      <4>2. inbox[<<p, "complete">>] > 0
        BY <1>4, <3>2, <4>1
      <4> QED
        BY <1>0, <2>1, <4>2 DEF Paid, BridgeKeeps
    <3> QED
      BY <3>1, <3>2
  <2>4. \A t \in Tasks : TaskPaid(t)'
    BY <1>0, <1>1, <2>1 DEF Paid, TaskPaid, BridgeKeeps, TypeOK, Task
  <2> QED
    BY <2>2, <2>3, <2>4 DEF Paid
<1>6. ASSUME Alone PROVE Single'
  <2>1. Single
    BY <1>6 DEF DepositInv
  <2>2. \A p \in Orders : OrderOnce(p)'
    <3> TAKE p \in Orders
    <3>1. CASE p = o
      BY <1>1, <1>3, <2>1, <3>1 DEF Single, OrderOnce
    <3>2. CASE p # o
      <4>1. \A k \in Kinds : inbox'[<<p, k>>] = inbox[<<p, k>>]
        BY <1>4, <3>2
      <4> QED
        BY <1>1, <1>3, <2>1, <3>2, <4>1 DEF Single, OrderOnce
    <3> QED
      BY <3>1, <3>2
  <2> QED
    BY <1>1, <2>1, <2>2 DEF Single, Apart, TaskOnce
<1> QED
  BY <1>2, <1>5, <1>6 DEF DepositInv

LEMMA OutsideInv ==
  ASSUME DepositInv, NEW o \in Orders, Outside(o)
  PROVE  DepositInv'
<1>1. CASE TimePasses(o)
  BY <1>1, ClockInv
<1>2. CASE FundsArrive(o)
  <2>1. BridgeMoves(o, {"awaiting"}, "funded", "received")
    BY <1>2 DEF FundsArrive
  <2> QED
    BY <2>1, BridgeInv DEF BridgeStates, Delivered, Kinds
<1>3. CASE BridgeCompletes(o)
  <2>1. BridgeMoves(o, {"funded"}, "complete", "complete")
    BY <1>3 DEF BridgeCompletes
  <2> QED
    BY <2>1, BridgeInv DEF BridgeStates, Delivered, Kinds
<1>4. CASE BridgeFails(o)
  <2>1. BridgeMoves(o, {"funded"}, "failed", "failed")
    BY <1>4 DEF BridgeFails
  <2> QED
    BY <2>1, BridgeInv DEF BridgeStates, Delivered, Kinds
<1>5. CASE BridgeRefunds(o)
  <2>1. BridgeMoves(o, {"complete"}, "refunded", "refunded")
    BY <1>5 DEF BridgeRefunds
  <2> QED
    BY <2>1, BridgeInv DEF BridgeStates, Delivered, Kinds
<1> QED
  BY <1>1, <1>2, <1>3, <1>4, <1>5 DEF Outside

\* A crash loses the tasks and nothing that was written.
LEMMA CrashInv == ASSUME DepositInv, Crash PROVE DepositInv'
<1>0. \A t \in Tasks : task'[t] = Idle
  BY DEF Crash
<1>1. TypeOK'
  BY IdleType DEF DepositInv, Crash, TypeOK, orderVars, moneyVars
<1>2. Paid'
  BY <1>0, IdleType DEF DepositInv, Crash, Paid, TaskPaid, CreditedIsPaid,
    Credits,
    CompletePcs, ExpiryPcs, orderVars, moneyVars
<1>3. ASSUME Alone PROVE Single'
  <2>1. \A o \in Orders : OrderOnce(o)'
    BY <1>3 DEF DepositInv, Crash, Single, OrderOnce, orderVars, moneyVars
  <2>2. \A t \in Tasks : TaskOnce(t)'
    BY <1>0, IdleType DEF TaskOnce, WritePcs, CreditingPcs, LegPcs, SendPcs,
      StaffPcs, ExpiryPcs
  <2> QED
    BY <1>0, <2>1, <2>2, IdleType DEF Single, Apart
<1> QED
  BY <1>1, <1>2, <1>3 DEF DepositInv

(***************************************************************************)
(* The invariant of the specification.                                     *)
(***************************************************************************)
LEMMA InitInv == Init => DepositInv
<1> SUFFICES ASSUME Init PROVE DepositInv
  OBVIOUS
<1>1. \A t \in Tasks : task[t] = Idle
  BY DEF Init
<1>2. TypeOK
  BY IdleType DEF Init, TypeOK, Statuses, RowStates, EntryStates, BridgeStates
<1>3. Paid
  BY <1>1, IdleType DEF Init, Paid, TaskPaid, CreditedIsPaid, Credits,
    CompletePcs, ExpiryPcs,
    Kinds
<1>4. Single
  BY <1>1, IdleType DEF Init, Single, Apart, OrderOnce, TaskOnce, WritePcs,
    CreditingPcs, LegPcs, SendPcs, StaffPcs, ExpiryPcs
<1> QED
  BY <1>2, <1>3, <1>4 DEF DepositInv

LEMMA NextInv == DepositInv /\ [Next]_vars => DepositInv'
<1> SUFFICES ASSUME DepositInv, [Next]_vars PROVE DepositInv'
  OBVIOUS
<1>1. ASSUME NEW t \in Tasks, Step(t) PROVE DepositInv'
  BY <1>1, LegStepInv, CloseStepInv, WebhookStepInv DEF Step
<1>2. ASSUME NEW t \in Tasks, NEW o \in Orders, Starts(t, o) PROVE DepositInv'
  BY <1>2, StartsInv
<1>3. ASSUME NEW o \in Orders, Outside(o) PROVE DepositInv'
  BY <1>3, OutsideInv
<1>4. CASE Crash
  BY <1>4, CrashInv
<1>5. CASE UNCHANGED vars
  <2>1. TypeOK'
    BY <1>5 DEF DepositInv, vars, orderVars, moneyVars, TypeOK
  <2>2. Paid'
    BY <1>5 DEF DepositInv, vars, orderVars, moneyVars, Paid, TaskPaid,
      CreditedIsPaid, Credits
  <2>3. Alone => Single'
    BY <1>5 DEF DepositInv, vars, orderVars, moneyVars, Single, Apart, OrderOnce,
      TaskOnce
  <2> QED
    BY <2>1, <2>2, <2>3 DEF DepositInv
<1> QED
  BY <1>1, <1>2, <1>3, <1>4, <1>5 DEF Next, Starts

\* Every variable keeps its type, whatever fails: no handler writes a status
\* that the column refuses.
THEOREM TypeCorrect == Spec => []TypeOK
<1>1. DepositInv => TypeOK
  BY DEF DepositInv
<1> QED
  BY <1>1, InitInv, NextInv, PTL DEF Spec

\* A wallet is credited only with what Bridge delivered, under every fault.
THEOREM CreditsArePaid == Spec => []CreditedIsPaid
<1>1. DepositInv => CreditedIsPaid
  BY DEF DepositInv, Paid
<1> QED
  BY <1>1, InitInv, NextInv, PTL DEF Spec

\* As long as no two handlers work on one order at once, the credit of the
\* leg and the safety net of handleTransferComplete credit it at most once:
\* crashes, lost answers, repeated and reordered events included.
THEOREM CreditsHappenOnce == Alone => (Spec => []CreditedOnce)
<1>1. DepositInv /\ Alone => CreditedOnce
  <2> SUFFICES ASSUME DepositInv, Alone, NEW o \in Orders PROVE Credits(o) =< 1
    BY DEF CreditedOnce
  <2>1. TypeOK /\ OrderOnce(o)
    BY DEF DepositInv, Single
  <2> QED
    BY <2>1 DEF OrderOnce, Credits, TypeOK
<1> SUFFICES ASSUME Alone PROVE Spec => []CreditedOnce
  OBVIOUS
<1>2. DepositInv => CreditedOnce
  BY <1>1
<1> QED
  BY <1>2, InitInv, NextInv, PTL DEF Spec

(***************************************************************************)
(* The cron never closes an order with a confirmed deposit.  Only Close    *)
(* writes "cancelled", under a compare-and-set on what its task read.      *)
(***************************************************************************)
Cancels(o) == status[o] # "cancelled" /\ status'[o] = "cancelled"

LEMMA OnlyCloseCancels ==
  ASSUME DepositInv, Next, NEW o \in Orders, Cancels(o)
  PROVE  \E t \in Tasks : Close(t) /\ task[t].o = o
<1>0. TypeOK
  BY DEF DepositInv
<1>1. ASSUME NEW t \in Tasks, LegStep(t) PROVE FALSE
  BY <1>0, <1>1 DEF Cancels, TypeOK, LegStep, Insert, FirstStatus, LegPost,
    LegPostFails,
    LegNoAddress, LegRecord, LegLink, LegCredit, LegReturn, LegFail, SendPost,
    SendPostFails, SendLink, SendRecord, SendUndo, Write, orderVars
<1>2. ASSUME NEW t \in Tasks, CloseStep(t), ~Close(t) PROVE FALSE
  BY <1>0, <1>2 DEF Cancels, TypeOK, CloseStep, ConfirmWrite, ManualWrite, Delete,
    RowOff, Extend, FailWrite, Void, Write, orderVars
<1>3. ASSUME NEW t \in Tasks, Close(t) PROVE task[t].o = o
  BY <1>0, <1>3 DEF Cancels, TypeOK, Close, Write
<1>4. ASSUME NEW t \in Tasks, WebhookStep(t) PROVE FALSE
  BY <1>0, <1>4 DEF Cancels, TypeOK, WebhookStep, CompleteLookup, CompleteMark,
    CompleteSettle, CompleteCount, CompleteInsert, FailedMark, FailedLookup,
    FailedOrder, FailedVoid, RefundedRead, RefundedMark, Write, orderVars
<1>5. ASSUME NEW t \in Tasks, NEW p \in Orders, Starts(t, p) PROVE FALSE
  BY <1>0, <1>5 DEF Cancels, TypeOK, Starts, ClientStarts, StaffStarts,
    WebhookStarts,
    Create, ConfirmRead, ClientCancel, ApproveReview, RejectReview, ApproveDeposit,
    MarkSentRead, CompleteRead, FailRead, StaffCancel, Expire, Received,
    CompleteStart, FailedStart, RefundedStart, Write, orderVars
<1>6. ASSUME NEW p \in Orders, Outside(p) PROVE FALSE
  BY <1>0, <1>6 DEF Cancels, Outside, TimePasses, FundsArrive, BridgeCompletes,
    BridgeFails, BridgeRefunds, BridgeMoves, orderVars
<1>7. ~Crash
  BY DEF Cancels, Crash, orderVars
<1> QED
  BY <1>1, <1>2, <1>3, <1>4, <1>5, <1>6, <1>7 DEF Next, Step, CloseStep, Starts

\* The expiry cron never closes an order whose deposit was confirmed, however
\* the proof of the client and the cron interleave.
THEOREM ProofAlwaysBeatsExpiry == Spec => ProofBeatsExpiry
<1>1. ASSUME DepositInv, [Next]_vars, NEW o \in Orders,
             status[o] = "deposit_received", status'[o] = "cancelled"
      PROVE  closer'[o] # "system"
  <2>1. status' # status
    BY <1>1
  <2>2. Next
    BY <1>1, <2>1 DEF vars, orderVars
  <2>3. PICK t \in Tasks : Close(t) /\ task[t].o = o
    BY <1>1, <2>2, OnlyCloseCancels DEF Cancels
  <2>4. task[t].seen = "deposit_received" /\ closer'[o] = task[t].by
    BY <1>1, <2>1, <2>3 DEF Close, DepositInv, TypeOK
  <2> QED
    BY <1>1, <2>3, <2>4 DEF Close, At, DepositInv, Paid, TaskPaid, ExpiryPcs
<1>2. DepositInv /\ [Next]_vars =>
        [\A o \in Orders :
           status[o] = "deposit_received" /\ status'[o] = "cancelled"
             => closer'[o] # "system"]_vars
  BY <1>1
<1> QED
  BY <1>2, InitInv, NextInv, PTL DEF Spec, ProofBeatsExpiry

(***************************************************************************)
(* An order follows its transfer.  Calm: no two tasks share an order, no   *)
(* process dies, no answer of Bridge is lost and no write of the database  *)
(* fails; events may still repeat and arrive in any order, Bridge may      *)
(* refuse, the address may be missing and the INSERT of the credit fail.   *)
(* The completion is announced at least once.  NoRival: two wallet_to_     *)
(* wallet orders that skip the review do not meet, for the loser of the    *)
(* index stays "created", with a transfer its client's cancel overlooks.   *)
(***************************************************************************)
NoRival ==
  "createSkip" \in Ops /\ "wallet_to_wallet" \in Flows
    => \A o, p \in Orders : o = p
Calm ==
  /\ Alone
  /\ \A f \in {"lost", "crash", "dbError"} : f \notin Faults
  /\ Deliveries["complete"] > 0
  /\ NoRival

\* What holds of order o when task k is at work on it, or nobody (k idle).
LegSendPcs == LegPcs \cup SendPcs
Undelivered == {"none", "deleted"}
Noticed(o, k) ==
  bridge[o] = "complete" /\ link[o] /\ inbox[<<o, "complete">>] = 0
    /\ k.pc \notin {"cLookup", "cMark"} => status[o] = "completed" \/ flagged[o]
Credited(o, k) ==
  status[o] = "completed" /\ flow[o] \in OnRamp /\ k.pc \notin CreditingPcs
    => Credits(o) > 0
Closed(o, k) ==
  /\ status[o] = "cancelled" /\ closer[o] \in {"client", "system"}
       => bridge[o] \in Undelivered
  /\ k.pc = "rowOff" => bridge[o] = "deleted"
  /\ k.pc = "close" /\ k.by \in {"client", "system"} => bridge[o] \in Undelivered
Told(o, k) ==
  /\ status[o] = "refunded" => bridge[o] = "refunded"
  /\ inbox[<<o, "failed">>] > 0 \/ k.pc \in FailedPcs => bridge[o] = "failed"
  /\ inbox[<<o, "refunded">>] > 0 \/ k.pc \in {"rRead", "rMark"}
       => bridge[o] = "refunded"
\* The link: an order whose transfer exists and is not linked is in its leg,
\* or beyond the reach of its client and of the cron.
Linked(o, k) ==
  /\ status[o] = "sent" \/ k.pc \in StaffPcs \ {"confirm"}
       => flow[o] \in Manual /\ ~link[o]
  /\ flow[o] \in Manual /\ link[o] => status[o] # "processing"
  /\ link[o] => bridge[o] # "none"
                /\ status[o] \notin {"absent", "created", "pending_review"}
  /\ k.pc = "rMark" => link[o]
  /\ status[o] = "pending_review" => bridge[o] = "none"
  /\ status[o] = "waiting_deposit" /\ ~link[o] => bridge[o] = "none"
  /\ flow[o] \in Instructed /\ status[o] \in {"waiting_deposit", "deposit_received"}
       => bridge[o] = "none"
  /\ bridge[o] # "none" /\ ~link[o] /\ k.pc \notin LegSendPcs
       => status[o] \in {"absent", "processing", "sent", "completed", "failed",
                         "cancelled"}
Begun(o, k) ==
  /\ status[o] = "created" => flow[o] = "wallet_to_wallet" /\ \A p \in Orders : p = o
  /\ flow[o] \in Flows \cup {"none"}
  /\ k.pc # "idle" /\ k.skip => "createSkip" \in Ops
\* The leg: what was done before each of its calls.
StatusAt(o, k) ==
  IF ~k.skip THEN "processing"
  ELSE IF flow[o] = "wallet_to_wallet" THEN "created" ELSE "absent"
InLegOf(o, k) ==
  /\ k.pc \in LegSendPcs /\ bridge[o] = "complete" => inbox[<<o, "complete">>] > 0
  /\ k.pc \in {"post", "legReturn", "sendPost", "sendUndo"} => bridge[o] = "none"
  /\ k.pc = "insert" =>
       /\ status[o] = "absent"
       /\ bridge[o] # "none" <=> k.skip /\ flow[o] \in OnRamp \cup {"wallet_to_world"}
  /\ k.pc = "post" => flow[o] \notin Instructed /\ status[o] = StatusAt(o, k)
  /\ k.pc = "record" =>
       /\ flow[o] \notin Instructed /\ bridge[o] # "none"
       /\ IF flow[o] = "wallet_to_world" THEN link[o] \/ status[o] = "processing"
                                       ELSE status[o] = StatusAt(o, k)
  /\ k.pc = "link" =>
       /\ status[o] = StatusAt(o, k) /\ status[o] # "absent"
       /\ bridge[o] = "none" <=> flow[o] \in Instructed
  /\ k.pc = "credit" => link[o] \/ status[o] = "processing"
  /\ k.pc \in SendPcs => status[o] = "processing" /\ flow[o] = "bolivia_to_world"
  /\ k.pc = "sendLink" => bridge[o] # "none"
  /\ k.pc = "sendRecord" => link[o]
Phase(o, k) ==
  /\ Noticed(o, k) /\ Credited(o, k) /\ Closed(o, k)
  /\ Told(o, k) /\ Linked(o, k) /\ Begun(o, k) /\ InLegOf(o, k)
Unattended(o) == \A t \in Tasks : task[t].pc = "idle" \/ task[t].o # o
Steady ==
  /\ \A o \in Orders : Unattended(o) => Phase(o, Idle)
  /\ \A t \in Tasks : task[t].pc # "idle" => Phase(task[t].o, task[t])

\* What a step on order o leaves alone of the others.
Alike(o) ==
  \A p \in Orders : p # o =>
    /\ status'[p] = status[p] /\ flow'[p] = flow[p] /\ bridge'[p] = bridge[p]
    /\ extra'[p] = extra[p] /\ credit'[p] = credit[p] /\ link'[p] = link[p]
    /\ closer'[p] = closer[p] /\ flagged'[p] = flagged[p]
    /\ \A k \in Kinds : inbox'[<<p, k>>] = inbox[<<p, k>>]

LEMMA PhaseAlike ==
  ASSUME NEW o \in Orders, Alike(o), NEW p \in Orders, p # o
  PROVE  /\ Phase(p, Idle) => Phase(p, Idle)'
         /\ \A u \in Tasks : task'[u] = task[u] /\ Phase(p, task[u])
                               => Phase(p, task[u])'
<1>1. \A e \in Kinds : inbox'[<<p, e>>] = inbox[<<p, e>>]
  BY DEF Alike
<1>2. /\ inbox'[<<p, "complete">>] = inbox[<<p, "complete">>]
      /\ inbox'[<<p, "failed">>] = inbox[<<p, "failed">>]
      /\ inbox'[<<p, "refunded">>] = inbox[<<p, "refunded">>]
  BY <1>1 DEF Kinds
<1> USE DEF Alike, Phase, Noticed, Credited, Closed, Told, Linked, Begun, InLegOf,
          Credits, StatusAt
<1>3. Phase(p, Idle) => Phase(p, Idle)'
  BY <1>2
<1>4. ASSUME NEW u \in Tasks, task'[u] = task[u], Phase(p, task[u])
      PROVE  Phase(p, task[u])'
  BY <1>2, <1>4
<1> QED
  BY <1>3, <1>4

\* A step of task t on order o, whoever else is at work elsewhere.
LEMMA SteadyKept ==
  ASSUME DepositInv, DepositInv', Alone, Steady, NEW t \in Tasks, NEW o \in Orders,
         Owns(t, o), Alike(o),
         \A u \in Tasks : u # t => task'[u] = task[u],
         task'[t].pc # "idle" => task'[t].o = o,
         Phase(o, task[t])'
  PROVE  Steady'
<1>0. TypeOK /\ TypeOK' /\ Single
  BY DEF DepositInv
<1>1. \A u \in Tasks : u # t /\ task[u].pc # "idle" => task[u].o # o
  BY <1>0 DEF Owns, Free, At, Single, Apart, Alone
<1>2. ASSUME NEW p \in Orders, Unattended(p)' PROVE Phase(p, Idle)'
  <2>1. CASE p = o
    <3>1. task'[t].pc = "idle" /\ task'[t] \in Task
      BY <1>0, <1>2, <2>1 DEF Unattended, TypeOK
    <3> QED
      BY <2>1, <3>1 DEF Idle, Job, Phase, Noticed, Credited, Closed, Told, Linked,
        Begun, InLegOf, CreditingPcs, FailedPcs, StaffPcs, LegSendPcs, LegPcs,
        SendPcs
  <2>2. CASE p # o
    <3>1. Unattended(p)
      BY <1>1, <1>2, <2>2 DEF Unattended, Owns, Free, At
    <3> QED
      BY <2>2, <3>1, PhaseAlike DEF Steady
  <2> QED
    BY <2>1, <2>2
<1>3. ASSUME NEW u \in Tasks, task'[u].pc # "idle" PROVE Phase(task[u].o, task[u])'
  <2>1. CASE u = t
    <3>1. (task[u].o)' = o
      BY <1>3, <2>1
    <3> QED
      BY <2>1, <3>1
  <2>2. CASE u # t
    <3>1. task'[u] = task[u] /\ task[u].pc # "idle" /\ task[u].o \in Orders
          /\ task[u].o # o
      BY <1>0, <1>1, <1>3, <2>2, TaskFields
    <3>2. Phase(task[u].o, task[u])
      BY <3>1 DEF Steady
    <3>3. PICK p \in Orders : p = task[u].o
      BY <3>1
    <3>4. Phase(p, task[u])'
      BY <3>1, <3>2, <3>3, PhaseAlike
    <3> QED
      BY <3>1, <3>3, <3>4
  <2> QED
    BY <2>1, <2>2
<1> QED
  BY <1>2, <1>3 DEF Steady

\* Where a task goes next.
Went(t, pc) ==
  /\ \A u \in Tasks : u # t => task'[u] = task[u]
  /\ task'[t].pc = pc
  /\ pc = "idle" => ~task'[t].skip
  /\ pc # "idle" => /\ task'[t].o = task[t].o /\ task'[t].by = task[t].by
                    /\ task'[t].skip = task[t].skip
LEMMA WentType ==
  ASSUME TypeOK, NEW t \in Tasks, NEW pc, Goto(t, pc)
  PROVE  Went(t, pc)
<1>1. task' = [task EXCEPT ![t] = task'[t]]
      /\ task'[t] = IF pc = "idle" THEN Idle ELSE [task[t] EXCEPT !.pc = pc]
  BY DEF Goto, Done, Start, TypeOK
<1>2. CASE pc = "idle"
  BY <1>1, <1>2 DEF Went, Idle, Job, TypeOK
<1>3. CASE pc # "idle"
  BY <1>1, <1>3 DEF Went, TypeOK, Task
<1> QED
  BY <1>2, <1>3

LEMMA AfterIs ==
  ASSUME NEW f, NEW skip \in BOOLEAN
  PROVE  /\ After("post", f, skip) =
              IF f # "wallet_to_world" THEN "record"
              ELSE IF skip THEN "insert" ELSE "link"
         /\ After("record", f, skip) =
              IF f = "wallet_to_world" THEN "idle"
              ELSE IF f \in OnRamp /\ skip THEN "insert" ELSE "link"
         /\ After("insert", f, skip) =
              IF ~skip \/ f \in Instructed THEN "idle"
              ELSE IF f = "wallet_to_world" THEN "record"
              ELSE IF f = "wallet_to_wallet" THEN "post" ELSE "credit"
         /\ After("link", f, skip) =
              IF f = "wallet_to_world" THEN "record"
              ELSE IF f \in OnRamp THEN "credit" ELSE "idle"
BY DEF After

\* Creation, the Bridge leg and the approval of a deposit.
LEMMA LegSteady ==
  ASSUME DepositInv, DepositInv', Calm, Steady, NEW t \in Tasks, LegStep(t)
  PROVE  Steady'
<1> USE DEF LegPcs, SendPcs, StaffPcs, LegSendPcs, CreditingPcs, FailedPcs,
        Undelivered, orderVars, moneyVars
<1>1. PICK o \in Orders : o = task[t].o
  BY TaskFields DEF DepositInv
<1>2. /\ task[t].o = o /\ task[t].pc \in Pcs /\ task[t].skip \in BOOLEAN
      /\ task[t].by \in {"none", "client", "staff", "system"}
      /\ task[t].pc # "idle" => Phase(o, task[t])
      /\ inbox[<<o, "complete">>] \in Nat /\ inbox'[<<o, "complete">>] \in Nat
      /\ TypeOK /\ TypeOK' /\ Single /\ Alone
      /\ "createSkip" \in Ops /\ "wallet_to_wallet" \in Flows
           => \A p \in Orders : p = o
      /\ "lost" \notin Faults /\ "dbError" \notin Faults
  <2>1. TypeOK /\ TypeOK'
    BY DEF DepositInv
  <2>2. <<o, "complete">> \in Orders \X Kinds
    BY DEF Kinds
  <2>3. task[t].pc # "idle" => Phase(o, task[t])
    BY <1>1 DEF Steady
  <2> QED
    BY <1>1, <2>1, <2>2, <2>3, TaskFields DEF DepositInv, Calm, NoRival, TypeOK
<1>3. CASE Insert(t)
  <2>1. PICK pc : Goto(t, pc) /\ pc =
          IF InsertTaken(o, flow[o], task[t].skip) THEN "idle"
          ELSE After("insert", flow[o], task[t].skip)
    BY <1>2, <1>3, AfterIs DEF Insert, At, Goto, Done, GoOn
  <2>2. Went(t, pc) /\ Phase(o, task[t]) /\ TaskOnce(t)
    BY <1>2, <1>3, <2>1, WentType DEF Insert, At, Single
  <2>3. Alike(o) /\ Owns(t, o)
    BY <1>2, <1>3 DEF Insert, At, Owns, Alike, TypeOK, Write
  <2>4. Phase(o, task[t])'
    <3>1. Noticed(o, task[t])'
      BY <1>2, <1>3, <2>1, <2>2, AfterIs DEF Insert, At, Went, TaskOnce, Phase,
        Noticed, InLegOf, Write, FirstStatus, Instructed, OnRamp, Manual, WritePcs,
        Ended, AllFlows, PsavFlows, CryptoIn, TypeOK
    <3>2. Credited(o, task[t])'
      BY <1>2, <1>3, <2>1, <2>2, AfterIs DEF Insert, At, Went, TaskOnce, Phase,
        Credited, Credits, Write, FirstStatus, Instructed, OnRamp, Manual, WritePcs,
        Ended, AllFlows, PsavFlows, CryptoIn, TypeOK
    <3>3. Closed(o, task[t])'
      BY <1>2, <1>3, <2>1, <2>2, AfterIs DEF Insert, At, Went, TaskOnce, Phase,
        Closed, Write, FirstStatus, Instructed, OnRamp, Manual, WritePcs, Ended,
        AllFlows, PsavFlows, CryptoIn, TypeOK
    <3>4. Told(o, task[t])'
      BY <1>2, <1>3, <2>1, <2>2, AfterIs DEF Insert, At, Went, TaskOnce, Phase,
        Told, Write, FirstStatus, Instructed, OnRamp, Manual, WritePcs, Ended,
        AllFlows, PsavFlows, CryptoIn, TypeOK
    <3>5. Linked(o, task[t])'
      BY <1>2, <1>3, <2>1, <2>2, AfterIs DEF Insert, At, Went, TaskOnce, Phase,
        Linked, InLegOf, StatusAt, Begun, Write, FirstStatus, Instructed, OnRamp,
        Manual, WritePcs, Ended, AllFlows, PsavFlows, CryptoIn, TypeOK
    <3>6. Begun(o, task[t])'
      BY <1>2, <1>3, <2>1, <2>2, AfterIs DEF Insert, At, Went, TaskOnce, Phase,
        Begun, Write, FirstStatus, Instructed, OnRamp, Manual, WritePcs, Ended,
        AllFlows, PsavFlows, CryptoIn, TypeOK
    <3>7. InLegOf(o, task[t])'
      BY <1>2, <1>3, <2>1, <2>2, AfterIs DEF Insert, At, Went, TaskOnce, Phase,
        InLegOf, Linked, StatusAt, Write, FirstStatus, Instructed, OnRamp, Manual,
        WritePcs, Ended, AllFlows, PsavFlows, CryptoIn, TypeOK
    <3> QED
      BY <3>1, <3>2, <3>3, <3>4, <3>5, <3>6, <3>7 DEF Phase
  <2> QED
    BY <1>2, <2>2, <2>3, <2>4, SteadyKept DEF Went
<1>4. CASE LegPost(t)
  <2>1. PICK pc : Goto(t, pc) /\ pc = After("post", flow[o], task[t].skip)
    BY <1>2, <1>4, AfterIs DEF LegPost, At, Goto, GoOn
  <2>2. Went(t, pc) /\ Phase(o, task[t]) /\ TaskOnce(t)
    BY <1>2, <1>4, <2>1, WentType DEF LegPost, At, Single
  <2>3. Alike(o) /\ Owns(t, o)
    BY <1>2, <1>4 DEF LegPost, At, Owns, Alike, TypeOK, Posted
  <2>4. Phase(o, task[t])'
    BY <1>2, <1>4, <2>1, <2>2, AfterIs DEF LegPost, At, Went, TaskOnce, Phase,
      Noticed, InLegOf, Credited, Credits, Closed, Told, Linked, StatusAt, Begun,
      Posted, Instructed, OnRamp, Manual, WritePcs, Ended, TypeOK
  <2> QED
    BY <1>2, <2>2, <2>3, <2>4, SteadyKept DEF Went
<1>5. CASE LegPostFails(t)
  <2>1. PICK pc : Goto(t, pc) /\ pc =
          IF status[o] = "absent" THEN "idle"
          ELSE IF task[t].skip THEN "legFail" ELSE "legReturn"
    BY <1>2, <1>5 DEF LegPostFails, At, Goto, LegFails
  <2>2. Went(t, pc) /\ Phase(o, task[t]) /\ TaskOnce(t)
    BY <1>2, <1>5, <2>1, WentType DEF LegPostFails, At, Single
  <2>3. Alike(o) /\ Owns(t, o)
    BY <1>2, <1>5 DEF LegPostFails, At, Owns, Alike, TypeOK, Posted
  <2>4. Phase(o, task[t])'
    BY <1>2, <1>5, <2>1, <2>2 DEF LegPostFails, At, Went, TaskOnce, Phase, Noticed,
      InLegOf, Credited, Credits, Closed, Told, Linked, StatusAt, Begun, Posted,
      Instructed, OnRamp, Manual, WritePcs, Ended, TypeOK
  <2> QED
    BY <1>2, <2>2, <2>3, <2>4, SteadyKept DEF Went
<1>6. CASE LegNoAddress(t)
  <2>1. PICK pc : Goto(t, pc) /\ pc =
          IF task[t].skip THEN "idle" ELSE "legFail"
    BY <1>2, <1>6 DEF LegNoAddress, At, Goto
  <2>2. Went(t, pc) /\ Phase(o, task[t]) /\ TaskOnce(t)
    BY <1>2, <1>6, <2>1, WentType DEF LegNoAddress, At, Single
  <2>3. Alike(o) /\ Owns(t, o)
    BY <1>2, <1>6 DEF LegNoAddress, At, Owns, Alike, TypeOK, Posted
  <2>4. Phase(o, task[t])'
    BY <1>2, <1>6, <2>1, <2>2 DEF LegNoAddress, At, Went, TaskOnce, Phase, Noticed,
      InLegOf, Credited, Credits, Closed, Told, Linked, StatusAt, Begun, Posted,
      Instructed, OnRamp, Manual, WritePcs, Ended, TypeOK
  <2> QED
    BY <1>2, <2>2, <2>3, <2>4, SteadyKept DEF Went
<1>7. CASE LegRecord(t)
  <2>1. PICK pc : Goto(t, pc) /\ pc = After("record", flow[o], task[t].skip)
    BY <1>2, <1>7, AfterIs DEF LegRecord, At, Goto, GoOn
  <2>2. Went(t, pc) /\ Phase(o, task[t]) /\ TaskOnce(t)
    BY <1>2, <1>7, <2>1, WentType DEF LegRecord, At, Single
  <2>3. Alike(o) /\ Owns(t, o)
    BY <1>2, <1>7 DEF LegRecord, At, Owns, Alike, TypeOK
  <2>4. Phase(o, task[t])'
    BY <1>2, <1>7, <2>1, <2>2, AfterIs DEF LegRecord, At, Went, TaskOnce, Phase,
      Noticed, InLegOf, Credited, Credits, Closed, Told, Linked, StatusAt, Begun,
      Instructed, OnRamp, Manual, WritePcs, Ended, AllFlows, PsavFlows, CryptoIn,
      TypeOK
  <2> QED
    BY <1>2, <2>2, <2>3, <2>4, SteadyKept DEF Went
<1>8. CASE LegLink(t)
  <2>1. PICK pc : Goto(t, pc) /\ pc = After("link", flow[o], task[t].skip)
    BY <1>2, <1>8, AfterIs DEF LegLink, At, Goto, GoOn
  <2>2. Went(t, pc) /\ Phase(o, task[t]) /\ TaskOnce(t)
    BY <1>2, <1>8, <2>1, WentType DEF LegLink, At, Single
  <2>3. Alike(o) /\ Owns(t, o)
    BY <1>2, <1>8 DEF LegLink, At, Owns, Alike, TypeOK, Write
  <2>4. Phase(o, task[t])'
    <3>1. Noticed(o, task[t])'
      BY <1>2, <1>8, <2>1, <2>2, AfterIs DEF LegLink, At, Went, TaskOnce, Phase,
        Noticed, InLegOf, Write, Taken, Instructed, OnRamp, Manual, WritePcs, Ended,
        AllFlows, PsavFlows, CryptoIn, TypeOK
    <3>2. Credited(o, task[t])'
      BY <1>2, <1>8, <2>1, <2>2, AfterIs DEF LegLink, At, Went, TaskOnce, Phase,
        Credited, Credits, Write, Taken, Instructed, OnRamp, Manual, WritePcs,
        Ended, AllFlows, PsavFlows, CryptoIn, TypeOK
    <3>3. Closed(o, task[t])'
      BY <1>2, <1>8, <2>1, <2>2, AfterIs DEF LegLink, At, Went, TaskOnce, Phase,
        Closed, Write, Taken, Instructed, OnRamp, Manual, WritePcs, Ended, AllFlows,
        PsavFlows, CryptoIn, TypeOK
    <3>4. Told(o, task[t])'
      BY <1>2, <1>8, <2>1, <2>2, AfterIs DEF LegLink, At, Went, TaskOnce, Phase,
        Told, Write, Taken, Instructed, OnRamp, Manual, WritePcs, Ended, AllFlows,
        PsavFlows, CryptoIn, TypeOK
    <3>5. Linked(o, task[t])'
      BY <1>2, <1>8, <2>1, <2>2, AfterIs DEF LegLink, At, Went, TaskOnce, Phase,
        Linked, InLegOf, StatusAt, Begun, Write, Taken, Instructed, OnRamp, Manual,
        WritePcs, Ended, AllFlows, PsavFlows, CryptoIn, TypeOK
    <3>6. Begun(o, task[t])'
      BY <1>2, <1>8, <2>1, <2>2, AfterIs DEF LegLink, At, Went, TaskOnce, Phase,
        Begun, Write, Taken, Instructed, OnRamp, Manual, WritePcs, Ended, AllFlows,
        PsavFlows, CryptoIn, TypeOK
    <3>7. InLegOf(o, task[t])'
      BY <1>2, <1>8, <2>1, <2>2, AfterIs DEF LegLink, At, Went, TaskOnce, Phase,
        InLegOf, Linked, StatusAt, Write, Taken, Instructed, OnRamp, Manual,
        WritePcs, Ended, AllFlows, PsavFlows, CryptoIn, TypeOK
    <3> QED
      BY <3>1, <3>2, <3>3, <3>4, <3>5, <3>6, <3>7 DEF Phase
  <2> QED
    BY <1>2, <2>2, <2>3, <2>4, SteadyKept DEF Went
<1>9. CASE LegCredit(t)
  <2>1. PICK pc : Goto(t, pc) /\ pc = "idle"
    BY <1>2, <1>9 DEF LegCredit, At, Goto, Done
  <2>2. Went(t, pc) /\ Phase(o, task[t]) /\ TaskOnce(t)
    BY <1>2, <1>9, <2>1, WentType DEF LegCredit, At, Single
  <2>3. Alike(o) /\ Owns(t, o)
    BY <1>2, <1>9 DEF LegCredit, At, Owns, Alike, TypeOK
  <2>4. Phase(o, task[t])'
    BY <1>2, <1>9, <2>1, <2>2 DEF LegCredit, At, Went, TaskOnce, Phase, Noticed,
      InLegOf, Credited, Credits, Closed, Told, Linked, StatusAt, Begun, Instructed,
      OnRamp, Manual, WritePcs, Ended, TypeOK
  <2> QED
    BY <1>2, <2>2, <2>3, <2>4, SteadyKept DEF Went
<1>10. CASE LegReturn(t)
  <2>1. PICK pc : Goto(t, pc) /\ pc = "idle"
    BY <1>2, <1>10 DEF LegReturn, At, Goto, Done
  <2>2. Went(t, pc) /\ Phase(o, task[t]) /\ TaskOnce(t)
    BY <1>2, <1>10, <2>1, WentType DEF LegReturn, At, Single
  <2>3. Alike(o) /\ Owns(t, o)
    BY <1>2, <1>10 DEF LegReturn, At, Owns, Alike, TypeOK, Write
  <2>4. Phase(o, task[t])'
    BY <1>2, <1>10, <2>1, <2>2 DEF LegReturn, At, Went, TaskOnce, Phase, Noticed,
      InLegOf, Credited, Credits, Closed, Told, Linked, StatusAt, Begun, Write,
      Instructed, OnRamp, Manual, WritePcs, Ended, TypeOK
  <2> QED
    BY <1>2, <2>2, <2>3, <2>4, SteadyKept DEF Went
<1>11. CASE LegFail(t)
  <2>1. PICK pc : Goto(t, pc) /\ pc = "idle"
    BY <1>2, <1>11 DEF LegFail, At, Goto, Done
  <2>2. Went(t, pc) /\ Phase(o, task[t]) /\ TaskOnce(t)
    BY <1>2, <1>11, <2>1, WentType DEF LegFail, At, Single
  <2>3. Alike(o) /\ Owns(t, o)
    BY <1>2, <1>11 DEF LegFail, At, Owns, Alike, TypeOK, Write
  <2>4. Phase(o, task[t])'
    BY <1>2, <1>11, <2>1, <2>2 DEF LegFail, At, Went, TaskOnce, Phase, Noticed,
      InLegOf, Credited, Credits, Closed, Told, Linked, StatusAt, Begun, Write,
      Instructed, OnRamp, Manual, WritePcs, Ended, TypeOK
  <2> QED
    BY <1>2, <2>2, <2>3, <2>4, SteadyKept DEF Went
<1>12. CASE SendPost(t)
  <2>1. PICK pc : Goto(t, pc) /\ pc = "sendLink"
    BY <1>2, <1>12 DEF SendPost, At, Goto
  <2>2. Went(t, pc) /\ Phase(o, task[t]) /\ TaskOnce(t)
    BY <1>2, <1>12, <2>1, WentType DEF SendPost, At, Single
  <2>3. Alike(o) /\ Owns(t, o)
    BY <1>2, <1>12 DEF SendPost, At, Owns, Alike, TypeOK, Posted
  <2>4. Phase(o, task[t])'
    BY <1>2, <1>12, <2>1, <2>2 DEF SendPost, At, Went, TaskOnce, Phase, Noticed,
      InLegOf, Credited, Credits, Closed, Told, Linked, StatusAt, Begun, Posted,
      Instructed, OnRamp, Manual, WritePcs, Ended, TypeOK
  <2> QED
    BY <1>2, <2>2, <2>3, <2>4, SteadyKept DEF Went
<1>13. CASE SendPostFails(t)
  <2>1. PICK pc : Goto(t, pc) /\ pc = "sendUndo"
    BY <1>2, <1>13 DEF SendPostFails, At, Goto
  <2>2. Went(t, pc) /\ Phase(o, task[t]) /\ TaskOnce(t)
    BY <1>2, <1>13, <2>1, WentType DEF SendPostFails, At, Single
  <2>3. Alike(o) /\ Owns(t, o)
    BY <1>2, <1>13 DEF SendPostFails, At, Owns, Alike, TypeOK, Posted
  <2>4. Phase(o, task[t])'
    BY <1>2, <1>13, <2>1, <2>2 DEF SendPostFails, At, Went, TaskOnce, Phase,
      Noticed, InLegOf, Credited, Credits, Closed, Told, Linked, StatusAt, Begun,
      Posted, Instructed, OnRamp, Manual, WritePcs, Ended, TypeOK
  <2> QED
    BY <1>2, <2>2, <2>3, <2>4, SteadyKept DEF Went
<1>14. CASE SendLink(t)
  <2>1. PICK pc : Goto(t, pc) /\ pc = "sendRecord"
    BY <1>2, <1>14 DEF SendLink, At, Goto
  <2>2. Went(t, pc) /\ Phase(o, task[t]) /\ TaskOnce(t)
    BY <1>2, <1>14, <2>1, WentType DEF SendLink, At, Single
  <2>3. Alike(o) /\ Owns(t, o)
    BY <1>2, <1>14 DEF SendLink, At, Owns, Alike, TypeOK
  <2>4. Phase(o, task[t])'
    BY <1>2, <1>14, <2>1, <2>2 DEF SendLink, At, Went, TaskOnce, Phase, Noticed,
      InLegOf, Credited, Credits, Closed, Told, Linked, StatusAt, Begun, Instructed,
      OnRamp, Manual, WritePcs, Ended, TypeOK
  <2> QED
    BY <1>2, <2>2, <2>3, <2>4, SteadyKept DEF Went
<1>15. CASE SendRecord(t)
  <2>1. PICK pc : Goto(t, pc) /\ pc = "idle"
    BY <1>2, <1>15 DEF SendRecord, At, Goto, Done
  <2>2. Went(t, pc) /\ Phase(o, task[t]) /\ TaskOnce(t)
    BY <1>2, <1>15, <2>1, WentType DEF SendRecord, At, Single
  <2>3. Alike(o) /\ Owns(t, o)
    BY <1>2, <1>15 DEF SendRecord, At, Owns, Alike, TypeOK
  <2>4. Phase(o, task[t])'
    BY <1>2, <1>15, <2>1, <2>2 DEF SendRecord, At, Went, TaskOnce, Phase, Noticed,
      InLegOf, Credited, Credits, Closed, Told, Linked, StatusAt, Begun, Instructed,
      OnRamp, Manual, WritePcs, Ended, TypeOK
  <2> QED
    BY <1>2, <2>2, <2>3, <2>4, SteadyKept DEF Went
<1>16. CASE SendUndo(t)
  <2>1. PICK pc : Goto(t, pc) /\ pc = "idle"
    BY <1>2, <1>16 DEF SendUndo, At, Goto, Done
  <2>2. Went(t, pc) /\ Phase(o, task[t]) /\ TaskOnce(t)
    BY <1>2, <1>16, <2>1, WentType DEF SendUndo, At, Single
  <2>3. Alike(o) /\ Owns(t, o)
    BY <1>2, <1>16 DEF SendUndo, At, Owns, Alike, TypeOK, Write
  <2>4. Phase(o, task[t])'
    BY <1>2, <1>16, <2>1, <2>2 DEF SendUndo, At, Went, TaskOnce, Phase, Noticed,
      InLegOf, Credited, Credits, Closed, Told, Linked, StatusAt, Begun, Write,
      Instructed, OnRamp, Manual, WritePcs, Ended, TypeOK
  <2> QED
    BY <1>2, <2>2, <2>3, <2>4, SteadyKept DEF Went
<1> QED
  BY <1>3, <1>4, <1>5, <1>6, <1>7, <1>8, <1>9, <1>10, <1>11, <1>12, <1>13, <1>14,
    <1>15, <1>16 DEF LegStep

\* Confirming and closing an order.
LEMMA CloseSteady ==
  ASSUME DepositInv, DepositInv', Calm, Steady, NEW t \in Tasks, CloseStep(t)
  PROVE  Steady'
<1> USE DEF LegPcs, SendPcs, StaffPcs, LegSendPcs, CreditingPcs, FailedPcs,
        Undelivered, orderVars, moneyVars
<1>1. PICK o \in Orders : o = task[t].o
  BY TaskFields DEF DepositInv
<1>2. /\ task[t].o = o /\ task[t].pc \in Pcs /\ task[t].skip \in BOOLEAN
      /\ task[t].by \in {"none", "client", "staff", "system"}
      /\ task[t].pc # "idle" => Phase(o, task[t])
      /\ inbox[<<o, "complete">>] \in Nat /\ inbox'[<<o, "complete">>] \in Nat
      /\ TypeOK /\ TypeOK' /\ Single /\ Alone
      /\ "createSkip" \in Ops /\ "wallet_to_wallet" \in Flows
           => \A p \in Orders : p = o
      /\ "lost" \notin Faults /\ "dbError" \notin Faults
  <2>1. TypeOK /\ TypeOK'
    BY DEF DepositInv
  <2>2. <<o, "complete">> \in Orders \X Kinds
    BY DEF Kinds
  <2>3. task[t].pc # "idle" => Phase(o, task[t])
    BY <1>1 DEF Steady
  <2> QED
    BY <1>1, <2>1, <2>2, <2>3, TaskFields DEF DepositInv, Calm, NoRival, TypeOK
<1>3. CASE ConfirmWrite(t)
  <2>1. PICK pc : Goto(t, pc) /\ pc = "idle"
    BY <1>2, <1>3 DEF ConfirmWrite, At, Goto, Done
  <2>2. Went(t, pc) /\ Phase(o, task[t]) /\ TaskOnce(t)
    BY <1>2, <1>3, <2>1, WentType DEF ConfirmWrite, At, Single
  <2>3. Alike(o) /\ Owns(t, o)
    BY <1>2, <1>3 DEF ConfirmWrite, At, Owns, Alike, TypeOK, Write
  <2>4. Phase(o, task[t])'
    BY <1>2, <1>3, <2>1, <2>2 DEF ConfirmWrite, At, Went, TaskOnce, Phase, Noticed,
      InLegOf, Credited, Credits, Closed, Told, Linked, StatusAt, Begun, Write,
      Instructed, OnRamp, Manual, WritePcs, Ended, TypeOK
  <2> QED
    BY <1>2, <2>2, <2>3, <2>4, SteadyKept DEF Went
<1>4. CASE ManualWrite(t)
  <2>1. PICK pc : Goto(t, pc) /\ pc = "idle"
    BY <1>2, <1>4 DEF ManualWrite, At, Goto, Done
  <2>2. Went(t, pc) /\ Phase(o, task[t]) /\ TaskOnce(t)
    BY <1>2, <1>4, <2>1, WentType DEF ManualWrite, At, Single
  <2>3. Alike(o) /\ Owns(t, o)
    BY <1>2, <1>4 DEF ManualWrite, At, Owns, Alike, TypeOK, Write
  <2>4. Phase(o, task[t])'
    BY <1>2, <1>4, <2>1, <2>2 DEF ManualWrite, At, Went, TaskOnce, Phase, Noticed,
      InLegOf, Credited, Credits, Closed, Told, Linked, StatusAt, Begun, Write,
      Instructed, OnRamp, Manual, WritePcs, Ended, TypeOK
  <2> QED
    BY <1>2, <2>2, <2>3, <2>4, SteadyKept DEF Went
<1>5. CASE Delete(t)
  <2>1. PICK pc : Goto(t, pc) /\ pc =
          IF bridge[o] = "awaiting" THEN "rowOff"
          ELSE IF task[t].by = "system" THEN "extend" ELSE "idle"
    BY <1>2, <1>5 DEF Delete, At, Goto
  <2>2. Went(t, pc) /\ Phase(o, task[t]) /\ TaskOnce(t)
    BY <1>2, <1>5, <2>1, WentType DEF Delete, At, Single
  <2>3. Alike(o) /\ Owns(t, o)
    BY <1>2, <1>5 DEF Delete, At, Owns, Alike, TypeOK
  <2>4. Phase(o, task[t])'
    BY <1>2, <1>5, <2>1, <2>2 DEF Delete, At, Went, TaskOnce, Phase, Noticed,
      InLegOf, Credited, Credits, Closed, Told, Linked, StatusAt, Begun, Instructed,
      OnRamp, Manual, WritePcs, Ended, TypeOK
  <2> QED
    BY <1>2, <2>2, <2>3, <2>4, SteadyKept DEF Went
<1>6. CASE RowOff(t)
  <2>1. PICK pc : Goto(t, pc) /\ pc = "close"
    BY <1>2, <1>6 DEF RowOff, At, Goto
  <2>2. Went(t, pc) /\ Phase(o, task[t]) /\ TaskOnce(t)
    BY <1>2, <1>6, <2>1, WentType DEF RowOff, At, Single
  <2>3. Alike(o) /\ Owns(t, o)
    BY <1>2, <1>6 DEF RowOff, At, Owns, Alike, TypeOK, SetRow
  <2>4. Phase(o, task[t])'
    BY <1>2, <1>6, <2>1, <2>2 DEF RowOff, At, Went, TaskOnce, Phase, Noticed,
      InLegOf, Credited, Credits, Closed, Told, Linked, StatusAt, Begun, SetRow,
      Instructed, OnRamp, Manual, WritePcs, Ended, TypeOK
  <2> QED
    BY <1>2, <2>2, <2>3, <2>4, SteadyKept DEF Went
<1>7. CASE Extend(t)
  <2>1. PICK pc : Goto(t, pc) /\ pc = "idle"
    BY <1>2, <1>7 DEF Extend, At, Goto, Done
  <2>2. Went(t, pc) /\ Phase(o, task[t]) /\ TaskOnce(t)
    BY <1>2, <1>7, <2>1, WentType DEF Extend, At, Single
  <2>3. Alike(o) /\ Owns(t, o)
    BY <1>2, <1>7 DEF Extend, At, Owns, Alike, TypeOK
  <2>4. Phase(o, task[t])'
    BY <1>2, <1>7, <2>1, <2>2 DEF Extend, At, Went, TaskOnce, Phase, Noticed,
      InLegOf, Credited, Credits, Closed, Told, Linked, StatusAt, Begun, Instructed,
      OnRamp, Manual, WritePcs, Ended, TypeOK
  <2> QED
    BY <1>2, <2>2, <2>3, <2>4, SteadyKept DEF Went
<1>8. CASE Close(t)
  <2>1. PICK pc : Goto(t, pc) /\ pc \in {"void", "idle"}
    BY <1>2, <1>8 DEF Close, At, Goto, Done
  <2>2. Went(t, pc) /\ Phase(o, task[t]) /\ TaskOnce(t)
    BY <1>2, <1>8, <2>1, WentType DEF Close, At, Single
  <2>3. Alike(o) /\ Owns(t, o)
    BY <1>2, <1>8 DEF Close, At, Owns, Alike, TypeOK, Write
  <2>4. Phase(o, task[t])'
    BY <1>2, <1>8, <2>1, <2>2 DEF Close, At, Went, TaskOnce, Phase, Noticed,
      InLegOf, Credited, Credits, Closed, Told, Linked, StatusAt, Begun, Write,
      Instructed, OnRamp, Manual, WritePcs, Ended, ExpiryPcs, TypeOK
  <2> QED
    BY <1>2, <2>2, <2>3, <2>4, SteadyKept DEF Went
<1>9. CASE FailWrite(t)
  <2>1. PICK pc : Goto(t, pc) /\ pc = "failVoid"
    BY <1>2, <1>9 DEF FailWrite, At, Goto
  <2>2. Went(t, pc) /\ Phase(o, task[t]) /\ TaskOnce(t)
    BY <1>2, <1>9, <2>1, WentType DEF FailWrite, At, Single
  <2>3. Alike(o) /\ Owns(t, o)
    BY <1>2, <1>9 DEF FailWrite, At, Owns, Alike, TypeOK, Write
  <2>4. Phase(o, task[t])'
    BY <1>2, <1>9, <2>1, <2>2 DEF FailWrite, At, Went, TaskOnce, Phase, Noticed,
      InLegOf, Credited, Credits, Closed, Told, Linked, StatusAt, Begun, Write,
      Instructed, OnRamp, Manual, WritePcs, Ended, TypeOK
  <2> QED
    BY <1>2, <2>2, <2>3, <2>4, SteadyKept DEF Went
<1>10. CASE Void(t)
  <2>1. PICK pc : Goto(t, pc) /\ pc = "idle"
    BY <1>2, <1>10 DEF Void, At, Goto, Done
  <2>2. Went(t, pc) /\ Phase(o, task[t]) /\ TaskOnce(t)
    BY <1>2, <1>10, <2>1, WentType DEF Void, At, Single
  <2>3. Alike(o) /\ Owns(t, o)
    BY <1>2, <1>10 DEF Void, At, Owns, Alike, TypeOK, Leave
  <2>4. Phase(o, task[t])'
    BY <1>2, <1>10, <2>1, <2>2 DEF Void, At, Went, TaskOnce, Phase, Noticed,
      InLegOf, Credited, Credits, Closed, Told, Linked, StatusAt, Begun, Leave,
      Instructed, OnRamp, Manual, WritePcs, Ended, TypeOK
  <2> QED
    BY <1>2, <2>2, <2>3, <2>4, SteadyKept DEF Went
<1> QED
  BY <1>3, <1>4, <1>5, <1>6, <1>7, <1>8, <1>9, <1>10 DEF CloseStep

\* The webhooks.
LEMMA WebhookSteady ==
  ASSUME DepositInv, DepositInv', Calm, Steady, NEW t \in Tasks, WebhookStep(t)
  PROVE  Steady'
<1> USE DEF LegPcs, SendPcs, StaffPcs, LegSendPcs, CreditingPcs, FailedPcs,
        Undelivered, orderVars, moneyVars
<1>1. PICK o \in Orders : o = task[t].o
  BY TaskFields DEF DepositInv
<1>2. /\ task[t].o = o /\ task[t].pc \in Pcs /\ task[t].skip \in BOOLEAN
      /\ task[t].by \in {"none", "client", "staff", "system"}
      /\ task[t].pc # "idle" => Phase(o, task[t])
      /\ inbox[<<o, "complete">>] \in Nat /\ inbox'[<<o, "complete">>] \in Nat
      /\ TypeOK /\ TypeOK' /\ Single /\ Alone
      /\ "createSkip" \in Ops /\ "wallet_to_wallet" \in Flows
           => \A p \in Orders : p = o
      /\ "lost" \notin Faults /\ "dbError" \notin Faults
  <2>1. TypeOK /\ TypeOK'
    BY DEF DepositInv
  <2>2. <<o, "complete">> \in Orders \X Kinds
    BY DEF Kinds
  <2>3. task[t].pc # "idle" => Phase(o, task[t])
    BY <1>1 DEF Steady
  <2> QED
    BY <1>1, <2>1, <2>2, <2>3, TaskFields DEF DepositInv, Calm, NoRival, TypeOK
<1>3. CASE CompleteLookup(t)
  <2>1. PICK pc : Goto(t, pc) /\ pc =
          IF link[o] /\ status[o] \in Completable THEN "cMark" ELSE "idle"
    BY <1>2, <1>3 DEF CompleteLookup, At, Goto
  <2>2. Went(t, pc) /\ Phase(o, task[t]) /\ TaskOnce(t)
    BY <1>2, <1>3, <2>1, WentType DEF CompleteLookup, At, Single
  <2>3. Alike(o) /\ Owns(t, o)
    BY <1>2, <1>3 DEF CompleteLookup, At, Owns, Alike, TypeOK
  <2>4. Phase(o, task[t])'
    BY <1>2, <1>3, <2>1, <2>2 DEF CompleteLookup, At, Went, TaskOnce, Phase,
      Noticed, InLegOf, Credited, Credits, Closed, Told, Linked, StatusAt, Begun,
      Completable, Statuses, Terminal, Instructed, OnRamp, Manual, WritePcs, Ended,
      TypeOK
  <2> QED
    BY <1>2, <2>2, <2>3, <2>4, SteadyKept DEF Went
<1>4. CASE CompleteMark(t)
  <2>1. PICK pc : Goto(t, pc) /\ pc = "cSettle"
    BY <1>2, <1>4 DEF CompleteMark, At, Goto
  <2>2. Went(t, pc) /\ Phase(o, task[t]) /\ TaskOnce(t)
    BY <1>2, <1>4, <2>1, WentType DEF CompleteMark, At, Single
  <2>3. Alike(o) /\ Owns(t, o)
    BY <1>2, <1>4 DEF CompleteMark, At, Owns, Alike, TypeOK, Write
  <2>4. Phase(o, task[t])'
    BY <1>2, <1>4, <2>1, <2>2 DEF CompleteMark, At, Went, TaskOnce, Phase, Noticed,
      InLegOf, Credited, Credits, Closed, Told, Linked, StatusAt, Begun, Write,
      Instructed, OnRamp, Manual, WritePcs, Ended, TypeOK
  <2> QED
    BY <1>2, <2>2, <2>3, <2>4, SteadyKept DEF Went
<1>5. CASE CompleteSettle(t)
  <2>1. PICK pc : Goto(t, pc) /\ pc =
          IF credit[o] # "pending" /\ flow[o] \in OnRamp THEN "cCount" ELSE "idle"
    BY <1>2, <1>5 DEF CompleteSettle, At, Goto, Done
  <2>2. Went(t, pc) /\ Phase(o, task[t]) /\ TaskOnce(t)
    BY <1>2, <1>5, <2>1, WentType DEF CompleteSettle, At, Single
  <2>3. Alike(o) /\ Owns(t, o)
    BY <1>2, <1>5 DEF CompleteSettle, At, Owns, Alike, TypeOK, Leave
  <2>4. Phase(o, task[t])'
    BY <1>2, <1>5, <2>1, <2>2 DEF CompleteSettle, At, Went, TaskOnce, Phase,
      Noticed, InLegOf, Credited, Credits, Closed, Told, Linked, StatusAt, Begun,
      Leave, Instructed, OnRamp, Manual, WritePcs, Ended, TypeOK
  <2> QED
    BY <1>2, <2>2, <2>3, <2>4, SteadyKept DEF Went
<1>6. CASE CompleteCount(t)
  <2>1. PICK pc : Goto(t, pc) /\ pc =
          IF Credits(o) > 0 THEN "idle" ELSE "cInsert"
    BY <1>2, <1>6 DEF CompleteCount, At, Goto
  <2>2. Went(t, pc) /\ Phase(o, task[t]) /\ TaskOnce(t)
    BY <1>2, <1>6, <2>1, WentType DEF CompleteCount, At, Single
  <2>3. Alike(o) /\ Owns(t, o)
    BY <1>2, <1>6 DEF CompleteCount, At, Owns, Alike, TypeOK
  <2>4. Phase(o, task[t])'
    BY <1>2, <1>6, <2>1, <2>2 DEF CompleteCount, At, Went, TaskOnce, Phase, Noticed,
      InLegOf, Credited, Credits, Closed, Told, Linked, StatusAt, Begun, Instructed,
      OnRamp, Manual, WritePcs, Ended, TypeOK
  <2> QED
    BY <1>2, <2>2, <2>3, <2>4, SteadyKept DEF Went
<1>7. CASE CompleteInsert(t)
  <2>1. PICK pc : Goto(t, pc) /\ pc = "idle"
    BY <1>2, <1>7 DEF CompleteInsert, At, Goto, Done
  <2>2. Went(t, pc) /\ Phase(o, task[t]) /\ TaskOnce(t)
    BY <1>2, <1>7, <2>1, WentType DEF CompleteInsert, At, Single
  <2>3. Alike(o) /\ Owns(t, o)
    BY <1>2, <1>7 DEF CompleteInsert, At, Owns, Alike, TypeOK
  <2>4. Phase(o, task[t])'
    BY <1>2, <1>7, <2>1, <2>2 DEF CompleteInsert, At, Went, TaskOnce, Phase,
      Noticed, InLegOf, Credited, Credits, Closed, Told, Linked, StatusAt, Begun,
      Instructed, OnRamp, Manual, WritePcs, Ended, TypeOK
  <2> QED
    BY <1>2, <2>2, <2>3, <2>4, SteadyKept DEF Went
<1>8. CASE FailedMark(t)
  <2>1. PICK pc : Goto(t, pc) /\ pc = "fLookup"
    BY <1>2, <1>8 DEF FailedMark, At, Goto
  <2>2. Went(t, pc) /\ Phase(o, task[t]) /\ TaskOnce(t)
    BY <1>2, <1>8, <2>1, WentType DEF FailedMark, At, Single
  <2>3. Alike(o) /\ Owns(t, o)
    BY <1>2, <1>8 DEF FailedMark, At, Owns, Alike, TypeOK, SetRow
  <2>4. Phase(o, task[t])'
    BY <1>2, <1>8, <2>1, <2>2 DEF FailedMark, At, Went, TaskOnce, Phase, Noticed,
      InLegOf, Credited, Credits, Closed, Told, Linked, StatusAt, Begun, SetRow,
      Instructed, OnRamp, Manual, WritePcs, Ended, TypeOK
  <2> QED
    BY <1>2, <2>2, <2>3, <2>4, SteadyKept DEF Went
<1>9. CASE FailedLookup(t)
  <2>1. PICK pc : Goto(t, pc) /\ pc \in {"fOrder", "idle"}
    BY <1>2, <1>9 DEF FailedLookup, At, Goto
  <2>2. Went(t, pc) /\ Phase(o, task[t]) /\ TaskOnce(t)
    BY <1>2, <1>9, <2>1, WentType DEF FailedLookup, At, Single
  <2>3. Alike(o) /\ Owns(t, o)
    BY <1>2, <1>9 DEF FailedLookup, At, Owns, Alike, TypeOK
  <2>4. Phase(o, task[t])'
    BY <1>2, <1>9, <2>1, <2>2 DEF FailedLookup, At, Went, TaskOnce, Phase, Noticed,
      InLegOf, Credited, Credits, Closed, Told, Linked, StatusAt, Begun, Instructed,
      OnRamp, Manual, WritePcs, Ended, TypeOK
  <2> QED
    BY <1>2, <2>2, <2>3, <2>4, SteadyKept DEF Went
<1>10. CASE FailedOrder(t)
  <2>1. PICK pc : Goto(t, pc) /\ pc = "fVoid"
    BY <1>2, <1>10 DEF FailedOrder, At, Goto
  <2>2. Went(t, pc) /\ Phase(o, task[t]) /\ TaskOnce(t)
    BY <1>2, <1>10, <2>1, WentType DEF FailedOrder, At, Single
  <2>3. Alike(o) /\ Owns(t, o)
    BY <1>2, <1>10 DEF FailedOrder, At, Owns, Alike, TypeOK, Write
  <2>4. Phase(o, task[t])'
    BY <1>2, <1>10, <2>1, <2>2 DEF FailedOrder, At, Went, TaskOnce, Phase, Noticed,
      InLegOf, Credited, Credits, Closed, Told, Linked, StatusAt, Begun, Write,
      Instructed, OnRamp, Manual, WritePcs, Ended, TypeOK
  <2> QED
    BY <1>2, <2>2, <2>3, <2>4, SteadyKept DEF Went
<1>11. CASE FailedVoid(t)
  <2>1. PICK pc : Goto(t, pc) /\ pc = "idle"
    BY <1>2, <1>11 DEF FailedVoid, At, Goto, Done
  <2>2. Went(t, pc) /\ Phase(o, task[t]) /\ TaskOnce(t)
    BY <1>2, <1>11, <2>1, WentType DEF FailedVoid, At, Single
  <2>3. Alike(o) /\ Owns(t, o)
    BY <1>2, <1>11 DEF FailedVoid, At, Owns, Alike, TypeOK, Leave
  <2>4. Phase(o, task[t])'
    BY <1>2, <1>11, <2>1, <2>2 DEF FailedVoid, At, Went, TaskOnce, Phase, Noticed,
      InLegOf, Credited, Credits, Closed, Told, Linked, StatusAt, Begun, Leave,
      Instructed, OnRamp, Manual, WritePcs, Ended, TypeOK
  <2> QED
    BY <1>2, <2>2, <2>3, <2>4, SteadyKept DEF Went
<1>12. CASE RefundedRead(t)
  <2>1. PICK pc : Goto(t, pc) /\ pc =
          IF link[o] /\ status[o] # "refunded" THEN "rMark" ELSE "idle"
    BY <1>2, <1>12 DEF RefundedRead, At, Goto
  <2>2. Went(t, pc) /\ Phase(o, task[t]) /\ TaskOnce(t)
    BY <1>2, <1>12, <2>1, WentType DEF RefundedRead, At, Single
  <2>3. Alike(o) /\ Owns(t, o)
    BY <1>2, <1>12 DEF RefundedRead, At, Owns, Alike, TypeOK
  <2>4. Phase(o, task[t])'
    BY <1>2, <1>12, <2>1, <2>2 DEF RefundedRead, At, Went, TaskOnce, Phase, Noticed,
      InLegOf, Credited, Credits, Closed, Told, Linked, StatusAt, Begun, Instructed,
      OnRamp, Manual, WritePcs, Ended, TypeOK
  <2> QED
    BY <1>2, <2>2, <2>3, <2>4, SteadyKept DEF Went
<1>13. CASE RefundedMark(t)
  <2>1. PICK pc : Goto(t, pc) /\ pc = "idle"
    BY <1>2, <1>13 DEF RefundedMark, At, Goto, Done
  <2>2. Went(t, pc) /\ Phase(o, task[t]) /\ TaskOnce(t)
    BY <1>2, <1>13, <2>1, WentType DEF RefundedMark, At, Single
  <2>3. Alike(o) /\ Owns(t, o)
    BY <1>2, <1>13 DEF RefundedMark, At, Owns, Alike, TypeOK, Write
  <2>4. Phase(o, task[t])'
    BY <1>2, <1>13, <2>1, <2>2 DEF RefundedMark, At, Went, TaskOnce, Phase, Noticed,
      InLegOf, Credited, Credits, Closed, Told, Linked, StatusAt, Begun, Write,
      Instructed, OnRamp, Manual, WritePcs, Ended, TypeOK
  <2> QED
    BY <1>2, <2>2, <2>3, <2>4, SteadyKept DEF Went
<1> QED
  BY <1>3, <1>4, <1>5, <1>6, <1>7, <1>8, <1>9, <1>10, <1>11, <1>12, <1>13
    DEF WebhookStep

\* Beginnings: nobody else works on the order.
LEMMA FreePhase ==
  ASSUME DepositInv, Alone, Steady, NEW t \in Tasks, NEW o \in Orders, Free(t, o)
  PROVE  Phase(o, Idle) /\ Idle.pc = "idle" /\ task[t].pc = "idle" /\ Owns(t, o)
BY IdleType DEF Free, At, Alone, Steady, Unattended, Owns

Sets(t, o, pc, by, skip) ==
  /\ \A u \in Tasks : u # t => task'[u] = task[u]
  /\ task'[t].pc = pc /\ task'[t].o = o /\ task'[t].by = by /\ task'[t].skip = skip
LEMMA StartSets ==
  ASSUME TypeOK, NEW t \in Tasks, NEW o, NEW pc, NEW by, NEW skip, NEW seen,
         Start(t, Job(pc, o, seen, by, skip))
  PROVE  Sets(t, o, pc, by, skip)
BY DEF Start, Job, TypeOK, Sets

LEMMA TakeIs ==
  ASSUME TypeOK, NEW o \in Orders, NEW kind \in Kinds, Take(o, kind)
  PROVE  /\ inbox[<<o, kind>>] > 0
         /\ inbox'[<<o, kind>>] = inbox[<<o, kind>>] - 1
         /\ \A p \in Orders, k \in Kinds :
              p # o \/ k # kind => inbox'[<<p, k>>] = inbox[<<p, k>>]
<1>1. inbox' = [inbox EXCEPT ![<<o, kind>>] = inbox[<<o, kind>>] - 1]
      /\ inbox[<<o, kind>>] > 0
  BY DEF Take
<1>2. \A e \in Orders \X Kinds :
        inbox'[e] = IF e = <<o, kind>> THEN inbox[e] - 1 ELSE inbox[e]
  BY <1>1 DEF TypeOK
<1> QED
  BY <1>1, <1>2

\* Requests, reviews, the cron and the events that are taken.
LEMMA StartsSteady ==
  ASSUME DepositInv, DepositInv', Calm, Steady, NEW t \in Tasks, NEW o \in Orders,
         Starts(t, o)
  PROVE  Steady'
<1> USE DEF LegPcs, SendPcs, StaffPcs, LegSendPcs, CreditingPcs, FailedPcs,
        Undelivered, orderVars, moneyVars
<1>1. /\ TypeOK /\ TypeOK' /\ Single /\ Alone /\ OrderOnce(o)
      /\ \A k \in Kinds : inbox[<<o, k>>] \in Nat /\ inbox'[<<o, k>>] \in Nat
  BY DEF DepositInv, Calm, Single, TypeOK
<1>2. ASSUME NEW f \in Flows, NEW skip \in BOOLEAN, Create(t, o, f, skip)
      PROVE  Steady'
  <2>1. Free(t, o)
    BY <1>2 DEF Create, Begin, BeginBy
  <2>2. PICK pc : /\ Sets(t, o, pc, "client", skip)
                  /\ pc \in {"post", "insert"}
                  /\ pc = "post" <=> skip /\ f \in OnRamp \cup {"wallet_to_world"}
    BY <1>1, <1>2, StartSets DEF Create, Begin, BeginBy
  <2>3. Phase(o, Idle) /\ Idle.pc = "idle" /\ Owns(t, o)
    BY <1>1, <2>1, FreePhase
  <2>5. Alike(o)
    BY <1>1, <1>2 DEF Create, Alike, TypeOK
  <2>6. Phase(o, task[t])'
    BY <1>1, <1>2, <2>2, <2>3, FlowsAssumption DEF Create, Sets, Phase, Noticed,
      InLegOf, Credited, Credits, Closed, Told, Linked, StatusAt, Begun, Instructed,
      OnRamp, Manual, AllFlows, PsavFlows, CryptoIn, OrderOnce, TypeOK
  <2> QED
    BY <1>1, <2>2, <2>3, <2>5, <2>6, SteadyKept DEF Sets
<1>3. CASE ConfirmRead(t, o)
  <2>1. Free(t, o)
    BY <1>3 DEF ConfirmRead, Begin, BeginBy
  <2>2. PICK pc : Sets(t, o, pc, "none", FALSE) /\ pc = "confirm"
    BY <1>1, <1>3, StartSets DEF ConfirmRead, Begin, BeginBy
  <2>3. Phase(o, Idle) /\ Idle.pc = "idle" /\ Owns(t, o)
    BY <1>1, <2>1, FreePhase
  <2>5. Alike(o)
    BY <1>1, <1>3 DEF ConfirmRead, Alike, TypeOK
  <2>6. Phase(o, task[t])'
    BY <1>1, <1>3, <2>2, <2>3 DEF ConfirmRead, Sets, Phase, Noticed, InLegOf,
      Credited, Credits, Closed, Told, Linked, StatusAt, Begun, Instructed, OnRamp,
      Manual, TypeOK
  <2> QED
    BY <1>1, <2>2, <2>3, <2>5, <2>6, SteadyKept DEF Sets
<1>4. CASE ClientCancel(t, o)
  <2>1. Free(t, o)
    BY <1>4 DEF ClientCancel, Begin, BeginBy
  <2>2. PICK pc : /\ Sets(t, o, pc, "client", FALSE)
                 /\ pc = IF link[o] THEN "delete" ELSE "close"
    BY <1>1, <1>4, StartSets DEF ClientCancel, Begin, BeginBy
  <2>3. Phase(o, Idle) /\ Idle.pc = "idle" /\ Owns(t, o)
    BY <1>1, <2>1, FreePhase
  <2>5. Alike(o)
    BY <1>1, <1>4 DEF ClientCancel, Alike, TypeOK
  <2>6. Phase(o, task[t])'
    BY <1>1, <1>4, <2>2, <2>3 DEF ClientCancel, Sets, Phase, Noticed, InLegOf,
      Credited, Credits, Closed, Told, Linked, StatusAt, Begun, Instructed, OnRamp,
      Manual, ClientCancellable, TypeOK
  <2> QED
    BY <1>1, <2>2, <2>3, <2>5, <2>6, SteadyKept DEF Sets
<1>5. CASE ApproveReview(t, o)
  <2>1. Free(t, o)
    BY <1>5 DEF ApproveReview, Begin, BeginBy
  <2>2. PICK pc : /\ Sets(t, o, pc, "none", FALSE)
                  /\ pc = IF flow[o] \in Instructed THEN "link" ELSE "post"
    BY <1>1, <1>5, StartSets DEF ApproveReview, Begin, BeginBy, FirstLegPc
  <2>3. Phase(o, Idle) /\ Idle.pc = "idle" /\ Owns(t, o)
    BY <1>1, <2>1, FreePhase
  <2>5. Alike(o)
    BY <1>1, <1>5 DEF ApproveReview, Alike, TypeOK, Write
  <2>6. Phase(o, task[t])'
    BY <1>1, <1>5, <2>2, <2>3 DEF ApproveReview, Sets, Phase, Noticed, InLegOf,
      Credited, Credits, Closed, Told, Linked, StatusAt, Begun, Instructed, OnRamp,
      Manual, Write, TypeOK
  <2> QED
    BY <1>1, <2>2, <2>3, <2>5, <2>6, SteadyKept DEF Sets
<1>6. CASE RejectReview(t, o)
  <2>1. Free(t, o)
    BY <1>6 DEF RejectReview, Begin, BeginBy
  <2>2. task'[t].pc = "idle" /\ \A u \in Tasks : u # t => task'[u] = task[u]
    BY <1>6, <2>1 DEF RejectReview, Free, At
  <2>3. Phase(o, Idle) /\ Idle.pc = "idle" /\ Owns(t, o)
    BY <1>1, <2>1, FreePhase
  <2>5. Alike(o)
    BY <1>1, <1>6 DEF RejectReview, Alike, TypeOK, Write
  <2>6. Phase(o, task[t])'
    BY <1>1, <1>6, <2>2, <2>3 DEF RejectReview, Phase, Noticed, InLegOf, Credited,
      Credits, Closed, Told, Linked, StatusAt, Begun, Instructed, OnRamp, Manual,
      Write, TypeOK
  <2> QED
    BY <1>1, <2>2, <2>3, <2>5, <2>6, SteadyKept
<1>7. CASE ApproveDeposit(t, o)
  <2>1. Free(t, o)
    BY <1>7 DEF ApproveDeposit, Begin, BeginBy
  <2>2. PICK pc : /\ pc = IF flow[o] = "bolivia_to_world" THEN "sendPost" ELSE "idle"
                  /\ Sets(t, o, pc, "none", FALSE) \/ (pc = "idle" /\ UNCHANGED task)
    BY <1>1, <1>7, <2>1, StartSets DEF ApproveDeposit, Begin, Free, At
  <2>3. Phase(o, Idle) /\ Idle.pc = "idle" /\ Owns(t, o)
    BY <1>1, <2>1, FreePhase
  <2>5. Alike(o)
    BY <1>1, <1>7 DEF ApproveDeposit, Alike, TypeOK, Write
  <2>6. Phase(o, task[t])'
    BY <1>1, <1>7, <2>1, <2>2, <2>3 DEF ApproveDeposit, Free, At, Sets, Phase,
      Noticed, InLegOf, Credited, Credits, Closed, Told, Linked, StatusAt, Begun,
      Instructed, OnRamp, Manual, AllFlows, PsavFlows, CryptoIn, Write, TypeOK
  <2> QED
    BY <1>1, <2>1, <2>2, <2>3, <2>5, <2>6, SteadyKept DEF Sets, Free, At
<1>8. CASE MarkSentRead(t, o)
  <2>1. Free(t, o)
    BY <1>8 DEF MarkSentRead, Begin, BeginBy
  <2>2. PICK pc : Sets(t, o, pc, "none", FALSE) /\ pc = "sent"
    BY <1>1, <1>8, StartSets DEF MarkSentRead, Begin, BeginBy
  <2>3. Phase(o, Idle) /\ Idle.pc = "idle" /\ Owns(t, o)
    BY <1>1, <2>1, FreePhase
  <2>5. Alike(o)
    BY <1>1, <1>8 DEF MarkSentRead, Alike, TypeOK
  <2>6. Phase(o, task[t])'
    BY <1>1, <1>8, <2>2, <2>3 DEF MarkSentRead, Sets, Phase, Noticed, InLegOf,
      Credited, Credits, Closed, Told, Linked, StatusAt, Begun, Instructed, OnRamp,
      Manual, TypeOK
  <2> QED
    BY <1>1, <2>2, <2>3, <2>5, <2>6, SteadyKept DEF Sets
<1>9. CASE CompleteRead(t, o)
  <2>1. Free(t, o)
    BY <1>9 DEF CompleteRead, Begin, BeginBy
  <2>2. PICK pc : Sets(t, o, pc, "none", FALSE) /\ pc = "complete"
    BY <1>1, <1>9, StartSets DEF CompleteRead, Begin, BeginBy
  <2>3. Phase(o, Idle) /\ Idle.pc = "idle" /\ Owns(t, o)
    BY <1>1, <2>1, FreePhase
  <2>5. Alike(o)
    BY <1>1, <1>9 DEF CompleteRead, Alike, TypeOK
  <2>6. Phase(o, task[t])'
    BY <1>1, <1>9, <2>2, <2>3 DEF CompleteRead, Sets, Phase, Noticed, InLegOf,
      Credited, Credits, Closed, Told, Linked, StatusAt, Begun, Instructed, OnRamp,
      Manual, TypeOK
  <2> QED
    BY <1>1, <2>2, <2>3, <2>5, <2>6, SteadyKept DEF Sets
<1>10. CASE FailRead(t, o)
  <2>1. Free(t, o)
    BY <1>10 DEF FailRead, Begin, BeginBy
  <2>2. PICK pc : Sets(t, o, pc, "none", FALSE) /\ pc = "fail"
    BY <1>1, <1>10, StartSets DEF FailRead, Begin, BeginBy
  <2>3. Phase(o, Idle) /\ Idle.pc = "idle" /\ Owns(t, o)
    BY <1>1, <2>1, FreePhase
  <2>5. Alike(o)
    BY <1>1, <1>10 DEF FailRead, Alike, TypeOK
  <2>6. Phase(o, task[t])'
    BY <1>1, <1>10, <2>2, <2>3 DEF FailRead, Sets, Phase, Noticed, InLegOf,
      Credited, Credits, Closed, Told, Linked, StatusAt, Begun, Instructed, OnRamp,
      Manual, TypeOK
  <2> QED
    BY <1>1, <2>2, <2>3, <2>5, <2>6, SteadyKept DEF Sets
<1>11. CASE StaffCancel(t, o)
  <2>1. Free(t, o)
    BY <1>11 DEF StaffCancel, Begin, BeginBy
  <2>2. PICK pc : Sets(t, o, pc, "staff", FALSE) /\ pc \in {"delete", "close"}
    BY <1>1, <1>11, StartSets DEF StaffCancel, Begin, BeginBy
  <2>3. Phase(o, Idle) /\ Idle.pc = "idle" /\ Owns(t, o)
    BY <1>1, <2>1, FreePhase
  <2>5. Alike(o)
    BY <1>1, <1>11 DEF StaffCancel, Alike, TypeOK
  <2>6. Phase(o, task[t])'
    BY <1>1, <1>11, <2>2, <2>3 DEF StaffCancel, Sets, Phase, Noticed, InLegOf,
      Credited, Credits, Closed, Told, Linked, StatusAt, Begun, Instructed, OnRamp,
      Manual, TypeOK
  <2> QED
    BY <1>1, <2>2, <2>3, <2>5, <2>6, SteadyKept DEF Sets
<1>12. CASE Expire(t, o)
  <2>1. Free(t, o)
    BY <1>12 DEF Expire, Begin, BeginBy
  <2>2. PICK pc : /\ Sets(t, o, pc, "system", FALSE)
                 /\ pc = IF link[o] THEN "delete" ELSE "close"
    BY <1>1, <1>12, StartSets DEF Expire, Begin, BeginBy
  <2>3. Phase(o, Idle) /\ Idle.pc = "idle" /\ Owns(t, o)
    BY <1>1, <2>1, FreePhase
  <2>5. Alike(o)
    BY <1>1, <1>12 DEF Expire, Alike, TypeOK
  <2>6. Phase(o, task[t])'
    BY <1>1, <1>12, <2>2, <2>3 DEF Expire, Sets, Phase, Noticed, InLegOf, Credited,
      Credits, Closed, Told, Linked, StatusAt, Begun, Instructed, OnRamp, Manual,
      TypeOK
  <2> QED
    BY <1>1, <2>2, <2>3, <2>5, <2>6, SteadyKept DEF Sets
<1>13. CASE Received(t, o)
  <2>1. Free(t, o)
    BY <1>13 DEF Received, Begin, BeginBy
  <2>2. task'[t].pc = "idle" /\ \A u \in Tasks : u # t => task'[u] = task[u]
    BY <1>13, <2>1 DEF Received, Free, At
  <2>3. Phase(o, Idle) /\ Idle.pc = "idle" /\ Owns(t, o)
    BY <1>1, <2>1, FreePhase
  <2>4. /\ inbox[<<o, "received">>] > 0
        /\ inbox'[<<o, "received">>] = inbox[<<o, "received">>] - 1
        /\ \A p \in Orders, k \in Kinds :
             p # o \/ k # "received" => inbox'[<<p, k>>] = inbox[<<p, k>>]
    BY <1>1, <1>13, TakeIs DEF Received, Kinds
  <2>5. Alike(o)
    BY <1>1, <1>13, <2>4 DEF Received, Alike, TypeOK, Write
  <2>6. Phase(o, task[t])'
    BY <1>1, <1>13, <2>2, <2>3, <2>4 DEF Received, Phase, Noticed, InLegOf,
      Credited, Credits, Closed, Told, Linked, StatusAt, Begun, Instructed, OnRamp,
      Manual, Write, CryptoIn, TypeOK, Kinds
  <2> QED
    BY <1>1, <2>2, <2>3, <2>5, <2>6, SteadyKept
<1>14. CASE CompleteStart(t, o)
  <2>1. Free(t, o)
    BY <1>14 DEF CompleteStart, Begin, BeginBy
  <2>2. PICK pc : Sets(t, o, pc, "none", FALSE) /\ pc = "cLookup"
    BY <1>1, <1>14, StartSets DEF CompleteStart, Begin, BeginBy
  <2>3. Phase(o, Idle) /\ Idle.pc = "idle" /\ Owns(t, o)
    BY <1>1, <2>1, FreePhase
  <2>4. /\ inbox[<<o, "complete">>] > 0
        /\ inbox'[<<o, "complete">>] = inbox[<<o, "complete">>] - 1
        /\ \A p \in Orders, k \in Kinds :
             p # o \/ k # "complete" => inbox'[<<p, k>>] = inbox[<<p, k>>]
    BY <1>1, <1>14, TakeIs DEF CompleteStart, Kinds
  <2>5. Alike(o)
    BY <1>1, <1>14, <2>4 DEF CompleteStart, Alike, TypeOK
  <2>6. Phase(o, task[t])'
    BY <1>1, <1>14, <2>2, <2>3, <2>4 DEF CompleteStart, Sets, Phase, Noticed,
      InLegOf, Credited, Credits, Closed, Told, Linked, StatusAt, Begun, Instructed,
      OnRamp, Manual, TypeOK, Kinds
  <2> QED
    BY <1>1, <2>2, <2>3, <2>5, <2>6, SteadyKept DEF Sets
<1>15. CASE FailedStart(t, o)
  <2>1. Free(t, o)
    BY <1>15 DEF FailedStart, Begin, BeginBy
  <2>2. PICK pc : /\ pc = IF row[o] = "completed" THEN "idle" ELSE "fMark"
                  /\ Sets(t, o, pc, "none", FALSE) \/ (pc = "idle" /\ UNCHANGED task)
    BY <1>1, <1>15, <2>1, StartSets DEF FailedStart, Begin, Free, At
  <2>3. Phase(o, Idle) /\ Idle.pc = "idle" /\ Owns(t, o)
    BY <1>1, <2>1, FreePhase
  <2>4. /\ inbox[<<o, "failed">>] > 0
        /\ inbox'[<<o, "failed">>] = inbox[<<o, "failed">>] - 1
        /\ \A p \in Orders, k \in Kinds :
             p # o \/ k # "failed" => inbox'[<<p, k>>] = inbox[<<p, k>>]
    BY <1>1, <1>15, TakeIs DEF FailedStart, Kinds
  <2>5. Alike(o)
    BY <1>1, <1>15, <2>4 DEF FailedStart, Alike, TypeOK
  <2>6. Phase(o, task[t])'
    BY <1>1, <1>15, <2>1, <2>2, <2>3, <2>4 DEF FailedStart, Free, At, Sets, Phase,
      Noticed, InLegOf, Credited, Credits, Closed, Told, Linked, StatusAt, Begun,
      Instructed, OnRamp, Manual, TypeOK, Kinds
  <2> QED
    BY <1>1, <2>1, <2>2, <2>3, <2>5, <2>6, SteadyKept DEF Sets, Free, At
<1>16. CASE RefundedStart(t, o)
  <2>1. Free(t, o)
    BY <1>16 DEF RefundedStart, Begin, BeginBy
  <2>2. PICK pc : Sets(t, o, pc, "none", FALSE) /\ pc = "rRead"
    BY <1>1, <1>16, StartSets DEF RefundedStart, Begin, BeginBy
  <2>3. Phase(o, Idle) /\ Idle.pc = "idle" /\ Owns(t, o)
    BY <1>1, <2>1, FreePhase
  <2>4. /\ inbox[<<o, "refunded">>] > 0
        /\ inbox'[<<o, "refunded">>] = inbox[<<o, "refunded">>] - 1
        /\ \A p \in Orders, k \in Kinds :
             p # o \/ k # "refunded" => inbox'[<<p, k>>] = inbox[<<p, k>>]
    BY <1>1, <1>16, TakeIs DEF RefundedStart, Kinds
  <2>5. Alike(o)
    BY <1>1, <1>16, <2>4 DEF RefundedStart, Alike, TypeOK
  <2>6. Phase(o, task[t])'
    BY <1>1, <1>16, <2>2, <2>3, <2>4 DEF RefundedStart, Sets, Phase, Noticed,
      InLegOf, Credited, Credits, Closed, Told, Linked, StatusAt, Begun, Instructed,
      OnRamp, Manual, TypeOK, Kinds
  <2> QED
    BY <1>1, <2>2, <2>3, <2>5, <2>6, SteadyKept DEF Sets
<1> QED
  BY <1>2, <1>3, <1>4, <1>5, <1>6, <1>7, <1>8, <1>9, <1>10, <1>11, <1>12, <1>13,
    <1>14, <1>15, <1>16 DEF Starts, ClientStarts, StaffStarts,
    WebhookStarts

\* What happens outside: the clock and Bridge, whoever is at work.
LEMMA OutsideKept ==
  ASSUME DepositInv, Steady, NEW o \in Orders, task' = task, Alike(o),
         Phase(o, Idle) => Phase(o, Idle)',
         \A u \in Tasks : task[u].o = o /\ Phase(o, task[u]) => Phase(o, task[u])'
  PROVE  Steady'
<1>1. ASSUME NEW p \in Orders, Unattended(p)' PROVE Phase(p, Idle)'
  <2>1. Unattended(p)
    BY <1>1 DEF Unattended
  <2> QED
    BY <2>1, PhaseAlike DEF Steady
<1>2. ASSUME NEW u \in Tasks, task'[u].pc # "idle" PROVE Phase(task[u].o, task[u])'
  <2>1. PICK p \in Orders : p = task[u].o
    BY TaskFields DEF DepositInv
  <2>2. Phase(p, task[u])
    BY <1>2, <2>1 DEF Steady
  <2>3. Phase(p, task[u])'
    BY <2>1, <2>2, PhaseAlike
  <2>4. p = task'[u].o
    BY <2>1
  <2> QED
    BY <2>3, <2>4
<1> QED
  BY <1>1, <1>2 DEF Steady

LEMMA BridgeSteady ==
  ASSUME DepositInv, Calm, Steady, NEW o \in Orders,
         NEW from, NEW to, NEW kind \in Kinds, BridgeMoves(o, {from}, to, kind),
         \/ from = "awaiting" /\ to = "funded" /\ kind = "received"
         \/ from = "funded" /\ to = "complete" /\ kind = "complete"
         \/ from = "funded" /\ to = "failed" /\ kind = "failed"
         \/ from = "complete" /\ to = "refunded" /\ kind = "refunded"
  PROVE  Steady'
<1> USE DEF LegPcs, SendPcs, StaffPcs, LegSendPcs, CreditingPcs, FailedPcs,
        Undelivered, orderVars, moneyVars
<1>1. /\ TypeOK /\ Deliveries[kind] \in Nat
      /\ \A p \in Orders, k \in Kinds : <<p, k>> \in Orders \X Kinds
  BY DeliveriesAssumption DEF DepositInv
<1>2. /\ bridge[o] = from /\ bridge'[o] = to
      /\ \A p \in Orders : p # o => bridge'[p] = bridge[p]
      /\ UNCHANGED <<flow, status, link, closer, credit, extra, flagged, task>>
  BY <1>1 DEF BridgeMoves, TypeOK
<1>3. \A p \in Orders, k \in Kinds :
        inbox'[<<p, k>>] = IF p = o /\ k = kind THEN Deliveries[kind]
                                                ELSE inbox[<<p, k>>]
  BY <1>1 DEF BridgeMoves, TypeOK
<1>4. Alike(o)
  BY <1>2, <1>3 DEF Alike
<1>5. /\ inbox'[<<o, "complete">>] =
           IF kind = "complete" THEN Deliveries["complete"] ELSE inbox[<<o, "complete">>]
      /\ kind # "failed" => inbox'[<<o, "failed">>] = inbox[<<o, "failed">>]
      /\ kind # "refunded" => inbox'[<<o, "refunded">>] = inbox[<<o, "refunded">>]
      /\ Deliveries["complete"] > 0
      /\ \A k \in Kinds : inbox[<<o, k>>] \in Nat
  BY <1>1, <1>3 DEF Kinds, Calm, TypeOK
<1>6. Phase(o, Idle) => Phase(o, Idle)'
  BY <1>2, <1>5, IdleType DEF Phase, Noticed, Credited, Closed, Told, Linked, Begun,
    InLegOf,
    Credits, StatusAt, Kinds
<1>7. ASSUME NEW u \in Tasks, Phase(o, task[u]) PROVE Phase(o, task[u])'
  BY <1>2, <1>5, <1>7 DEF Phase, Noticed, Credited, Closed, Told, Linked, Begun,
    InLegOf,
    Credits, StatusAt, Kinds
<1> QED
  BY <1>2, <1>4, <1>6, <1>7, OutsideKept

LEMMA OutsideSteady ==
  ASSUME DepositInv, Calm, Steady, NEW o \in Orders, Outside(o)
  PROVE  Steady'
<1>1. CASE TimePasses(o)
  <2>1. UNCHANGED <<flow, status, link, closer, credit, extra, flagged, task, bridge,
                    inbox>>
    BY <1>1 DEF TimePasses, moneyVars
  <2>2. Alike(o)
    BY <2>1 DEF Alike
  <2>3. Phase(o, Idle) => Phase(o, Idle)'
    BY <2>1 DEF Phase, Noticed, Credited, Closed, Told, Linked, Begun, InLegOf,
      Credits, StatusAt
  <2>4. ASSUME NEW u \in Tasks, Phase(o, task[u]) PROVE Phase(o, task[u])'
    BY <2>1, <2>4 DEF Phase, Noticed, Credited, Closed, Told, Linked, Begun, InLegOf,
      Credits, StatusAt
  <2> QED
    BY <2>1, <2>2, <2>3, <2>4, OutsideKept
<1>2. CASE FundsArrive(o)
  BY <1>2, BridgeSteady DEF FundsArrive, Kinds
<1>3. CASE BridgeCompletes(o)
  BY <1>3, BridgeSteady DEF BridgeCompletes, Kinds
<1>4. CASE BridgeFails(o)
  BY <1>4, BridgeSteady DEF BridgeFails, Kinds
<1>5. CASE BridgeRefunds(o)
  BY <1>5, BridgeSteady DEF BridgeRefunds, Kinds
<1> QED
  BY <1>1, <1>2, <1>3, <1>4, <1>5 DEF Outside

LEMMA InitSteady == ASSUME Init PROVE Steady
<1>1. \A o \in Orders, k \in Kinds : inbox[<<o, k>>] = 0
  BY DEF Init
<1>2. \A t \in Tasks : task[t].pc = "idle"
  BY IdleType DEF Init
<1>3. ASSUME NEW o \in Orders PROVE Phase(o, Idle)
  BY <1>1, IdleType DEF Init, Phase, Noticed, Credited, Closed, Told, Linked, Begun,
    InLegOf,
    LegPcs, SendPcs, StaffPcs, LegSendPcs, FailedPcs, Undelivered, Kinds
<1> QED
  BY <1>2, <1>3 DEF Steady

LEMMA NextSteady ==
  ASSUME Calm, DepositInv, DepositInv', Steady, [Next]_vars
  PROVE  Steady'
<1>1. ASSUME NEW t \in Tasks, Step(t) PROVE Steady'
  BY <1>1, LegSteady, CloseSteady, WebhookSteady DEF Step
<1>2. ASSUME NEW t \in Tasks, NEW o \in Orders, Starts(t, o) PROVE Steady'
  BY <1>2, StartsSteady
<1>3. ASSUME NEW o \in Orders, Outside(o) PROVE Steady'
  BY <1>3, OutsideSteady
<1>4. ~Crash
  BY DEF Crash, Calm
<1>5. CASE UNCHANGED vars
  BY <1>5 DEF vars, orderVars, moneyVars, Steady, Unattended, Phase, Noticed, Credited,
    Closed, Told, Linked, Begun, InLegOf, Credits, StatusAt
<1> QED
  BY <1>1, <1>2, <1>3, <1>4, <1>5 DEF Next, Starts

\* What an order shows follows what became of its transfer (handleTransferComplete, its
\* safety net, cancelOrder and expireUnpaidDeposits), for any orders, flows and requests,
\* as long as nothing fails half way and no two tasks share an order.
THEOREM OrdersFollowTransfers == Calm => (Spec => []OrderFollowsTransfer)
<1> SUFFICES ASSUME Calm PROVE Spec => []OrderFollowsTransfer
  OBVIOUS
<1>1. ASSUME DepositInv, Steady PROVE OrderFollowsTransfer
  <2>1. \A o \in Orders : \/ Unattended(o) /\ Phase(o, Idle)
                          \/ \E t \in Tasks : /\ task[t].pc # "idle" /\ task[t].o = o
                                              /\ Phase(o, task[t])
    BY <1>1 DEF Steady, Unattended
  <2>2. DeliveryIsNoticed
    <3> SUFFICES ASSUME NEW o \in Orders,
                        ~(\E t \in Tasks : task[t].o = o /\ task[t].pc # "idle")
                 PROVE  bridge[o] = "complete" /\ link[o] /\ inbox[<<o, "complete">>] = 0
                          => status[o] = "completed" \/ flagged[o]
      BY DEF DeliveryIsNoticed
    <3>1. Phase(o, Idle)
      BY <2>1
    <3> QED
      BY <3>1, IdleType DEF Phase, Noticed
  <2>3. CompletedIsCredited
    BY <2>1, IdleType DEF CompletedIsCredited, Completing, CompletePcs, CreditingPcs,
      Phase, Credited
  <2>4. ClosedHasNoTransfer
    BY <2>1 DEF ClosedHasNoTransfer, Phase, Closed, Undelivered
  <2> QED
    BY <2>2, <2>3, <2>4 DEF OrderFollowsTransfer
<1>2. Init => DepositInv /\ Steady
  BY InitInv, InitSteady
<1>3. DepositInv /\ Steady /\ [Next]_vars => (DepositInv /\ Steady)'
  BY NextInv, NextSteady
<1> QED
  BY <1>1, <1>2, <1>3, PTL DEF Spec
=============================================================================
