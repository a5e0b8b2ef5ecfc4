-------------------------- MODULE VirtualAccounts --------------------------
(***************************************************************************)
(* Money that arrives without an order: deposits to a client's virtual     *)
(* account and payments to his liquidation address, as the webhooks of     *)
(* Bridge report them.  A deposit to an account that sweeps to an external *)
(* wallet is booked in and out at once; any other waits, as an order in    *)
(* 'pending', until Bridge has delivered it, and is then credited.         *)
(*                                                                         *)
(* A task is one webhook in flight and an action is one call of the        *)
(* database.  The errors of these calls are not looked at.  The failures   *)
(* of a behaviour are chosen in its first state: "repeat" (an event is     *)
(* handled twice), "reorder", "overlap" (two webhooks of one deposit at    *)
(* once), "crash", "dbError" (an INSERT fails), "spend" (the client has    *)
(* withdrawn what he got).                                                 *)
(***************************************************************************)
EXTENDS BalanceLedger, FiniteSets

CONSTANTS
  Deposits,    \* Bridge's deposit ids
  Net,         \* what Bridge delivers of one
  Tasks,
  Worlds       \* the sets of failures a behaviour may have

DepositsAssumption == Deposits # {}
NetAssumption == Net \in Nat \ {0}

VARIABLES
  route,      \* where a deposit goes: a sweeping account, another, an address
  status,     \* payment_orders.status of the order with the deposit_id
  step,       \* its va_deposit_status
  credits,    \* settled credits in ledger_entries for the deposit
  debits,     \* settled debits
  bal,        \* the row of balances that internal deposits go to
  bridge,     \* the deposit in Bridge
  delivered,  \* history: Bridge delivered it
  inbox,      \* deliveries left of each event
  faults,     \* the failures of this behaviour
  task

orderVars == <<route, status, step>>
moneyVars == <<credits, debits, bal>>
bridgeVars == <<bridge, delivered, inbox>>
vars == <<orderVars, moneyVars, bridgeVars, faults, task>>

\* What Bridge may do next with a deposit; each state is announced by an
\* event of the same name.
Moves == {<<"none", "received">>, <<"received", "submitted">>,
          <<"received", "review">>, <<"review", "submitted">>,
          <<"submitted", "processed">>, <<"review", "flight">>,
          <<"processed", "flight">>, <<"flight", "refunded">>,
          <<"flight", "refundFailed">>}
Rank == [none |-> 0, received |-> 1, review |-> 2, submitted |-> 3, processed |-> 4,
         flight |-> 5, refunded |-> 6, refundFailed |-> 6, liquidated |-> 1]
Kinds == DOMAIN Rank \ {"none"}
Notices == {"review", "flight", "refundFailed"}
Closed == {"completed", "refunded", "swept_external"}
Statuses == {"absent", "pending"} \cup Closed
Pcs == {"idle", "insert", "sweepIn", "sweepOut", "late", "credit", "complete",
        "reverse", "refund"}

Idle == [pc |-> "idle", d |-> CHOOSE d \in Deposits : TRUE]

Init ==
  /\ faults \in Worlds
  /\ route \in [Deposits -> {"internal", "swept", "liquidated"}]
  /\ status = [d \in Deposits |-> "absent"]
  /\ step = [d \in Deposits |-> "none"]
  /\ credits = [d \in Deposits |-> 0]
  /\ debits = [d \in Deposits |-> 0]
  /\ bal = [amount |-> 0, available |-> 0, reserved |-> 0]
  /\ bridge = [d \in Deposits |-> "none"]
  /\ delivered = [d \in Deposits |-> FALSE]
  /\ inbox = [e \in Deposits \X Kinds |-> 0]
  /\ task = [t \in Tasks |-> Idle]

At(t, pc) == task[t].pc = pc
Goto(t, pc) ==
  task' = [task EXCEPT ![t] = IF pc = "idle" THEN Idle ELSE [pc |-> pc, d |-> @.d]]
Done(t) == Goto(t, "idle")

\* A webhook of the deposit is taken from the queue.
Take(d, kind) ==
  /\ inbox[<<d, kind>>] > 0
  /\ \/ "reorder" \in faults
     \/ \A k \in Kinds : Rank[k] < Rank[kind] => inbox[<<d, k>>] = 0
  /\ inbox' = [inbox EXCEPT ![<<d, kind>>] = @ - 1]
Free(t, d) ==
  At(t, "idle") /\ ("overlap" \in faults \/ \A u \in Tasks : At(u, "idle") \/ task[u].d # d)
Begin(t, d, kind, pc) ==
  /\ Free(t, d)
  /\ Take(d, kind)
  /\ task' = [task EXCEPT ![t] = IF pc = "idle" THEN Idle ELSE [pc |-> pc, d |-> d]]
  /\ UNCHANGED <<bridge, delivered, faults>>

SetStatus(d, s, va) ==
  /\ UNCHANGED route
  /\ status' = [status EXCEPT ![d] = s]
  /\ step' = [step EXCEPT ![d] = va]
\* An entry of the deposit is written, or fails unnoticed.
Book(entries, d) ==
  \/ entries' = [entries EXCEPT ![d] = @ + 1]
  \/ "dbError" \in faults /\ UNCHANGED entries

(***************************************************************************)
(* funds_received.  The look for an order of the deposit is not atomic     *)
(* with the INSERT, which the unique index on deposit_id refuses.          *)
(***************************************************************************)
FundsReceived(t, d) ==
  /\ Begin(t, d, "received", IF status[d] = "absent" THEN "insert" ELSE "idle")
  /\ UNCHANGED <<orderVars, moneyVars>>
InsertPending(t) ==
  LET d == task[t].d IN
  /\ At(t, "insert") /\ route[d] # "swept"
  /\ \/ status[d] = "absent" /\ SetStatus(d, "pending", "received")
     \/ (status[d] # "absent" \/ "dbError" \in faults) /\ UNCHANGED orderVars
  /\ Done(t)
  /\ UNCHANGED <<moneyVars, bridgeVars, faults>>
\* handleExternalSweepDeposit books the two entries whether or not the order
\* was inserted.  They are in the source currency and meet no other entry.
InsertSwept(t) ==
  LET d == task[t].d IN
  /\ At(t, "insert") /\ route[d] = "swept"
  /\ \/ status[d] = "absent" /\ SetStatus(d, "swept_external", "processed")
     \/ (status[d] # "absent" \/ "dbError" \in faults) /\ UNCHANGED orderVars
  /\ Goto(t, "sweepIn")
  /\ UNCHANGED <<moneyVars, bridgeVars, faults>>
SweepIn(t) ==
  /\ At(t, "sweepIn")
  /\ Book(credits, task[t].d)
  /\ Goto(t, "sweepOut")
  /\ UNCHANGED <<orderVars, debits, bal, bridgeVars, faults>>
SweepOut(t) ==
  /\ At(t, "sweepOut")
  /\ Book(debits, task[t].d)
  /\ Done(t)
  /\ UNCHANGED <<orderVars, credits, bal, bridgeVars, faults>>

(***************************************************************************)
(* payment_submitted, in_review, refund_in_flight, refund_failed: one      *)
(* UPDATE of va_deposit_status; only the first looks at the status.        *)
(***************************************************************************)
PaymentSubmitted(t, d) ==
  /\ Begin(t, d, "submitted", "idle")
  /\ step' = IF status[d] \in {"absent"} \cup Closed THEN step
             ELSE [step EXCEPT ![d] = "submitted"]
  /\ UNCHANGED <<route, status, moneyVars>>
Notice(t, d, kind) ==
  /\ Begin(t, d, kind, "idle")
  /\ step' = IF status[d] = "absent" THEN step ELSE [step EXCEPT ![d] = kind]
  /\ UNCHANGED <<route, status, moneyVars>>

(***************************************************************************)
(* payment_processed: the credit, then the UPDATE of the order by its id.  *)
(* Without an order in 'pending' the event is dropped with a warning.      *)
(***************************************************************************)
PaymentProcessed(t, d) ==
  /\ Begin(t, d, "processed", IF status[d] = "pending" THEN "credit" ELSE "late")
  /\ UNCHANGED <<orderVars, moneyVars>>
\* The redelivery to a completed order only sets its va_deposit_status.
Late(t) ==
  LET d == task[t].d IN
  /\ At(t, "late")
  /\ step' = IF status[d] = "completed" THEN [step EXCEPT ![d] = "processed"] ELSE step
  /\ Done(t)
  /\ UNCHANGED <<route, status, moneyVars, bridgeVars, faults>>
Credit(t) ==
  /\ At(t, "credit")
  /\ Book(credits, task[t].d)
  /\ bal' = IF credits' = credits THEN bal ELSE Posted(bal, Net)
  /\ Goto(t, "complete")
  /\ UNCHANGED <<orderVars, debits, bridgeVars, faults>>
\* Mutant: the completed order keeps its status, so that a repeated event
\* finds it pending.
CompleteStepOnly(t) ==
  /\ At(t, "complete")
  /\ step' = [step EXCEPT ![task[t].d] = "processed"]
  /\ Done(t)
  /\ UNCHANGED <<route, status, moneyVars, bridgeVars, faults>>
Complete(t) ==
  /\ At(t, "complete")
  /\ SetStatus(task[t].d, "completed", "processed")
  /\ Done(t)
  /\ UNCHANGED <<moneyVars, bridgeVars, faults>>

(***************************************************************************)
(* refunded: only a completed order has a credit to take back; the table   *)
(* refuses a debit that the balance cannot pay.                            *)
(***************************************************************************)
Refunded(t, d) ==
  /\ Begin(t, d, "refunded",
           CASE status[d] = "absent" -> "idle"
             [] status[d] = "completed" -> "reverse"
             [] OTHER -> "refund")
  /\ UNCHANGED <<orderVars, moneyVars>>
\* Mutant: the debit is posted without looking at the balance.
ReverseUnchecked(t) ==
  /\ At(t, "reverse")
  /\ Book(debits, task[t].d)
  /\ bal' = IF debits' = debits THEN bal ELSE Posted(bal, -Net)
  /\ Goto(t, "refund")
  /\ UNCHANGED <<orderVars, credits, bridgeVars, faults>>
Reverse(t) ==
  /\ At(t, "reverse")
  /\ IF Postable(bal, -Net) THEN Book(debits, task[t].d) ELSE UNCHANGED debits
  /\ bal' = IF debits' = debits THEN bal ELSE Posted(bal, -Net)
  /\ Goto(t, "refund")
  /\ UNCHANGED <<orderVars, credits, bridgeVars, faults>>
Refund(t) ==
  /\ At(t, "refund")
  /\ SetStatus(task[t].d, "refunded", "refunded")
  /\ Done(t)
  /\ UNCHANGED <<moneyVars, bridgeVars, faults>>

\* handleLiquidationPayment: one INSERT, whatever was booked before.
LiquidationPayment(t, d) ==
  /\ Begin(t, d, "liquidated", "idle")
  /\ Book(credits, d)
  /\ bal' = IF credits' = credits THEN bal ELSE Posted(bal, Net)
  /\ UNCHANGED <<orderVars, debits>>

(***************************************************************************)
(* Outside: Bridge, the client, the death of the process.                  *)
(***************************************************************************)
BridgeMoves(d) ==
  \E to \in Kinds :
    /\ IF route[d] = "liquidated" THEN bridge[d] = "none" /\ to = "liquidated"
       ELSE <<bridge[d], to>> \in Moves
    /\ bridge' = [bridge EXCEPT ![d] = to]
    /\ delivered' = [delivered EXCEPT ![d] = @ \/ to \in {"processed", "liquidated"}]
    /\ inbox' = [inbox EXCEPT ![<<d, to>>] = IF "repeat" \in faults THEN 2 ELSE 1]
    /\ UNCHANGED <<orderVars, moneyVars, faults, task>>
Spend ==
  /\ "spend" \in faults
  /\ bal.available > 0
  /\ bal' = Posted(bal, -bal.available)
  /\ UNCHANGED <<orderVars, credits, debits, bridgeVars, faults, task>>
Crash ==
  /\ "crash" \in faults
  /\ \E t \in Tasks : ~At(t, "idle")
  /\ task' = [t \in Tasks |-> Idle]
  /\ UNCHANGED <<orderVars, moneyVars, bridgeVars, faults>>

Webhook(t, d) ==
  \/ FundsReceived(t, d) \/ PaymentSubmitted(t, d) \/ PaymentProcessed(t, d)
  \/ Refunded(t, d) \/ LiquidationPayment(t, d)
  \/ \E kind \in Notices : Notice(t, d, kind)
Step(t) ==
  \/ InsertPending(t) \/ InsertSwept(t) \/ SweepIn(t) \/ SweepOut(t)
  \/ Late(t) \/ Credit(t) \/ Complete(t) \/ Reverse(t) \/ Refund(t)

Next ==
  \/ \E t \in Tasks : Step(t)
  \/ \E t \in Tasks, d \in Deposits : Webhook(t, d)
  \/ \E d \in Deposits : BridgeMoves(d)
  \/ Spend
  \/ Crash

Spec == Init /\ [][Next]_vars

(***************************************************************************)
(* Properties.                                                             *)
(***************************************************************************)
TypeOK ==
  /\ faults \in Worlds
  /\ route \in [Deposits -> {"internal", "swept", "liquidated"}]
  /\ status \in [Deposits -> Statuses]
  /\ step \in [Deposits -> DOMAIN Rank]
  /\ credits \in [Deposits -> Nat] /\ debits \in [Deposits -> Nat]
  /\ bal \in Balance
  /\ bridge \in [Deposits -> DOMAIN Rank]
  /\ delivered \in [Deposits -> BOOLEAN]
  /\ inbox \in [Deposits \X Kinds -> Nat]
  /\ task \in [Tasks -> [pc : Pcs, d : Deposits]]

Internal == {d \in Deposits : route[d] # "swept"}

\* However its events come, a deposit is credited only after Bridge delivered
\* it (handleVaFundsReceived: "NO acreditamos balance aqui").  Without a crash
\* between the credit and the UPDATE, and one webhook at a time, it is
\* credited once, however often its events are handled; a liquidation has
\* nothing that tells a second handling from a first.
DepositsCreditedOnce ==
  \A d \in Internal :
    /\ credits[d] > 0 => delivered[d]
    /\ /\ faults \cap {"overlap", "crash"} = {}
       /\ route[d] = "liquidated" => "repeat" \notin faults
       => credits[d] =< 1

\* When everything has been handled in order, the ledger holds what Bridge
\* delivered and did not take back; a sweep leaves nothing.
AtRest(d) ==
  /\ \A t \in Tasks : At(t, "idle") \/ task[t].d # d
  /\ \A k \in Kinds : inbox[<<d, k>>] = 0
Kept(d) == IF d \in Internal /\ delivered[d] /\ bridge[d] # "refunded" THEN 1 ELSE 0
DepositsAddUp ==
  faults \subseteq {"repeat"} =>
    \A d \in Deposits :
      AtRest(d) /\ (route[d] = "liquidated" => "repeat" \notin faults)
        => credits[d] - debits[d] = Kept(d)
=============================================================================
