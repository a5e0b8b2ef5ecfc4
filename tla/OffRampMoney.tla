---------------------------- MODULE OffRampMoney ----------------------------
(***************************************************************************)
(* The money of OffRampOrders: what the balance must say about the orders. *)
(* These properties sum over the orders.                                   *)
(***************************************************************************)
EXTENDS OffRampOrders, FiniteSetsExt

\* Nothing is in flight: what the tables say now is what a person reads.
Quiet == \A t \in Tasks : At(t, "idle")

\* The order still has a claim on the reserved part of the balance: it waits
\* for its transfer, or its debit waits for Bridge.
Holds(o) ==
  \/ debit[o] = "pending"
  \/ debit[o] = "none" /\ status[o] \in Active

Held == MapThenSumSet(LAMBDA o : Amount[o], {o \in Orders : Holds(o)})

\* Between requests, what is reserved is exactly what the open orders hold:
\* no reserve is stranded on a closed order and none is given back twice.
ReserveMatchesOrders == Quiet => bal.reserved = Held

\* A refund answers a debit that was taken, and answers it once.
RefundsAnswerDebits ==
  Quiet => \A o \in Orders :
             credits[o] =< 1 /\ (credits[o] = 1 => debit[o] = "settled")

\* runReconciliation: the balance is the deposit less the settled debits
\* plus the settled credits.
Reconciled ==
  bal.amount = Deposit
    - MapThenSumSet(LAMBDA o : Amount[o], {o \in Orders : debit[o] = "settled"})
    + MapThenSumSet(LAMBDA o : credits[o] * Amount[o], Orders)

=============================================================================
