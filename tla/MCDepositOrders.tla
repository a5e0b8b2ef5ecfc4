-------------------------- MODULE MCDepositOrders --------------------------
(***************************************************************************)
(* Small instances of DepositOrders.  The flows, Ops and Faults of a       *)
(* scenario are in each .cfg.                                              *)
(***************************************************************************)
EXTENDS DepositOrders, TLC
CONSTANTS a, b, t1, t2

One == {a}
Two == {a, b}
MCTasks == {t1, t2}
MCSymmetry == Permutations(MCTasks)

\* How often the events of each kind are handled
Once == [k \in Kinds |-> 1]
CompleteTwice == [k \in Kinds |-> IF k = "complete" THEN 2 ELSE 1]
=============================================================================
