----------------------------- MODULE MCPayouts -----------------------------
(***************************************************************************)
(* Small instances of Payouts: a large payout and a small one.  The Ops    *)
(* and Faults of a scenario are in each .cfg.                              *)
(***************************************************************************)
EXTENDS PayoutMoney, TLC
CONSTANTS large, small, t1, t2

One == {large}
Two == {large, small}
LargeOnes == {large}
MCTasks == {t1, t2}
MCSymmetry == Permutations(MCTasks)

LargeCost == [p \in One |-> 2]
Once == [k \in Kinds |-> 1]
FailedTwice == [k \in Kinds |-> IF k = "failed" THEN 2 ELSE 1]
=============================================================================
