------------------------------ MODULE MCOffRamp ------------------------------
(***************************************************************************)
(* Small instances of OffRampOrders.  The scenario (Ops, Faults) and the   *)
(* deposit are in each .cfg.                                               *)
(***************************************************************************)
EXTENDS OffRampMoney, TLC
CONSTANTS a, b, t1, t2

MCTasks == {t1, t2}
MCSymmetry == Permutations(MCTasks)

\* One order
One == {a}
OneAmount == a :> 2
OneRoute == a :> 1
OneDirect == a :> "direct"
OneFiatBo == a :> "fiat_bo"

\* Two orders of different amounts on one balance
Two == {a, b}
TwoAmounts == (a :> 2) @@ (b :> 1)
TwoRoutes == (a :> 1) @@ (b :> 2)
SameRoute == (a :> 1) @@ (b :> 1)
FiatBoAndDirect == (a :> "fiat_bo") @@ (b :> "direct")
PeruAndDirect == (a :> "peru") @@ (b :> "direct")

\* How often the events of each kind are handled
Once == [k \in Kinds |-> 1]
Twice == [k \in Kinds |-> 2]
CompleteTwice == [k \in Kinds |-> IF k = "complete" THEN 2 ELSE 1]
=============================================================================
