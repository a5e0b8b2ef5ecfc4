------------------------------ MODULE MCExact ------------------------------
(***************************************************************************)
(* What holds exactly when no two handlers share a row, no answer is lost  *)
(* and the process lives: payouts, a large one and a small one, and the    *)
(* onboarding of a client.  A behaviour is one of the part chosen in its   *)
(* first state; the variables of the other part keep their first values.   *)
(***************************************************************************)
EXTENDS PayoutMoney

CONSTANTS large, small, t1, t2, MaxApps, MaxEvents, Handlers, ClientOps, ClientFaults

VARIABLES part,
          app, profile, linked, wallets, reported, activated,
          clientReview, customer, events, handler

Two == {large, small}
LargeOnes == {large}
MCTasks == {t1, t2}
OneHandler == {t1}
MCCost == [p \in Two |-> IF p = large THEN 2 ELSE 1]
Once == [k \in Kinds |-> 1]

O == INSTANCE Onboarding WITH
       Tasks <- Handlers, Ops <- ClientOps, Faults <- ClientFaults,
       review <- clientReview, bridge <- customer, inbox <- events, task <- handler

ASSUME ClientAssumption == O!BoundsAssumption

Paying == part = "payouts"
Joining == part = "onboarding"
clientVars == <<app, clientReview, profile, linked, wallets, reported,
                customer, events, activated, handler>>
MCvars == <<part, vars, clientVars>>
Pays(A) == Paying /\ A /\ UNCHANGED <<part, clientVars>>
Joins(A) == Joining /\ A /\ UNCHANGED <<part, vars>>

MCInit == part \in {"payouts", "onboarding"} /\ Init /\ O!Init
MCNext == Pays(Next) \/ Joins(O!Next)

\* The fairness of either module.
MCFairness ==
  /\ \A t \in Tasks : WF_MCvars(Pays(Step(t)))
  /\ \A p \in Payouts : SF_MCvars(Pays(\E t \in Tasks : Webhook(t, p)))
  /\ \A t \in Handlers : WF_MCvars(Joins(O!Step(t)))
  /\ SF_MCvars(Joins(\E t \in Handlers : O!Webhook(t)))
MCSpec == MCInit /\ [][MCNext]_MCvars /\ MCFairness

\* At rest application, review and profile agree with Bridge's verdict
\* (handleCustomerUpdated and the decisions of staff).
TablesAgree == O!TablesAgree
\* A client whose customer Bridge activates ends as approved
\* (handleCustomerUpdated).
ActiveIsApproved == O!ActiveIsApproved
=============================================================================
