------------------------- MODULE Onboarding_proofs -------------------------
(***************************************************************************)
(* Proofs about Onboarding, for any number of applications and of tasks,   *)
(* any requests and any faults.                                            *)
(***************************************************************************)
EXTENDS Onboarding, FiniteSetTheorems, SequenceTheorems, TLAPS

\* The tasks that an activation started, those that need a stored customer,
\* and the events an inbox may hold so far.
ApprovingPcs == {"aFind", "aApp", "lApp", "aProfile", "aWallets", "aReview"}
LinkedPcs == {"pending", "put", "resent", "cProfile"}
Announced == IF activated THEN Events ELSE Events \ {"active", "link"}

(***************************************************************************)
(* The inductive invariant.  The profile is approved by the last of the    *)
(* steps an event starts, so the invariant follows the activation from     *)
(* Bridge through the inbox and those steps; likewise the customer.        *)
(***************************************************************************)
Activation ==
  /\ activated => bridge # "none"
  /\ inbox \in Seq(Announced)
  /\ \A t \in Tasks : task[t].pc \in ApprovingPcs => activated
  /\ ApprovedByBridge
Customer ==
  /\ linked \/ inbox # <<>> => bridge # "none"
  /\ \A t \in Tasks : task[t].pc \in LinkedPcs => linked
  /\ \A t \in Tasks : task[t].pc = "store" => bridge # "none"
  /\ profile = "pending_bridge" => linked
OnboardingInv == TypeOK /\ Activation /\ Customer

LEMMA LatestType == TypeOK => Latest \in 0..MaxApps
<1> SUFFICES ASSUME TypeOK PROVE Latest \in 0..MaxApps
    OBVIOUS
<1> DEFINE Rows == {a \in Apps : app[a] # "none"}
<1>1. IsFiniteSet(Apps) /\ Cardinality(Apps) = MaxApps
  <2>1. MaxApps \in Nat
    BY BoundsAssumption
  <2> QED
    BY <2>1, FS_Interval, 1 \in Int, MaxApps - 1 + 1 = MaxApps DEF Apps
<1>2. Rows \subseteq Apps
  OBVIOUS
<1>3. Cardinality(Rows) =< Cardinality(Apps) /\ IsFiniteSet(Rows)
  BY <1>1, <1>2, FS_Subset, FS_CardinalityType
<1>4. Cardinality(Rows) \in Nat
  BY <1>3, FS_CardinalityType
<1> QED
  BY <1>1, <1>3, <1>4, BoundsAssumption DEF Latest

\* An event is taken from the inbox, and the rest keeps its type.
LEMMA TakeType ==
  ASSUME NEW S, inbox \in Seq(S), NEW t \in Tasks, NEW event, Take(t, event)
  PROVE  /\ event \in S /\ inbox # <<>> /\ inbox' \in Seq(S)
         /\ UNCHANGED <<bridge, activated>>
<1>1. PICK i \in 1..Len(inbox) :
        /\ inbox[i] = event
        /\ inbox' = Without(i) \/ UNCHANGED inbox
  BY DEF Take
<1>2. Len(inbox) \in Nat /\ inbox[i] \in S
  BY <1>1, LenProperties
<1>3. Without(i) \in Seq(S)
  <2>1. SubSeq(inbox, 1, i - 1) \in Seq(S)
    BY <1>2, SubSeqProperties, i - 1 \in 0..Len(inbox)
  <2>2. SubSeq(inbox, i + 1, Len(inbox)) \in Seq(S)
    BY <1>2, SubSeqProperties
  <2> QED
    BY <2>1, <2>2, ConcatProperties DEF Without
<1>4. inbox # <<>>
  BY <1>2
<1> QED
  BY <1>1, <1>2, <1>3, <1>4 DEF Take

LEMMA ShortSeq ==
  ASSUME NEW S, NEW x \in S, NEW y \in S
  PROVE  <<x>> \in Seq(S) /\ <<x, y>> \in Seq(S)
OBVIOUS

LEMMA InitInv == Init => OnboardingInv
<1> SUFFICES ASSUME Init PROVE OnboardingInv
    OBVIOUS
<1>1. <<>> \in Seq(Events) /\ <<>> \in Seq(Announced)
  BY EmptySeq
<1>2. Apps # {} /\ 1 \in Apps
  BY BoundsAssumption DEF Apps
<1>3. TypeOK
  BY <1>1, <1>2 DEF Init, TypeOK, Idle, Pcs, WebhookPcs, AppStatuses, ProfileStatuses
<1> QED
  BY <1>1, <1>3 DEF Init, OnboardingInv, Activation, Customer, ApprovedByBridge,
    ApprovingPcs, LinkedPcs, Idle

USE DEF OnboardingInv
\* A call that reached Bridge leaves a customer there and activates nobody.
LEMMA ReachedType ==
  ASSUME OnboardingInv, Reached
  PROVE  /\ bridge' \in {"checking", "issues", "active", "rejected"}
         /\ activated' = activated
         /\ inbox' \in Seq(Events) /\ inbox' \in Seq(Announced)
<1>1. inbox \in Seq(Events) /\ inbox \in Seq(Announced)
  BY DEF TypeOK, Activation
<1>2. "created" \in Events /\ "created" \in Announced
  BY DEF Events, Announced
<1>3. CASE linked
  BY <1>1, <1>3 DEF Reached, Updated, Customer, TypeOK
<1>4. CASE ~linked
  <2>1. Append(inbox, "created") \in Seq(Events)
    BY <1>1, <1>2, AppendProperties
  <2>2. Append(inbox, "created") \in Seq(Announced)
    BY <1>1, <1>2, AppendProperties
  <2>3. Registered /\ activated' = activated
    BY <1>4 DEF Reached
  <2> QED
    BY <1>1, <2>1, <2>2, <2>3 DEF Registered, TypeOK
<1> QED
  BY <1>3, <1>4

LEMMA StepInv ==
  ASSUME OnboardingInv, NEW t \in Tasks, Step(t)
  PROVE  OnboardingInv'
<1>0. 1 \in Apps /\ task[t].a \in Apps
  BY BoundsAssumption DEF Apps, TypeOK
<1>1. CASE Started(t)
  <2>1. TypeOK'
    BY <1>1, <1>0
    DEF Started, TypeOK, Start, Goto, Done, At, Idle, SetApp, SetReview, Pcs,
    WebhookPcs, AppStatuses, ProfileStatuses, rowVars, bridgeVars
  <2>2. Activation'
    BY <1>1, <1>0
    DEF Started, Activation, Customer, ApprovedByBridge, Announced, ApprovingPcs,
    LinkedPcs, Start, Goto, Done, At, Idle, SetApp, SetReview, TypeOK, rowVars,
    bridgeVars
  <2>3. Customer'
    BY <1>1, <1>0
    DEF Started, Activation, Customer, ApprovedByBridge, Announced, ApprovingPcs,
    LinkedPcs, Start, Goto, Done, At, Idle, SetApp, SetReview, TypeOK, rowVars,
    bridgeVars
  <2> QED
    BY <2>1, <2>2, <2>3
<1>2. CASE Submitted(t)
  <2>1. TypeOK'
    BY <1>2, <1>0
    DEF Submitted, TypeOK, Start, Goto, Done, At, Idle, SetApp, SetReview, Pcs,
    WebhookPcs, AppStatuses, ProfileStatuses, rowVars, bridgeVars
  <2>2. Activation'
    BY <1>2, <1>0
    DEF Submitted, Activation, Customer, ApprovedByBridge, Announced, ApprovingPcs,
    LinkedPcs, Start, Goto, Done, At, Idle, SetApp, SetReview, TypeOK, rowVars,
    bridgeVars
  <2>3. Customer'
    BY <1>2, <1>0
    DEF Submitted, Activation, Customer, ApprovedByBridge, Announced, ApprovingPcs,
    LinkedPcs, Start, Goto, Done, At, Idle, SetApp, SetReview, TypeOK, rowVars,
    bridgeVars
  <2> QED
    BY <2>1, <2>2, <2>3
<1>3. CASE InReview(t)
  <2>1. TypeOK'
    BY <1>3, <1>0
    DEF InReview, TypeOK, Start, Goto, Done, At, Idle, SetApp, SetReview, Pcs,
    WebhookPcs, AppStatuses, ProfileStatuses, rowVars, bridgeVars
  <2>2. Activation'
    BY <1>3, <1>0
    DEF InReview, Activation, Customer, ApprovedByBridge, Announced, ApprovingPcs,
    LinkedPcs, Start, Goto, Done, At, Idle, SetApp, SetReview, TypeOK, rowVars,
    bridgeVars
  <2>3. Customer'
    BY <1>3, <1>0
    DEF InReview, Activation, Customer, ApprovedByBridge, Announced, ApprovingPcs,
    LinkedPcs, Start, Goto, Done, At, Idle, SetApp, SetReview, TypeOK, rowVars,
    bridgeVars
  <2> QED
    BY <2>1, <2>2, <2>3
<1>4. CASE Send(t)
  <2>1. TypeOK'
    BY <1>4, <1>0
    DEF Send, TypeOK, Start, Goto, Done, At, Idle, SetApp, SetReview, Pcs, WebhookPcs,
    AppStatuses, ProfileStatuses, rowVars, bridgeVars
  <2>2. Activation'
    BY <1>4, <1>0
    DEF Send, Activation, Customer, ApprovedByBridge, Announced, ApprovingPcs,
    LinkedPcs, Start, Goto, Done, At, Idle, SetApp, SetReview, TypeOK, rowVars,
    bridgeVars
  <2>3. Customer'
    BY <1>4, <1>0
    DEF Send, Activation, Customer, ApprovedByBridge, Announced, ApprovingPcs,
    LinkedPcs, Start, Goto, Done, At, Idle, SetApp, SetReview, TypeOK, rowVars,
    bridgeVars
  <2> QED
    BY <2>1, <2>2, <2>3
<1>5. CASE RegisterCustomer(t)
  <2>0. /\ bridge' \in {"checking", "issues", "active", "rejected"}
        /\ activated' = activated /\ UNCHANGED rowVars
        /\ inbox' \in Seq(Events) /\ inbox' \in Seq(Announced)
        /\ Goto(t, IF linked THEN "pending" ELSE "store")
    BY <1>5, ReachedType DEF RegisterCustomer
  <2>1. TypeOK'
    BY <1>0, <2>0 DEF Goto, Start, Idle, TypeOK, Pcs, rowVars
  <2>2. Activation'
    BY <2>0 DEF Activation, ApprovedByBridge, Announced, ApprovingPcs, Goto, Start,
      Idle, TypeOK, rowVars
  <2>3. Customer'
    BY <2>0 DEF Customer, LinkedPcs, Goto, Start, Idle, TypeOK, rowVars
  <2> QED
    BY <2>1, <2>2, <2>3
<1>6. CASE RegisterFails(t)
  <2>0. /\ bridge' \in {"none", "checking", "issues", "active", "rejected"}
        /\ bridge # "none" => bridge' # "none"
        /\ activated' = activated /\ UNCHANGED rowVars
        /\ inbox' \in Seq(Events) /\ inbox' \in Seq(Announced)
        /\ inbox' # <<>> => bridge' # "none"
        /\ Goto(t, "returned")
    <3>1. inbox \in Seq(Events) /\ inbox \in Seq(Announced)
      BY DEF TypeOK, Activation
    <3>2. CASE UNCHANGED bridgeVars
      BY <1>6, <3>1, <3>2 DEF RegisterFails, bridgeVars, TypeOK, Customer
    <3>3. CASE Reached
      BY <1>6, <3>3, ReachedType DEF RegisterFails
    <3> QED
      BY <1>6, <3>2, <3>3 DEF RegisterFails
  <2>1. TypeOK'
    BY <1>0, <2>0 DEF Goto, Start, Idle, TypeOK, Pcs, rowVars
  <2>2. Activation'
    BY <2>0 DEF Activation, ApprovedByBridge, Announced, ApprovingPcs, Goto, Start,
      Idle, TypeOK, rowVars
  <2>3. Customer'
    BY <2>0 DEF Customer, LinkedPcs, Goto, Start, Idle, TypeOK, rowVars
  <2> QED
    BY <2>1, <2>2, <2>3
<1>7. CASE Returned(t)
  <2>1. TypeOK'
    BY <1>7, <1>0
    DEF Returned, TypeOK, Start, Goto, Done, At, Idle, SetApp, SetReview, Pcs,
    WebhookPcs, AppStatuses, ProfileStatuses, rowVars, bridgeVars
  <2>2. Activation'
    BY <1>7, <1>0
    DEF Returned, Activation, Customer, ApprovedByBridge, Announced, ApprovingPcs,
    LinkedPcs, Start, Goto, Done, At, Idle, SetApp, SetReview, TypeOK, rowVars,
    bridgeVars
  <2>3. Customer'
    BY <1>7, <1>0
    DEF Returned, Activation, Customer, ApprovedByBridge, Announced, ApprovingPcs,
    LinkedPcs, Start, Goto, Done, At, Idle, SetApp, SetReview, TypeOK, rowVars,
    bridgeVars
  <2> QED
    BY <2>1, <2>2, <2>3
<1>8. CASE StoreCustomer(t)
  <2>1. TypeOK'
    BY <1>8, <1>0
    DEF StoreCustomer, TypeOK, Start, Goto, Done, At, Idle, SetApp, SetReview, Pcs,
    WebhookPcs, AppStatuses, ProfileStatuses, rowVars, bridgeVars
  <2>2. Activation'
    BY <1>8, <1>0
    DEF StoreCustomer, Activation, Customer, ApprovedByBridge, Announced, ApprovingPcs,
    LinkedPcs, Start, Goto, Done, At, Idle, SetApp, SetReview, TypeOK, rowVars,
    bridgeVars
  <2>3. Customer'
    BY <1>8, <1>0
    DEF StoreCustomer, Activation, Customer, ApprovedByBridge, Announced, ApprovingPcs,
    LinkedPcs, Start, Goto, Done, At, Idle, SetApp, SetReview, TypeOK, rowVars,
    bridgeVars
  <2> QED
    BY <2>1, <2>2, <2>3
<1>9. CASE PendingBridge(t)
  <2>1. TypeOK'
    BY <1>9, <1>0
    DEF PendingBridge, TypeOK, Start, Goto, Done, At, Idle, SetApp, SetReview, Pcs,
    WebhookPcs, AppStatuses, ProfileStatuses, rowVars, bridgeVars
  <2>2. Activation'
    BY <1>9, <1>0
    DEF PendingBridge, Activation, Customer, ApprovedByBridge, Announced, ApprovingPcs,
    LinkedPcs, Start, Goto, Done, At, Idle, SetApp, SetReview, TypeOK, rowVars,
    bridgeVars
  <2>3. Customer'
    BY <1>9, <1>0
    DEF PendingBridge, Activation, Customer, ApprovedByBridge, Announced, ApprovingPcs,
    LinkedPcs, Start, Goto, Done, At, Idle, SetApp, SetReview, TypeOK, rowVars,
    bridgeVars
  <2> QED
    BY <2>1, <2>2, <2>3
<1>10. CASE UpdateCustomer(t)
  <2>1. TypeOK'
    BY <1>10, <1>0
    DEF UpdateCustomer, Updated, TypeOK, Start, Goto, Done, At, Idle, SetApp,
    SetReview, Pcs, WebhookPcs, AppStatuses, ProfileStatuses, rowVars, bridgeVars
  <2>2. Activation'
    BY <1>10, <1>0
    DEF UpdateCustomer, Updated, Activation, Customer, ApprovedByBridge, Announced,
    ApprovingPcs, LinkedPcs, Start, Goto, Done, At, Idle, SetApp, SetReview, TypeOK,
    rowVars, bridgeVars
  <2>3. Customer'
    BY <1>10, <1>0
    DEF UpdateCustomer, Updated, Activation, Customer, ApprovedByBridge, Announced,
    ApprovingPcs, LinkedPcs, Start, Goto, Done, At, Idle, SetApp, SetReview, TypeOK,
    rowVars, bridgeVars
  <2> QED
    BY <2>1, <2>2, <2>3
<1>11. CASE UpdateFails(t)
  <2>1. TypeOK'
    BY <1>11, <1>0
    DEF UpdateFails, Updated, TypeOK, Start, Goto, Done, At, Idle, SetApp, SetReview,
    Pcs, WebhookPcs, AppStatuses, ProfileStatuses, rowVars, bridgeVars
  <2>2. Activation'
    BY <1>11, <1>0
    DEF UpdateFails, Updated, Activation, Customer, ApprovedByBridge, Announced,
    ApprovingPcs, LinkedPcs, Start, Goto, Done, At, Idle, SetApp, SetReview, TypeOK,
    rowVars, bridgeVars
  <2>3. Customer'
    BY <1>11, <1>0
    DEF UpdateFails, Updated, Activation, Customer, ApprovedByBridge, Announced,
    ApprovingPcs, LinkedPcs, Start, Goto, Done, At, Idle, SetApp, SetReview, TypeOK,
    rowVars, bridgeVars
  <2> QED
    BY <2>1, <2>2, <2>3
<1>12. CASE Resent(t)
  <2>1. TypeOK'
    BY <1>12, <1>0
    DEF Resent, TypeOK, Start, Goto, Done, At, Idle, SetApp, SetReview, Pcs,
    WebhookPcs, AppStatuses, ProfileStatuses, rowVars, bridgeVars
  <2>2. Activation'
    BY <1>12, <1>0
    DEF Resent, Activation, Customer, ApprovedByBridge, Announced, ApprovingPcs,
    LinkedPcs, Start, Goto, Done, At, Idle, SetApp, SetReview, TypeOK, rowVars,
    bridgeVars
  <2>3. Customer'
    BY <1>12, <1>0
    DEF Resent, Activation, Customer, ApprovedByBridge, Announced, ApprovingPcs,
    LinkedPcs, Start, Goto, Done, At, Idle, SetApp, SetReview, TypeOK, rowVars,
    bridgeVars
  <2> QED
    BY <2>1, <2>2, <2>3
<1>13. CASE CloseReview(t)
  <2>1. TypeOK'
    BY <1>13, <1>0
    DEF CloseReview, TypeOK, Start, Goto, Done, At, Idle, SetApp, SetReview, Pcs,
    WebhookPcs, AppStatuses, ProfileStatuses, rowVars, bridgeVars
  <2>2. Activation'
    BY <1>13, <1>0
    DEF CloseReview, Activation, Customer, ApprovedByBridge, Announced, ApprovingPcs,
    LinkedPcs, Start, Goto, Done, At, Idle, SetApp, SetReview, TypeOK, rowVars,
    bridgeVars
  <2>3. Customer'
    BY <1>13, <1>0
    DEF CloseReview, Activation, Customer, ApprovedByBridge, Announced, ApprovingPcs,
    LinkedPcs, Start, Goto, Done, At, Idle, SetApp, SetReview, TypeOK, rowVars,
    bridgeVars
  <2> QED
    BY <2>1, <2>2, <2>3
<1>14. CASE RejectApp(t)
  <2>1. TypeOK'
    BY <1>14, <1>0
    DEF RejectApp, TypeOK, Start, Goto, Done, At, Idle, SetApp, SetReview, Pcs,
    WebhookPcs, AppStatuses, ProfileStatuses, rowVars, bridgeVars
  <2>2. Activation'
    BY <1>14, <1>0
    DEF RejectApp, Activation, Customer, ApprovedByBridge, Announced, ApprovingPcs,
    LinkedPcs, Start, Goto, Done, At, Idle, SetApp, SetReview, TypeOK, rowVars,
    bridgeVars
  <2>3. Customer'
    BY <1>14, <1>0
    DEF RejectApp, Activation, Customer, ApprovedByBridge, Announced, ApprovingPcs,
    LinkedPcs, Start, Goto, Done, At, Idle, SetApp, SetReview, TypeOK, rowVars,
    bridgeVars
  <2> QED
    BY <2>1, <2>2, <2>3
<1>15. CASE RejectProfile(t)
  <2>1. TypeOK'
    BY <1>15, <1>0
    DEF RejectProfile, TypeOK, Start, Goto, Done, At, Idle, SetApp, SetReview, Pcs,
    WebhookPcs, AppStatuses, ProfileStatuses, rowVars, bridgeVars
  <2>2. Activation'
    BY <1>15, <1>0
    DEF RejectProfile, Activation, Customer, ApprovedByBridge, Announced, ApprovingPcs,
    LinkedPcs, Start, Goto, Done, At, Idle, SetApp, SetReview, TypeOK, rowVars,
    bridgeVars
  <2>3. Customer'
    BY <1>15, <1>0
    DEF RejectProfile, Activation, Customer, ApprovedByBridge, Announced, ApprovingPcs,
    LinkedPcs, Start, Goto, Done, At, Idle, SetApp, SetReview, TypeOK, rowVars,
    bridgeVars
  <2> QED
    BY <2>1, <2>2, <2>3
<1>16. CASE ChangeApp(t)
  <2>1. TypeOK'
    BY <1>16, <1>0
    DEF ChangeApp, TypeOK, Start, Goto, Done, At, Idle, SetApp, SetReview, Pcs,
    WebhookPcs, AppStatuses, ProfileStatuses, rowVars, bridgeVars
  <2>2. Activation'
    BY <1>16, <1>0
    DEF ChangeApp, Activation, Customer, ApprovedByBridge, Announced, ApprovingPcs,
    LinkedPcs, Start, Goto, Done, At, Idle, SetApp, SetReview, TypeOK, rowVars,
    bridgeVars
  <2>3. Customer'
    BY <1>16, <1>0
    DEF ChangeApp, Activation, Customer, ApprovedByBridge, Announced, ApprovingPcs,
    LinkedPcs, Start, Goto, Done, At, Idle, SetApp, SetReview, TypeOK, rowVars,
    bridgeVars
  <2> QED
    BY <2>1, <2>2, <2>3
<1>17. CASE ChangeProfile(t)
  <2>1. TypeOK'
    BY <1>17, <1>0
    DEF ChangeProfile, TypeOK, Start, Goto, Done, At, Idle, SetApp, SetReview, Pcs,
    WebhookPcs, AppStatuses, ProfileStatuses, rowVars, bridgeVars
  <2>2. Activation'
    BY <1>17, <1>0
    DEF ChangeProfile, Activation, Customer, ApprovedByBridge, Announced, ApprovingPcs,
    LinkedPcs, Start, Goto, Done, At, Idle, SetApp, SetReview, TypeOK, rowVars,
    bridgeVars
  <2>3. Customer'
    BY <1>17, <1>0
    DEF ChangeProfile, Activation, Customer, ApprovedByBridge, Announced, ApprovingPcs,
    LinkedPcs, Start, Goto, Done, At, Idle, SetApp, SetReview, TypeOK, rowVars,
    bridgeVars
  <2> QED
    BY <2>1, <2>2, <2>3
<1>18. CASE LinkApproveApps(t)
  <2>1. TypeOK'
    BY <1>18, <1>0
    DEF LinkApproveApps, In, TypeOK, Start, Goto, Done, At, Idle, SetApp, SetReview,
    Pcs, WebhookPcs, AppStatuses, ProfileStatuses, rowVars, bridgeVars
  <2>2. Activation'
    BY <1>18, <1>0
    DEF LinkApproveApps, In, Activation, Customer, ApprovedByBridge, Announced,
    ApprovingPcs, LinkedPcs, Start, Goto, Done, At, Idle, SetApp, SetReview, TypeOK,
    rowVars, bridgeVars
  <2>3. Customer'
    BY <1>18, <1>0
    DEF LinkApproveApps, In, Activation, Customer, ApprovedByBridge, Announced,
    ApprovingPcs, LinkedPcs, Start, Goto, Done, At, Idle, SetApp, SetReview, TypeOK,
    rowVars, bridgeVars
  <2> QED
    BY <2>1, <2>2, <2>3
<1>19. CASE FindApprovable(t)
  <2>1. TypeOK'
    BY <1>19, <1>0
    DEF FindApprovable, In, Approvable, TypeOK, Start, Goto, Done, At, Idle, SetApp,
    SetReview, Pcs, WebhookPcs, AppStatuses, ProfileStatuses, rowVars, bridgeVars
  <2>2. Activation'
    BY <1>19, <1>0
    DEF FindApprovable, In, Approvable, Activation, Customer, ApprovedByBridge,
    Announced, ApprovingPcs, LinkedPcs, Start, Goto, Done, At, Idle, SetApp, SetReview,
    TypeOK, rowVars, bridgeVars
  <2>3. Customer'
    BY <1>19, <1>0
    DEF FindApprovable, In, Approvable, Activation, Customer, ApprovedByBridge,
    Announced, ApprovingPcs, LinkedPcs, Start, Goto, Done, At, Idle, SetApp, SetReview,
    TypeOK, rowVars, bridgeVars
  <2> QED
    BY <2>1, <2>2, <2>3
<1>20. CASE ApproveApp(t)
  <2>1. TypeOK'
    BY <1>20, <1>0
    DEF ApproveApp, TypeOK, Start, Goto, Done, At, Idle, SetApp, SetReview, Pcs,
    WebhookPcs, AppStatuses, ProfileStatuses, rowVars, bridgeVars
  <2>2. Activation'
    BY <1>20, <1>0
    DEF ApproveApp, Activation, Customer, ApprovedByBridge, Announced, ApprovingPcs,
    LinkedPcs, Start, Goto, Done, At, Idle, SetApp, SetReview, TypeOK, rowVars,
    bridgeVars
  <2>3. Customer'
    BY <1>20, <1>0
    DEF ApproveApp, Activation, Customer, ApprovedByBridge, Announced, ApprovingPcs,
    LinkedPcs, Start, Goto, Done, At, Idle, SetApp, SetReview, TypeOK, rowVars,
    bridgeVars
  <2> QED
    BY <2>1, <2>2, <2>3
<1>21. CASE ApproveProfile(t)
  <2>1. TypeOK'
    BY <1>21, <1>0
    DEF ApproveProfile, TypeOK, Start, Goto, Done, At, Idle, SetApp, SetReview, Pcs,
    WebhookPcs, AppStatuses, ProfileStatuses, rowVars, bridgeVars
  <2>2. Activation'
    BY <1>21, <1>0
    DEF ApproveProfile, Activation, Customer, ApprovedByBridge, Announced,
    ApprovingPcs, LinkedPcs, Start, Goto, Done, At, Idle, SetApp, SetReview, TypeOK,
    rowVars, bridgeVars
  <2>3. Customer'
    BY <1>21, <1>0
    DEF ApproveProfile, Activation, Customer, ApprovedByBridge, Announced,
    ApprovingPcs, LinkedPcs, Start, Goto, Done, At, Idle, SetApp, SetReview, TypeOK,
    rowVars, bridgeVars
  <2> QED
    BY <2>1, <2>2, <2>3
<1>22. CASE InitializeWallets(t)
  <2>1. TypeOK'
    BY <1>22, <1>0
    DEF InitializeWallets, TypeOK, Start, Goto, Done, At, Idle, SetApp, SetReview, Pcs,
    WebhookPcs, AppStatuses, ProfileStatuses, rowVars, bridgeVars
  <2>2. Activation'
    BY <1>22, <1>0
    DEF InitializeWallets, Activation, Customer, ApprovedByBridge, Announced,
    ApprovingPcs, LinkedPcs, Start, Goto, Done, At, Idle, SetApp, SetReview, TypeOK,
    rowVars, bridgeVars
  <2>3. Customer'
    BY <1>22, <1>0
    DEF InitializeWallets, Activation, Customer, ApprovedByBridge, Announced,
    ApprovingPcs, LinkedPcs, Start, Goto, Done, At, Idle, SetApp, SetReview, TypeOK,
    rowVars, bridgeVars
  <2> QED
    BY <2>1, <2>2, <2>3
<1>23. CASE CloseApproved(t)
  <2>1. TypeOK'
    BY <1>23, <1>0
    DEF CloseApproved, TypeOK, Start, Goto, Done, At, Idle, SetApp, SetReview, Pcs,
    WebhookPcs, AppStatuses, ProfileStatuses, rowVars, bridgeVars
  <2>2. Activation'
    BY <1>23, <1>0
    DEF CloseApproved, Activation, Customer, ApprovedByBridge, Announced, ApprovingPcs,
    LinkedPcs, Start, Goto, Done, At, Idle, SetApp, SetReview, TypeOK, rowVars,
    bridgeVars
  <2>3. Customer'
    BY <1>23, <1>0
    DEF CloseApproved, Activation, Customer, ApprovedByBridge, Announced, ApprovingPcs,
    LinkedPcs, Start, Goto, Done, At, Idle, SetApp, SetReview, TypeOK, rowVars,
    bridgeVars
  <2> QED
    BY <2>1, <2>2, <2>3
<1>24. CASE FindSent(t)
  <2>1. TypeOK'
    BY <1>24, <1>0
    DEF FindSent, In, TypeOK, Start, Goto, Done, At, Idle, SetApp, SetReview, Pcs,
    WebhookPcs, AppStatuses, ProfileStatuses, rowVars, bridgeVars
  <2>2. Activation'
    BY <1>24, <1>0
    DEF FindSent, In, Activation, Customer, ApprovedByBridge, Announced, ApprovingPcs,
    LinkedPcs, Start, Goto, Done, At, Idle, SetApp, SetReview, TypeOK, rowVars,
    bridgeVars
  <2>3. Customer'
    BY <1>24, <1>0
    DEF FindSent, In, Activation, Customer, ApprovedByBridge, Announced, ApprovingPcs,
    LinkedPcs, Start, Goto, Done, At, Idle, SetApp, SetReview, TypeOK, rowVars,
    bridgeVars
  <2> QED
    BY <2>1, <2>2, <2>3
<1>25. CASE BridgeRejectsApp(t)
  <2>1. TypeOK'
    BY <1>25, <1>0
    DEF BridgeRejectsApp, TypeOK, Start, Goto, Done, At, Idle, SetApp, SetReview, Pcs,
    WebhookPcs, AppStatuses, ProfileStatuses, rowVars, bridgeVars
  <2>2. Activation'
    BY <1>25, <1>0
    DEF BridgeRejectsApp, Activation, Customer, ApprovedByBridge, Announced,
    ApprovingPcs, LinkedPcs, Start, Goto, Done, At, Idle, SetApp, SetReview, TypeOK,
    rowVars, bridgeVars
  <2>3. Customer'
    BY <1>25, <1>0
    DEF BridgeRejectsApp, Activation, Customer, ApprovedByBridge, Announced,
    ApprovingPcs, LinkedPcs, Start, Goto, Done, At, Idle, SetApp, SetReview, TypeOK,
    rowVars, bridgeVars
  <2> QED
    BY <2>1, <2>2, <2>3
<1>26. CASE BridgeRejectsProfile(t)
  <2>1. TypeOK'
    BY <1>26, <1>0
    DEF BridgeRejectsProfile, TypeOK, Start, Goto, Done, At, Idle, SetApp, SetReview,
    Pcs, WebhookPcs, AppStatuses, ProfileStatuses, rowVars, bridgeVars
  <2>2. Activation'
    BY <1>26, <1>0
    DEF BridgeRejectsProfile, Activation, Customer, ApprovedByBridge, Announced,
    ApprovingPcs, LinkedPcs, Start, Goto, Done, At, Idle, SetApp, SetReview, TypeOK,
    rowVars, bridgeVars
  <2>3. Customer'
    BY <1>26, <1>0
    DEF BridgeRejectsProfile, Activation, Customer, ApprovedByBridge, Announced,
    ApprovingPcs, LinkedPcs, Start, Goto, Done, At, Idle, SetApp, SetReview, TypeOK,
    rowVars, bridgeVars
  <2> QED
    BY <2>1, <2>2, <2>3
<1>27. CASE BlockingIssues(t)
  <2>1. TypeOK'
    BY <1>27, <1>0
    DEF BlockingIssues, TypeOK, Start, Goto, Done, At, Idle, SetApp, SetReview, Pcs,
    WebhookPcs, AppStatuses, ProfileStatuses, rowVars, bridgeVars
  <2>2. Activation'
    BY <1>27, <1>0
    DEF BlockingIssues, Activation, Customer, ApprovedByBridge, Announced,
    ApprovingPcs, LinkedPcs, Start, Goto, Done, At, Idle, SetApp, SetReview, TypeOK,
    rowVars, bridgeVars
  <2>3. Customer'
    BY <1>27, <1>0
    DEF BlockingIssues, Activation, Customer, ApprovedByBridge, Announced,
    ApprovingPcs, LinkedPcs, Start, Goto, Done, At, Idle, SetApp, SetReview, TypeOK,
    rowVars, bridgeVars
  <2> QED
    BY <2>1, <2>2, <2>3
<1>28. CASE ReportIssues(t)
  <2>1. TypeOK'
    BY <1>28, <1>0
    DEF ReportIssues, TypeOK, Start, Goto, Done, At, Idle, SetApp, SetReview, Pcs,
    WebhookPcs, AppStatuses, ProfileStatuses, rowVars, bridgeVars
  <2>2. Activation'
    BY <1>28, <1>0
    DEF ReportIssues, Activation, Customer, ApprovedByBridge, Announced, ApprovingPcs,
    LinkedPcs, Start, Goto, Done, At, Idle, SetApp, SetReview, TypeOK, rowVars,
    bridgeVars
  <2>3. Customer'
    BY <1>28, <1>0
    DEF ReportIssues, Activation, Customer, ApprovedByBridge, Announced, ApprovingPcs,
    LinkedPcs, Start, Goto, Done, At, Idle, SetApp, SetReview, TypeOK, rowVars,
    bridgeVars
  <2> QED
    BY <2>1, <2>2, <2>3
<1>29. CASE ResolvedIssues(t)
  <2>1. TypeOK'
    BY <1>29, <1>0
    DEF ResolvedIssues, TypeOK, Start, Goto, Done, At, Idle, SetApp, SetReview, Pcs,
    WebhookPcs, AppStatuses, ProfileStatuses, rowVars, bridgeVars
  <2>2. Activation'
    BY <1>29, <1>0
    DEF ResolvedIssues, Activation, Customer, ApprovedByBridge, Announced,
    ApprovingPcs, LinkedPcs, Start, Goto, Done, At, Idle, SetApp, SetReview, TypeOK,
    rowVars, bridgeVars
  <2>3. Customer'
    BY <1>29, <1>0
    DEF ResolvedIssues, Activation, Customer, ApprovedByBridge, Announced,
    ApprovingPcs, LinkedPcs, Start, Goto, Done, At, Idle, SetApp, SetReview, TypeOK,
    rowVars, bridgeVars
  <2> QED
    BY <2>1, <2>2, <2>3
<1> QED
  BY <1>1, <1>2, <1>3, <1>4, <1>5, <1>6, <1>7, <1>8, <1>9, <1>10, <1>11, <1>12, <1>13,
    <1>14, <1>15, <1>16, <1>17, <1>18, <1>19, <1>20, <1>21, <1>22, <1>23, <1>24, <1>25,
    <1>26, <1>27, <1>28, <1>29
  DEF Step

LEMMA RequestInv ==
  ASSUME OnboardingInv, NEW t \in Tasks,
         CreateKycApplication(t) \/ SubmitKycApplication(t) \/ \E a \in Apps : Staff(t, a)
  PROVE  OnboardingInv'
<1>0. 1 \in Apps /\ (Latest # 0 => Latest \in Apps)
  BY BoundsAssumption, LatestType DEF Apps
<1>1. CASE CreateKycApplication(t)
  <2>1. TypeOK'
    BY <1>0, <1>1 DEF CreateKycApplication, Request, TypeOK, Start, Idle, SetApp,
      Pcs, AppStatuses, bridgeVars
  <2>2. Activation'
    BY <1>1 DEF CreateKycApplication, Request, Activation, ApprovedByBridge,
      Announced, ApprovingPcs, Start, SetApp, TypeOK, bridgeVars
  <2>3. Customer'
    BY <1>1 DEF CreateKycApplication, Request, Customer, LinkedPcs, Start, TypeOK,
      bridgeVars
  <2> QED
    BY <2>1, <2>2, <2>3
<1>2. CASE SubmitKycApplication(t) \/ \E a \in Apps : Staff(t, a)
  <2>1. PICK a \in Apps, pc \in {"submit", "send", "put", "close", "changeApp"} :
          /\ Start(t, pc, a)
          /\ UNCHANGED <<rowVars, bridgeVars>>
          /\ pc = "put" => linked
    BY <1>0, <1>2 DEF SubmitKycApplication, Staff, ApproveReview, ResendToBridge,
      RejectReview, RequestChanges, Request
  <2>2. TypeOK'
    BY <2>1 DEF TypeOK, Start, Idle, Pcs, rowVars, bridgeVars
  <2>3. Activation'
    BY <2>1 DEF Activation, ApprovedByBridge, Announced, ApprovingPcs, Start,
      TypeOK, rowVars, bridgeVars
  <2>4. Customer'
    BY <2>1 DEF Customer, LinkedPcs, Start, TypeOK, rowVars, bridgeVars
  <2> QED
    BY <2>2, <2>3, <2>4
<1> QED
  BY <1>1, <1>2

LEMMA WebhookInv ==
  ASSUME OnboardingInv, NEW t \in Tasks, Webhook(t)
  PROVE  OnboardingInv'
<1>0. inbox \in Seq(Events) /\ inbox \in Seq(Announced) /\ 1 \in Apps
  BY BoundsAssumption DEF TypeOK, Activation, Apps
<1>1. CASE CustomerCreated(t)
  <2>1. Take(t, "created") /\ linked' = TRUE
        /\ UNCHANGED <<app, review, profile, wallets, reported, task>>
    BY <1>1 DEF CustomerCreated
  <2>2. /\ inbox # <<>> /\ inbox' \in Seq(Events) /\ inbox' \in Seq(Announced)
        /\ UNCHANGED <<bridge, activated>>
    BY <1>0, <2>1, TakeType
  <2>3. TypeOK'
    BY <2>1, <2>2 DEF TypeOK
  <2>4. Activation'
    BY <2>1, <2>2 DEF Activation, ApprovedByBridge, Announced
  <2>5. Customer'
    BY <2>1, <2>2 DEF Customer
  <2> QED
    BY <2>3, <2>4, <2>5
<1>2. CASE KycLinkApproved(t)
  <2> DEFINE pc == IF profile = "approved" THEN "idle" ELSE "lApp"
  <2>1. Take(t, "link") /\ Start(t, pc, 1) /\ UNCHANGED rowVars
    BY <1>2 DEF KycLinkApproved
  <2>2. /\ inbox # <<>> /\ inbox' \in Seq(Events) /\ inbox' \in Seq(Announced)
        /\ "link" \in Announced /\ UNCHANGED <<bridge, activated>>
    BY <1>0, <2>1, TakeType
  <2>3. activated
    BY <2>2 DEF Announced
  <2>4. TypeOK'
    BY <1>0, <2>1, <2>2 DEF TypeOK, Start, Idle, Pcs, WebhookPcs, rowVars
  <2>5. Activation'
    BY <2>1, <2>2, <2>3 DEF Activation, ApprovedByBridge, Announced, Start, TypeOK,
      rowVars
  <2>6. Customer'
    BY <2>1, <2>2 DEF Customer, LinkedPcs, Start, Idle, TypeOK, rowVars
  <2> QED
    BY <2>4, <2>5, <2>6
<1>3. ASSUME NEW event \in {"active", "rejected", "issues", "clear"},
             CustomerUpdated(t, event)
      PROVE  OnboardingInv'
  <2>1. /\ Take(t, event) /\ linked' = TRUE /\ Start(t, Handler(event), 1)
        /\ UNCHANGED <<app, review, profile, wallets, reported>>
    BY <1>3 DEF CustomerUpdated
  <2>2. /\ inbox # <<>> /\ inbox' \in Seq(Events) /\ inbox' \in Seq(Announced)
        /\ event \in Announced /\ UNCHANGED <<bridge, activated>>
    BY <1>0, <2>1, TakeType
  <2>3. Handler(event) \in {"idle", "aFind", "bFind", "iMark", "cProfile"}
    BY DEF Handler
  <2>4. Handler(event) = "aFind" => activated
    BY <2>2 DEF Handler, Announced
  <2>5. TypeOK'
    BY <1>0, <2>1, <2>2, <2>3 DEF TypeOK, Start, Idle, Pcs, WebhookPcs
  <2>6. Activation'
    <3>1. \A u \in Tasks : task'[u].pc \in ApprovingPcs => activated
      BY <2>1, <2>3, <2>4 DEF Activation, ApprovingPcs, Start, Idle, TypeOK
    <3> QED
      BY <2>1, <2>2, <3>1 DEF Activation, ApprovedByBridge, Announced
  <2>7. Customer'
    <3>1. \A u \in Tasks : task'[u].pc = "store" => bridge # "none"
      BY <2>1, <2>3 DEF Customer, Start, Idle, TypeOK
    <3> QED
      BY <2>1, <2>2, <3>1 DEF Customer
  <2> QED
    BY <2>5, <2>6, <2>7
<1> QED
  BY <1>1, <1>2, <1>3 DEF Webhook

LEMMA BridgeInv ==
  ASSUME OnboardingInv, NEW to \in {"active", "rejected", "issues", "clear"},
         BridgeRules(to)
  PROVE  OnboardingInv'
<1>1. PICK n \in Notices(to) : inbox' = inbox \o n
  BY DEF BridgeRules
<1>2. /\ bridge # "none" /\ bridge' \in {"checking", "issues", "active", "rejected"}
      /\ activated' = (activated \/ to = "active") /\ UNCHANGED <<rowVars, task>>
  BY DEF BridgeRules, Verdict
<1>3. n \in Seq(Events) /\ n \in Seq(Announced')
  <2> DEFINE S == IF activated' THEN Events ELSE Events \ {"active", "link"}
  <2>1. to \in S /\ to \in Events /\ (to = "active" => "link" \in S /\ "link" \in Events)
    BY <1>2 DEF Events
  <2>2. n = <<to>> \/ (to = "active" /\ (n = <<"link">> \/ n = <<"active", "link">>))
    BY DEF Notices
  <2>3. n \in Seq(S) /\ n \in Seq(Events)
    <3>1. CASE n = <<to>>
      BY <2>1, <3>1, ShortSeq
    <3>2. CASE to = "active" /\ n = <<"link">>
      BY <2>1, <3>2, ShortSeq
    <3>3. CASE to = "active" /\ n = <<"active", "link">>
      BY <2>1, <3>3, ShortSeq
    <3> QED
      BY <2>2, <3>1, <3>2, <3>3
  <2> QED
    BY <2>3 DEF Announced
<1>4. inbox \in Seq(Events) /\ inbox \in Seq(Announced')
  <2>1. Announced \subseteq Announced'
    BY <1>2 DEF Announced
  <2>2. inbox \in Seq(Events) /\ inbox \in Seq(Announced)
    BY DEF TypeOK, Activation
  <2> QED
    BY <2>1, <2>2
<1>5. inbox' \in Seq(Events) /\ inbox' \in Seq(Announced')
  BY <1>1, <1>3, <1>4, ConcatProperties
<1>6. TypeOK'
  BY <1>2, <1>5 DEF TypeOK, rowVars
<1>7. Activation'
  BY <1>2, <1>5 DEF Activation, ApprovedByBridge, rowVars
<1>8. Customer'
  BY <1>2 DEF Customer, rowVars
<1> QED
  BY <1>6, <1>7, <1>8

LEMMA NextInv == OnboardingInv /\ [Next]_vars => OnboardingInv'
<1> SUFFICES ASSUME OnboardingInv, [Next]_vars PROVE OnboardingInv'
    OBVIOUS
<1>1. CASE UNCHANGED vars
  BY <1>1 DEF vars, rowVars, bridgeVars, TypeOK, Activation, Customer,
    ApprovedByBridge, Announced
<1>2. CASE Crash
  <2>1. 1 \in Apps
    BY BoundsAssumption DEF Apps
  <2>2. TypeOK'
    BY <1>2, <2>1 DEF Crash, TypeOK, Idle, Pcs, rowVars, bridgeVars
  <2>3. Activation'
    BY <1>2 DEF Crash, Activation, ApprovedByBridge, Announced, Idle, ApprovingPcs,
      rowVars, bridgeVars
  <2>4. Customer'
    BY <1>2 DEF Crash, Customer, Idle, LinkedPcs, rowVars, bridgeVars
  <2> QED
    BY <2>2, <2>3, <2>4
<1> QED
  BY <1>1, <1>2, StepInv, RequestInv, WebhookInv, BridgeInv DEF Next

(***************************************************************************)
(* Theorems.                                                               *)
(***************************************************************************)
\* Every variable keeps its type: applications only take the statuses that
\* kyc_applications_status_check admits.
THEOREM TypeCorrect == Spec => []TypeOK
<1>1. OnboardingInv => TypeOK
  OBVIOUS
<1> QED
  BY <1>1, InitInv, NextInv, PTL DEF Spec

\* Only Bridge approves a client (handleBridgeApproval), in every order of
\* requests and events and under every fault.
THEOREM OnlyBridgeApproves == Spec => []ApprovedByBridge
<1>1. OnboardingInv => ApprovedByBridge
  BY DEF Activation
<1> QED
  BY <1>1, InitInv, NextInv, PTL DEF Spec

\* A profile that waits for Bridge has its customer there (sendToBridgeSubject
\* registers first and marks the profile last).
THEOREM NobodyWaitsForNothing == Spec => []PendingHasCustomer
<1>1. OnboardingInv => PendingHasCustomer
  BY DEF Customer, PendingHasCustomer
<1> QED
  BY <1>1, InitInv, NextInv, PTL DEF Spec


(***************************************************************************)
(* One request at a time, none of them lost, and Bridge rules while none   *)
(* is served.  What the task at work, if any, says of the one application: *)
(* a customer that Bridge examines has an application it can approve and   *)
(* an open review, so the steps of an activation find both; and what waits *)
(* in the inbox is what Bridge said last.                                  *)
(***************************************************************************)
Orderly ==
  /\ MaxApps = 1
  /\ Faults \cap {"overlap", "late", "lost", "wallets", "crash"} = {}
  /\ Ops \cap {"resubmit", "resendClosed", "reject"} = {}

Requesting == {"started", "submit", "inReview", "send", "post", "returned", "put",
               "changeApp", "changeProfile"}
Reviewing == {"send", "post", "returned", "put", "resent", "changeApp", "changeProfile"}
Examined == {"checking", "issues"}
Waits == {"pending_bridge", "kyc_issues", "approved"}

Said ==
  CASE bridge = "none" -> {}
    [] bridge = "checking" -> {"created", "clear"}
    [] bridge = "issues" -> {"issues"}
    [] bridge = "active" -> {"active", "link"}
    [] bridge = "rejected" -> {"rejected"}

\* Where the customer is in Bridge while a task is at each step.
Meets(k) ==
  /\ k.pc \notin {"close", "rejectApp", "rejectProfile"}
  /\ k.pc \in Requesting => bridge # "active" /\ inbox = <<>>
  /\ k.pc \in {"store", "resent", "pending", "cProfile"} => bridge = "checking"
  /\ k.pc \in {"iMark", "iEvent"} => bridge = "issues"
  /\ k.pc \in {"bFind", "bApp", "bProfile"} => bridge = "rejected"
  /\ k.pc \in ApprovingPcs => bridge = "active"
  /\ bridge # "none" /\ k.pc # "store" => linked

\* What the tables say meanwhile.
Due == app[1] \in Approvable /\ review[1] = "open"
Settled ==
  app[1] = "approved" /\ review[1] = "closed" /\ wallets /\ profile = "approved"
Waiting(k) ==
  /\ k.pc \in Reviewing => review[1] = "open"
  /\ k.pc = "post" => app[1] = "sent_to_bridge"
  /\ bridge \in Examined =>
       /\ review[1] = "open" /\ profile # "approved"
       /\ app[1] \in Approvable \/ k.pc = "resent"
Approving(k) ==
  bridge = "active" =>
    /\ k.pc \in {"aFind", "aApp", "lApp"} => Due
    /\ k.pc \in {"aProfile", "aWallets", "aReview"} =>
         app[1] = "approved" /\ review[1] = "open"
    /\ k.pc \in {"aWallets", "aReview"} => profile = "approved"
    /\ k.pc = "aReview" => wallets
    /\ k.pc = "idle" => Settled \/ (Due /\ profile # "approved" /\ inbox # <<>>)
Rejecting(k) ==
  bridge = "rejected" =>
    /\ app[1] # "none"
    /\ k.pc \in Requesting \/ (k.pc = "idle" /\ inbox = <<>>) => profile \notin Waits
Phase(k) == Meets(k) /\ Waiting(k) /\ Approving(k) /\ Rejecting(k)

Busy(t) == ~At(t, "idle")
Steady ==
  /\ inbox \in Seq(Said)
  /\ Quiet => Phase(Idle)
  /\ \A t \in Tasks : Busy(t) => Phase(task[t])
  /\ \A t, u \in Tasks : Busy(t) /\ Busy(u) => t = u

\* With one application the latest is that one, and a query finds it or nothing.
LEMMA OneApp ==
  ASSUME Orderly, TypeOK
  PROVE  /\ Apps = {1}
         /\ Latest = IF app[1] = "none" THEN 0 ELSE 1
         /\ \A S : /\ In(S) = IF app[1] \in S THEN {1} ELSE {}
                   /\ Cardinality(In(S)) = IF app[1] \in S THEN 1 ELSE 0
<1>1. Apps = {1}
  BY DEF Apps, Orderly
<1>2. \A S : In(S) = IF app[1] \in S THEN {1} ELSE {}
  BY <1>1 DEF In
<1>3. {a \in Apps : app[a] # "none"} = IF app[1] = "none" THEN {} ELSE {1}
  BY <1>1
<1>4. Cardinality({}) = 0 /\ Cardinality({1}) = 1
  BY FS_EmptySet, FS_Singleton
<1> QED
  BY <1>1, <1>2, <1>3, <1>4 DEF Latest

\* A step of task t keeps the invariant if it keeps what its place says.
LEMMA SteadyKept ==
  ASSUME Steady, NEW t \in Tasks, TypeOK,
         \A u \in Tasks : u # t => ~Busy(u) /\ task'[u] = task[u],
         (inbox \in Seq(Said))', Phase(task[t])'
  PROVE  Steady'
<1>1. Quiet' => Phase(Idle)'
  <2>1. ASSUME task'[t].pc = "idle" PROVE Phase(Idle)'
    BY <2>1 DEF Phase, Meets, Waiting, Approving, Rejecting, Idle
  <2> QED
    BY <2>1 DEF Quiet, At
<1>2. \A u \in Tasks : Busy(u)' => u = t
  BY DEF Busy, At
<1> QED
  BY <1>1, <1>2 DEF Steady

LEMMA Went ==
  ASSUME TypeOK, NEW t \in Tasks, NEW pc, NEW a, Start(t, pc, a)
  PROVE  task'[t].pc = pc /\ \A u \in Tasks : u # t => task'[u] = task[u]
BY DEF Start, TypeOK, Idle

(***************************************************************************)
(* The steps of a task.                                                    *)
(***************************************************************************)
LEMMA StepSteady ==
  ASSUME Orderly, OnboardingInv, Steady, NEW t \in Tasks, Step(t)
  PROVE  Steady'
<1>1. Busy(t)
  BY DEF Step, Busy, At, Started, Submitted, InReview, Send, RegisterCustomer,
    RegisterFails, Returned, StoreCustomer, PendingBridge, UpdateCustomer, UpdateFails,
    Resent, CloseReview, RejectApp, RejectProfile, ChangeApp, ChangeProfile,
    LinkApproveApps, FindApprovable, ApproveApp, ApproveProfile, InitializeWallets,
    CloseApproved, FindSent, BridgeRejectsApp, BridgeRejectsProfile, BlockingIssues,
    ReportIssues, ResolvedIssues
<1>2. /\ TypeOK /\ Customer /\ Activation /\ ApprovedByBridge
      /\ Phase(task[t]) /\ inbox \in Seq(Said)
      /\ task[t].pc \in Pcs /\ task[t].a = 1
      /\ Apps = {1} /\ app \in [{1} -> AppStatuses]
      /\ review \in [{1} -> {"none", "open", "closed"}]
      /\ Latest = IF app[1] = "none" THEN 0 ELSE 1
      /\ bridge \in {"none", "checking", "issues", "active", "rejected"}
  BY <1>1, OneApp DEF OnboardingInv, Activation, TypeOK, Steady
<1>3. \A S : /\ In(S) = IF app[1] \in S THEN {1} ELSE {}
             /\ Cardinality(In(S)) = IF app[1] \in S THEN 1 ELSE 0
  BY <1>2, OneApp
<1>4. ASSUME \A u \in Tasks : u # t => task'[u] = task[u],
             (inbox \in Seq(Said))', Phase(task[t])'
      PROVE  Steady'
  BY <1>1, <1>2, <1>4, SteadyKept DEF Steady
<1>5. <<>> \in Seq(Said') /\ \A x \in Said' : <<x>> \in Seq(Said')
  BY EmptySeq
<1>6. CASE Started(t)
  <2>1. task'[t].pc = "idle" /\ \A u \in Tasks : u # t => task'[u] = task[u]
    BY <1>6, <1>2, Went DEF Started, Goto, Done
  <2>3. (inbox \in Seq(Said))'
    BY <1>6, <1>2 DEF Started, Said, bridgeVars, Orderly
  <2>4. Phase(task[t])'
    BY <1>6, <1>2, <1>3, <2>1 DEF Started, Phase, Meets, Waiting, Approving, Rejecting,
      Due, Settled, At, Requesting, Reviewing, Examined, Waits, ApprovingPcs,
      Approvable, AppStatuses, rowVars, bridgeVars, SetApp, SetReview
  <2> QED
    BY <1>4, <2>1, <2>3, <2>4
<1>7. CASE Submitted(t)
  <2>1. task'[t].pc = "inReview" /\ \A u \in Tasks : u # t => task'[u] = task[u]
    BY <1>7, <1>2, Went DEF Submitted, Goto, Done
  <2>3. (inbox \in Seq(Said))'
    BY <1>7, <1>2 DEF Submitted, Said, bridgeVars, Orderly
  <2>4. Phase(task[t])'
    BY <1>7, <1>2, <1>3, <2>1 DEF Submitted, Phase, Meets, Waiting, Approving,
      Rejecting, Due, Settled, At, Requesting, Reviewing, Examined, Waits,
      ApprovingPcs, Approvable, AppStatuses, rowVars, bridgeVars, SetApp, SetReview
  <2> QED
    BY <1>4, <2>1, <2>3, <2>4
<1>8. CASE InReview(t)
  <2>1. task'[t].pc = "idle" /\ \A u \in Tasks : u # t => task'[u] = task[u]
    BY <1>8, <1>2, Went DEF InReview, Goto, Done
  <2>3. (inbox \in Seq(Said))'
    BY <1>8, <1>2 DEF InReview, Said, bridgeVars, Orderly
  <2>4. Phase(task[t])'
    BY <1>8, <1>2, <1>3, <2>1 DEF InReview, Phase, Meets, Waiting, Approving,
      Rejecting, Due, Settled, At, Requesting, Reviewing, Examined, Waits,
      ApprovingPcs, Approvable, AppStatuses, rowVars, bridgeVars, SetApp, SetReview
  <2> QED
    BY <1>4, <2>1, <2>3, <2>4
<1>9. CASE Send(t)
  <2>1. task'[t].pc = "post" /\ \A u \in Tasks : u # t => task'[u] = task[u]
    BY <1>9, <1>2, Went DEF Send, Goto, Done
  <2>3. (inbox \in Seq(Said))'
    BY <1>9, <1>2 DEF Send, Said, bridgeVars, Orderly
  <2>4. Phase(task[t])'
    BY <1>9, <1>2, <1>3, <2>1 DEF Send, Phase, Meets, Waiting, Approving, Rejecting,
      Due, Settled, At, Requesting, Reviewing, Examined, Waits, ApprovingPcs,
      Approvable, AppStatuses, rowVars, bridgeVars, SetApp, SetReview
  <2> QED
    BY <1>4, <2>1, <2>3, <2>4
<1>10. CASE RegisterCustomer(t)
  <2>1. /\ task'[t].pc = (IF linked THEN "pending" ELSE "store")
        /\ \A u \in Tasks : u # t => task'[u] = task[u]
    BY <1>10, <1>2, Went DEF RegisterCustomer, Goto, Done
  <2>2. /\ inbox = <<>> /\ task[t].pc \in Requesting
        /\ (inbox' = <<>> \/ (bridge' = "checking" /\ inbox' = <<"created">>))
    BY <1>10, <1>2 DEF RegisterCustomer, Phase, Meets, Requesting, At, Reached,
      Registered
  <2>3. (inbox \in Seq(Said))'
    BY <1>5, <2>2 DEF Said
  <2>4. Phase(task[t])'
    BY <1>10, <1>2, <1>3, <2>1, <2>2 DEF RegisterCustomer, Phase, Meets, Waiting,
      Approving, Rejecting, Due, Settled, At, Requesting, Reviewing, Examined, Waits,
      ApprovingPcs, Approvable, AppStatuses, rowVars, bridgeVars, SetApp, SetReview,
      Reached, Registered, Updated, Customer, Activation, ApprovedByBridge
  <2> QED
    BY <1>4, <2>1, <2>3, <2>4
<1>11. CASE RegisterFails(t)
  <2>1. task'[t].pc = "returned" /\ \A u \in Tasks : u # t => task'[u] = task[u]
    BY <1>11, <1>2, Went DEF RegisterFails, Goto, Done
  <2>3. (inbox \in Seq(Said))'
    BY <1>11, <1>2 DEF RegisterFails, Said, bridgeVars, Orderly
  <2>4. Phase(task[t])'
    BY <1>11, <1>2, <1>3, <2>1 DEF RegisterFails, Phase, Meets, Waiting, Approving,
      Rejecting, Due, Settled, At, Requesting, Reviewing, Examined, Waits,
      ApprovingPcs, Approvable, AppStatuses, rowVars, bridgeVars, SetApp, SetReview,
      Reached, Orderly
  <2> QED
    BY <1>4, <2>1, <2>3, <2>4
<1>12. CASE Returned(t)
  <2>1. task'[t].pc = "idle" /\ \A u \in Tasks : u # t => task'[u] = task[u]
    BY <1>12, <1>2, Went DEF Returned, Goto, Done
  <2>3. (inbox \in Seq(Said))'
    BY <1>12, <1>2 DEF Returned, Said, bridgeVars, Orderly
  <2>4. Phase(task[t])'
    BY <1>12, <1>2, <1>3, <2>1 DEF Returned, Phase, Meets, Waiting, Approving,
      Rejecting, Due, Settled, At, Requesting, Reviewing, Examined, Waits,
      ApprovingPcs, Approvable, AppStatuses, rowVars, bridgeVars, SetApp, SetReview
  <2> QED
    BY <1>4, <2>1, <2>3, <2>4
<1>13. CASE StoreCustomer(t)
  <2>1. task'[t].pc = "pending" /\ \A u \in Tasks : u # t => task'[u] = task[u]
    BY <1>13, <1>2, Went DEF StoreCustomer, Goto, Done
  <2>3. (inbox \in Seq(Said))'
    BY <1>13, <1>2 DEF StoreCustomer, Said, bridgeVars, Orderly
  <2>4. Phase(task[t])'
    BY <1>13, <1>2, <1>3, <2>1 DEF StoreCustomer, Phase, Meets, Waiting, Approving,
      Rejecting, Due, Settled, At, Requesting, Reviewing, Examined, Waits,
      ApprovingPcs, Approvable, AppStatuses, rowVars, bridgeVars, SetApp, SetReview
  <2> QED
    BY <1>4, <2>1, <2>3, <2>4
<1>14. CASE PendingBridge(t)
  <2>1. task'[t].pc = "idle" /\ \A u \in Tasks : u # t => task'[u] = task[u]
    BY <1>14, <1>2, Went DEF PendingBridge, Goto, Done
  <2>3. (inbox \in Seq(Said))'
    BY <1>14, <1>2 DEF PendingBridge, Said, bridgeVars, Orderly
  <2>4. Phase(task[t])'
    BY <1>14, <1>2, <1>3, <2>1 DEF PendingBridge, Phase, Meets, Waiting, Approving,
      Rejecting, Due, Settled, At, Requesting, Reviewing, Examined, Waits,
      ApprovingPcs, Approvable, AppStatuses, rowVars, bridgeVars, SetApp, SetReview
  <2> QED
    BY <1>4, <2>1, <2>3, <2>4
<1>15. CASE UpdateCustomer(t)
  <2>1. task'[t].pc = "resent" /\ \A u \in Tasks : u # t => task'[u] = task[u]
    BY <1>15, <1>2, Went DEF UpdateCustomer, Goto, Done
  <2>2. /\ inbox = <<>> /\ task[t].pc \in Requesting
        /\ (inbox' = <<>> \/ (bridge' = "checking" /\ inbox' = <<"created">>))
    BY <1>15, <1>2 DEF UpdateCustomer, Phase, Meets, Requesting, At, Reached, Registered
  <2>3. (inbox \in Seq(Said))'
    BY <1>5, <2>2 DEF Said
  <2>4. Phase(task[t])'
    BY <1>15, <1>2, <1>3, <2>1, <2>2 DEF UpdateCustomer, Phase, Meets, Waiting,
      Approving, Rejecting, Due, Settled, At, Requesting, Reviewing, Examined, Waits,
      ApprovingPcs, Approvable, AppStatuses, rowVars, bridgeVars, SetApp, SetReview,
      Updated, Customer, LinkedPcs
  <2> QED
    BY <1>4, <2>1, <2>3, <2>4
<1>16. CASE UpdateFails(t)
  <2>1. task'[t].pc = "idle" /\ \A u \in Tasks : u # t => task'[u] = task[u]
    BY <1>16, <1>2, Went DEF UpdateFails, Goto, Done
  <2>3. (inbox \in Seq(Said))'
    BY <1>16, <1>2 DEF UpdateFails, Said, bridgeVars, Orderly
  <2>4. Phase(task[t])'
    BY <1>16, <1>2, <1>3, <2>1 DEF UpdateFails, Phase, Meets, Waiting, Approving,
      Rejecting, Due, Settled, At, Requesting, Reviewing, Examined, Waits,
      ApprovingPcs, Approvable, AppStatuses, rowVars, bridgeVars, SetApp, SetReview,
      Orderly
  <2> QED
    BY <1>4, <2>1, <2>3, <2>4
<1>17. CASE Resent(t)
  <2>1. task'[t].pc = "pending" /\ \A u \in Tasks : u # t => task'[u] = task[u]
    BY <1>17, <1>2, Went DEF Resent, Goto, Done
  <2>3. (inbox \in Seq(Said))'
    BY <1>17, <1>2 DEF Resent, Said, bridgeVars, Orderly
  <2>4. Phase(task[t])'
    BY <1>17, <1>2, <1>3, <2>1 DEF Resent, Phase, Meets, Waiting, Approving, Rejecting,
      Due, Settled, At, Requesting, Reviewing, Examined, Waits, ApprovingPcs,
      Approvable, AppStatuses, rowVars, bridgeVars, SetApp, SetReview
  <2> QED
    BY <1>4, <2>1, <2>3, <2>4
<1>18. CASE CloseReview(t)
  <2>1. task'[t].pc = "rejectApp" /\ \A u \in Tasks : u # t => task'[u] = task[u]
    BY <1>18, <1>2, Went DEF CloseReview, Goto, Done
  <2>3. (inbox \in Seq(Said))'
    BY <1>18, <1>2 DEF CloseReview, Said, bridgeVars, Orderly
  <2>4. Phase(task[t])'
    BY <1>18, <1>2, <1>3, <2>1 DEF CloseReview, Phase, Meets, Waiting, Approving,
      Rejecting, Due, Settled, At, Requesting, Reviewing, Examined, Waits,
      ApprovingPcs, Approvable, AppStatuses, rowVars, bridgeVars, SetApp, SetReview
  <2> QED
    BY <1>4, <2>1, <2>3, <2>4
<1>19. CASE RejectApp(t)
  <2>1. task'[t].pc = "rejectProfile" /\ \A u \in Tasks : u # t => task'[u] = task[u]
    BY <1>19, <1>2, Went DEF RejectApp, Goto, Done
  <2>3. (inbox \in Seq(Said))'
    BY <1>19, <1>2 DEF RejectApp, Said, bridgeVars, Orderly
  <2>4. Phase(task[t])'
    BY <1>19, <1>2, <1>3, <2>1 DEF RejectApp, Phase, Meets, Waiting, Approving,
      Rejecting, Due, Settled, At, Requesting, Reviewing, Examined, Waits,
      ApprovingPcs, Approvable, AppStatuses, rowVars, bridgeVars, SetApp, SetReview
  <2> QED
    BY <1>4, <2>1, <2>3, <2>4
<1>20. CASE RejectProfile(t)
  <2>1. task'[t].pc = "idle" /\ \A u \in Tasks : u # t => task'[u] = task[u]
    BY <1>20, <1>2, Went DEF RejectProfile, Goto, Done
  <2>3. (inbox \in Seq(Said))'
    BY <1>20, <1>2 DEF RejectProfile, Said, bridgeVars, Orderly
  <2>4. Phase(task[t])'
    BY <1>20, <1>2, <1>3, <2>1 DEF RejectProfile, Phase, Meets, Waiting, Approving,
      Rejecting, Due, Settled, At, Requesting, Reviewing, Examined, Waits,
      ApprovingPcs, Approvable, AppStatuses, rowVars, bridgeVars, SetApp, SetReview
  <2> QED
    BY <1>4, <2>1, <2>3, <2>4
<1>21. CASE ChangeApp(t)
  <2>1. task'[t].pc = "changeProfile" /\ \A u \in Tasks : u # t => task'[u] = task[u]
    BY <1>21, <1>2, Went DEF ChangeApp, Goto, Done
  <2>3. (inbox \in Seq(Said))'
    BY <1>21, <1>2 DEF ChangeApp, Said, bridgeVars, Orderly
  <2>4. Phase(task[t])'
    BY <1>21, <1>2, <1>3, <2>1 DEF ChangeApp, Phase, Meets, Waiting, Approving,
      Rejecting, Due, Settled, At, Requesting, Reviewing, Examined, Waits,
      ApprovingPcs, Approvable, AppStatuses, rowVars, bridgeVars, SetApp, SetReview
  <2> QED
    BY <1>4, <2>1, <2>3, <2>4
<1>22. CASE ChangeProfile(t)
  <2>1. task'[t].pc = "idle" /\ \A u \in Tasks : u # t => task'[u] = task[u]
    BY <1>22, <1>2, Went DEF ChangeProfile, Goto, Done
  <2>3. (inbox \in Seq(Said))'
    BY <1>22, <1>2 DEF ChangeProfile, Said, bridgeVars, Orderly
  <2>4. Phase(task[t])'
    BY <1>22, <1>2, <1>3, <2>1 DEF ChangeProfile, Phase, Meets, Waiting, Approving,
      Rejecting, Due, Settled, At, Requesting, Reviewing, Examined, Waits,
      ApprovingPcs, Approvable, AppStatuses, rowVars, bridgeVars, SetApp, SetReview
  <2> QED
    BY <1>4, <2>1, <2>3, <2>4
<1>23. CASE LinkApproveApps(t)
  <2>1. task'[t].pc = "aProfile" /\ \A u \in Tasks : u # t => task'[u] = task[u]
    BY <1>23, <1>2, Went DEF LinkApproveApps, Goto, Done
  <2>3. (inbox \in Seq(Said))'
    BY <1>23, <1>2 DEF LinkApproveApps, Said, bridgeVars, Orderly
  <2>4. Phase(task[t])'
    BY <1>23, <1>2, <1>3, <2>1 DEF LinkApproveApps, Phase, Meets, Waiting, Approving,
      Rejecting, Due, Settled, At, Requesting, Reviewing, Examined, Waits,
      ApprovingPcs, Approvable, AppStatuses, rowVars, bridgeVars, SetApp, SetReview
  <2> QED
    BY <1>4, <2>1, <2>3, <2>4
<1>24. CASE ApproveApp(t)
  <2>1. task'[t].pc = "aProfile" /\ \A u \in Tasks : u # t => task'[u] = task[u]
    BY <1>24, <1>2, Went DEF ApproveApp, Goto, Done
  <2>3. (inbox \in Seq(Said))'
    BY <1>24, <1>2 DEF ApproveApp, Said, bridgeVars, Orderly
  <2>4. Phase(task[t])'
    BY <1>24, <1>2, <1>3, <2>1 DEF ApproveApp, Phase, Meets, Waiting, Approving,
      Rejecting, Due, Settled, At, Requesting, Reviewing, Examined, Waits,
      ApprovingPcs, Approvable, AppStatuses, rowVars, bridgeVars, SetApp, SetReview
  <2> QED
    BY <1>4, <2>1, <2>3, <2>4
<1>25. CASE ApproveProfile(t)
  <2>1. task'[t].pc = "aWallets" /\ \A u \in Tasks : u # t => task'[u] = task[u]
    BY <1>25, <1>2, Went DEF ApproveProfile, Goto, Done
  <2>3. (inbox \in Seq(Said))'
    BY <1>25, <1>2 DEF ApproveProfile, Said, bridgeVars, Orderly
  <2>4. Phase(task[t])'
    BY <1>25, <1>2, <1>3, <2>1 DEF ApproveProfile, Phase, Meets, Waiting, Approving,
      Rejecting, Due, Settled, At, Requesting, Reviewing, Examined, Waits,
      ApprovingPcs, Approvable, AppStatuses, rowVars, bridgeVars, SetApp, SetReview
  <2> QED
    BY <1>4, <2>1, <2>3, <2>4
<1>26. CASE InitializeWallets(t)
  <2>1. task'[t].pc = "aReview" /\ \A u \in Tasks : u # t => task'[u] = task[u]
    BY <1>26, <1>2, Went DEF InitializeWallets, Goto, Done
  <2>3. (inbox \in Seq(Said))'
    BY <1>26, <1>2 DEF InitializeWallets, Said, bridgeVars, Orderly
  <2>4. Phase(task[t])'
    BY <1>26, <1>2, <1>3, <2>1 DEF InitializeWallets, Phase, Meets, Waiting, Approving,
      Rejecting, Due, Settled, At, Requesting, Reviewing, Examined, Waits,
      ApprovingPcs, Approvable, AppStatuses, rowVars, bridgeVars, SetApp, SetReview,
      Orderly
  <2> QED
    BY <1>4, <2>1, <2>3, <2>4
<1>27. CASE CloseApproved(t)
  <2>1. task'[t].pc = "idle" /\ \A u \in Tasks : u # t => task'[u] = task[u]
    BY <1>27, <1>2, Went DEF CloseApproved, Goto, Done
  <2>3. (inbox \in Seq(Said))'
    BY <1>27, <1>2 DEF CloseApproved, Said, bridgeVars, Orderly
  <2>4. Phase(task[t])'
    BY <1>27, <1>2, <1>3, <2>1 DEF CloseApproved, Phase, Meets, Waiting, Approving,
      Rejecting, Due, Settled, At, Requesting, Reviewing, Examined, Waits,
      ApprovingPcs, Approvable, AppStatuses, rowVars, bridgeVars, SetApp, SetReview
  <2> QED
    BY <1>4, <2>1, <2>3, <2>4
<1>28. CASE BridgeRejectsApp(t)
  <2>1. task'[t].pc = "bProfile" /\ \A u \in Tasks : u # t => task'[u] = task[u]
    BY <1>28, <1>2, Went DEF BridgeRejectsApp, Goto, Done
  <2>3. (inbox \in Seq(Said))'
    BY <1>28, <1>2 DEF BridgeRejectsApp, Said, bridgeVars, Orderly
  <2>4. Phase(task[t])'
    BY <1>28, <1>2, <1>3, <2>1 DEF BridgeRejectsApp, Phase, Meets, Waiting, Approving,
      Rejecting, Due, Settled, At, Requesting, Reviewing, Examined, Waits,
      ApprovingPcs, Approvable, AppStatuses, rowVars, bridgeVars, SetApp, SetReview
  <2> QED
    BY <1>4, <2>1, <2>3, <2>4
<1>29. CASE BridgeRejectsProfile(t)
  <2>1. task'[t].pc = "idle" /\ \A u \in Tasks : u # t => task'[u] = task[u]
    BY <1>29, <1>2, Went DEF BridgeRejectsProfile, Goto, Done
  <2>3. (inbox \in Seq(Said))'
    BY <1>29, <1>2 DEF BridgeRejectsProfile, Said, bridgeVars, Orderly
  <2>4. Phase(task[t])'
    BY <1>29, <1>2, <1>3, <2>1 DEF BridgeRejectsProfile, Phase, Meets, Waiting,
      Approving, Rejecting, Due, Settled, At, Requesting, Reviewing, Examined, Waits,
      ApprovingPcs, Approvable, AppStatuses, rowVars, bridgeVars, SetApp, SetReview
  <2> QED
    BY <1>4, <2>1, <2>3, <2>4
<1>30. CASE ReportIssues(t)
  <2>1. task'[t].pc = "idle" /\ \A u \in Tasks : u # t => task'[u] = task[u]
    BY <1>30, <1>2, Went DEF ReportIssues, Goto, Done
  <2>3. (inbox \in Seq(Said))'
    BY <1>30, <1>2 DEF ReportIssues, Said, bridgeVars, Orderly
  <2>4. Phase(task[t])'
    BY <1>30, <1>2, <1>3, <2>1 DEF ReportIssues, Phase, Meets, Waiting, Approving,
      Rejecting, Due, Settled, At, Requesting, Reviewing, Examined, Waits,
      ApprovingPcs, Approvable, AppStatuses, rowVars, bridgeVars, SetApp, SetReview
  <2> QED
    BY <1>4, <2>1, <2>3, <2>4
<1>31. CASE ResolvedIssues(t)
  <2>1. task'[t].pc = "idle" /\ \A u \in Tasks : u # t => task'[u] = task[u]
    BY <1>31, <1>2, Went DEF ResolvedIssues, Goto, Done
  <2>3. (inbox \in Seq(Said))'
    BY <1>31, <1>2 DEF ResolvedIssues, Said, bridgeVars, Orderly
  <2>4. Phase(task[t])'
    BY <1>31, <1>2, <1>3, <2>1 DEF ResolvedIssues, Phase, Meets, Waiting, Approving,
      Rejecting, Due, Settled, At, Requesting, Reviewing, Examined, Waits,
      ApprovingPcs, Approvable, AppStatuses, rowVars, bridgeVars, SetApp, SetReview
  <2> QED
    BY <1>4, <2>1, <2>3, <2>4
<1>32. CASE FindApprovable(t)
  <2>1. /\ task'[t].pc = (IF app[1] \in Approvable THEN "aApp" ELSE "aProfile")
        /\ \A u \in Tasks : u # t => task'[u] = task[u]
    BY <1>32, <1>2, <1>3, Went DEF FindApprovable, Goto, Done
  <2>3. (inbox \in Seq(Said))'
    BY <1>32, <1>2 DEF FindApprovable, Said, bridgeVars, Orderly
  <2>4. Phase(task[t])'
    BY <1>32, <1>2, <1>3, <2>1 DEF FindApprovable, Phase, Meets, Waiting, Approving,
      Rejecting, Due, Settled, At, Requesting, Reviewing, Examined, Waits,
      ApprovingPcs, Approvable, AppStatuses, rowVars, bridgeVars, SetApp, SetReview
  <2> QED
    BY <1>4, <2>1, <2>3, <2>4
<1>33. CASE FindSent(t)
  <2>1. /\ task'[t].pc = (IF profile = "bridge_rejected" THEN "idle"
                          ELSE IF app[1] = "sent_to_bridge" THEN "bApp" ELSE "bProfile")
        /\ \A u \in Tasks : u # t => task'[u] = task[u]
    BY <1>33, <1>2, <1>3, Went DEF FindSent, Goto, Done
  <2>3. (inbox \in Seq(Said))'
    BY <1>33, <1>2 DEF FindSent, Said, bridgeVars, Orderly
  <2>4. Phase(task[t])'
    BY <1>33, <1>2, <1>3, <2>1 DEF FindSent, Phase, Meets, Waiting, Approving,
      Rejecting, Due, Settled, At, Requesting, Reviewing, Examined, Waits,
      ApprovingPcs, Approvable, AppStatuses, rowVars, bridgeVars, SetApp, SetReview
  <2> QED
    BY <1>4, <2>1, <2>3, <2>4
<1>34. CASE BlockingIssues(t)
  <2>1. /\ task'[t].pc = (IF reported THEN "idle" ELSE "iEvent")
        /\ \A u \in Tasks : u # t => task'[u] = task[u]
    BY <1>34, <1>2, <1>3, Went DEF BlockingIssues, Goto, Done
  <2>3. (inbox \in Seq(Said))'
    BY <1>34, <1>2 DEF BlockingIssues, Said, bridgeVars, Orderly
  <2>4. Phase(task[t])'
    BY <1>34, <1>2, <1>3, <2>1 DEF BlockingIssues, Phase, Meets, Waiting, Approving,
      Rejecting, Due, Settled, At, Requesting, Reviewing, Examined, Waits,
      ApprovingPcs, Approvable, AppStatuses, rowVars, bridgeVars, SetApp, SetReview
  <2> QED
    BY <1>4, <2>1, <2>3, <2>4
<1> QED
  BY <1>6, <1>7, <1>8, <1>9, <1>10, <1>11, <1>12, <1>13, <1>14, <1>15, <1>16, <1>17,
    <1>18, <1>19, <1>20, <1>21, <1>22, <1>23, <1>24, <1>25, <1>26, <1>27, <1>28, <1>29,
    <1>30, <1>31, <1>32, <1>33, <1>34 DEF Step

(***************************************************************************)
(* Requests begin, and Bridge rules, only while nothing else happens.      *)
(***************************************************************************)
LEMMA RequestSteady ==
  ASSUME Orderly, OnboardingInv, Steady, NEW t \in Tasks,
         \/ CreateKycApplication(t) \/ SubmitKycApplication(t)
         \/ \E a \in Apps : Staff(t, a)
  PROVE  Steady'
<1>1. PICK op, pc, a : Request(t, op, pc, a)
  BY DEF CreateKycApplication, SubmitKycApplication, Staff, ApproveReview,
    ResendToBridge,
    RejectReview, RequestChanges
<1>2. /\ TypeOK /\ Customer /\ Quiet /\ inbox = <<>> /\ Phase(Idle)
      /\ Apps = {1} /\ app \in [{1} -> AppStatuses]
      /\ review \in [{1} -> {"none", "open", "closed"}]
      /\ Latest = IF app[1] = "none" THEN 0 ELSE 1
      /\ bridge \in {"none", "checking", "issues", "active", "rejected"}
  BY <1>1, OneApp DEF OnboardingInv, TypeOK, Steady, Request, Free, Orderly
<1>3. /\ UNCHANGED <<bridge, inbox, profile, linked, wallets, review>>
      /\ app' = app \/ (app[1] = "none" /\ app'[1] = "pending")
  BY <1>2 DEF CreateKycApplication, SubmitKycApplication, Staff, ApproveReview,
    ResendToBridge, RejectReview, RequestChanges, rowVars, bridgeVars, SetApp
<1>4. PICK pc2, a2 : /\ Start(t, pc2, a2)
                     /\ \/ pc2 = "started" /\ app[1] = "none"
                        \/ pc2 = "submit" /\ app[1] \in Editable /\ app' = app
                        \/ /\ pc2 \in {"send", "put", "changeApp"}
                           /\ review[1] = "open" /\ app' = app
  BY <1>2 DEF CreateKycApplication, SubmitKycApplication, Staff, ApproveReview,
    ResendToBridge, RejectReview, RequestChanges, Request, Orderly, rowVars
<1>5. task'[t].pc = pc2 /\ \A u \in Tasks : u # t => task'[u] = task[u]
  BY <1>2, <1>4, Went
<1>6. Phase(task[t])'
  BY <1>2, <1>3, <1>4, <1>5 DEF Phase, Meets, Waiting, Approving, Rejecting, Due,
    Settled,
    Requesting, Reviewing, Examined, Waits, ApprovingPcs, Approvable, Editable,
    AppStatuses,
    Idle
<1>7. (inbox \in Seq(Said))'
  BY <1>3 DEF Steady, Said
<1> QED
  BY <1>2, <1>5, <1>6, <1>7, SteadyKept DEF Quiet, Busy

LEMMA WebhookSteady ==
  ASSUME Orderly, OnboardingInv, Steady, NEW t \in Tasks, Webhook(t)
  PROVE  Steady'
<1>1. PICK event : Take(t, event)
  BY DEF Webhook, CustomerCreated, KycLinkApproved, CustomerUpdated
<1>2. /\ TypeOK /\ Quiet /\ Phase(Idle) /\ inbox \in Seq(Said)
      /\ bridge \in {"none", "checking", "issues", "active", "rejected"}
  BY <1>1 DEF OnboardingInv, TypeOK, Steady, Take, Free, Orderly
<1>3. /\ event \in Said /\ inbox # <<>> /\ inbox' \in Seq(Said)
      /\ UNCHANGED <<bridge, activated>>
  BY <1>1, <1>2, TakeType
<1>4. (inbox \in Seq(Said))'
  BY <1>3 DEF Said
<1>5. CASE CustomerCreated(t)
  <2>1. UNCHANGED <<app, review, profile, wallets, task>> /\ linked' = TRUE
    BY <1>5 DEF CustomerCreated
  <2>2. Take(t, "created")
    BY <1>5 DEF CustomerCreated
  <2>3. bridge = "checking"
    BY <1>2, <2>2, TakeType DEF Said
  <2>4. Phase(task[t])'
    BY <1>2, <1>3, <2>1, <2>3 DEF Phase, Meets, Waiting, Approving, Rejecting, Due,
      Settled,
      Requesting, Reviewing, Examined, Waits, ApprovingPcs, Idle, Quiet, At
  <2> QED
    BY <1>2, <1>4, <2>1, <2>4, SteadyKept DEF Quiet, Busy
<1>6. CASE KycLinkApproved(t)
  <2>1. /\ UNCHANGED <<app, review, profile, linked, wallets>>
        /\ Start(t, IF profile = "approved" THEN "idle" ELSE "lApp", 1)
    BY <1>6 DEF KycLinkApproved, rowVars
  <2>2. Take(t, "link")
    BY <1>6 DEF KycLinkApproved
  <2>3. bridge = "active"
    BY <1>2, <2>2, TakeType DEF Said
  <2>4. /\ task'[t].pc = IF profile = "approved" THEN "idle" ELSE "lApp"
        /\ \A u \in Tasks : u # t => task'[u] = task[u]
    BY <1>2, <2>1, Went
  <2>5. Phase(task[t])'
    BY <1>2, <1>3, <2>1, <2>3, <2>4 DEF Phase, Meets, Waiting, Approving, Rejecting,
      Due,
      Settled, Requesting, Reviewing, Examined, Waits, ApprovingPcs, Idle
  <2> QED
    BY <1>2, <1>4, <2>4, <2>5, SteadyKept DEF Quiet, Busy
<1>7. ASSUME NEW e \in {"active", "rejected", "issues", "clear"}, CustomerUpdated(t, e)
      PROVE  Steady'
  <2>1. /\ UNCHANGED <<app, review, profile, wallets>> /\ linked' = TRUE
        /\ Start(t, Handler(e), 1)
    BY <1>7 DEF CustomerUpdated
  <2>2. Take(t, e)
    BY <1>7 DEF CustomerUpdated
  <2>3. e \in Said
    BY <1>2, <2>2, TakeType
  <2>4. /\ task'[t].pc = Handler(e)
        /\ \A u \in Tasks : u # t => task'[u] = task[u]
    BY <1>2, <2>1, Went
  <2>5. Phase(task[t])'
    BY <1>2, <1>3, <2>1, <2>3, <2>4 DEF Phase, Meets, Waiting, Approving, Rejecting,
      Due,
      Settled, Requesting, Reviewing, Examined, Waits, ApprovingPcs, Idle, Handler, Said
  <2> QED
    BY <1>2, <1>4, <2>4, <2>5, SteadyKept DEF Quiet, Busy
<1> QED
  BY <1>5, <1>6, <1>7 DEF Webhook

LEMMA BridgeSteady ==
  ASSUME Orderly, OnboardingInv, Steady,
         NEW to \in {"active", "rejected", "issues", "clear"}, BridgeRules(to)
  PROVE  Steady'
<1>1. /\ Quiet /\ inbox = <<>> /\ Phase(Idle) /\ UNCHANGED <<app, review, profile, linked,
           wallets, task>>
      /\ bridge' = IF to = "clear" THEN "checking" ELSE to
      /\ bridge \in {"checking", "issues"} \/ (bridge = "active" /\ to = "rejected")
  BY DEF BridgeRules, Orderly, Steady, Verdict, rowVars
<1>2. PICK n \in Notices(to) : inbox' = inbox \o n
  BY DEF BridgeRules
<1>3. inbox' \in Seq(Said') /\ inbox' # <<>>
  <2>1. to \in Said' /\ (to = "active" => "link" \in Said')
    BY <1>1 DEF Said
  <2>2. n \in {<<to>>, <<"link">>, <<"active", "link">>} /\ (n # <<to>> => to = "active")
    BY DEF Notices
  <2>3. PICK S : S = Said'
    OBVIOUS
  <2>4. n \in Seq(S) /\ n # <<>>
    <3>1. CASE n = <<to>>
      BY <2>1, <2>3, <3>1, ShortSeq
    <3>2. CASE n # <<to>>
      <4>1. "active" \in S /\ "link" \in S
        BY <2>1, <2>2, <2>3, <3>2
      <4>2. <<"link">> \in Seq(S) /\ <<"active", "link">> \in Seq(S)
        BY <4>1, ShortSeq
      <4>3. CASE n = <<"link">>
        BY <4>2, <4>3
      <4>4. CASE n = <<"active", "link">>
        BY <4>2, <4>4
      <4> QED
        BY <2>2, <3>2, <4>3, <4>4
    <3> QED
      BY <3>1, <3>2
  <2> QED
    BY <1>1, <1>2, <2>3, <2>4
<1>4. Phase(Idle)'
  BY <1>1, <1>3 DEF Phase, Meets, Waiting, Approving, Rejecting, Due, Settled,
    Requesting,
    Reviewing, Examined, Waits, ApprovingPcs, Approvable, Idle
<1> QED
  BY <1>1, <1>3, <1>4 DEF Steady, Quiet, Busy, At

LEMMA InitSteady == Orderly /\ Init => Steady
<1> SUFFICES ASSUME Orderly, Init PROVE Steady
    OBVIOUS
<1>1. inbox \in Seq(Said)
  BY EmptySeq DEF Init
<1>2. Phase(Idle)
  BY DEF Init, Phase, Meets, Waiting, Approving, Rejecting, Requesting, Reviewing,
    Examined,
    ApprovingPcs, Idle
<1> QED
  BY <1>1, <1>2 DEF Init, Steady, Busy, At, Idle

LEMMA NextSteady == Orderly /\ OnboardingInv /\ Steady /\ [Next]_vars => Steady'
<1> SUFFICES ASSUME Orderly, OnboardingInv, Steady, [Next]_vars PROVE Steady'
    OBVIOUS
<1>1. CASE UNCHANGED vars
  <2>1. UNCHANGED <<app, review, profile, linked, wallets, bridge, inbox, task>>
    BY <1>1 DEF vars, rowVars, bridgeVars
  <2>2. Said' = Said /\ Phase(Idle)' = Phase(Idle)
    BY <2>1 DEF Said, Phase, Meets, Waiting, Approving, Rejecting, Due, Settled
  <2>3. \A t \in Tasks : Phase(task[t])' = Phase(task[t])
    BY <2>1 DEF Phase, Meets, Waiting, Approving, Rejecting, Due, Settled
  <2> QED
    BY <2>1, <2>2, <2>3 DEF Steady, Busy, Quiet, At
<1>2. ~Crash
  BY DEF Crash, Orderly
<1> QED
  BY <1>1, <1>2, StepSteady, RequestSteady, WebhookSteady, BridgeSteady DEF Next

\* One application, requests that end and rulings of Bridge between them: whatever it
\* refuses, repeats or reorders, a customer it activates leaves an approved profile and
\* application, wallets and a closed review, and one it rejects nobody who waits.
THEOREM TablesComeToAgree ==
  ASSUME Orderly
  PROVE  Spec => []TablesAgree
<1>1. OnboardingInv /\ Steady => TablesAgree
  <2> SUFFICES ASSUME OnboardingInv, Steady, Quiet, inbox = <<>>
               PROVE  /\ bridge = "active" =>
                           /\ profile = "approved" /\ app[Latest] = "approved"
                           /\ review[Latest] = "closed" /\ wallets
                      /\ bridge = "rejected" =>
                           profile \notin {"pending_bridge", "kyc_issues", "approved"}
    BY DEF TablesAgree
  <2>1. Phase(Idle) /\ TypeOK
    BY DEF Steady, OnboardingInv
  <2> QED
    BY <2>1, OneApp DEF Phase, Approving, Rejecting, Settled, Waits, Idle
<1>2. OnboardingInv /\ Steady /\ [Next]_vars => (OnboardingInv /\ Steady)'
  BY NextInv, NextSteady
<1>3. Init => OnboardingInv /\ Steady
  BY InitInv, InitSteady
<1> QED
  BY <1>1, <1>2, <1>3, PTL DEF Spec
=============================================================================
