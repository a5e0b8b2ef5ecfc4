----------------------------- MODULE Onboarding -----------------------------
(***************************************************************************)
(* The onboarding of one client: OnboardingService (applications),         *)
(* ComplianceActionsService (their reviews), BridgeCustomerService (the    *)
(* customer in Bridge) and the customer.* and kyc_link.* webhooks, which   *)
(* meet in profiles.onboarding_status.  The applications are the client's  *)
(* KYC rows in the order of created_at; those of a company take the same   *)
(* path.  The documents and the terms of service are taken as given.       *)
(*                                                                         *)
(* A task is one request or webhook in flight and an action is one call of *)
(* the database or of Bridge.  Ops is the set of requests and outcomes of  *)
(* a scenario ("resubmit" sends an application the client may no longer    *)
(* edit, "resendClosed" one whose review is closed).  Faults: "refuse"     *)
(* (Bridge rejects the call), "lost" (its answer is lost), "wallets"       *)
(* (their initialisation fails), "duplicate" and "reorder" (of webhooks),  *)
(* "late" (Bridge rules, and its events wait, while requests are served),  *)
(* "overlap" (two tasks at a time), "crash".                               *)
(***************************************************************************)
EXTENDS Naturals, FiniteSets, Sequences

CONSTANTS
  MaxApps,    \* bound on the applications of the client
  MaxEvents,  \* bound on the events waiting
  Tasks, Ops, Faults

ASSUME BoundsAssumption == MaxApps \in Nat \ {0} /\ MaxEvents \in Nat

Apps == 1..MaxApps

VARIABLES
  app,       \* kyc_applications.status; "none" before the INSERT
  review,    \* compliance_reviews.status of the application
  profile,   \* profiles.onboarding_status
  linked,    \* profiles.bridge_customer_id is set
  wallets,   \* the wallets of the client exist
  reported,  \* the review's last event carries the issues of Bridge
  bridge,    \* the customer in Bridge
  inbox,     \* its events that wait for the worker
  activated, \* history: Bridge activated the customer
  task

rowVars == <<app, review, profile, linked, wallets, reported>>
bridgeVars == <<bridge, inbox, activated>>
vars == <<rowVars, bridgeVars, task>>

AppStatuses == {"none", "pending", "submitted", "needs_review",
                "sent_to_bridge", "approved", "rejected", "bridge_rejected"}
ProfileStatuses == {"registered", "started", "in_review", "pending_bridge",
                    "kyc_issues", "approved", "rejected", "bridge_rejected"}
Events == {"created", "active", "link", "rejected", "issues", "clear"}
WebhookPcs == {"aFind", "aApp", "lApp", "aProfile", "aWallets", "aReview",
               "bFind", "bApp", "bProfile", "iMark", "iEvent", "cProfile"}
Pcs == WebhookPcs \cup
       {"idle", "started", "submit", "inReview",
        "send", "post", "returned", "store", "put", "resent", "pending",
        "close", "rejectApp", "rejectProfile", "changeApp", "changeProfile"}

\* The rows the webhooks may approve, and those a client may edit.
Approvable == {"sent_to_bridge", "submitted", "pending", "needs_review"}
Editable == {"pending", "needs_review"}
Active == {"pending", "submitted", "needs_review"}

Idle == [pc |-> "idle", a |-> 1]

Init ==
  /\ app = [a \in Apps |-> "none"]
  /\ review = [a \in Apps |-> "none"]
  /\ profile = "registered"
  /\ linked = FALSE /\ wallets = FALSE /\ reported = FALSE
  /\ bridge = "none" /\ inbox = <<>> /\ activated = FALSE
  /\ task = [t \in Tasks |-> Idle]

At(t, pc) == task[t].pc = pc
Quiet == \A t \in Tasks : At(t, "idle")
Free(t) == At(t, "idle") /\ (Quiet \/ "overlap" \in Faults)
Start(t, pc, a) ==
  task' = [task EXCEPT ![t] = IF pc = "idle" THEN Idle ELSE [pc |-> pc, a |-> a]]
Goto(t, pc) == Start(t, pc, task[t].a)
Done(t) == Goto(t, "idle")
\* A request of the client or of staff.
Request(t, op, pc, a) ==
  /\ op \in Ops
  /\ Free(t)
  /\ inbox = <<>> \/ "late" \in Faults
  /\ Start(t, pc, a)

SetApp(a, s) == app' = [app EXCEPT ![a] = s]
SetReview(a, s) == review' = [review EXCEPT ![a] = s]
In(statuses) == {a \in Apps : app[a] \in statuses}
\* ORDER BY created_at DESC LIMIT 1
Latest == Cardinality({a \in Apps : app[a] # "none"})

(***************************************************************************)
(* The client.  createKycApplication returns the row in course if          *)
(* maybeSingle finds exactly one; submitKycApplication writes to the       *)
(* latest, and the trigger on_kyc_submitted opens its review.              *)
(***************************************************************************)
CreateKycApplication(t) ==
  /\ Cardinality(In(Active)) # 1
  /\ Latest < MaxApps
  /\ Request(t, "create", "started", 1)
  /\ SetApp(Latest + 1, "pending")
  /\ UNCHANGED <<review, profile, linked, wallets, reported, bridgeVars>>
Started(t) ==
  /\ At(t, "started")
  /\ profile' = "started"
  /\ Done(t)
  /\ UNCHANGED <<app, review, linked, wallets, reported, bridgeVars>>

SubmitKycApplication(t) ==
  /\ Latest # 0
  /\ app[Latest] # "submitted"
  /\ app[Latest] \in Editable \/ "resubmit" \in Ops
  /\ Request(t, "submit", "submit", Latest)
  /\ UNCHANGED <<rowVars, bridgeVars>>
Submitted(t) ==
  LET a == task[t].a IN
  /\ At(t, "submit")
  /\ SetApp(a, "submitted")
  /\ SetReview(a, "open")
  /\ Goto(t, "inReview")
  /\ UNCHANGED <<profile, linked, wallets, reported, bridgeVars>>
InReview(t) ==
  /\ At(t, "inReview")
  /\ profile' = "in_review"
  /\ Done(t)
  /\ UNCHANGED <<app, review, linked, wallets, reported, bridgeVars>>

(***************************************************************************)
(* approveReview sends the application to Bridge and leaves the review     *)
(* open.  The answer of Bridge stands between the two rows it writes.      *)
(***************************************************************************)
ApproveReview(t, a) ==
  /\ review[a] = "open"
  /\ Request(t, "approve", "send", a)
  /\ UNCHANGED <<rowVars, bridgeVars>>
Send(t) ==
  /\ At(t, "send")
  /\ SetApp(task[t].a, "sent_to_bridge")
  /\ Goto(t, "post")
  /\ UNCHANGED <<review, profile, linked, wallets, reported, bridgeVars>>

\* PUT of new data: Bridge looks at the customer again.
Updated == IF bridge \in {"issues", "rejected"} THEN "checking" ELSE bridge
\* POST under the key of the user.
Registered ==
  IF bridge = "none"
  THEN bridge' = "checking" /\ inbox' = Append(inbox, "created")
  ELSE UNCHANGED <<bridge, inbox>>
Reached ==
  /\ IF linked THEN bridge' = Updated /\ UNCHANGED inbox ELSE Registered
  /\ UNCHANGED activated

RegisterCustomer(t) ==
  /\ At(t, "post")
  /\ Reached
  /\ Goto(t, IF linked THEN "pending" ELSE "store")
  /\ UNCHANGED rowVars
RegisterFails(t) ==
  /\ At(t, "post")
  /\ \/ "refuse" \in Faults /\ UNCHANGED bridgeVars
     \/ "lost" \in Faults /\ Reached
  /\ Goto(t, "returned")
  /\ UNCHANGED rowVars
Returned(t) ==
  /\ At(t, "returned")
  /\ SetApp(task[t].a, "needs_review")
  /\ Done(t)
  /\ UNCHANGED <<review, profile, linked, wallets, reported, bridgeVars>>

StoreCustomer(t) ==
  /\ At(t, "store")
  /\ linked' = TRUE
  /\ Goto(t, "pending")
  /\ UNCHANGED <<app, review, profile, wallets, reported, bridgeVars>>
\* Mutant: staff's approval is taken for Bridge's.
PendingBridgeApproves(t) ==
  /\ At(t, "pending")
  /\ profile' = "approved"
  /\ Done(t)
  /\ UNCHANGED <<app, review, linked, wallets, reported, bridgeVars>>
PendingBridge(t) ==
  /\ At(t, "pending")
  /\ profile' = "pending_bridge"
  /\ Done(t)
  /\ UNCHANGED <<app, review, linked, wallets, reported, bridgeVars>>

(***************************************************************************)
(* resendToBridge looks at no status of the review.                        *)
(***************************************************************************)
ResendToBridge(t, a) ==
  /\ review[a] = "open" \/ (review[a] = "closed" /\ "resendClosed" \in Ops)
  /\ linked
  /\ Request(t, "resend", "put", a)
  /\ UNCHANGED <<rowVars, bridgeVars>>
UpdateCustomer(t) ==
  /\ At(t, "put")
  /\ bridge' = Updated
  /\ Goto(t, "resent")
  /\ UNCHANGED <<rowVars, inbox, activated>>
UpdateFails(t) ==
  /\ At(t, "put")
  /\ \/ "refuse" \in Faults /\ UNCHANGED bridge
     \/ "lost" \in Faults /\ bridge' = Updated
  /\ Done(t)
  /\ UNCHANGED <<rowVars, inbox, activated>>
Resent(t) ==
  /\ At(t, "resent")
  /\ SetApp(task[t].a, "sent_to_bridge")
  /\ Goto(t, "pending")
  /\ UNCHANGED <<review, profile, linked, wallets, reported, bridgeVars>>

(***************************************************************************)
(* rejectReview and requestChanges read an open review and act later.      *)
(***************************************************************************)
RejectReview(t, a) ==
  /\ review[a] = "open"
  /\ Request(t, "reject", "close", a)
  /\ UNCHANGED <<rowVars, bridgeVars>>
CloseReview(t) ==
  /\ At(t, "close")
  /\ SetReview(task[t].a, "closed")
  /\ Goto(t, "rejectApp")
  /\ UNCHANGED <<app, profile, linked, wallets, reported, bridgeVars>>
RejectApp(t) ==
  /\ At(t, "rejectApp")
  /\ SetApp(task[t].a, "rejected")
  /\ Goto(t, "rejectProfile")
  /\ UNCHANGED <<review, profile, linked, wallets, reported, bridgeVars>>
RejectProfile(t) ==
  /\ At(t, "rejectProfile")
  /\ profile' = "rejected"
  /\ Done(t)
  /\ UNCHANGED <<app, review, linked, wallets, reported, bridgeVars>>

RequestChanges(t, a) ==
  /\ review[a] = "open"
  /\ Request(t, "changes", "changeApp", a)
  /\ UNCHANGED <<rowVars, bridgeVars>>
ChangeApp(t) ==
  /\ At(t, "changeApp")
  /\ SetApp(task[t].a, "needs_review")
  /\ Goto(t, "changeProfile")
  /\ UNCHANGED <<review, profile, linked, wallets, reported, bridgeVars>>
ChangeProfile(t) ==
  /\ At(t, "changeProfile")
  /\ profile' = "started"
  /\ Done(t)
  /\ UNCHANGED <<app, review, linked, wallets, reported, bridgeVars>>

(***************************************************************************)
(* Bridge, external.  An activation is announced by customer.updated, by   *)
(* kyc_link.updated or by both.                                            *)
(***************************************************************************)
Verdict(to) ==
  CASE to = "active"   -> bridge \in {"checking", "issues"}
    [] to = "rejected" -> bridge \in {"checking", "issues"}
                          \/ (bridge = "active" /\ "revoke" \in Ops)
    [] to = "issues"   -> bridge = "checking"
    [] to = "clear"    -> bridge = "issues"
Notices(to) ==
  IF to = "active"
  THEN {<<"active">>, <<"link">>, <<"active", "link">>}
  ELSE {<<to>>}
BridgeRules(to) ==
  /\ to \in Ops
  /\ Verdict(to)
  /\ (Quiet /\ inbox = <<>>) \/ "late" \in Faults
  /\ bridge' = IF to = "clear" THEN "checking" ELSE to
  /\ activated' = (activated \/ to = "active")
  /\ \E n \in Notices(to) :
       Len(inbox \o n) =< MaxEvents /\ inbox' = inbox \o n
  /\ UNCHANGED <<rowVars, task>>

Without(i) == SubSeq(inbox, 1, i - 1) \o SubSeq(inbox, i + 1, Len(inbox))
Take(t, event) ==
  /\ Free(t)
  /\ \E i \in 1..Len(inbox) :
       /\ inbox[i] = event
       /\ i = 1 \/ "reorder" \in Faults
       /\ inbox' = Without(i) \/ ("duplicate" \in Faults /\ UNCHANGED inbox)
  /\ UNCHANGED <<bridge, activated>>

(***************************************************************************)
(* The webhooks.  Each reads the profile once, at the start.               *)
(***************************************************************************)
CustomerCreated(t) ==
  /\ Take(t, "created")
  /\ linked' = TRUE
  /\ UNCHANGED <<app, review, profile, wallets, reported, task>>

\* Mutant: an activation counts only while the profile waits for it.
HandlerWaiting(event) ==
  CASE event = "active"   -> IF profile = "pending_bridge" THEN "aFind" ELSE "idle"
    [] event = "rejected" -> "bFind"
    [] event = "issues"   -> IF profile \in {"pending_bridge", "kyc_issues"}
                             THEN "iMark" ELSE "idle"
    [] event = "clear"    -> IF profile = "kyc_issues" THEN "cProfile" ELSE "idle"
\* customer.updated: the id is stored, and then the status decides.
Handler(event) ==
  CASE event = "active"   -> IF profile = "approved" THEN "idle" ELSE "aFind"
    [] event = "rejected" -> "bFind"
    [] event = "issues"   -> IF profile \in {"pending_bridge", "kyc_issues"}
                             THEN "iMark" ELSE "idle"
    [] event = "clear"    -> IF profile = "kyc_issues" THEN "cProfile" ELSE "idle"
CustomerUpdated(t, event) ==
  /\ Take(t, event)
  /\ linked' = TRUE
  /\ Start(t, Handler(event), 1)
  /\ UNCHANGED <<app, review, profile, wallets, reported>>

\* kyc_link.updated.status_transitioned, approved.
KycLinkApproved(t) ==
  /\ Take(t, "link")
  /\ Start(t, IF profile = "approved" THEN "idle" ELSE "lApp", 1)
  /\ UNCHANGED rowVars
LinkApproveApps(t) ==
  /\ At(t, "lApp")
  /\ app' = [a \in Apps |-> IF a \in In(Approvable) THEN "approved" ELSE app[a]]
  /\ Goto(t, "aProfile")
  /\ UNCHANGED <<review, profile, linked, wallets, reported, bridgeVars>>

\* maybeSingle: one row, or none is approved.
FindApprovable(t) ==
  /\ At(t, "aFind")
  /\ IF Cardinality(In(Approvable)) = 1
     THEN \E a \in In(Approvable) : Start(t, "aApp", a)
     ELSE Goto(t, "aProfile")
  /\ UNCHANGED <<rowVars, bridgeVars>>
ApproveApp(t) ==
  /\ At(t, "aApp")
  /\ SetApp(task[t].a, "approved")
  /\ Goto(t, "aProfile")
  /\ UNCHANGED <<review, profile, linked, wallets, reported, bridgeVars>>
ApproveProfile(t) ==
  /\ At(t, "aProfile")
  /\ profile' = "approved"
  /\ linked' = TRUE
  /\ Goto(t, "aWallets")
  /\ UNCHANGED <<app, review, wallets, reported, bridgeVars>>
\* initializeWalletsForUser only logs an error.
InitializeWallets(t) ==
  /\ At(t, "aWallets")
  /\ wallets' = TRUE \/ ("wallets" \in Faults /\ UNCHANGED wallets)
  /\ Goto(t, "aReview")
  /\ UNCHANGED <<app, review, profile, linked, reported, bridgeVars>>
\* Mutant: the review stays open.
CloseApprovedForgets(t) ==
  /\ At(t, "aReview")
  /\ Done(t)
  /\ UNCHANGED <<rowVars, bridgeVars>>
\* handleBridgeApproval: the open review of the latest application.
CloseApproved(t) ==
  /\ At(t, "aReview")
  /\ IF Latest # 0 /\ review[Latest] = "open"
     THEN SetReview(Latest, "closed") ELSE UNCHANGED review
  /\ Done(t)
  /\ UNCHANGED <<app, profile, linked, wallets, reported, bridgeVars>>

\* handleBridgeRejection
FindSent(t) ==
  /\ At(t, "bFind")
  /\ IF profile = "bridge_rejected" THEN Done(t)
     ELSE IF Cardinality(In({"sent_to_bridge"})) = 1
     THEN \E a \in In({"sent_to_bridge"}) : Start(t, "bApp", a)
     ELSE Goto(t, "bProfile")
  /\ UNCHANGED <<rowVars, bridgeVars>>
BridgeRejectsApp(t) ==
  /\ At(t, "bApp")
  /\ SetApp(task[t].a, "bridge_rejected")
  /\ Goto(t, "bProfile")
  /\ UNCHANGED <<review, profile, linked, wallets, reported, bridgeVars>>
BridgeRejectsProfile(t) ==
  /\ At(t, "bProfile")
  /\ profile' = "bridge_rejected"
  /\ Done(t)
  /\ UNCHANGED <<app, review, linked, wallets, reported, bridgeVars>>

\* applyBridgeBlockingIssues: issues already reported change nothing.
BlockingIssues(t) ==
  /\ At(t, "iMark")
  /\ IF reported THEN Done(t) /\ UNCHANGED profile
     ELSE Goto(t, "iEvent") /\ profile' = "kyc_issues"
  /\ UNCHANGED <<app, review, linked, wallets, reported, bridgeVars>>
ReportIssues(t) ==
  /\ At(t, "iEvent")
  /\ reported' = (reported \/ (Latest # 0 /\ review[Latest] = "open"))
  /\ Done(t)
  /\ UNCHANGED <<app, review, profile, linked, wallets, bridgeVars>>
\* reconcileResolvedBridgeIssues
ResolvedIssues(t) ==
  /\ At(t, "cProfile")
  /\ profile' = "pending_bridge"
  /\ Done(t)
  /\ UNCHANGED <<app, review, linked, wallets, reported, bridgeVars>>

Crash ==
  /\ "crash" \in Faults
  /\ ~Quiet
  /\ task' = [t \in Tasks |-> Idle]
  /\ UNCHANGED <<rowVars, bridgeVars>>

Step(t) ==
  \/ Started(t) \/ Submitted(t) \/ InReview(t)
  \/ Send(t) \/ RegisterCustomer(t) \/ RegisterFails(t) \/ Returned(t)
  \/ StoreCustomer(t) \/ PendingBridge(t)
  \/ UpdateCustomer(t) \/ UpdateFails(t) \/ Resent(t)
  \/ CloseReview(t) \/ RejectApp(t) \/ RejectProfile(t)
  \/ ChangeApp(t) \/ ChangeProfile(t)
  \/ LinkApproveApps(t) \/ FindApprovable(t) \/ ApproveApp(t)
  \/ ApproveProfile(t) \/ InitializeWallets(t) \/ CloseApproved(t)
  \/ FindSent(t) \/ BridgeRejectsApp(t) \/ BridgeRejectsProfile(t)
  \/ BlockingIssues(t) \/ ReportIssues(t) \/ ResolvedIssues(t)
Webhook(t) ==
  \/ CustomerCreated(t) \/ KycLinkApproved(t)
  \/ \E event \in {"active", "rejected", "issues", "clear"} :
       CustomerUpdated(t, event)
Staff(t, a) ==
  ApproveReview(t, a) \/ ResendToBridge(t, a) \/ RejectReview(t, a)
  \/ RequestChanges(t, a)

Next ==
  \/ \E t \in Tasks :
       \/ Step(t) \/ Webhook(t)
       \/ CreateKycApplication(t) \/ SubmitKycApplication(t)
       \/ \E a \in Apps : Staff(t, a)
  \/ \E to \in {"active", "rejected", "issues", "clear"} : BridgeRules(to)
  \/ Crash

Spec == Init /\ [][Next]_vars

\* A live process finishes its requests and takes the events that wait.
Fairness ==
  /\ \A t \in Tasks : WF_vars(Step(t))
  /\ SF_vars(\E t \in Tasks : Webhook(t))
FairSpec == Spec /\ Fairness

(***************************************************************************)
(* Properties.                                                             *)
(***************************************************************************)
\* Every variable has its type; in particular the applications only take the
\* statuses of kyc_applications_status_check.
TypeOK ==
  /\ app \in [Apps -> AppStatuses]
  /\ review \in [Apps -> {"none", "open", "closed"}]
  /\ profile \in ProfileStatuses
  /\ linked \in BOOLEAN /\ wallets \in BOOLEAN /\ reported \in BOOLEAN
  /\ bridge \in {"none", "checking", "issues", "active", "rejected"}
  /\ inbox \in Seq(Events)
  /\ activated \in BOOLEAN
  /\ task \in [Tasks -> [pc : Pcs, a : Apps]]

\* Nothing but Bridge's own activation approves a client, one of its
\* applications or opens its wallets, whatever staff do and in whatever order
\* the events come.
ApprovedByBridge ==
  profile = "approved" \/ wallets \/ (\E a \in Apps : app[a] = "approved")
  => activated

\* "el perfil nunca queda en pending_bridge con bridge_customer_id = null"
PendingHasCustomer == profile = "pending_bridge" => linked /\ bridge # "none"

\* When requests and events have been served, the tables agree with Bridge:
\* an active customer has an approved profile and application, wallets and a
\* closed review, and after a rejection nobody waits for Bridge any more.
TablesAgree ==
  Quiet /\ inbox = <<>> =>
    /\ bridge = "active" =>
         /\ profile = "approved" /\ app[Latest] = "approved"
         /\ review[Latest] = "closed" /\ wallets
    /\ bridge = "rejected" =>
         profile \notin {"pending_bridge", "kyc_issues", "approved"}

\* Blocking issues of a client under review reach the staff's dashboard
\* (applyBridgeBlockingIssues: "Marca el perfil como 'kyc_issues' (señal para
\* el dashboard de staff").
IssuesAreShown ==
  Quiet /\ inbox = <<>> /\ bridge = "issues" => profile # "pending_bridge"

\* A client whose customer Bridge activates ends as approved.
ActiveIsApproved == bridge = "active" ~> profile = "approved"
=============================================================================
