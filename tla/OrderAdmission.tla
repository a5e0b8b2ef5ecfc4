--------------------------- MODULE OrderAdmission ---------------------------
(***************************************************************************)
(* What stands between a client and a new order of one flow: his account   *)
(* must be approved, the flow open to him, the hour's orders not used up   *)
(* and the amount within his limits.  Staff raise limits and open flows by *)
(* override; an amount above the maximum may be sent to them instead, as a *)
(* request, and the order is created when they approve it.                 *)
(*                                                                         *)
(* A task is one call and an action is one call of the database; how an    *)
(* order is created is left to OffRampOrders and DepositOrders, but for    *)
(* its INSERT and for its Bridge leg, which may fail it.  The failures of  *)
(* a behaviour are chosen in its first state: "overlap" (several calls at  *)
(* once), "crash", "dbError" (an UPDATE of a request fails), "unmarked"    *)
(* (the UPDATE that fails an order does) and "edits" (staff edit the       *)
(* overrides).                                                             *)
(***************************************************************************)
EXTENDS Naturals, FiniteSets

CONSTANTS
  Requests,  \* ids for rows of order_review_requests
  Rows,      \* ids for the client's overrides
  Amounts,
  Max,       \* the maximum of the flow, MAX_..._USD
  Hourly,    \* MAX_PAYMENT_ORDERS_PER_HOUR
  MaxMade,   \* bound on the orders alive of one request
  Tasks,
  Worlds     \* the sets of failures a behaviour may have

AmountsAssumption ==
  Amounts \subseteq Nat \ {0} /\ Max \in Nat /\ Hourly \in Nat /\ MaxMade \in Nat
RequestsAssumption == Requests # {}

VARIABLES
  approved,  \* profiles.onboarding_status is 'approved'
  limit,     \* customer_limit_overrides; a maximum of 0 stands for null
  flow,      \* customer_flow_overrides
  review,    \* order_review_requests.status
  linked,    \* requests with a payment_order_id
  made,      \* the orders made of each request that are alive: not failed by their leg
  recent,    \* the client's orders of the last hour, up to Hourly
  faults,    \* the failures of this behaviour
  task

overrideVars == <<limit, flow>>
reviewVars == <<review, linked, made>>
vars == <<approved, overrideVars, reviewVars, recent, faults, task>>

States == {"absent", "active", "inactive"}
LimitRow == [state : States, max : Amounts \cup {0}, valid : BOOLEAN]
FlowRow == [state : States, enabled : BOOLEAN]
NoLimit == [state |-> "absent", max |-> 0, valid |-> FALSE]
NoFlow == [state |-> "absent", enabled |-> FALSE]
Statuses == {"absent", "pending_review", "approved", "rejected", "cancelled_by_user",
             "expired"}
Pcs == {"idle", "limit", "order", "lookup", "insert", "build", "leg", "rollback", "link",
        "cancel"}
Idle == [pc |-> "idle", r |-> CHOOSE r \in Requests : TRUE, amount |-> 0]

Init ==
  /\ faults \in Worlds
  /\ approved = TRUE
  /\ limit = [i \in Rows |-> NoLimit]
  /\ flow = [i \in Rows |-> NoFlow]
  /\ review = [r \in Requests |-> "absent"]
  /\ linked = {}
  /\ made = [r \in Requests |-> 0]
  /\ recent = 0
  /\ task = [t \in Tasks |-> Idle]

At(t, pc) == task[t].pc = pc
Become(t, pc, r, amount) ==
  task' = [task EXCEPT ![t] = [pc |-> pc, r |-> r, amount |-> amount]]
Goto(t, pc) == Become(t, pc, task[t].r, task[t].amount)
Done(t) == task' = [task EXCEPT ![t] = Idle]
Free(t) == At(t, "idle") /\ ("overlap" \in faults \/ \A u \in Tasks : At(u, "idle"))
Pending == {r \in Requests : review[r] = "pending_review"}
Set(r, s) == review' = [review EXCEPT ![r] = s]
\* Beyond Hourly one more order changes nothing.
CountOrder == recent' = IF recent < Hourly THEN recent + 1 ELSE recent

\* getPaymentLimits: an override that is active and valid today, if it has a
\* maximum, goes before that of the flow.
MaxInForce ==
  LET own == {i \in Rows : limit[i].state = "active" /\ limit[i].valid /\ limit[i].max # 0}
  IN IF own = {} THEN Max ELSE limit[CHOOSE i \in own : TRUE].max
\* resolveEnabledFlows, of a flow that the client's country has by default.
Enabled == \A i \in Rows : flow[i].state = "active" => flow[i].enabled

(***************************************************************************)
(* createInterbankOrder and createWalletRampOrder                          *)
(***************************************************************************)
Create(t, amount) ==
  /\ Free(t)
  /\ approved /\ recent < Hourly /\ Enabled
  /\ Become(t, "limit", Idle.r, amount)
  /\ UNCHANGED <<approved, overrideVars, reviewVars, recent, faults>>
\* The request needs a client_reason.
CheckAmountLimits(t) ==
  /\ At(t, "limit")
  /\ IF task[t].amount =< MaxInForce THEN Goto(t, "order")
     ELSE Goto(t, "lookup") \/ Done(t)
  /\ UNCHANGED <<approved, overrideVars, reviewVars, recent, faults>>
InsertOrder(t) ==
  /\ At(t, "order")
  /\ CountOrder \/ UNCHANGED recent
  /\ Done(t)
  /\ UNCHANGED <<approved, overrideVars, reviewVars, faults>>
\* createReviewRequest: maybeSingle reads two pending requests as none, and
\* the look is not atomic with the INSERT.
LookupReview(t) ==
  /\ At(t, "lookup")
  /\ IF Cardinality(Pending) = 1 THEN Done(t) ELSE Goto(t, "insert")
  /\ UNCHANGED <<approved, overrideVars, reviewVars, recent, faults>>
InsertReview(t, r) ==
  /\ At(t, "insert")
  /\ review[r] = "absent"
  /\ Set(r, "pending_review")
  /\ Done(t)
  /\ UNCHANGED <<approved, overrideVars, linked, made, recent, faults>>

(***************************************************************************)
(* createOrderFromReview: a compare-and-set, the order, the link.  When    *)
(* there is no order, or its leg failed and with it the order, the request *)
(* is pending again, whatever it has become.                               *)
(***************************************************************************)
\* Mutant: the request is approved without looking at its status.
ApproveReviewAny(t, r) ==
  /\ Free(t)
  /\ review[r] # "absent"
  /\ Set(r, "approved")
  /\ Become(t, "build", r, 0)
  /\ UNCHANGED <<approved, overrideVars, linked, made, recent, faults>>
ApproveReview(t, r) ==
  /\ Free(t)
  /\ review[r] = "pending_review"
  /\ Set(r, "approved")
  /\ Become(t, "build", r, 0)
  /\ UNCHANGED <<approved, overrideVars, linked, made, recent, faults>>
\* Neither the hour's orders nor the account is looked at again.
BuildOrder(t) ==
  /\ At(t, "build")
  /\ LET r == task[t].r IN
     \/ /\ made[r] < MaxMade
        /\ made' = [made EXCEPT ![r] = @ + 1] /\ CountOrder
        /\ Goto(t, "leg")
     \/ Goto(t, "rollback") /\ UNCHANGED <<made, recent>>
  /\ UNCHANGED <<approved, overrideVars, review, linked, faults>>
\* Every failure after the INSERT is handleBridgeLegFailure's, which marks the
\* row 'failed' without looking at the error of that UPDATE, and throws.
ExecuteLeg(t) ==
  /\ At(t, "leg")
  /\ \/ Goto(t, "link") /\ UNCHANGED made
     \/ /\ \/ made' = [made EXCEPT ![task[t].r] = @ - 1]
           \/ "unmarked" \in faults /\ UNCHANGED made
        /\ Goto(t, "rollback")
  /\ UNCHANGED <<approved, overrideVars, review, linked, recent, faults>>
Rollback(t) ==
  /\ At(t, "rollback")
  /\ \/ Set(task[t].r, "pending_review")
     \/ "dbError" \in faults /\ UNCHANGED review
  /\ Done(t)
  /\ UNCHANGED <<approved, overrideVars, linked, made, recent, faults>>
LinkPaymentOrder(t) ==
  /\ At(t, "link")
  /\ \/ linked' = linked \cup {task[t].r}
     \/ "dbError" \in faults /\ UNCHANGED linked
  /\ Done(t)
  /\ UNCHANGED <<approved, overrideVars, review, made, recent, faults>>

RejectReview(t, r) ==
  /\ Free(t)
  /\ review[r] = "pending_review"
  /\ Set(r, "rejected")
  /\ UNCHANGED <<approved, overrideVars, linked, made, recent, faults, task>>
\* cancelReview reads the status, and writes by the id alone.
CheckCancel(t, r) ==
  /\ Free(t)
  /\ review[r] = "pending_review"
  /\ Become(t, "cancel", r, 0)
  /\ UNCHANGED <<approved, overrideVars, reviewVars, recent, faults>>
CancelReview(t) ==
  /\ At(t, "cancel")
  /\ Set(task[t].r, "cancelled_by_user")
  /\ Done(t)
  /\ UNCHANGED <<approved, overrideVars, linked, made, recent, faults>>
\* expireStaleRequests: one UPDATE of those whose time is up.
Expire ==
  /\ \E stale \in SUBSET Pending :
       review' = [r \in Requests |-> IF r \in stale THEN "expired" ELSE review[r]]
  /\ UNCHANGED <<approved, overrideVars, linked, made, recent, faults, task>>

(***************************************************************************)
(* The overrides.  What is looked for before an INSERT or an UPDATE, a     *)
(* unique index of the active rows decides again.                          *)
(***************************************************************************)
NoOtherActive(rows, i) == \A j \in Rows \ {i} : rows[j].state # "active"
CreateLimitOverride(i, max) ==
  /\ limit[i].state = "absent" /\ NoOtherActive(limit, i)
  /\ limit' = [limit EXCEPT ![i] = [state |-> "active", max |-> max, valid |-> TRUE]]
  /\ UNCHANGED flow
UpdateLimitOverride(i, max, state) ==
  /\ limit[i].state # "absent" /\ state # "absent"
  /\ state = "active" => NoOtherActive(limit, i)
  /\ limit' = [limit EXCEPT ![i] = [state |-> state, max |-> max, valid |-> @.valid]]
  /\ UNCHANGED flow
DeleteLimitOverride(i) ==
  /\ limit[i].state # "absent"
  /\ limit' = [limit EXCEPT ![i] = NoLimit]
  /\ UNCHANGED flow
CreateFlowOverride(i, enabled) ==
  /\ flow[i].state = "absent" /\ NoOtherActive(flow, i)
  /\ flow' = [flow EXCEPT ![i] = [state |-> "active", enabled |-> enabled]]
  /\ UNCHANGED limit
UpdateFlowOverride(i, enabled, state) ==
  /\ flow[i].state # "absent" /\ state # "absent"
  /\ state = "active" => NoOtherActive(flow, i)
  /\ flow' = [flow EXCEPT ![i] = [state |-> state, enabled |-> enabled]]
  /\ UNCHANGED limit
DeleteFlowOverride(i) ==
  /\ flow[i].state # "absent"
  /\ flow' = [flow EXCEPT ![i] = NoFlow]
  /\ UNCHANGED limit
\* valid_until has passed.
Lapse(i) ==
  /\ limit[i].valid
  /\ limit' = [limit EXCEPT ![i] = [state |-> @.state, max |-> @.max, valid |-> FALSE]]
  /\ UNCHANGED flow
Edit ==
  /\ "edits" \in faults
  /\ \E i \in Rows :
       \/ \E max \in Amounts \cup {0} :
            \/ CreateLimitOverride(i, max)
            \/ \E state \in States : UpdateLimitOverride(i, max, state)
       \/ \E enabled \in BOOLEAN :
            \/ CreateFlowOverride(i, enabled)
            \/ \E state \in States : UpdateFlowOverride(i, enabled, state)
       \/ DeleteLimitOverride(i) \/ DeleteFlowOverride(i) \/ Lapse(i)
  /\ UNCHANGED <<approved, reviewVars, recent, faults, task>>

\* Outside: an hour passes, the account is suspended, the process dies.
Hour ==
  /\ recent > 0 /\ recent' = 0
  /\ UNCHANGED <<approved, overrideVars, reviewVars, faults, task>>
Suspend ==
  /\ approved /\ approved' = FALSE
  /\ UNCHANGED <<overrideVars, reviewVars, recent, faults, task>>
Crash ==
  /\ "crash" \in faults
  /\ \E t \in Tasks : ~At(t, "idle")
  /\ task' = [t \in Tasks |-> Idle]
  /\ UNCHANGED <<approved, overrideVars, reviewVars, recent, faults>>

Call(t, r) ==
  \/ InsertReview(t, r) \/ ApproveReview(t, r) \/ RejectReview(t, r) \/ CheckCancel(t, r)
Step(t) ==
  \/ CheckAmountLimits(t) \/ InsertOrder(t) \/ LookupReview(t)
  \/ BuildOrder(t) \/ ExecuteLeg(t) \/ Rollback(t) \/ LinkPaymentOrder(t)
  \/ CancelReview(t)

Next ==
  \/ \E t \in Tasks : Step(t)
  \/ \E t \in Tasks, r \in Requests : Call(t, r)
  \/ \E t \in Tasks, amount \in Amounts : Create(t, amount)
  \/ Expire \/ Edit \/ Hour \/ Suspend \/ Crash

Spec == Init /\ [][Next]_vars

(***************************************************************************)
(* Properties.                                                             *)
(***************************************************************************)
TypeOK ==
  /\ faults \in Worlds
  /\ approved \in BOOLEAN
  /\ limit \in [Rows -> LimitRow] /\ flow \in [Rows -> FlowRow]
  /\ review \in [Requests -> Statuses]
  /\ linked \subseteq Requests
  /\ made \in [Requests -> Nat]
  /\ recent \in 0 .. Hourly
  /\ task \in [Tasks -> [pc : Pcs, r : Requests, amount : Amounts \cup {0}]]

\* However approvals, rejections, cancellations, rollbacks and the cron cross,
\* a request has at most one order alive, and none while it waits for staff,
\* who could approve it again (createOrderFromReview: "lock optimista").  Rows
\* that their leg failed may be many, one of each approval that was rolled
\* back.  The exception is a leg that fails when the row could not be marked
\* so: that order stays alive beside the next.  What a request names is alive.
OneOrderPerReview ==
  \A r \in Requests :
    /\ r \in linked => made[r] > 0
    /\ "unmarked" \notin faults =>
         made[r] =< 1 /\ (review[r] = "pending_review" => made[r] = 0 /\ r \notin linked)

\* When calls do not overlap and nothing fails, a request that is at rest says
\* what became of it: approved ones, and no others, made an order and name it.
ReviewsMatchOrders ==
  faults \subseteq {"edits"} /\ (\A t \in Tasks : At(t, "idle")) =>
    \A r \in Requests :
      (review[r] = "approved" <=> made[r] = 1) /\ (made[r] = 1 <=> r \in linked)
=============================================================================
