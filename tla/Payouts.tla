------------------------------- MODULE Payouts -------------------------------
(***************************************************************************)
(* Payouts of BridgeService: a client asks for one, its amount is reserved,*)
(* a large one waits for staff (directly or through a compliance review),  *)
(* and a Bridge transfer pays it out.  The webhooks of the transfer finish *)
(* it.  One user and one currency, so the payouts share a balance.         *)
(*                                                                         *)
(* A task is one request or webhook in flight and an action is one call of *)
(* the database or of Bridge.  Ops is the set of requests and outcomes of  *)
(* a scenario, Faults its failures: "refuse" (Bridge rejects the POST),    *)
(* "lost" (its answer is lost), "rpcError" (release_reserved_balance       *)
(* fails), "noReview" (the review is not stored), "dbError" (another write *)
(* fails), "crash", "overlap" (two tasks on one payout).                   *)
(***************************************************************************)
EXTENDS BalanceLedger, FiniteSets

CONSTANTS
  Payouts, Tasks,
  Cost,        \* amount plus fee of each payout
  Large,       \* those that reach PAYOUT_REVIEW_THRESHOLD
  Deposit,     \* the balance the user begins with
  MaxBalance,  \* bound on manual credits and on repeated releases
  MaxLost,     \* bound on the credits that a fallback writes over
  MaxDebits,   \* bound on the debits with which a payout is approved again
  Deliveries,  \* how often an event of each kind is handled
  LinkChecked, \* ledger_entries.bridge_transfer_id is a foreign key
  Ops, Faults

Kinds == {"complete", "failed"}

ASSUME PayoutsAssumption == Payouts # {} /\ Large \subseteq Payouts
ASSUME CostAssumption == Cost \in [Payouts -> Nat \ {0}]
ASSUME DepositAssumption == Deposit \in Nat /\ MaxBalance \in Nat
ASSUME LostAssumption == MaxLost \in Nat
ASSUME DebitsAssumption == MaxDebits \in Nat
ASSUME DeliveriesAssumption == Deliveries \in [Kinds -> Nat]
ASSUME LinkAssumption == LinkChecked \in BOOLEAN

VARIABLES
  status,    \* payout_requests.status; "absent" before the INSERT
  review,    \* compliance_reviews.status of the payout
  row,       \* bridge_transfers.status of its transfer
  debits,    \* its pending debits in ledger_entries
  charges,   \* its settled debits
  bal,       \* the row of balances
  bridge,    \* the transfer in Bridge under the key of the payout
  inbox,     \* deliveries left of each Bridge event
  approved,  \* history: staff approved it
  overwritten, \* history: credits that a fallback wrote over
  task

payoutVars == <<status, review, approved>>
moneyVars == <<row, debits, charges, bal, overwritten>>
vars == <<payoutVars, moneyVars, bridge, inbox, task>>

Statuses == {"absent", "pending", "processing", "completed", "failed", "rejected"}
Pcs == {"idle", "reserve", "insert", "review", "post", "row", "entry", "mark",
        "release", "fallback", "failMark", "rejectRead", "rejectMark",
        "cPayout", "cSettle", "fMark", "fPayout", "fRelease"}

APayout == CHOOSE p \in Payouts : TRUE
Empty == [amount |-> Deposit, available |-> Deposit, reserved |-> 0]
Job(pc, p, then, seen) == [pc |-> pc, p |-> p, then |-> then, seen |-> seen]
Idle == Job("idle", APayout, "idle", Empty)

Init ==
  /\ status = [p \in Payouts |-> "absent"]
  /\ review = [p \in Payouts |-> "none"]
  /\ row = [p \in Payouts |-> "none"]
  /\ debits = [p \in Payouts |-> 0]
  /\ charges = [p \in Payouts |-> 0]
  /\ bal = Empty
  /\ bridge = [p \in Payouts |-> "none"]
  /\ inbox = [e \in Payouts \X Kinds |-> 0]
  /\ approved = [p \in Payouts |-> FALSE]
  /\ overwritten = 0
  /\ task = [t \in Tasks |-> Idle]

At(t, pc) == task[t].pc = pc
Free(t, p) ==
  /\ At(t, "idle")
  /\ "overlap" \in Faults \/ \A u \in Tasks : At(u, "idle") \/ task[u].p # p
Start(t, job) == task' = [task EXCEPT ![t] = job]
Begin(t, p, pc) == Free(t, p) /\ Start(t, Job(pc, p, "idle", Empty))
Goto(t, pc) ==
  Start(t, IF pc = "idle" THEN Idle ELSE [task[t] EXCEPT !.pc = pc])
Done(t) == Goto(t, "idle")
\* releaseReservedBalance, then the rest of the request.
ReleaseThen(t, pc) == Start(t, Job("release", task[t].p, pc, Empty))
Write(p, s) == status' = [status EXCEPT ![p] = s]

(***************************************************************************)
(* createPayout.  The error of reserve_balance is not looked at.           *)
(***************************************************************************)
Create(t, p) ==
  /\ "create" \in Ops
  /\ status[p] = "absent"
  /\ \A u \in Tasks : At(u, "idle") \/ task[u].p # p
  /\ bal.available >= Cost[p]
  /\ Begin(t, p, "reserve")
  /\ UNCHANGED <<payoutVars, moneyVars, bridge, inbox>>

Reserve(t) ==
  /\ At(t, "reserve")
  /\ bal' = Reserved(bal, Cost[task[t].p])
  /\ Goto(t, "insert")
  /\ UNCHANGED <<payoutVars, row, debits, charges, overwritten, bridge, inbox>>

Insert(t) ==
  LET p == task[t].p IN
  /\ At(t, "insert")
  /\ \/ Write(p, "pending") /\ Goto(t, IF p \in Large THEN "review" ELSE "post")
     \/ "dbError" \in Faults /\ UNCHANGED status /\ ReleaseThen(t, "idle")
  /\ UNCHANGED <<review, approved, moneyVars, bridge, inbox>>

\* Mutant: a payout whose review could not be stored goes on.
OpenReviewGoesOn(t) ==
  /\ At(t, "review")
  /\ \/ review' = [review EXCEPT ![task[t].p] = "open"] /\ Done(t)
     \/ "noReview" \in Faults /\ UNCHANGED review /\ Goto(t, "post")
  /\ UNCHANGED <<status, approved, moneyVars, bridge, inbox>>
\* createComplianceReview: an error is only logged.
OpenReview(t) ==
  /\ At(t, "review")
  /\ \/ review' = [review EXCEPT ![task[t].p] = "open"]
     \/ "noReview" \in Faults /\ UNCHANGED review
  /\ Done(t)
  /\ UNCHANGED <<status, approved, moneyVars, bridge, inbox>>

(***************************************************************************)
(* executePayout.  It looks at no status, and marks the payout last.       *)
(***************************************************************************)
Sent(p) == IF bridge[p] = "none" THEN [bridge EXCEPT ![p] = "sent"] ELSE bridge
Post(t) ==
  /\ At(t, "post")
  /\ bridge' = Sent(task[t].p)
  /\ Goto(t, "row")
  /\ UNCHANGED <<payoutVars, moneyVars, inbox>>

\* Mutant: a payout that Bridge refused keeps its reserve.
PostFailsKeeps(t) ==
  /\ At(t, "post")
  /\ \/ "refuse" \in Faults /\ UNCHANGED bridge
     \/ "lost" \in Faults /\ bridge' = Sent(task[t].p)
  /\ Goto(t, "failMark")
  /\ UNCHANGED <<payoutVars, moneyVars, inbox>>
PostFails(t) ==
  /\ At(t, "post")
  /\ \/ "refuse" \in Faults /\ UNCHANGED bridge
     \/ "lost" \in Faults /\ bridge' = Sent(task[t].p)
  /\ ReleaseThen(t, "failMark")
  /\ UNCHANGED <<payoutVars, moneyVars, inbox>>

\* The unique index keeps a second row of one transfer out.
Record(t) ==
  LET p == task[t].p IN
  /\ At(t, "row")
  /\ \/ row' = IF row[p] = "none" THEN [row EXCEPT ![p] = "processing"] ELSE row
     \/ "dbError" \in Faults /\ UNCHANGED row
  /\ Goto(t, "entry")
  /\ UNCHANGED <<payoutVars, debits, charges, overwritten, bal, bridge, inbox>>

\* The debit carries the id Bridge gave the transfer; the webhooks look for
\* that of its row.
EntryRef == "bridge"
LocalRef == "local"
Debit(t) ==
  /\ At(t, "entry")
  /\ LinkChecked => EntryRef = LocalRef
  /\ debits' = [debits EXCEPT ![task[t].p] = @ + 1]
  /\ Goto(t, "mark")
  /\ UNCHANGED <<payoutVars, row, charges, overwritten, bal, bridge, inbox>>
\* createEntry throws and the request ends.
DebitThrows(t) ==
  /\ At(t, "entry")
  /\ (LinkChecked /\ EntryRef # LocalRef) \/ "dbError" \in Faults
  /\ Done(t)
  /\ UNCHANGED <<payoutVars, moneyVars, bridge, inbox>>

\* Mutant: the payout is not marked.
MarkForgotten(t) ==
  /\ At(t, "mark")
  /\ Done(t)
  /\ UNCHANGED <<payoutVars, moneyVars, bridge, inbox>>
Mark(t) ==
  /\ At(t, "mark")
  /\ Write(task[t].p, "processing")
  /\ Done(t)
  /\ UNCHANGED <<review, approved, moneyVars, bridge, inbox>>

(***************************************************************************)
(* releaseReservedBalance: the RPC, or a read and a write of the balance.  *)
(***************************************************************************)
Release(t) ==
  LET k == task[t] IN
  /\ At(t, "release")
  /\ bal.available + Cost[k.p] =< MaxBalance
  /\ bal' \in Releases(bal, Cost[k.p])
  /\ Goto(t, k.then)
  /\ UNCHANGED <<payoutVars, row, debits, charges, overwritten, bridge, inbox>>

FallbackRead(t) ==
  LET k == task[t] IN
  /\ "rpcError" \in Faults
  /\ At(t, "release")
  /\ Start(t, Job("fallback", k.p, k.then, bal))
  /\ UNCHANGED <<payoutVars, moneyVars, bridge, inbox>>

\* The write knows nothing of what was credited since the balance was read.
Overwrite(seen) ==
  /\ overwritten' = overwritten + AtLeast(0, bal.amount - seen.amount)
  /\ overwritten' =< MaxLost
\* Mutant: the fallback only lowers the reserved part.
FallbackWriteHalf(t) ==
  LET k == task[t] IN
  /\ At(t, "fallback")
  /\ k.seen.available + Cost[k.p] =< MaxBalance
  /\ bal' = [amount |-> bal.amount,
             available |-> k.seen.available,
             reserved |-> AtLeast(0, k.seen.reserved - Cost[k.p])]
  /\ Overwrite(k.seen)
  /\ Goto(t, k.then)
  /\ UNCHANGED <<payoutVars, row, debits, charges, bridge, inbox>>
FallbackWrite(t) ==
  LET k == task[t] IN
  /\ At(t, "fallback")
  /\ k.seen.available + Cost[k.p] =< MaxBalance
  /\ bal' = [amount |-> bal.amount,
             available |-> k.seen.available + Cost[k.p],
             reserved |-> AtLeast(0, k.seen.reserved - Cost[k.p])]
  /\ Overwrite(k.seen)
  /\ Goto(t, k.then)
  /\ UNCHANGED <<payoutVars, row, debits, charges, bridge, inbox>>

FailMark(t) ==
  /\ At(t, "failMark")
  /\ Write(task[t].p, "failed")
  /\ Done(t)
  /\ UNCHANGED <<review, approved, moneyVars, bridge, inbox>>

(***************************************************************************)
(* Staff.  approvePayout and rejectPayout read a pending payout and act    *)
(* later; approving leaves its review open, rejecting closes it first.     *)
(***************************************************************************)
\* Mutant: without the WHERE status = 'pending'.
ApproveAny(t, p) ==
  /\ "approve" \in Ops
  /\ status[p] # "absent"
  /\ debits[p] < MaxDebits
  /\ approved' = [approved EXCEPT ![p] = TRUE]
  /\ Begin(t, p, "post")
  /\ UNCHANGED <<status, review, moneyVars, bridge, inbox>>
Approve(t, p) ==
  /\ "approve" \in Ops
  /\ status[p] = "pending"
  /\ debits[p] < MaxDebits
  /\ approved' = [approved EXCEPT ![p] = TRUE]
  /\ Begin(t, p, "post")
  /\ UNCHANGED <<status, review, moneyVars, bridge, inbox>>

Reject(t, p) ==
  /\ "reject" \in Ops
  /\ status[p] = "pending"
  /\ Free(t, p)
  /\ Start(t, Job("release", p, "rejectMark", Empty))
  /\ UNCHANGED <<payoutVars, moneyVars, bridge, inbox>>

RejectReview(t, p) ==
  /\ "reject" \in Ops
  /\ review[p] = "open"
  /\ review' = [review EXCEPT ![p] = "closed"]
  /\ Begin(t, p, "rejectRead")
  /\ UNCHANGED <<status, approved, moneyVars, bridge, inbox>>

\* applyRejectionToSubject: rejectPayout throws unless it is pending.
RejectRead(t) ==
  LET p == task[t].p IN
  /\ At(t, "rejectRead")
  /\ IF status[p] = "pending" THEN ReleaseThen(t, "rejectMark") ELSE Done(t)
  /\ UNCHANGED <<payoutVars, moneyVars, bridge, inbox>>

RejectMark(t) ==
  /\ At(t, "rejectMark")
  /\ Write(task[t].p, "rejected")
  /\ Done(t)
  /\ UNCHANGED <<review, approved, moneyVars, bridge, inbox>>

\* LedgerService.createAdjustment of one unit: a settled entry.
Adjust(type) ==
  LET diff == Signed(type, 1) IN
  /\ type \in Ops
  /\ Postable(bal, diff)
  /\ bal.amount + diff \in 0..MaxBalance
  /\ bal' = Posted(bal, diff)
  /\ UNCHANGED <<payoutVars, row, debits, charges, overwritten, bridge, inbox, task>>

(***************************************************************************)
(* Bridge, external, and its webhooks.  Everything is found through the    *)
(* row of the transfer.                                                    *)
(***************************************************************************)
BridgeMoves(p, to) ==
  /\ to \in Ops
  /\ bridge[p] = "sent"
  /\ bridge' = [bridge EXCEPT ![p] = to]
  /\ inbox' = [inbox EXCEPT ![<<p, to>>] = Deliveries[to]]
  /\ UNCHANGED <<payoutVars, moneyVars, task>>

Take(p, kind) ==
  /\ inbox[<<p, kind>>] > 0
  /\ inbox' = [inbox EXCEPT ![<<p, kind>>] = @ - 1]
SetRow(p, s) == row' = IF row[p] = "none" THEN row ELSE [row EXCEPT ![p] = s]

CompleteStart(t, p) ==
  /\ Take(p, "complete")
  /\ SetRow(p, "completed")
  /\ Begin(t, p, IF row[p] = "none" THEN "idle" ELSE "cPayout")
  /\ UNCHANGED <<payoutVars, debits, charges, overwritten, bal, bridge>>

\* Mutant: the payout of a completed transfer is not looked for.
CompletePayoutSkips(t) ==
  /\ At(t, "cPayout")
  /\ Goto(t, "cSettle")
  /\ UNCHANGED <<payoutVars, moneyVars, bridge, inbox>>
CompletePayout(t) ==
  /\ At(t, "cPayout")
  /\ Write(task[t].p, "completed")
  /\ Goto(t, "cSettle")
  /\ UNCHANGED <<review, approved, moneyVars, bridge, inbox>>

\* UPDATE ... WHERE bridge_transfer_id = transfer.id
Matched(p) == IF EntryRef = LocalRef THEN debits[p] ELSE 0
CompleteSettle(t) ==
  LET p == task[t].p  diff == Signed("debit", Matched(p) * Cost[p]) IN
  /\ At(t, "cSettle")
  /\ Postable(bal, diff)
  /\ charges' = [charges EXCEPT ![p] = @ + Matched(p)]
  /\ debits' = [debits EXCEPT ![p] = @ - Matched(p)]
  /\ bal' = Posted(bal, diff)
  /\ Done(t)
  /\ UNCHANGED <<payoutVars, row, overwritten, bridge, inbox>>

FailedStart(t, p) ==
  /\ Take(p, "failed")
  /\ Begin(t, p, IF row[p] \in {"none", "completed"} THEN "idle" ELSE "fMark")
  /\ UNCHANGED <<payoutVars, moneyVars, bridge>>
FailedMark(t) ==
  /\ At(t, "fMark")
  /\ SetRow(task[t].p, "failed")
  /\ Goto(t, "fPayout")
  /\ UNCHANGED <<payoutVars, debits, charges, overwritten, bal, bridge, inbox>>
\* The payout fails, and the debits that match the row.
FailedPayout(t) ==
  LET p == task[t].p IN
  /\ At(t, "fPayout")
  /\ Write(p, "failed")
  /\ debits' = [debits EXCEPT ![p] = @ - Matched(p)]
  /\ Goto(t, "fRelease")
  /\ UNCHANGED <<review, approved, row, charges, overwritten, bal, bridge, inbox>>
\* The error of this RPC is not looked at.
FailedRelease(t) ==
  /\ At(t, "fRelease")
  /\ bal.available + Cost[task[t].p] =< MaxBalance
  /\ \/ bal' \in Releases(bal, Cost[task[t].p])
     \/ "rpcError" \in Faults /\ UNCHANGED bal
  /\ Done(t)
  /\ UNCHANGED <<payoutVars, row, debits, charges, overwritten, bridge, inbox>>

Crash ==
  /\ "crash" \in Faults
  /\ \E t \in Tasks : ~At(t, "idle")
  /\ task' = [t \in Tasks |-> Idle]
  /\ UNCHANGED <<payoutVars, moneyVars, bridge, inbox>>

Step(t) ==
  \/ Reserve(t) \/ Insert(t) \/ OpenReview(t)
  \/ Post(t) \/ PostFails(t) \/ Record(t) \/ Debit(t) \/ DebitThrows(t) \/ Mark(t)
  \/ Release(t) \/ FallbackRead(t) \/ FallbackWrite(t) \/ FailMark(t)
  \/ RejectRead(t) \/ RejectMark(t)
  \/ CompletePayout(t) \/ CompleteSettle(t)
  \/ FailedMark(t) \/ FailedPayout(t) \/ FailedRelease(t)
Webhook(t, p) == CompleteStart(t, p) \/ FailedStart(t, p)

Next ==
  \/ \E t \in Tasks : Step(t)
  \/ \E t \in Tasks, p \in Payouts :
       \/ Create(t, p) \/ Approve(t, p) \/ Reject(t, p) \/ RejectReview(t, p)
       \/ Webhook(t, p)
  \/ \E type \in {"credit", "debit"} : Adjust(type)
  \/ \E p \in Payouts, to \in Kinds : BridgeMoves(p, to)
  \/ Crash

Spec == Init /\ [][Next]_vars

\* A live process finishes its requests and takes every event.  That of the
\* webhooks is strong because only the bound on Tasks makes an event wait.
Fairness ==
  /\ \A t \in Tasks : WF_vars(Step(t))
  /\ \A p \in Payouts : SF_vars(\E t \in Tasks : Webhook(t, p))
FairSpec == Spec /\ Fairness

(***************************************************************************)
(* Properties.                                                             *)
(***************************************************************************)
Task == [pc : Pcs, p : Payouts, then : Pcs, seen : Balance]
\* Every variable has its type; in particular neither part of the balance
\* falls below zero, by whatever path a reserve is given back.
TypeOK ==
  /\ status \in [Payouts -> Statuses]
  /\ review \in [Payouts -> {"none", "open", "closed"}]
  /\ row \in [Payouts -> {"none", "processing", "completed", "failed"}]
  /\ debits \in [Payouts -> Nat]
  /\ charges \in [Payouts -> Nat]
  /\ bal \in Balance
  /\ bridge \in [Payouts -> {"none", "sent"} \cup Kinds]
  /\ inbox \in [Payouts \X Kinds -> Nat]
  /\ approved \in [Payouts -> BOOLEAN]
  /\ overwritten \in Nat
  /\ task \in [Tasks -> Task]

\* A large payout reaches Bridge only after staff approved it, even when its
\* review could not be stored.
LargeIsReviewed == \A p \in Large : bridge[p] # "none" => approved[p]

\* Available plus reserved falls below the amount only by what was credited
\* while a fallback of releaseReservedBalance was between its read and its
\* write (bridge.service.ts:1998-2017), which is lost.  Nothing else of the
\* client's money is: not by two fallbacks that overwrite each other, nor by
\* one that overwrites a reserve, a release or a debit.
FundsKept == bal.available + bal.reserved >= bal.amount - overwritten

Quiet == \A t \in Tasks : At(t, "idle")

\* A rejected payout is not on its way to Bridge.
RejectedIsNotSent ==
  \A p \in Payouts : status[p] = "rejected" => bridge[p] = "none"

\* A payout is debited at most once, however often it is approved.
DebitedAtMostOnce == \A p \in Payouts : debits[p] + charges[p] =< 1

\* When its events have been handled, a completed payout has been charged
\* (handleTransferComplete: a payout's entry "se vincula por
\* bridge_transfer_id (UUID local)").
CompletedIsCharged ==
  Quiet => \A p \in Payouts : status[p] = "completed" => charges[p] = 1

\* A payout whose transfer Bridge completed ends as completed.
DeliveredIsCompleted ==
  \A p \in Payouts : bridge[p] = "complete" ~> status[p] = "completed"
=============================================================================
