---------------------------- MODULE BridgeIssues ----------------------------
(***************************************************************************)
(* What Bridge still wants of a client whom it examines, and how the staff *)
(* hear of it.  Every change of Bridge's lists is announced by a           *)
(* customer.updated that carries them; the handler takes out what is       *)
(* somebody's to correct, compares it with what was told last, marks the   *)
(* profile and tells the staff, or takes the mark away.                    *)
(*                                                                         *)
(* Onboarding has the same handler as one of many that write the profile,  *)
(* and only whether anything was told; here is what was told.  A task is   *)
(* one event being handled and an action one access to the database.  The  *)
(* review of the client stays open, so that what is told is also kept.     *)
(*                                                                         *)
(* The failures of a behaviour are chosen in its first state: "overlap"    *)
(* (two events at once), "reorder", "crash" (the event is handled again).  *)
(***************************************************************************)
EXTENDS Naturals, Sequences, FiniteSets

CONSTANTS
  Codes,
  Internal,    \* those of Bridge's own checks, for nobody to correct
  None,
  MaxChanges,  \* a bound: how often Bridge's lists change
  Tasks,
  Worlds       \* the sets of failures a behaviour may have

CodesAssumption ==
  Internal \subseteq Codes /\ MaxChanges \in Nat /\ \A S \in SUBSET Codes : S # None

VARIABLES
  wanted,   \* requirements of the endorsements, at Bridge
  inbox,    \* the events to handle, each with the lists of its moment
  shown,    \* onboarding_status
  told,     \* bridge_issues of the last event of the review
  last,     \* history: the lists of the last event that found the client waiting
  changes,
  faults,
  task

vars == <<wanted, inbox, shown, told, last, changes, faults, task>>

Waiting == {"pending_bridge", "kyc_issues"}
Lists == [issues : SUBSET Codes, missing : SUBSET Codes]
Idle == [pc |-> "idle", event |-> None, found |-> {}]

Init ==
  /\ faults \in Worlds
  /\ wanted = [issues |-> {}, missing |-> {}]
  /\ inbox = <<>>
  /\ shown = "pending_bridge"
  /\ told = None /\ last = None
  /\ changes = 0
  /\ task = [t \in Tasks |-> Idle]

At(t, pc) == task[t].pc = pc
Goto(t, pc) == task' = [task EXCEPT ![t].pc = pc]
Done(t) == task' = [task EXCEPT ![t] = Idle]
AllIdle == \A t \in Tasks : At(t, "idle")

\* Bridge, external: what it wants changes, and it says so.
BridgeLists ==
  /\ changes < MaxChanges
  /\ changes' = changes + 1
  /\ \E l \in Lists \ {wanted} : wanted' = l
  /\ inbox' = Append(inbox, wanted')
  /\ UNCHANGED <<shown, told, last, faults, task>>

\* isBridgeInternalProcessMarker
IsInternal(code) == code \in Internal
\* extractEndorsementIssues: issues always block; of what is missing or pending
\* (one list here) only what the client or the staff can correct.
Blocking(lists) == lists.issues \cup {c \in lists.missing : ~IsInternal(c)}

Without(i) == SubSeq(inbox, 1, i - 1) \o SubSeq(inbox, i + 1, Len(inbox))
\* handleCustomerUpdated, incomplete or under_review: the profile is read once.
Take(t) ==
  /\ At(t, "idle") /\ (AllIdle \/ "overlap" \in faults)
  /\ \E i \in 1..Len(inbox) :
       /\ i = 1 \/ "reorder" \in faults
       /\ inbox' = Without(i)
       /\ last' = IF shown \in Waiting THEN inbox[i] ELSE last
       /\ task' = [task EXCEPT ![t] =
                     [event |-> inbox[i], found |-> Blocking(inbox[i]),
                      pc |-> IF shown \notin Waiting THEN "idle"
                             ELSE IF Blocking(inbox[i]) # {} THEN "compare"
                             ELSE IF shown = "kyc_issues" THEN "resolve" ELSE "idle"]]
  /\ UNCHANGED <<wanted, shown, told, changes, faults>>

\* Mutant: only how many there are is compared.
SameNumber(a, b) == Cardinality(a) = Cardinality(b)
\* sameIssueSet
SameIssueSet(a, b) == a = b
\* findLastReportedBridgeIssues: what was told last is not told again.
Compare(t) ==
  /\ At(t, "compare")
  /\ IF told # None /\ SameIssueSet(told, task[t].found) THEN Done(t) ELSE Goto(t, "mark")
  /\ UNCHANGED <<wanted, inbox, shown, told, last, changes, faults>>
\* applyBridgeBlockingIssues
Mark(t) ==
  /\ At(t, "mark")
  /\ shown' = "kyc_issues"
  /\ Goto(t, "tell")
  /\ UNCHANGED <<wanted, inbox, told, last, changes, faults>>
\* handleBridgeIncomplete: the event of the review and the notices of the staff.
Tell(t) ==
  /\ At(t, "tell")
  /\ told' = task[t].found
  /\ Done(t)
  /\ UNCHANGED <<wanted, inbox, shown, last, changes, faults>>

\* reconcileResolvedBridgeIssues
Resolve(t) ==
  /\ At(t, "resolve")
  /\ shown' = "pending_bridge"
  /\ Done(t)
  /\ UNCHANGED <<wanted, inbox, told, last, changes, faults>>

\* The staff ask the client for corrections, and send him to Bridge again: what came
\* before is not waited for any more.
RequestChanges ==
  /\ AllIdle \/ "overlap" \in faults
  /\ shown \in Waiting
  /\ shown' = "started" /\ last' = None
  /\ UNCHANGED <<wanted, inbox, told, changes, faults, task>>
SendAgain ==
  /\ AllIdle \/ "overlap" \in faults
  /\ shown = "started"
  /\ shown' = "pending_bridge"
  /\ UNCHANGED <<wanted, inbox, told, last, changes, faults, task>>

\* The cron gives the event out again, before those after it.
Crash(t) ==
  /\ "crash" \in faults
  /\ ~At(t, "idle")
  /\ inbox' = <<task[t].event>> \o inbox
  /\ Done(t)
  /\ UNCHANGED <<wanted, shown, told, last, changes, faults>>

Next ==
  \/ \E t \in Tasks :
       Take(t) \/ Compare(t) \/ Mark(t) \/ Tell(t) \/ Resolve(t) \/ Crash(t)
  \/ BridgeLists \/ RequestChanges \/ SendAgain

Spec == Init /\ [][Next]_vars

(***************************************************************************)
(* Properties                                                              *)
(***************************************************************************)
\* Every variable has its type.
TypeOK ==
  /\ wanted \in Lists /\ inbox \in Seq(Lists)
  /\ shown \in Waiting \cup {"started"}
  /\ told \in {None} \cup SUBSET Codes
  /\ last \in {None} \cup Lists
  /\ changes \in 0..MaxChanges
  /\ \A t \in Tasks : task[t].pc \in {"idle", "compare", "mark", "tell", "resolve"}

\* With every event handled, a profile shown to the staff as blocked is one they were
\* told of (applyBridgeBlockingIssues marks before it tells).  One event at a time and in
\* order, crashes included, what stands in the review is what the last event that
\* blocked the client said, and he is shown as blocked only while the last one blocks
\* him: what was told before is not told again, so an event that is skipped must not
\* leave another one standing.
IssuesAreTold ==
  AllIdle /\ inbox = <<>> =>
    /\ shown = "kyc_issues" => told # None
    /\ faults \cap {"overlap", "reorder"} = {} /\ last # None =>
         LET blocking == last.issues \cup (last.missing \ Internal) IN
         /\ blocking # {} => told = blocking
         /\ shown = "kyc_issues" => blocking # {}
=============================================================================
