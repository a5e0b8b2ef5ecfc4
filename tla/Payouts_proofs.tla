--------------------------- MODULE Payouts_proofs ---------------------------
(***************************************************************************)
(* Proofs about Payouts, for any payouts, tasks, costs and faults; at the  *)
(* end those about Onboarding are carried over to the run that checks it   *)
(* beside the payouts, for any values of the constants of either part.     *)
(***************************************************************************)
EXTENDS MCExact, SumTheorems, TLAPS

(***************************************************************************)
(* The inductive invariant.  A large payout can only be on its way to      *)
(* Bridge after staff approved it.  The balance that a fallback has read   *)
(* covers the amount it read, but for what was written over before: what   *)
(* was credited since is what its write adds to overwritten.               *)
(***************************************************************************)
SendingPcs == {"post", "row", "entry", "mark"}
AfterRelease == {"idle", "failMark", "rejectMark"}
Covers(b, amount) == b.available + b.reserved >= amount
Reviewed ==
  /\ LargeIsReviewed
  /\ \A t \in Tasks : task[t].pc \in SendingPcs /\ task[t].p \in Large =>
       approved[task[t].p]
  /\ \A t \in Tasks : task[t].then \in AfterRelease
Kept ==
  /\ FundsKept
  /\ \A t \in Tasks : task[t].pc = "fallback" =>
       Covers(task[t].seen, task[t].seen.amount - overwritten)
PayoutInv == TypeOK /\ Reviewed

(***************************************************************************)
(* The balance: each operation keeps its type, and moves the sum of the    *)
(* parts with the amount or raises it.                                     *)
(***************************************************************************)
LEMMA PostedKeeps ==
  ASSUME NEW b \in Balance, NEW diff \in Int, Postable(b, diff), NEW n \in Int
  PROVE  /\ Posted(b, diff) \in Balance
         /\ Covers(b, b.amount - n) => Covers(Posted(b, diff), Posted(b, diff).amount - n)
BY DEF Balance, Posted, Postable, AtLeast, AtMost, Covers

LEMMA ReservedKeeps ==
  ASSUME NEW b \in Balance, NEW amt \in Nat, NEW n \in Int
  PROVE  /\ Reserved(b, amt) \in Balance /\ Reserved(b, amt).amount = b.amount
         /\ Covers(b, n) => Covers(Reserved(b, amt), n)
BY DEF Balance, Reserved, Freed, Covers

LEMMA ReleasesKeep ==
  ASSUME NEW b \in Balance, NEW amt \in Nat, NEW c \in Releases(b, amt), NEW n \in Int
  PROVE  /\ c \in Balance /\ c.amount = b.amount
         /\ Covers(b, n) => Covers(c, n)
BY DEF Balance, Releases, Freed, Covers

\* A webhook finds all the debits of a payout or none, whichever id they carry.
LEMMA MatchedIs ==
  ASSUME TypeOK, NEW p \in Payouts
  PROVE  /\ debits[p] \in Nat /\ charges[p] \in Nat
         /\ Matched(p) \in {0, debits[p]} /\ Matched(p) \in Nat
         /\ debits[p] - Matched(p) \in Nat /\ charges[p] + Matched(p) \in Nat
<1>1. debits[p] \in Nat /\ charges[p] \in Nat
  BY DEF TypeOK
<1>2. Matched(p) \in {0, debits[p]}
  BY DEF Matched
<1> QED
  BY <1>1, <1>2

\* What the settlement adds to the balance.
LEMMA SettledIs ==
  ASSUME NEW n \in Nat, NEW c \in Nat
  PROVE  Signed("debit", n * c) \in Int /\ Signed("debit", n * c) = -(n * c)
BY DEF Signed

LEMMA TaskFields ==
  ASSUME TypeOK, NEW t \in Tasks
  PROVE  /\ task[t].p \in Payouts /\ task[t].then \in Pcs /\ task[t].pc \in Pcs
         /\ task[t].seen \in Balance
         /\ Cost[task[t].p] \in Nat /\ bal \in Balance
BY CostAssumption DEF TypeOK, Task

LEMMA IdleType ==
  Idle \in Task /\ Idle.pc = "idle" /\ Idle.then = "idle" /\ Empty \in Balance
<1>1. APayout \in Payouts
  BY PayoutsAssumption DEF APayout
<1>2. Empty \in Balance
  BY DepositAssumption DEF Empty, Balance
<1> QED
  BY <1>1, <1>2 DEF Idle, Job, Task, Pcs

LEMMA GotoType ==
  ASSUME TypeOK, NEW t \in Tasks, NEW pc \in Pcs, Goto(t, pc)
  PROVE  /\ task' \in [Tasks -> Task]
         /\ task'[t].pc = pc
         /\ pc # "idle" => task'[t].p = task[t].p /\ task'[t].seen = task[t].seen
         /\ task'[t].then \in {task[t].then, "idle"}
         /\ \A u \in Tasks : u # t => task'[u] = task[u]
<1>1. /\ task' = [task EXCEPT ![t] = task'[t]]
      /\ task'[t] = IF pc = "idle" THEN Idle ELSE [task[t] EXCEPT !.pc = pc]
  BY DEF Goto, Start, TypeOK
<1>2. task'[t] \in Task
  BY <1>1, IdleType DEF TypeOK, Task
<1> QED
  BY <1>1, <1>2, IdleType DEF TypeOK, Task

LEMMA StartType ==
  ASSUME TypeOK, NEW t \in Tasks, NEW pc \in Pcs, NEW p \in Payouts,
         NEW then \in Pcs, NEW seen \in Balance, Start(t, Job(pc, p, then, seen))
  PROVE  /\ task' \in [Tasks -> Task]
         /\ task'[t].pc = pc /\ task'[t].p = p /\ task'[t].seen = seen
         /\ task'[t].then = then
         /\ \A u \in Tasks : u # t => task'[u] = task[u]
BY DEF Start, Job, Task, TypeOK

\* A step that leads task t to a harmless place keeps Reviewed.
LEMMA ReviewedKept ==
  ASSUME PayoutInv, NEW t \in Tasks,
         \A u \in Tasks : u # t => task'[u] = task[u],
         task'[t].pc \in SendingPcs /\ task'[t].p \in Large => approved'[task'[t].p],
         task'[t].then \in AfterRelease,
         \A p \in Payouts : approved[p] => approved'[p],
         \A p \in Large : bridge'[p] # "none" => bridge[p] # "none" \/ approved[p]
  PROVE  Reviewed'
<1>1. \A u \in Tasks : task[u].p \in Payouts
  BY DEF PayoutInv, TypeOK, Task
<1>2. Large \subseteq Payouts
  BY PayoutsAssumption
<1> QED
  BY <1>1, <1>2 DEF PayoutInv, Reviewed, LargeIsReviewed

(***************************************************************************)
(* The steps of a task.                                                    *)
(***************************************************************************)
LEMMA StepInv ==
  ASSUME PayoutInv, NEW t \in Tasks, Step(t)
  PROVE  PayoutInv'
<1>0. /\ task[t].p \in Payouts /\ task[t].then \in Pcs /\ task[t].seen \in Balance
      /\ Cost[task[t].p] \in Nat /\ bal \in Balance /\ TypeOK
      /\ task[t].then \in AfterRelease
      /\ task[t].pc \in SendingPcs /\ task[t].p \in Large => approved[task[t].p]
  BY TaskFields DEF PayoutInv, Reviewed
<1>1. CASE Reserve(t)
  <2>1. Goto(t, "insert")
    BY <1>1 DEF Reserve, Done
  <2>2. "insert" \in Pcs
    BY <1>0 DEF Pcs
  <2>3. /\ task' \in [Tasks -> Task] /\ task'[t].pc = "insert"
        /\ "insert" # "idle" => task'[t].p = task[t].p
        /\ task'[t].then \in AfterRelease
        /\ \A u \in Tasks : u # t => task'[u] = task[u]
    BY <1>0, <2>1, <2>2, GotoType DEF AfterRelease
  <2>4. bal' \in Balance
    BY <1>0, <1>1, ReservedKeeps DEF Reserve
  <2>5. TypeOK'
    BY <1>0, <1>1, <2>3, <2>4 DEF Reserve, TypeOK, Statuses, Kinds, payoutVars,
      moneyVars
  <2>6. Reviewed'
    <3>1. /\ task'[t].pc \in SendingPcs /\ task'[t].p \in Large => approved'[task'[t].p]
          /\ \A p \in Payouts : approved[p] => approved'[p]
          /\ \A p \in Large : bridge'[p] # "none" => bridge[p] # "none" \/ approved[p]
      BY <1>0, <1>1, <2>3 DEF Reserve, At, SendingPcs, AfterRelease, TypeOK,
        payoutVars, moneyVars
    <3> QED
      BY <2>3, <3>1, ReviewedKept
  <2> QED
    BY <2>5, <2>6 DEF PayoutInv
<1>2. CASE Insert(t)
  <2>3. /\ task' \in [Tasks -> Task]
        /\ task'[t].pc \in {"review", "post", "release"}
        /\ task'[t].pc = "post" => task[t].p \notin Large
        /\ task'[t].p = task[t].p
        /\ task'[t].then \in AfterRelease
        /\ \A u \in Tasks : u # t => task'[u] = task[u]
    <3>1. CASE Goto(t, IF task[t].p \in Large THEN "review" ELSE "post")
      <4> DEFINE pc == IF task[t].p \in Large THEN "review" ELSE "post"
      <4>1. pc \in Pcs /\ pc # "idle"
        BY DEF Pcs
      <4>2. Goto(t, pc)
        BY <3>1
      <4> HIDE DEF pc
      <4>3. /\ task' \in [Tasks -> Task] /\ task'[t].pc = pc
            /\ task'[t].p = task[t].p /\ task'[t].then \in AfterRelease
            /\ \A u \in Tasks : u # t => task'[u] = task[u]
        BY <1>0, <4>1, <4>2, GotoType DEF AfterRelease
      <4> QED
        BY <4>3 DEF pc
    <3>2. CASE ReleaseThen(t, "idle")
      <4>1. "release" \in Pcs /\ "idle" \in Pcs
        BY DEF Pcs
      <4> QED
        BY <1>0, <3>2, <4>1, StartType, IdleType DEF ReleaseThen, AfterRelease
    <3> QED
      BY <1>2, <3>1, <3>2 DEF Insert
  <2>5. TypeOK'
    BY <1>0, <1>2, <2>3 DEF Insert, Write, TypeOK, Statuses, Kinds, payoutVars,
      moneyVars
  <2>6. Reviewed'
    <3>1. /\ task'[t].pc \in SendingPcs /\ task'[t].p \in Large => approved'[task'[t].p]
          /\ \A p \in Payouts : approved[p] => approved'[p]
          /\ \A p \in Large : bridge'[p] # "none" => bridge[p] # "none" \/ approved[p]
      BY <1>0, <1>2, <2>3 DEF Insert, At, SendingPcs, AfterRelease, TypeOK, payoutVars,
        moneyVars
    <3> QED
      BY <2>3, <3>1, ReviewedKept
  <2> QED
    BY <2>5, <2>6 DEF PayoutInv
<1>3. CASE OpenReview(t)
  <2>1. Goto(t, "idle")
    BY <1>3 DEF OpenReview, Done
  <2>2. "idle" \in Pcs
    BY <1>0 DEF Pcs
  <2>3. /\ task' \in [Tasks -> Task] /\ task'[t].pc = "idle"
        /\ "idle" # "idle" => task'[t].p = task[t].p
        /\ task'[t].then \in AfterRelease
        /\ \A u \in Tasks : u # t => task'[u] = task[u]
    BY <1>0, <2>1, <2>2, GotoType DEF AfterRelease
  <2>5. TypeOK'
    BY <1>0, <1>3, <2>3 DEF OpenReview, TypeOK, Statuses, Kinds, payoutVars, moneyVars
  <2>6. Reviewed'
    <3>1. /\ task'[t].pc \in SendingPcs /\ task'[t].p \in Large => approved'[task'[t].p]
          /\ \A p \in Payouts : approved[p] => approved'[p]
          /\ \A p \in Large : bridge'[p] # "none" => bridge[p] # "none" \/ approved[p]
      BY <1>0, <1>3, <2>3 DEF OpenReview, At, SendingPcs, AfterRelease, TypeOK,
        payoutVars, moneyVars
    <3> QED
      BY <2>3, <3>1, ReviewedKept
  <2> QED
    BY <2>5, <2>6 DEF PayoutInv
<1>4. CASE Post(t)
  <2>1. Goto(t, "row")
    BY <1>4 DEF Post, Done
  <2>2. "row" \in Pcs
    BY <1>0 DEF Pcs
  <2>3. /\ task' \in [Tasks -> Task] /\ task'[t].pc = "row"
        /\ "row" # "idle" => task'[t].p = task[t].p
        /\ task'[t].then \in AfterRelease
        /\ \A u \in Tasks : u # t => task'[u] = task[u]
    BY <1>0, <2>1, <2>2, GotoType DEF AfterRelease
  <2>5. TypeOK'
    BY <1>0, <1>4, <2>3 DEF Post, Sent, TypeOK, Statuses, Kinds, payoutVars, moneyVars
  <2>6. Reviewed'
    <3>1. /\ task'[t].pc \in SendingPcs /\ task'[t].p \in Large => approved'[task'[t].p]
          /\ \A p \in Payouts : approved[p] => approved'[p]
          /\ \A p \in Large : bridge'[p] # "none" => bridge[p] # "none" \/ approved[p]
      BY <1>0, <1>4, <2>3 DEF Post, At, Sent, SendingPcs, AfterRelease, TypeOK,
        payoutVars, moneyVars
    <3> QED
      BY <2>3, <3>1, ReviewedKept
  <2> QED
    BY <2>5, <2>6 DEF PayoutInv
<1>5. CASE PostFails(t)
  <2>1. Start(t, Job("release", task[t].p, "failMark", Empty))
    BY <1>5 DEF ReleaseThen, PostFails
  <2>2. /\ "release" \in Pcs /\ "failMark" \in Pcs
        /\ Empty \in Balance /\ "failMark" \in AfterRelease
    BY <1>0, IdleType DEF Pcs, AfterRelease
  <2>3. /\ task' \in [Tasks -> Task] /\ task'[t].pc = "release"
        /\ task'[t].then \in AfterRelease
        /\ \A u \in Tasks : u # t => task'[u] = task[u]
    BY <1>0, <2>1, <2>2, StartType
  <2>5. TypeOK'
    BY <1>0, <1>5, <2>3 DEF PostFails, Sent, TypeOK, Statuses, Kinds, payoutVars,
      moneyVars
  <2>6. Reviewed'
    <3>1. task'[t].pc \notin SendingPcs
      BY <2>3 DEF SendingPcs
    <3>2. approved' = approved
      BY <1>5 DEF PostFails, payoutVars
    <3>3. task[t].p \in Large => approved[task[t].p]
      BY <1>0, <1>5 DEF PostFails, At, SendingPcs
    <3>4. bridge' = bridge \/ bridge' = Sent(task[t].p)
      BY <1>5 DEF PostFails
    <3>5. \A p \in Large : bridge'[p] # "none" => bridge[p] # "none" \/ approved[p]
      <4>1. CASE bridge' = bridge
        BY <4>1
      <4>2. CASE bridge' = Sent(task[t].p)
        <5>1. \A p \in Payouts : p # task[t].p => bridge'[p] = bridge[p]
          BY <4>2, <1>0 DEF Sent, TypeOK
        <5> QED
          BY <5>1, <3>3, PayoutsAssumption
      <4> QED
        BY <4>1, <4>2, <3>4
    <3> QED
      BY <2>3, <3>1, <3>2, <3>5, ReviewedKept
  <2> QED
    BY <2>5, <2>6 DEF PayoutInv
<1>6. CASE Record(t)
  <2>1. Goto(t, "entry")
    BY <1>6 DEF Record, Done
  <2>2. "entry" \in Pcs
    BY <1>0 DEF Pcs
  <2>3. /\ task' \in [Tasks -> Task] /\ task'[t].pc = "entry"
        /\ "entry" # "idle" => task'[t].p = task[t].p
        /\ task'[t].then \in AfterRelease
        /\ \A u \in Tasks : u # t => task'[u] = task[u]
    BY <1>0, <2>1, <2>2, GotoType DEF AfterRelease
  <2>5. TypeOK'
    BY <1>0, <1>6, <2>3 DEF Record, TypeOK, Statuses, Kinds, payoutVars, moneyVars
  <2>6. Reviewed'
    <3>1. /\ task'[t].pc \in SendingPcs /\ task'[t].p \in Large => approved'[task'[t].p]
          /\ \A p \in Payouts : approved[p] => approved'[p]
          /\ \A p \in Large : bridge'[p] # "none" => bridge[p] # "none" \/ approved[p]
      BY <1>0, <1>6, <2>3 DEF Record, At, SendingPcs, AfterRelease, TypeOK, payoutVars,
        moneyVars
    <3> QED
      BY <2>3, <3>1, ReviewedKept
  <2> QED
    BY <2>5, <2>6 DEF PayoutInv
<1>7. CASE Debit(t)
  <2>1. Goto(t, "mark")
    BY <1>7 DEF Debit, Done
  <2>2. "mark" \in Pcs
    BY <1>0 DEF Pcs
  <2>3. /\ task' \in [Tasks -> Task] /\ task'[t].pc = "mark"
        /\ "mark" # "idle" => task'[t].p = task[t].p
        /\ task'[t].then \in AfterRelease
        /\ \A u \in Tasks : u # t => task'[u] = task[u]
    BY <1>0, <2>1, <2>2, GotoType DEF AfterRelease
  <2>5. TypeOK'
    BY <1>0, <1>7, <2>3 DEF Debit, TypeOK, Statuses, Kinds, payoutVars, moneyVars
  <2>6. Reviewed'
    <3>1. /\ task'[t].pc \in SendingPcs /\ task'[t].p \in Large => approved'[task'[t].p]
          /\ \A p \in Payouts : approved[p] => approved'[p]
          /\ \A p \in Large : bridge'[p] # "none" => bridge[p] # "none" \/ approved[p]
      BY <1>0, <1>7, <2>3 DEF Debit, At, SendingPcs, AfterRelease, TypeOK, payoutVars,
        moneyVars
    <3> QED
      BY <2>3, <3>1, ReviewedKept
  <2> QED
    BY <2>5, <2>6 DEF PayoutInv
<1>8. CASE DebitThrows(t)
  <2>1. Goto(t, "idle")
    BY <1>8 DEF DebitThrows, Done
  <2>2. "idle" \in Pcs
    BY <1>0 DEF Pcs
  <2>3. /\ task' \in [Tasks -> Task] /\ task'[t].pc = "idle"
        /\ "idle" # "idle" => task'[t].p = task[t].p
        /\ task'[t].then \in AfterRelease
        /\ \A u \in Tasks : u # t => task'[u] = task[u]
    BY <1>0, <2>1, <2>2, GotoType DEF AfterRelease
  <2>5. TypeOK'
    BY <1>0, <1>8, <2>3 DEF DebitThrows, TypeOK, Statuses, Kinds, payoutVars, moneyVars
  <2>6. Reviewed'
    <3>1. /\ task'[t].pc \in SendingPcs /\ task'[t].p \in Large => approved'[task'[t].p]
          /\ \A p \in Payouts : approved[p] => approved'[p]
          /\ \A p \in Large : bridge'[p] # "none" => bridge[p] # "none" \/ approved[p]
      BY <1>0, <1>8, <2>3 DEF DebitThrows, At, SendingPcs, AfterRelease, TypeOK,
        payoutVars, moneyVars
    <3> QED
      BY <2>3, <3>1, ReviewedKept
  <2> QED
    BY <2>5, <2>6 DEF PayoutInv
<1>9. CASE Mark(t)
  <2>1. Goto(t, "idle")
    BY <1>9 DEF Mark, Done
  <2>2. "idle" \in Pcs
    BY <1>0 DEF Pcs
  <2>3. /\ task' \in [Tasks -> Task] /\ task'[t].pc = "idle"
        /\ "idle" # "idle" => task'[t].p = task[t].p
        /\ task'[t].then \in AfterRelease
        /\ \A u \in Tasks : u # t => task'[u] = task[u]
    BY <1>0, <2>1, <2>2, GotoType DEF AfterRelease
  <2>5. TypeOK'
    BY <1>0, <1>9, <2>3 DEF Mark, Write, TypeOK, Statuses, Kinds, payoutVars, moneyVars
  <2>6. Reviewed'
    <3>1. /\ task'[t].pc \in SendingPcs /\ task'[t].p \in Large => approved'[task'[t].p]
          /\ \A p \in Payouts : approved[p] => approved'[p]
          /\ \A p \in Large : bridge'[p] # "none" => bridge[p] # "none" \/ approved[p]
      BY <1>0, <1>9, <2>3 DEF Mark, At, SendingPcs, AfterRelease, TypeOK, payoutVars,
        moneyVars
    <3> QED
      BY <2>3, <3>1, ReviewedKept
  <2> QED
    BY <2>5, <2>6 DEF PayoutInv
<1>10. CASE Release(t)
  <2>1. Goto(t, task[t].then)
    BY <1>10 DEF Release, Done
  <2>2. task[t].then \in Pcs
    BY <1>0 DEF Pcs
  <2>3. /\ task' \in [Tasks -> Task] /\ task'[t].pc = task[t].then
        /\ task[t].then # "idle" => task'[t].p = task[t].p
        /\ task'[t].then \in AfterRelease
        /\ \A u \in Tasks : u # t => task'[u] = task[u]
    BY <1>0, <2>1, <2>2, GotoType DEF AfterRelease
  <2>4. bal' \in Balance
    BY <1>0, <1>10, ReleasesKeep DEF Release
  <2>5. TypeOK'
    BY <1>0, <1>10, <2>3, <2>4 DEF Release, TypeOK, Statuses, Kinds, payoutVars,
      moneyVars
  <2>6. Reviewed'
    <3>1. /\ task'[t].pc \in SendingPcs /\ task'[t].p \in Large => approved'[task'[t].p]
          /\ \A p \in Payouts : approved[p] => approved'[p]
          /\ \A p \in Large : bridge'[p] # "none" => bridge[p] # "none" \/ approved[p]
      BY <1>0, <1>10, <2>3 DEF Release, At, SendingPcs, AfterRelease, TypeOK,
        payoutVars, moneyVars
    <3> QED
      BY <2>3, <3>1, ReviewedKept
  <2> QED
    BY <2>5, <2>6 DEF PayoutInv
<1>11. CASE FallbackRead(t)
  <2>1. Start(t, Job("fallback", task[t].p, task[t].then, bal))
    BY <1>11 DEF FallbackRead
  <2>2. /\ "fallback" \in Pcs /\ task[t].then \in Pcs
        /\ bal \in Balance /\ task[t].then \in AfterRelease
    BY <1>0, IdleType DEF Pcs, AfterRelease
  <2>3. /\ task' \in [Tasks -> Task] /\ task'[t].pc = "fallback"
        /\ task'[t].then \in AfterRelease
        /\ \A u \in Tasks : u # t => task'[u] = task[u]
    BY <1>0, <2>1, <2>2, StartType
  <2>5. TypeOK'
    BY <1>0, <1>11, <2>3 DEF FallbackRead, TypeOK, Statuses, Kinds, payoutVars,
      moneyVars
  <2>6. Reviewed'
    <3>1. /\ task'[t].pc \in SendingPcs /\ task'[t].p \in Large => approved'[task'[t].p]
          /\ \A p \in Payouts : approved[p] => approved'[p]
          /\ \A p \in Large : bridge'[p] # "none" => bridge[p] # "none" \/ approved[p]
      BY <1>0, <1>11, <2>3 DEF FallbackRead, At, SendingPcs, AfterRelease, TypeOK,
        payoutVars, moneyVars
    <3> QED
      BY <2>3, <3>1, ReviewedKept
  <2> QED
    BY <2>5, <2>6 DEF PayoutInv
<1>12. CASE FallbackWrite(t)
  <2>1. Goto(t, task[t].then)
    BY <1>12 DEF FallbackWrite, Done
  <2>2. task[t].then \in Pcs
    BY <1>0 DEF Pcs
  <2>3. /\ task' \in [Tasks -> Task] /\ task'[t].pc = task[t].then
        /\ task[t].then # "idle" => task'[t].p = task[t].p
        /\ task'[t].then \in AfterRelease
        /\ \A u \in Tasks : u # t => task'[u] = task[u]
    BY <1>0, <2>1, <2>2, GotoType DEF AfterRelease
  <2>4. bal' \in Balance /\ overwritten' \in Nat
    <3>1. overwritten' = overwritten + AtLeast(0, bal.amount - task[t].seen.amount)
      BY <1>12 DEF FallbackWrite, Overwrite
    <3>2. bal' \in Balance
      BY <1>0, <1>12 DEF FallbackWrite, AtLeast, Balance
    <3> QED
      BY <1>0, <3>1, <3>2 DEF AtLeast, Balance, TypeOK
  <2>5. TypeOK'
    BY <1>0, <1>12, <2>3, <2>4 DEF FallbackWrite, TypeOK, Statuses, Kinds, payoutVars,
      moneyVars
  <2>6. Reviewed'
    <3>1. /\ task'[t].pc \in SendingPcs /\ task'[t].p \in Large => approved'[task'[t].p]
          /\ \A p \in Payouts : approved[p] => approved'[p]
          /\ \A p \in Large : bridge'[p] # "none" => bridge[p] # "none" \/ approved[p]
      BY <1>0, <1>12, <2>3 DEF FallbackWrite, At, SendingPcs, AfterRelease, TypeOK,
        payoutVars, moneyVars
    <3> QED
      BY <2>3, <3>1, ReviewedKept
  <2> QED
    BY <2>5, <2>6 DEF PayoutInv
<1>13. CASE FailMark(t)
  <2>1. Goto(t, "idle")
    BY <1>13 DEF FailMark, Done
  <2>2. "idle" \in Pcs
    BY <1>0 DEF Pcs
  <2>3. /\ task' \in [Tasks -> Task] /\ task'[t].pc = "idle"
        /\ "idle" # "idle" => task'[t].p = task[t].p
        /\ task'[t].then \in AfterRelease
        /\ \A u \in Tasks : u # t => task'[u] = task[u]
    BY <1>0, <2>1, <2>2, GotoType DEF AfterRelease
  <2>5. TypeOK'
    BY <1>0, <1>13, <2>3 DEF FailMark, Write, TypeOK, Statuses, Kinds, payoutVars,
      moneyVars
  <2>6. Reviewed'
    <3>1. /\ task'[t].pc \in SendingPcs /\ task'[t].p \in Large => approved'[task'[t].p]
          /\ \A p \in Payouts : approved[p] => approved'[p]
          /\ \A p \in Large : bridge'[p] # "none" => bridge[p] # "none" \/ approved[p]
      BY <1>0, <1>13, <2>3 DEF FailMark, At, SendingPcs, AfterRelease, TypeOK,
        payoutVars, moneyVars
    <3> QED
      BY <2>3, <3>1, ReviewedKept
  <2> QED
    BY <2>5, <2>6 DEF PayoutInv
<1>14. CASE RejectRead(t)
  <2>3. /\ task' \in [Tasks -> Task] /\ task'[t].pc \in {"idle", "release"}
        /\ task'[t].then \in AfterRelease
        /\ \A u \in Tasks : u # t => task'[u] = task[u]
    <3>0. "release" \in Pcs /\ "idle" \in Pcs /\ "rejectMark" \in Pcs
      BY DEF Pcs
    <3>1. CASE Done(t)
      BY <1>0, <3>0, <3>1, GotoType DEF Done, AfterRelease
    <3>2. CASE ReleaseThen(t, "rejectMark")
      BY <1>0, <3>0, <3>2, StartType, IdleType DEF ReleaseThen, AfterRelease
    <3> QED
      BY <1>14, <3>1, <3>2 DEF RejectRead
  <2>5. TypeOK'
    BY <1>0, <1>14, <2>3 DEF RejectRead, TypeOK, Statuses, Kinds, payoutVars, moneyVars
  <2>6. Reviewed'
    <3>1. /\ task'[t].pc \in SendingPcs /\ task'[t].p \in Large => approved'[task'[t].p]
          /\ \A p \in Payouts : approved[p] => approved'[p]
          /\ \A p \in Large : bridge'[p] # "none" => bridge[p] # "none" \/ approved[p]
      BY <1>0, <1>14, <2>3 DEF RejectRead, At, SendingPcs, AfterRelease, TypeOK,
        payoutVars, moneyVars
    <3> QED
      BY <2>3, <3>1, ReviewedKept
  <2> QED
    BY <2>5, <2>6 DEF PayoutInv
<1>15. CASE RejectMark(t)
  <2>1. Goto(t, "idle")
    BY <1>15 DEF RejectMark, Done
  <2>2. "idle" \in Pcs
    BY <1>0 DEF Pcs
  <2>3. /\ task' \in [Tasks -> Task] /\ task'[t].pc = "idle"
        /\ "idle" # "idle" => task'[t].p = task[t].p
        /\ task'[t].then \in AfterRelease
        /\ \A u \in Tasks : u # t => task'[u] = task[u]
    BY <1>0, <2>1, <2>2, GotoType DEF AfterRelease
  <2>5. TypeOK'
    BY <1>0, <1>15, <2>3 DEF RejectMark, Write, TypeOK, Statuses, Kinds, payoutVars,
      moneyVars
  <2>6. Reviewed'
    <3>1. /\ task'[t].pc \in SendingPcs /\ task'[t].p \in Large => approved'[task'[t].p]
          /\ \A p \in Payouts : approved[p] => approved'[p]
          /\ \A p \in Large : bridge'[p] # "none" => bridge[p] # "none" \/ approved[p]
      BY <1>0, <1>15, <2>3 DEF RejectMark, At, SendingPcs, AfterRelease, TypeOK,
        payoutVars, moneyVars
    <3> QED
      BY <2>3, <3>1, ReviewedKept
  <2> QED
    BY <2>5, <2>6 DEF PayoutInv
<1>16. CASE CompletePayout(t)
  <2>1. Goto(t, "cSettle")
    BY <1>16 DEF CompletePayout, Done
  <2>2. "cSettle" \in Pcs
    BY <1>0 DEF Pcs
  <2>3. /\ task' \in [Tasks -> Task] /\ task'[t].pc = "cSettle"
        /\ "cSettle" # "idle" => task'[t].p = task[t].p
        /\ task'[t].then \in AfterRelease
        /\ \A u \in Tasks : u # t => task'[u] = task[u]
    BY <1>0, <2>1, <2>2, GotoType DEF AfterRelease
  <2>5. TypeOK'
    BY <1>0, <1>16, <2>3 DEF CompletePayout, Write, TypeOK, Statuses, Kinds,
      payoutVars, moneyVars
  <2>6. Reviewed'
    <3>1. /\ task'[t].pc \in SendingPcs /\ task'[t].p \in Large => approved'[task'[t].p]
          /\ \A p \in Payouts : approved[p] => approved'[p]
          /\ \A p \in Large : bridge'[p] # "none" => bridge[p] # "none" \/ approved[p]
      BY <1>0, <1>16, <2>3 DEF CompletePayout, At, SendingPcs, AfterRelease, TypeOK,
        payoutVars, moneyVars
    <3> QED
      BY <2>3, <3>1, ReviewedKept
  <2> QED
    BY <2>5, <2>6 DEF PayoutInv
<1>17. CASE CompleteSettle(t)
  <2>1. Goto(t, "idle")
    BY <1>17 DEF CompleteSettle, Done
  <2>2. "idle" \in Pcs
    BY <1>0 DEF Pcs
  <2>3. /\ task' \in [Tasks -> Task] /\ task'[t].pc = "idle"
        /\ "idle" # "idle" => task'[t].p = task[t].p
        /\ task'[t].then \in AfterRelease
        /\ \A u \in Tasks : u # t => task'[u] = task[u]
    BY <1>0, <2>1, <2>2, GotoType DEF AfterRelease
  <2>4. /\ bal' \in Balance
        /\ debits' \in [Payouts -> Nat] /\ charges' \in [Payouts -> Nat]
    <3>1. /\ Matched(task[t].p) \in Nat /\ debits[task[t].p] - Matched(task[t].p) \in Nat
          /\ charges[task[t].p] + Matched(task[t].p) \in Nat
      BY <1>0, MatchedIs
    <3>2. Signed("debit", Matched(task[t].p) * Cost[task[t].p]) \in Int
      BY <1>0, <3>1, SettledIs
    <3>3. bal' \in Balance
      BY <1>0, <1>17, <3>2, PostedKeeps DEF CompleteSettle
    <3> QED
      BY <1>0, <1>17, <3>1, <3>3 DEF CompleteSettle, TypeOK
  <2>5. TypeOK'
    BY <1>0, <1>17, <2>3, <2>4 DEF CompleteSettle, TypeOK, Statuses, Kinds, payoutVars,
      moneyVars
  <2>6. Reviewed'
    <3>1. /\ task'[t].pc \in SendingPcs /\ task'[t].p \in Large => approved'[task'[t].p]
          /\ \A p \in Payouts : approved[p] => approved'[p]
          /\ \A p \in Large : bridge'[p] # "none" => bridge[p] # "none" \/ approved[p]
      BY <1>0, <1>17, <2>3 DEF CompleteSettle, At, SendingPcs, AfterRelease, TypeOK,
        payoutVars, moneyVars
    <3> QED
      BY <2>3, <3>1, ReviewedKept
  <2> QED
    BY <2>5, <2>6 DEF PayoutInv
<1>18. CASE FailedMark(t)
  <2>1. Goto(t, "fPayout")
    BY <1>18 DEF FailedMark, Done
  <2>2. "fPayout" \in Pcs
    BY <1>0 DEF Pcs
  <2>3. /\ task' \in [Tasks -> Task] /\ task'[t].pc = "fPayout"
        /\ "fPayout" # "idle" => task'[t].p = task[t].p
        /\ task'[t].then \in AfterRelease
        /\ \A u \in Tasks : u # t => task'[u] = task[u]
    BY <1>0, <2>1, <2>2, GotoType DEF AfterRelease
  <2>5. TypeOK'
    BY <1>0, <1>18, <2>3 DEF FailedMark, SetRow, TypeOK, Statuses, Kinds, payoutVars,
      moneyVars
  <2>6. Reviewed'
    <3>1. /\ task'[t].pc \in SendingPcs /\ task'[t].p \in Large => approved'[task'[t].p]
          /\ \A p \in Payouts : approved[p] => approved'[p]
          /\ \A p \in Large : bridge'[p] # "none" => bridge[p] # "none" \/ approved[p]
      BY <1>0, <1>18, <2>3 DEF FailedMark, At, SendingPcs, AfterRelease, TypeOK,
        payoutVars, moneyVars
    <3> QED
      BY <2>3, <3>1, ReviewedKept
  <2> QED
    BY <2>5, <2>6 DEF PayoutInv
<1>19. CASE FailedPayout(t)
  <2>1. Goto(t, "fRelease")
    BY <1>19 DEF FailedPayout, Done
  <2>2. "fRelease" \in Pcs
    BY <1>0 DEF Pcs
  <2>3. /\ task' \in [Tasks -> Task] /\ task'[t].pc = "fRelease"
        /\ "fRelease" # "idle" => task'[t].p = task[t].p
        /\ task'[t].then \in AfterRelease
        /\ \A u \in Tasks : u # t => task'[u] = task[u]
    BY <1>0, <2>1, <2>2, GotoType DEF AfterRelease
  <2>4. debits' \in [Payouts -> Nat]
    <3>1. debits[task[t].p] - Matched(task[t].p) \in Nat
      BY <1>0, MatchedIs
    <3> QED
      BY <1>0, <1>19, <3>1 DEF FailedPayout, TypeOK
  <2>5. TypeOK'
    BY <1>0, <1>19, <2>3, <2>4 DEF FailedPayout, Write, TypeOK, Statuses, Kinds,
      payoutVars, moneyVars
  <2>6. Reviewed'
    <3>1. /\ task'[t].pc \in SendingPcs /\ task'[t].p \in Large => approved'[task'[t].p]
          /\ \A p \in Payouts : approved[p] => approved'[p]
          /\ \A p \in Large : bridge'[p] # "none" => bridge[p] # "none" \/ approved[p]
      BY <1>0, <1>19, <2>3 DEF FailedPayout, At, SendingPcs, AfterRelease, TypeOK,
        payoutVars, moneyVars
    <3> QED
      BY <2>3, <3>1, ReviewedKept
  <2> QED
    BY <2>5, <2>6 DEF PayoutInv
<1>20. CASE FailedRelease(t)
  <2>1. Goto(t, "idle")
    BY <1>20 DEF FailedRelease, Done
  <2>2. "idle" \in Pcs
    BY <1>0 DEF Pcs
  <2>3. /\ task' \in [Tasks -> Task] /\ task'[t].pc = "idle"
        /\ "idle" # "idle" => task'[t].p = task[t].p
        /\ task'[t].then \in AfterRelease
        /\ \A u \in Tasks : u # t => task'[u] = task[u]
    BY <1>0, <2>1, <2>2, GotoType DEF AfterRelease
  <2>4. bal' \in Balance
    BY <1>0, <1>20, ReleasesKeep DEF FailedRelease
  <2>5. TypeOK'
    BY <1>0, <1>20, <2>3, <2>4 DEF FailedRelease, TypeOK, Statuses, Kinds, payoutVars,
      moneyVars
  <2>6. Reviewed'
    <3>1. /\ task'[t].pc \in SendingPcs /\ task'[t].p \in Large => approved'[task'[t].p]
          /\ \A p \in Payouts : approved[p] => approved'[p]
          /\ \A p \in Large : bridge'[p] # "none" => bridge[p] # "none" \/ approved[p]
      BY <1>0, <1>20, <2>3 DEF FailedRelease, At, SendingPcs, AfterRelease, TypeOK,
        payoutVars, moneyVars
    <3> QED
      BY <2>3, <3>1, ReviewedKept
  <2> QED
    BY <2>5, <2>6 DEF PayoutInv
<1> QED
  BY <1>1, <1>2, <1>3, <1>4, <1>5, <1>6, <1>7, <1>8, <1>9, <1>10, <1>11, <1>12, <1>13,
    <1>14, <1>15, <1>16, <1>17, <1>18, <1>19, <1>20 DEF Step

(***************************************************************************)
(* Requests, adjustments, Bridge and its webhooks.                         *)
(***************************************************************************)
LEMMA BeginInv ==
  ASSUME PayoutInv, NEW t \in Tasks, NEW p \in Payouts,
         Create(t, p) \/ Approve(t, p) \/ Reject(t, p) \/ RejectReview(t, p)
         \/ Webhook(t, p)
  PROVE  PayoutInv'
<1> DEFINE pcs == {"idle", "reserve", "post", "release", "rejectRead", "cPayout", "fMark"}
<1>1. PICK pc \in pcs, then \in AfterRelease :
        /\ Start(t, Job(pc, p, then, Empty))
        /\ pc = "post" => approved'[p]
  BY DEF PayoutInv, TypeOK, Create, Approve, Reject, RejectReview, Webhook,
    CompleteStart,
    FailedStart, Begin, AfterRelease
<1>2. pc \in Pcs /\ then \in Pcs /\ TypeOK /\ Empty \in Balance
  BY IdleType DEF PayoutInv, Pcs, AfterRelease
<1>3. /\ task' \in [Tasks -> Task] /\ task'[t].pc = pc /\ task'[t].p = p
      /\ task'[t].then = then
      /\ \A u \in Tasks : u # t => task'[u] = task[u]
  BY <1>1, <1>2, StartType
<1>4. /\ UNCHANGED <<status, debits, charges, overwritten, bal, bridge>>
      /\ approved' \in [Payouts -> BOOLEAN]
      /\ \A q \in Payouts : approved[q] => approved'[q]
  BY <1>2 DEF TypeOK, Create, Approve, Reject, RejectReview, Webhook, CompleteStart,
    FailedStart, payoutVars, moneyVars
<1>5. review' \in [Payouts -> {"none", "open", "closed"}]
  BY <1>2 DEF TypeOK, Create, Approve, Reject, RejectReview, Webhook, CompleteStart,
    FailedStart, payoutVars, moneyVars
<1>6. row' \in [Payouts -> {"none", "processing", "completed", "failed"}]
  BY <1>2 DEF TypeOK, Create, Approve, Reject, RejectReview, Webhook, CompleteStart,
    FailedStart, SetRow, payoutVars, moneyVars
<1>7. inbox' \in [Payouts \X Kinds -> Nat]
  <2>1. CASE UNCHANGED inbox
    BY <1>2, <2>1 DEF TypeOK
  <2>2. ASSUME NEW kind \in Kinds, Take(p, kind)
        PROVE  inbox' \in [Payouts \X Kinds -> Nat]
    <3>1. inbox \in [Payouts \X Kinds -> Nat] /\ <<p, kind>> \in Payouts \X Kinds
      BY <1>2 DEF TypeOK
    <3>2. inbox[<<p, kind>>] - 1 \in Nat
      BY <2>2, <3>1 DEF Take
    <3> QED
      BY <2>2, <3>1, <3>2 DEF Take
  <2> QED
    BY <2>1, <2>2 DEF Create, Approve, Reject, RejectReview, Webhook, CompleteStart,
      FailedStart, Kinds
<1>8. TypeOK'
  BY <1>2, <1>3, <1>4, <1>5, <1>6, <1>7 DEF TypeOK
<1>9. Reviewed'
  <2>1. task'[t].pc \in SendingPcs /\ task'[t].p \in Large => approved'[task'[t].p]
    BY <1>1, <1>3 DEF SendingPcs
  <2> QED
    BY <1>3, <1>4, <2>1, ReviewedKept
<1> QED
  BY <1>8, <1>9 DEF PayoutInv

LEMMA AdjustInv ==
  ASSUME PayoutInv, NEW type \in {"credit", "debit"}, Adjust(type)
  PROVE  PayoutInv'
<1>1. Signed(type, 1) \in Int /\ bal \in Balance
  BY DEF Signed, PayoutInv, TypeOK
<1>2. bal' \in Balance
  BY <1>1, PostedKeeps DEF Adjust
<1> QED
  BY <1>2 DEF Adjust, PayoutInv, TypeOK, Reviewed, LargeIsReviewed, payoutVars

LEMMA BridgeInv ==
  ASSUME PayoutInv, NEW p \in Payouts, NEW to \in Kinds, BridgeMoves(p, to)
  PROVE  PayoutInv'
<1>1. bridge' \in [Payouts -> {"none", "sent"} \cup Kinds]
  BY DEF BridgeMoves, PayoutInv, TypeOK
<1>2. inbox' \in [Payouts \X Kinds -> Nat]
  BY DeliveriesAssumption DEF BridgeMoves, PayoutInv, TypeOK
<1>3. TypeOK'
  BY <1>1, <1>2 DEF BridgeMoves, PayoutInv, TypeOK, payoutVars, moneyVars
<1>4. \A q \in Payouts : bridge'[q] # "none" => bridge[q] # "none"
  BY DEF BridgeMoves, PayoutInv, TypeOK
<1>5. Reviewed'
  BY <1>4, PayoutsAssumption DEF BridgeMoves, PayoutInv, Reviewed, LargeIsReviewed,
    payoutVars
<1> QED
  BY <1>3, <1>5 DEF PayoutInv

LEMMA CrashInv == PayoutInv /\ Crash => PayoutInv'
<1> SUFFICES ASSUME PayoutInv, Crash PROVE PayoutInv'
    OBVIOUS
<1>1. task' = [t \in Tasks |-> Idle] /\ UNCHANGED <<payoutVars, moneyVars, bridge, inbox>>
  BY DEF Crash
<1>2. TypeOK'
  BY <1>1, IdleType DEF PayoutInv, TypeOK, payoutVars, moneyVars
<1>3. Reviewed'
  BY <1>1, IdleType DEF PayoutInv, Reviewed, LargeIsReviewed, SendingPcs, AfterRelease,
    payoutVars
<1> QED
  BY <1>2, <1>3 DEF PayoutInv

LEMMA InitInv == Init => PayoutInv
<1> SUFFICES ASSUME Init PROVE PayoutInv
    OBVIOUS
<1>1. TypeOK
  BY IdleType DEF Init, TypeOK, Statuses, Kinds
<1>2. Reviewed
  BY IdleType, PayoutsAssumption DEF Init, Reviewed, LargeIsReviewed, SendingPcs,
    AfterRelease
<1> QED
  BY <1>1, <1>2 DEF PayoutInv

LEMMA NextInv == PayoutInv /\ [Next]_vars => PayoutInv'
<1> SUFFICES ASSUME PayoutInv, [Next]_vars PROVE PayoutInv'
    OBVIOUS
<1>1. CASE UNCHANGED vars
  BY <1>1 DEF vars, payoutVars, moneyVars, PayoutInv, TypeOK, Reviewed, LargeIsReviewed
<1> QED
  BY <1>1, StepInv, BeginInv, AdjustInv, BridgeInv, CrashInv DEF Next

(***************************************************************************)
(* The money of the account.                                               *)
(***************************************************************************)
\* What a step may do to the balance and to what its task has seen.
Covering(t) ==
  /\ overwritten' >= overwritten
  /\ Covers(bal', bal'.amount - overwritten')
  /\ task'[t].pc = "fallback" =>
       Covers(task'[t].seen, task'[t].seen.amount - overwritten)
  /\ \A u \in Tasks : u # t => task'[u] = task[u]

LEMMA CoveringKeeps ==
  ASSUME PayoutInv, PayoutInv', Kept, NEW t \in Tasks, Covering(t)
  PROVE  Kept'
<1>1. bal' \in Balance /\ overwritten \in Nat /\ overwritten' \in Nat
      /\ \A u \in Tasks : task'[u].seen \in Balance
  BY DEF PayoutInv, TypeOK, Task
<1>2. \A u \in Tasks : task'[u].pc = "fallback" =>
        Covers(task'[u].seen, task'[u].seen.amount - overwritten)
  BY DEF Covering, Kept
<1>3. \A u \in Tasks : task'[u].pc = "fallback" =>
        Covers(task'[u].seen, task'[u].seen.amount - overwritten')
  BY <1>1, <1>2 DEF Covering, Covers, Balance
<1> QED
  BY <1>1, <1>3 DEF Covering, Kept, Covers, FundsKept, Balance

LEMMA StepKeeps ==
  ASSUME PayoutInv, PayoutInv', Kept, NEW t \in Tasks, Step(t)
  PROVE  Kept'
<1>0. /\ bal \in Balance /\ task[t].seen \in Balance /\ Cost[task[t].p] \in Nat
      /\ TypeOK /\ Covers(bal, bal.amount - overwritten) /\ task' \in [Tasks -> Task]
      /\ overwritten \in Nat
  BY TaskFields DEF PayoutInv, TypeOK, Kept, FundsKept, Covers
<1>1. \A u \in Tasks : u # t => task'[u] = task[u]
  BY <1>0 DEF Step, TypeOK, Reserve, Insert, OpenReview, Post, PostFails, Record, Debit,
    DebitThrows, Mark, Release, FallbackRead, FallbackWrite, FailMark, RejectRead,
    RejectMark, CompletePayout, CompleteSettle, FailedMark, FailedPayout, FailedRelease,
    Goto, Done, Start, ReleaseThen
<1>2. CASE FallbackRead(t)
  <2>1. Start(t, Job("fallback", task[t].p, task[t].then, bal)) /\ bal' = bal
        /\ overwritten' = overwritten
    BY <1>2 DEF FallbackRead, moneyVars
  <2>2. task'[t].seen = bal
    BY <1>0, <2>1 DEF Start, Job, TypeOK
  <2> QED
    BY <1>0, <1>1, <2>1, <2>2, CoveringKeeps DEF Covering, Balance
<1>3. CASE ~FallbackRead(t)
  <2>1. task'[t].pc # "fallback"
    <3>1. ASSUME NEW pc \in Pcs \ {"fallback"}, Goto(t, pc)
          PROVE  task'[t].pc # "fallback"
      BY <1>0, <3>1, GotoType
    <3>2. CASE \E then \in Pcs : ReleaseThen(t, then)
      BY <1>0, <3>2 DEF ReleaseThen, Start, Job, TypeOK
    <3>3. task[t].then \in Pcs \ {"fallback"}
      BY <1>0, TaskFields DEF PayoutInv, Reviewed, AfterRelease
    <3>4. \/ \E pc \in Pcs \ {"fallback"} : Goto(t, pc)
          \/ \E then \in Pcs : ReleaseThen(t, then)
      BY <1>3, <3>3 DEF Step, Reserve, Insert, OpenReview, Post, PostFails, Record,
        Debit,
        DebitThrows, Mark, Release, FallbackRead, FallbackWrite, FailMark, RejectRead,
        RejectMark, CompletePayout, CompleteSettle, FailedMark, FailedPayout, FailedRelease,
        Done, Pcs
    <3> QED
      BY <3>1, <3>2, <3>4
  <2>2. overwritten' >= overwritten /\ Covers(bal', bal'.amount - overwritten')
    <3>0. ASSUME UNCHANGED overwritten, Covers(bal', bal'.amount - overwritten)
          PROVE  overwritten' >= overwritten /\ Covers(bal', bal'.amount - overwritten')
      BY <1>0, <3>0
    <3>1. CASE UNCHANGED <<bal, overwritten>>
      BY <1>0, <3>0, <3>1
    <3>2. CASE Reserve(t)
      <4>1. bal' = Reserved(bal, Cost[task[t].p]) /\ UNCHANGED overwritten
        BY <3>2 DEF Reserve
      <4>2. bal.amount - overwritten \in Int
        BY <1>0 DEF Balance
      <4>3. bal'.amount = bal.amount /\ Covers(bal', bal.amount - overwritten)
        BY <1>0, <4>1, <4>2, ReservedKeeps
      <4> QED
        BY <3>0, <4>1, <4>3
    <3>3. ASSUME bal' \in Releases(bal, Cost[task[t].p]), UNCHANGED overwritten
          PROVE  overwritten' >= overwritten /\ Covers(bal', bal'.amount - overwritten')
      <4>1. bal.amount - overwritten \in Int
        BY <1>0 DEF Balance
      <4>2. bal'.amount = bal.amount /\ Covers(bal', bal.amount - overwritten)
        BY <1>0, <3>3, <4>1, ReleasesKeep
      <4> QED
        BY <3>0, <3>3, <4>2
    <3>4. CASE Release(t) \/ FailedRelease(t)
      BY <1>0, <3>1, <3>3, <3>4 DEF Release, FailedRelease
    <3>5. CASE FallbackWrite(t)
      <4>1. Covers(task[t].seen, task[t].seen.amount - overwritten)
        BY <3>5 DEF FallbackWrite, At, Kept
      <4>2. /\ overwritten' = overwritten + AtLeast(0, bal.amount - task[t].seen.amount)
            /\ bal'.amount = bal.amount
            /\ bal'.available = task[t].seen.available + Cost[task[t].p]
            /\ bal'.reserved = AtLeast(0, task[t].seen.reserved - Cost[task[t].p])
        BY <3>5 DEF FallbackWrite, Overwrite
      <4> QED
        BY <1>0, <4>1, <4>2 DEF Covers, Balance, AtLeast
    <3>6. CASE CompleteSettle(t)
      <4>1. Signed("debit", Matched(task[t].p) * Cost[task[t].p]) \in Int
        BY <1>0, TaskFields, MatchedIs, SettledIs
      <4> QED
        BY <1>0, <3>0, <3>6, <4>1, PostedKeeps DEF CompleteSettle
    <3> QED
      BY <3>1, <3>2, <3>3, <3>4, <3>5, <3>6 DEF Step, Insert, OpenReview, Post,
        PostFails,
        Record, Debit, DebitThrows, Mark, FallbackRead, FailMark, RejectRead, RejectMark,
        CompletePayout, FailedMark, FailedPayout, moneyVars
  <2> QED
    BY <1>1, <2>1, <2>2, CoveringKeeps DEF Covering
<1> QED
  BY <1>2, <1>3

LEMMA NextKeeps ==
  ASSUME PayoutInv, PayoutInv', Kept, [Next]_vars
  PROVE  Kept'
<1>0. /\ bal \in Balance /\ overwritten \in Nat /\ TypeOK
      /\ Covers(bal, bal.amount - overwritten)
  BY DEF PayoutInv, TypeOK, Kept, FundsKept, Covers
<1>1. CASE UNCHANGED <<bal, overwritten, task>>
  BY <1>1 DEF Kept, FundsKept
<1>2. ASSUME NEW t \in Tasks, NEW p \in Payouts,
             Create(t, p) \/ Approve(t, p) \/ Reject(t, p) \/ RejectReview(t, p)
             \/ Webhook(t, p)
      PROVE  Kept'
  <2>1. PICK pc \in Pcs \ {"fallback"}, then \in Pcs : Start(t, Job(pc, p, then, Empty))
    BY <1>2 DEF Create, Approve, Reject, RejectReview, Webhook, CompleteStart,
      FailedStart,
      Begin, Pcs
  <2>2. task'[t].pc # "fallback" /\ \A u \in Tasks : u # t => task'[u] = task[u]
    BY <1>0, <2>1 DEF Start, Job, TypeOK
  <2>3. bal' = bal /\ overwritten' = overwritten
    BY <1>2 DEF Create, Approve, Reject, RejectReview, Webhook, CompleteStart,
      FailedStart,
      moneyVars
  <2> QED
    BY <1>0, <2>2, <2>3, CoveringKeeps DEF Covering, Balance
<1>3. ASSUME NEW type \in {"credit", "debit"}, Adjust(type)
      PROVE  Kept'
  <2>1. Signed(type, 1) \in Int
    BY DEF Signed
  <2>2. Covers(bal', bal'.amount - overwritten) /\ UNCHANGED <<overwritten, task>>
    BY <1>0, <1>3, <2>1, PostedKeeps DEF Adjust
  <2> QED
    BY <2>2 DEF Kept, FundsKept, Covers
<1>4. ASSUME NEW p \in Payouts, NEW to \in Kinds, BridgeMoves(p, to)
      PROVE  Kept'
  BY <1>1, <1>4 DEF BridgeMoves, moneyVars
<1>5. CASE Crash
  BY <1>5, IdleType DEF Crash, Kept, FundsKept, moneyVars
<1> QED
  BY <1>1, <1>2, <1>3, <1>4, <1>5, StepKeeps DEF Next, vars, moneyVars

(***************************************************************************)
(* Theorems.                                                               *)
(***************************************************************************)
\* Every variable keeps its type: no path that gives a reserve back, not even
\* the fallback of releaseReservedBalance, leaves a negative part behind.
THEOREM TypeCorrect == Spec => []TypeOK
<1>1. PayoutInv => TypeOK
  BY DEF PayoutInv
<1> QED
  BY <1>1, InitInv, NextInv, PTL DEF Spec

\* executePayout is reached by a large payout only through approvePayout, in
\* any order of requests and with any fault.
THEOREM LargePayoutsAreReviewed == Spec => []LargeIsReviewed
<1>1. PayoutInv => LargeIsReviewed
  BY DEF PayoutInv, Reviewed
<1> QED
  BY <1>1, InitInv, NextInv, PTL DEF Spec

\* Releases, fallbacks, settlements and adjustments keep every cent of the
\* account free or held, however they interleave and whatever fails, but for
\* the credits that a fallback of releaseReservedBalance writes over.
THEOREM NoFundsLost == Spec => []FundsKept
<1>1. Init => Kept
  BY IdleType, DepositAssumption DEF Init, Kept, FundsKept, Empty
<1>2. PayoutInv /\ Kept /\ [Next]_vars => Kept'
  BY NextKeeps, NextInv
<1>3. Kept => FundsKept
  BY DEF Kept
<1> QED
  BY <1>1, <1>2, <1>3, InitInv, NextInv, PTL DEF Spec


(***************************************************************************)
(* One request at a time.  What the task that works on a payout, if any,   *)
(* says of it: a payout nobody works on and that waits for staff has not   *)
(* been sent, and the two steps of a rejection, like those of a failed     *)
(* POST, leave it pending in between.                                      *)
(***************************************************************************)
Alone == "overlap" \notin Faults /\ "crash" \notin Faults
Written == "dbError" \notin Faults /\ ~LinkChecked

Releasing(k, then) == k.pc = then \/ (k.pc \in {"release", "fallback"} /\ k.then = then)
Sending(k) == k.pc \in {"row", "entry", "mark"} \/ Releasing(k, "failMark")
Phase(p, k) ==
  /\ k.pc \in {"reserve", "insert"} => status[p] = "absent"
  /\ k.pc \in {"review", "post"} \/ Sending(k) \/ Releasing(k, "rejectMark") =>
       status[p] = "pending"
  /\ Written /\ status[p] \in {"absent", "pending", "rejected"} /\ ~Sending(k) =>
       bridge[p] = "none"
  /\ status[p] \in {"absent", "pending"} /\ k.pc # "mark" => debits[p] + charges[p] = 0
  /\ debits[p] + charges[p] =< 1

Busy(t) == ~At(t, "idle")
Steady ==
  /\ \A p \in Payouts : (\A t \in Tasks : Busy(t) => task[t].p # p) => Phase(p, Idle)
  /\ \A t \in Tasks : Busy(t) => Phase(task[t].p, task[t])
  /\ \A t, u \in Tasks : Busy(t) /\ Busy(u) /\ t # u => task[t].p # task[u].p

Alike(p) ==
  /\ status'[p] = status[p]
  /\ debits'[p] = debits[p] /\ charges'[p] = charges[p]
  /\ bridge'[p] = "none" <=> bridge[p] = "none"

\* A step of task t on payout p keeps the invariant if it keeps the phase of p.
LEMMA SteadyKept ==
  ASSUME PayoutInv, PayoutInv', Steady, NEW t \in Tasks, NEW p \in Payouts,
         \A u \in Tasks : u # t => task'[u] = task[u] /\ (Busy(u) => task[u].p # p),
         Busy(t) => task[t].p = p,
         task'[t].pc # "idle" => task'[t].p = p,
         \A q \in Payouts : q # p => Alike(q),
         Phase(p, task[t])'
  PROVE  Steady'
<1>1. ASSUME NEW q \in Payouts, \A u \in Tasks : Busy(u)' => task'[u].p # q
      PROVE  Phase(q, Idle)'
  <2>1. CASE q = p
    <3>1. task'[t].pc = "idle"
      BY <1>1, <2>1 DEF Busy, At
    <3> QED
      BY <2>1, <3>1, IdleType DEF Phase, Sending, Releasing
  <2>2. CASE q # p
    <3>1. \A u \in Tasks : Busy(u) => task[u].p # q
      BY <1>1, <2>2 DEF Busy, At
    <3>2. Phase(q, Idle) /\ Alike(q)
      BY <2>2, <3>1 DEF Steady
    <3> QED
      BY <3>2, IdleType DEF Phase, Alike, Sending, Releasing, Idle, Job, Empty
  <2> QED
    BY <2>1, <2>2
<1>2. ASSUME NEW u \in Tasks, Busy(u)' PROVE Phase(task[u].p, task[u])'
  <2>1. CASE u = t
    BY <1>2, <2>1 DEF Busy, At, Phase, Sending, Releasing
  <2>2. CASE u # t
    <3>1. Busy(u) /\ task'[u] = task[u] /\ task[u].p # p
      BY <1>2, <2>2 DEF Busy, At
    <3>2. task[u].p \in Payouts
      BY DEF PayoutInv, TypeOK, Task
    <3>3. Phase(task[u].p, task[u]) /\ Alike(task[u].p)
      BY <3>1, <3>2 DEF Steady
    <3> QED
      BY <3>1, <3>3 DEF Phase, Alike, Sending, Releasing
  <2> QED
    BY <2>1, <2>2
<1>3. ASSUME NEW u \in Tasks, NEW v \in Tasks, Busy(u)', Busy(v)', u # v
      PROVE  task'[u].p # task'[v].p
  BY <1>3 DEF Steady, Busy, At
<1> QED
  BY <1>1, <1>2, <1>3 DEF Steady, Busy, At

LEMMA BusyFacts ==
  ASSUME PayoutInv, Steady, NEW t \in Tasks, Busy(t)
  PROVE  /\ TypeOK /\ task[t].p \in Payouts /\ task[t].then \in AfterRelease
         /\ task[t].pc \in Pcs /\ task[t].pc # "idle"
         /\ Phase(task[t].p, task[t])
         /\ \A u \in Tasks : u # t => (Busy(u) => task[u].p # task[t].p)
         /\ \A p \in Payouts : status[p] \in Statuses
         /\ \A p \in Payouts : debits[p] \in Nat /\ charges[p] \in Nat
<1>1. TypeOK /\ task \in [Tasks -> Task] /\ task[t].then \in AfterRelease
  BY DEF PayoutInv, Reviewed, TypeOK
<1> QED
  BY <1>1 DEF Steady, TypeOK, Task, Busy, At

\* Where a task is after Goto, and after Start.
LEMMA Went ==
  ASSUME PayoutInv, NEW t \in Tasks, NEW pc \in Pcs, Goto(t, pc)
  PROVE  /\ task'[t].pc = pc
         /\ task'[t].pc # "idle" => task'[t].p = task[t].p
         /\ \A u \in Tasks : u # t => task'[u] = task[u]
BY GotoType DEF PayoutInv

LEMMA Started ==
  ASSUME PayoutInv, NEW t \in Tasks, NEW pc, NEW p, NEW then, NEW seen,
         Start(t, Job(pc, p, then, seen))
  PROVE  /\ task'[t].pc = pc /\ task'[t].p = p /\ task'[t].then = then
         /\ \A u \in Tasks : u # t => task'[u] = task[u]
BY DEF Start, Job, PayoutInv, TypeOK

(***************************************************************************)
(* The steps of a task.                                                    *)
(***************************************************************************)
LEMMA StepSteady ==
  ASSUME Alone, PayoutInv, PayoutInv', Steady, NEW t \in Tasks, Step(t)
  PROVE  Steady'
<1>1. Busy(t)
  BY DEF Step, Busy, At, Reserve, Insert, OpenReview, Post, PostFails, Record, Debit,
    DebitThrows, Mark, Release, FallbackRead, FallbackWrite, FailMark, RejectRead,
    RejectMark, CompletePayout, CompleteSettle, FailedMark, FailedPayout, FailedRelease
<1>2. PICK p \in Payouts : p = task[t].p
  BY <1>1, BusyFacts
<1>3. /\ TypeOK /\ task[t].then \in AfterRelease /\ task[t].pc \in Pcs
      /\ task[t].pc # "idle"
      /\ Phase(p, task[t]) /\ status[p] \in Statuses
      /\ debits[p] \in Nat /\ charges[p] \in Nat
      /\ \A u \in Tasks : u # t => (Busy(u) => task[u].p # p)
  BY <1>1, <1>2, BusyFacts
<1>4. ASSUME \A u \in Tasks : u # t => task'[u] = task[u],
             task'[t].pc # "idle" => task'[t].p = p,
             \A q \in Payouts : q # p => Alike(q),
             Phase(p, task[t])'
      PROVE  Steady'
  BY <1>2, <1>3, <1>4, SteadyKept
<1>5. CASE Reserve(t)
  <2>1. Goto(t, "insert") /\ "insert" \in Pcs
    BY <1>5, <1>3 DEF Reserve, Done, Pcs, AfterRelease
  <2>2. /\ task'[t].pc = "insert" /\ (task'[t].pc # "idle" => task'[t].p = p)
        /\ \A u \in Tasks : u # t => task'[u] = task[u]
    BY <1>2, <2>1, Went
  <2>3. \A q \in Payouts : q # p => Alike(q)
    BY <1>5, <1>2, <1>3 DEF Reserve, Alike, payoutVars, moneyVars, TypeOK
  <2>4. Phase(p, task[t])'
    BY <1>5, <1>2, <1>3, <2>2 DEF Reserve, Phase, Sending, Releasing, At, payoutVars,
      moneyVars, TypeOK, AfterRelease
  <2> QED
    BY <1>4, <2>2, <2>3, <2>4
<1>6. CASE OpenReview(t)
  <2>1. Goto(t, "idle") /\ "idle" \in Pcs
    BY <1>6, <1>3 DEF OpenReview, Done, Pcs, AfterRelease
  <2>2. /\ task'[t].pc = "idle" /\ (task'[t].pc # "idle" => task'[t].p = p)
        /\ \A u \in Tasks : u # t => task'[u] = task[u]
    BY <1>2, <2>1, Went
  <2>3. \A q \in Payouts : q # p => Alike(q)
    BY <1>6, <1>2, <1>3 DEF OpenReview, Alike, payoutVars, moneyVars, TypeOK
  <2>4. Phase(p, task[t])'
    BY <1>6, <1>2, <1>3, <2>2 DEF OpenReview, Phase, Sending, Releasing, At, payoutVars,
      moneyVars, TypeOK, AfterRelease
  <2> QED
    BY <1>4, <2>2, <2>3, <2>4
<1>7. CASE Post(t)
  <2>1. Goto(t, "row") /\ "row" \in Pcs
    BY <1>7, <1>3 DEF Post, Done, Pcs, AfterRelease
  <2>2. /\ task'[t].pc = "row" /\ (task'[t].pc # "idle" => task'[t].p = p)
        /\ \A u \in Tasks : u # t => task'[u] = task[u]
    BY <1>2, <2>1, Went
  <2>3. \A q \in Payouts : q # p => Alike(q)
    BY <1>7, <1>2, <1>3 DEF Post, Alike, payoutVars, moneyVars, TypeOK, Sent
  <2>4. Phase(p, task[t])'
    BY <1>7, <1>2, <1>3, <2>2 DEF Post, Phase, Sending, Releasing, At, payoutVars,
      moneyVars, TypeOK, AfterRelease, Sent
  <2> QED
    BY <1>4, <2>2, <2>3, <2>4
<1>8. CASE Record(t)
  <2>1. Goto(t, "entry") /\ "entry" \in Pcs
    BY <1>8, <1>3 DEF Record, Done, Pcs, AfterRelease
  <2>2. /\ task'[t].pc = "entry" /\ (task'[t].pc # "idle" => task'[t].p = p)
        /\ \A u \in Tasks : u # t => task'[u] = task[u]
    BY <1>2, <2>1, Went
  <2>3. \A q \in Payouts : q # p => Alike(q)
    BY <1>8, <1>2, <1>3 DEF Record, Alike, payoutVars, moneyVars, TypeOK
  <2>4. Phase(p, task[t])'
    BY <1>8, <1>2, <1>3, <2>2 DEF Record, Phase, Sending, Releasing, At, payoutVars,
      moneyVars, TypeOK, AfterRelease
  <2> QED
    BY <1>4, <2>2, <2>3, <2>4
<1>9. CASE Debit(t)
  <2>1. Goto(t, "mark") /\ "mark" \in Pcs
    BY <1>9, <1>3 DEF Debit, Done, Pcs, AfterRelease
  <2>2. /\ task'[t].pc = "mark" /\ (task'[t].pc # "idle" => task'[t].p = p)
        /\ \A u \in Tasks : u # t => task'[u] = task[u]
    BY <1>2, <2>1, Went
  <2>3. \A q \in Payouts : q # p => Alike(q)
    BY <1>9, <1>2, <1>3 DEF Debit, Alike, payoutVars, moneyVars, TypeOK, EntryRef,
      LocalRef
  <2>4. Phase(p, task[t])'
    BY <1>9, <1>2, <1>3, <2>2 DEF Debit, Phase, Sending, Releasing, At, payoutVars,
      moneyVars, TypeOK, AfterRelease, EntryRef, LocalRef
  <2> QED
    BY <1>4, <2>2, <2>3, <2>4
<1>10. CASE DebitThrows(t)
  <2>1. Goto(t, "idle") /\ "idle" \in Pcs
    BY <1>10, <1>3 DEF DebitThrows, Done, Pcs, AfterRelease
  <2>2. /\ task'[t].pc = "idle" /\ (task'[t].pc # "idle" => task'[t].p = p)
        /\ \A u \in Tasks : u # t => task'[u] = task[u]
    BY <1>2, <2>1, Went
  <2>3. \A q \in Payouts : q # p => Alike(q)
    BY <1>10, <1>2, <1>3 DEF DebitThrows, Alike, payoutVars, moneyVars, TypeOK, Written
  <2>4. Phase(p, task[t])'
    BY <1>10, <1>2, <1>3, <2>2 DEF DebitThrows, Phase, Sending, Releasing, At,
      payoutVars,
      moneyVars, TypeOK, AfterRelease, Written
  <2> QED
    BY <1>4, <2>2, <2>3, <2>4
<1>11. CASE Mark(t)
  <2>1. Goto(t, "idle") /\ "idle" \in Pcs
    BY <1>11, <1>3 DEF Mark, Done, Pcs, AfterRelease
  <2>2. /\ task'[t].pc = "idle" /\ (task'[t].pc # "idle" => task'[t].p = p)
        /\ \A u \in Tasks : u # t => task'[u] = task[u]
    BY <1>2, <2>1, Went
  <2>3. \A q \in Payouts : q # p => Alike(q)
    BY <1>11, <1>2, <1>3 DEF Mark, Alike, payoutVars, moneyVars, TypeOK, Write
  <2>4. Phase(p, task[t])'
    BY <1>11, <1>2, <1>3, <2>2 DEF Mark, Phase, Sending, Releasing, At, payoutVars,
      moneyVars, TypeOK, AfterRelease, Write
  <2> QED
    BY <1>4, <2>2, <2>3, <2>4
<1>12. CASE Release(t)
  <2>1. Goto(t, task[t].then) /\ task[t].then \in Pcs
    BY <1>12, <1>3 DEF Release, Done, Pcs, AfterRelease
  <2>2. /\ task'[t].pc = task[t].then /\ (task'[t].pc # "idle" => task'[t].p = p)
        /\ \A u \in Tasks : u # t => task'[u] = task[u]
    BY <1>2, <2>1, Went
  <2>3. \A q \in Payouts : q # p => Alike(q)
    BY <1>12, <1>2, <1>3 DEF Release, Alike, payoutVars, moneyVars, TypeOK
  <2>4. Phase(p, task[t])'
    BY <1>12, <1>2, <1>3, <2>2 DEF Release, Phase, Sending, Releasing, At, payoutVars,
      moneyVars, TypeOK, AfterRelease
  <2> QED
    BY <1>4, <2>2, <2>3, <2>4
<1>13. CASE FallbackWrite(t)
  <2>1. Goto(t, task[t].then) /\ task[t].then \in Pcs
    BY <1>13, <1>3 DEF FallbackWrite, Done, Pcs, AfterRelease
  <2>2. /\ task'[t].pc = task[t].then /\ (task'[t].pc # "idle" => task'[t].p = p)
        /\ \A u \in Tasks : u # t => task'[u] = task[u]
    BY <1>2, <2>1, Went
  <2>3. \A q \in Payouts : q # p => Alike(q)
    BY <1>13, <1>2, <1>3 DEF FallbackWrite, Alike, payoutVars, moneyVars, TypeOK
  <2>4. Phase(p, task[t])'
    BY <1>13, <1>2, <1>3, <2>2 DEF FallbackWrite, Phase, Sending, Releasing, At,
      payoutVars,
      moneyVars, TypeOK, AfterRelease
  <2> QED
    BY <1>4, <2>2, <2>3, <2>4
<1>14. CASE FailMark(t)
  <2>1. Goto(t, "idle") /\ "idle" \in Pcs
    BY <1>14, <1>3 DEF FailMark, Done, Pcs, AfterRelease
  <2>2. /\ task'[t].pc = "idle" /\ (task'[t].pc # "idle" => task'[t].p = p)
        /\ \A u \in Tasks : u # t => task'[u] = task[u]
    BY <1>2, <2>1, Went
  <2>3. \A q \in Payouts : q # p => Alike(q)
    BY <1>14, <1>2, <1>3 DEF FailMark, Alike, payoutVars, moneyVars, TypeOK, Write
  <2>4. Phase(p, task[t])'
    BY <1>14, <1>2, <1>3, <2>2 DEF FailMark, Phase, Sending, Releasing, At, payoutVars,
      moneyVars, TypeOK, AfterRelease, Write
  <2> QED
    BY <1>4, <2>2, <2>3, <2>4
<1>15. CASE RejectMark(t)
  <2>1. Goto(t, "idle") /\ "idle" \in Pcs
    BY <1>15, <1>3 DEF RejectMark, Done, Pcs, AfterRelease
  <2>2. /\ task'[t].pc = "idle" /\ (task'[t].pc # "idle" => task'[t].p = p)
        /\ \A u \in Tasks : u # t => task'[u] = task[u]
    BY <1>2, <2>1, Went
  <2>3. \A q \in Payouts : q # p => Alike(q)
    BY <1>15, <1>2, <1>3 DEF RejectMark, Alike, payoutVars, moneyVars, TypeOK, Write
  <2>4. Phase(p, task[t])'
    BY <1>15, <1>2, <1>3, <2>2 DEF RejectMark, Phase, Sending, Releasing, At,
      payoutVars,
      moneyVars, TypeOK, AfterRelease, Write
  <2> QED
    BY <1>4, <2>2, <2>3, <2>4
<1>16. CASE CompletePayout(t)
  <2>1. Goto(t, "cSettle") /\ "cSettle" \in Pcs
    BY <1>16, <1>3 DEF CompletePayout, Done, Pcs, AfterRelease
  <2>2. /\ task'[t].pc = "cSettle" /\ (task'[t].pc # "idle" => task'[t].p = p)
        /\ \A u \in Tasks : u # t => task'[u] = task[u]
    BY <1>2, <2>1, Went
  <2>3. \A q \in Payouts : q # p => Alike(q)
    BY <1>16, <1>2, <1>3 DEF CompletePayout, Alike, payoutVars, moneyVars, TypeOK, Write
  <2>4. Phase(p, task[t])'
    BY <1>16, <1>2, <1>3, <2>2 DEF CompletePayout, Phase, Sending, Releasing, At,
      payoutVars,
      moneyVars, TypeOK, AfterRelease, Write
  <2> QED
    BY <1>4, <2>2, <2>3, <2>4
<1>17. CASE CompleteSettle(t)
  <2>1. Goto(t, "idle") /\ "idle" \in Pcs
    BY <1>17, <1>3 DEF CompleteSettle, Done, Pcs, AfterRelease
  <2>2. /\ task'[t].pc = "idle" /\ (task'[t].pc # "idle" => task'[t].p = p)
        /\ \A u \in Tasks : u # t => task'[u] = task[u]
    BY <1>2, <2>1, Went
  <2>3. \A q \in Payouts : q # p => Alike(q)
    BY <1>17, <1>2, <1>3 DEF CompleteSettle, Alike, payoutVars,
      moneyVars, TypeOK
  <2>4. Phase(p, task[t])'
    BY <1>17, <1>2, <1>3, <2>2, MatchedIs DEF CompleteSettle, Phase, Sending,
      Releasing, At, payoutVars,
      moneyVars, TypeOK, AfterRelease
  <2> QED
    BY <1>4, <2>2, <2>3, <2>4
<1>18. CASE FailedMark(t)
  <2>1. Goto(t, "fPayout") /\ "fPayout" \in Pcs
    BY <1>18, <1>3 DEF FailedMark, Done, Pcs, AfterRelease
  <2>2. /\ task'[t].pc = "fPayout" /\ (task'[t].pc # "idle" => task'[t].p = p)
        /\ \A u \in Tasks : u # t => task'[u] = task[u]
    BY <1>2, <2>1, Went
  <2>3. \A q \in Payouts : q # p => Alike(q)
    BY <1>18, <1>2, <1>3 DEF FailedMark, Alike, payoutVars, moneyVars, TypeOK, SetRow
  <2>4. Phase(p, task[t])'
    BY <1>18, <1>2, <1>3, <2>2 DEF FailedMark, Phase, Sending, Releasing, At,
      payoutVars,
      moneyVars, TypeOK, AfterRelease, SetRow
  <2> QED
    BY <1>4, <2>2, <2>3, <2>4
<1>19. CASE FailedPayout(t)
  <2>1. Goto(t, "fRelease") /\ "fRelease" \in Pcs
    BY <1>19, <1>3 DEF FailedPayout, Done, Pcs, AfterRelease
  <2>2. /\ task'[t].pc = "fRelease" /\ (task'[t].pc # "idle" => task'[t].p = p)
        /\ \A u \in Tasks : u # t => task'[u] = task[u]
    BY <1>2, <2>1, Went
  <2>3. \A q \in Payouts : q # p => Alike(q)
    BY <1>19, <1>2, <1>3 DEF FailedPayout, Alike, payoutVars,
      moneyVars, TypeOK, Write
  <2>4. Phase(p, task[t])'
    BY <1>19, <1>2, <1>3, <2>2, MatchedIs DEF FailedPayout, Phase, Sending,
      Releasing, At, payoutVars,
      moneyVars, TypeOK, AfterRelease, Write
  <2> QED
    BY <1>4, <2>2, <2>3, <2>4
<1>20. CASE FailedRelease(t)
  <2>1. Goto(t, "idle") /\ "idle" \in Pcs
    BY <1>20, <1>3 DEF FailedRelease, Done, Pcs, AfterRelease
  <2>2. /\ task'[t].pc = "idle" /\ (task'[t].pc # "idle" => task'[t].p = p)
        /\ \A u \in Tasks : u # t => task'[u] = task[u]
    BY <1>2, <2>1, Went
  <2>3. \A q \in Payouts : q # p => Alike(q)
    BY <1>20, <1>2, <1>3 DEF FailedRelease, Alike, payoutVars, moneyVars, TypeOK
  <2>4. Phase(p, task[t])'
    BY <1>20, <1>2, <1>3, <2>2 DEF FailedRelease, Phase, Sending, Releasing, At,
      payoutVars,
      moneyVars, TypeOK, AfterRelease
  <2> QED
    BY <1>4, <2>2, <2>3, <2>4
<1>21. CASE /\ Insert(t) /\ Write(task[t].p, "pending")
            /\ Goto(t, IF task[t].p \in Large THEN "review" ELSE "post")
  <2>1. (IF task[t].p \in Large THEN "review" ELSE "post") \in Pcs
    BY DEF Pcs
  <2>2. /\ task'[t].pc = (IF task[t].p \in Large THEN "review" ELSE "post")
        /\ task'[t].pc # "idle" => task'[t].p = p
        /\ \A u \in Tasks : u # t => task'[u] = task[u]
    BY <1>21, <1>2, <2>1, Went DEF Done
  <2>3. \A q \in Payouts : q # p => Alike(q)
    BY <1>21, <1>2, <1>3 DEF Insert, Alike, payoutVars, moneyVars, TypeOK, Write
  <2>4. Phase(p, task[t])'
    BY <1>21, <1>2, <1>3, <2>2 DEF Insert, Phase, Sending, Releasing, At, payoutVars,
      moneyVars, TypeOK, AfterRelease, Write
  <2> QED
    BY <1>4, <2>2, <2>3, <2>4
<1>22. CASE Insert(t) /\ UNCHANGED status /\ ReleaseThen(t, "idle")
  <2>2. /\ task'[t].pc = "release" /\ task'[t].p = p /\ task'[t].then = "idle"
        /\ \A u \in Tasks : u # t => task'[u] = task[u]
    BY <1>22, <1>2, Started DEF Insert, ReleaseThen
  <2>3. \A q \in Payouts : q # p => Alike(q)
    BY <1>22, <1>2, <1>3 DEF Insert, Alike, payoutVars, moneyVars, TypeOK
  <2>4. Phase(p, task[t])'
    BY <1>22, <1>2, <1>3, <2>2 DEF Insert, Phase, Sending, Releasing, At, payoutVars,
      moneyVars, TypeOK, AfterRelease
  <2> QED
    BY <1>4, <2>2, <2>3, <2>4
<1>23. CASE PostFails(t) /\ ReleaseThen(t, "failMark")
  <2>2. /\ task'[t].pc = "release" /\ task'[t].p = p /\ task'[t].then = "failMark"
        /\ \A u \in Tasks : u # t => task'[u] = task[u]
    BY <1>23, <1>2, Started DEF PostFails, ReleaseThen
  <2>3. \A q \in Payouts : q # p => Alike(q)
    BY <1>23, <1>2, <1>3 DEF PostFails, Alike, payoutVars, moneyVars, TypeOK, Sent
  <2>4. Phase(p, task[t])'
    BY <1>23, <1>2, <1>3, <2>2 DEF PostFails, Phase, Sending, Releasing, At, payoutVars,
      moneyVars, TypeOK, AfterRelease, Sent
  <2> QED
    BY <1>4, <2>2, <2>3, <2>4
<1>24. CASE FallbackRead(t) /\ Start(t, Job("fallback", task[t].p, task[t].then, bal))
  <2>2. /\ task'[t].pc = "fallback" /\ task'[t].p = p /\ task'[t].then = task[t].then
        /\ \A u \in Tasks : u # t => task'[u] = task[u]
    BY <1>24, <1>2, Started DEF FallbackRead, ReleaseThen
  <2>3. \A q \in Payouts : q # p => Alike(q)
    BY <1>24, <1>2, <1>3 DEF FallbackRead, Alike, payoutVars, moneyVars, TypeOK
  <2>4. Phase(p, task[t])'
    BY <1>24, <1>2, <1>3, <2>2 DEF FallbackRead, Phase, Sending, Releasing, At,
      payoutVars,
      moneyVars, TypeOK, AfterRelease
  <2> QED
    BY <1>4, <2>2, <2>3, <2>4
<1>25. CASE RejectRead(t) /\ status[task[t].p] = "pending" /\ ReleaseThen(t, "rejectMark")
  <2>2. /\ task'[t].pc = "release" /\ task'[t].p = p /\ task'[t].then = "rejectMark"
        /\ \A u \in Tasks : u # t => task'[u] = task[u]
    BY <1>25, <1>2, Started DEF RejectRead, ReleaseThen
  <2>3. \A q \in Payouts : q # p => Alike(q)
    BY <1>25, <1>2, <1>3 DEF RejectRead, Alike, payoutVars, moneyVars, TypeOK
  <2>4. Phase(p, task[t])'
    BY <1>25, <1>2, <1>3, <2>2 DEF RejectRead, Phase, Sending, Releasing, At,
      payoutVars,
      moneyVars, TypeOK, AfterRelease
  <2> QED
    BY <1>4, <2>2, <2>3, <2>4
<1>26. CASE RejectRead(t) /\ status[task[t].p] # "pending" /\ Done(t)
  <2>1. "idle" \in Pcs
    BY DEF Pcs
  <2>2. /\ task'[t].pc = "idle" /\ (task'[t].pc # "idle" => task'[t].p = p)
        /\ \A u \in Tasks : u # t => task'[u] = task[u]
    BY <1>26, <1>2, <2>1, Went DEF Done
  <2>3. \A q \in Payouts : q # p => Alike(q)
    BY <1>26, <1>2, <1>3 DEF RejectRead, Alike, payoutVars, moneyVars, TypeOK
  <2>4. Phase(p, task[t])'
    BY <1>26, <1>2, <1>3, <2>2 DEF RejectRead, Phase, Sending, Releasing, At,
      payoutVars,
      moneyVars, TypeOK, AfterRelease
  <2> QED
    BY <1>4, <2>2, <2>3, <2>4
<1> QED
  BY <1>5, <1>6, <1>7, <1>8, <1>9, <1>10, <1>11, <1>12, <1>13, <1>14, <1>15, <1>16,
    <1>17,
    <1>18, <1>19, <1>20, <1>21, <1>22, <1>23, <1>24, <1>25, <1>26
    DEF Step, Insert, PostFails, FallbackRead, RejectRead

(***************************************************************************)
(* Requests and webhooks begin only on a payout nobody works on.           *)
(***************************************************************************)
LEMMA BeginsSteady ==
  ASSUME Alone, PayoutInv, PayoutInv', Steady, NEW t \in Tasks, NEW p \in Payouts,
         Create(t, p) \/ Approve(t, p) \/ Reject(t, p) \/ RejectReview(t, p)
         \/ Webhook(t, p)
  PROVE  Steady'
<1>1. Free(t, p)
  BY DEF Create, Approve, Reject, RejectReview, Webhook, CompleteStart, FailedStart,
    Begin
<1>2. /\ ~Busy(t) /\ TypeOK /\ debits[p] \in Nat /\ charges[p] \in Nat
      /\ \A u \in Tasks : Busy(u) => task[u].p # p
      /\ Phase(p, Idle)
  BY <1>1 DEF Alone, Free, Busy, Steady, PayoutInv, TypeOK
<1>3. \A q \in Payouts : Alike(q)
  BY DEF Create, Approve, Reject, RejectReview, Webhook, CompleteStart, FailedStart,
    Alike, payoutVars, moneyVars
<1>4. PICK pc, then :
        /\ Start(t, Job(pc, p, then, Empty))
        /\ \/ pc \in {"idle", "rejectRead", "cPayout", "fMark"}
           \/ pc = "reserve" /\ status[p] = "absent"
           \/ pc = "post" /\ status[p] = "pending"
           \/ pc = "release" /\ then = "rejectMark" /\ status[p] = "pending"
  BY DEF Create, Approve, Reject, RejectReview, Webhook, CompleteStart, FailedStart,
    Begin
<1>5. /\ task'[t].pc = pc /\ task'[t].p = p /\ task'[t].then = then
      /\ \A u \in Tasks : u # t => task'[u] = task[u]
  BY <1>4, Started
<1>6. Phase(p, task[t])'
  BY <1>2, <1>3, <1>4, <1>5, IdleType DEF Phase, Sending, Releasing, Alike
<1> QED
  BY <1>2, <1>3, <1>5, <1>6, SteadyKept

\* What touches no task and leaves every payout alike.
LEMMA OutsideSteady ==
  ASSUME Alone, PayoutInv, Steady,
         \/ \E type \in {"credit", "debit"} : Adjust(type)
         \/ \E p \in Payouts, to \in Kinds : BridgeMoves(p, to)
         \/ UNCHANGED vars
  PROVE  Steady'
<1>1. task' = task
  BY DEF Adjust, BridgeMoves, vars
<1>2. \A q \in Payouts : Alike(q)
  BY DEF Adjust, BridgeMoves, vars, payoutVars, moneyVars, Alike, Kinds, PayoutInv,
    TypeOK
<1>3. \A t \in Tasks : task[t].p \in Payouts
  BY DEF PayoutInv, TypeOK, Task
<1>5. \A p \in Payouts : Phase(p, Idle) => Phase(p, Idle)'
  BY <1>2, IdleType DEF Phase, Alike, Sending, Releasing, Idle, Job, Empty
<1>6. \A t \in Tasks : Phase(task[t].p, task[t]) => Phase(task[t].p, task[t])'
  BY <1>1, <1>2, <1>3 DEF Phase, Alike, Sending, Releasing
<1> QED
  BY <1>1, <1>5, <1>6 DEF Steady, Busy, At

LEMMA InitSteady == Init => Steady
<1> SUFFICES ASSUME Init PROVE Steady
    OBVIOUS
<1>1. \A p \in Payouts : Phase(p, Idle)
  BY IdleType DEF Init, Phase, Sending, Releasing
<1> QED
  BY <1>1, IdleType DEF Init, Steady, Busy, At

LEMMA NextSteady == Alone /\ PayoutInv /\ Steady /\ [Next]_vars => Steady'
<1> SUFFICES ASSUME Alone, PayoutInv, Steady, [Next]_vars PROVE Steady'
    OBVIOUS
<1>1. PayoutInv'
  BY NextInv
<1> QED
  BY <1>1, StepSteady, BeginsSteady, OutsideSteady DEF Next, Crash, Alone

(***************************************************************************)
(* Theorems.                                                               *)
(***************************************************************************)
\* Only the two reads that let a request in, with no other request on the payout, keep
\* executePayout from debiting it again: neither a refused POST nor a lost answer, nor
\* an entry or a row that could not be written, lets it be debited twice.
THEOREM PayoutsAreDebitedOnce ==
  ASSUME Alone
  PROVE  Spec => []DebitedAtMostOnce
<1>1. PayoutInv /\ Steady => DebitedAtMostOnce
  BY DEF Steady, DebitedAtMostOnce, Phase, PayoutInv, TypeOK, Task
<1>2. PayoutInv /\ Steady /\ [Next]_vars => (PayoutInv /\ Steady)'
  BY NextInv, NextSteady
<1> QED
  BY <1>1, <1>2, InitInv, InitSteady, PTL DEF Spec

\* What rejectPayout rejects is not on its way, not even when Bridge took a POST whose
\* answer was lost: as long as no write of the path is lost, for a request that ends
\* between its POST and its last write leaves a sent payout pending.
THEOREM RejectedPayoutsAreNotSent ==
  ASSUME Alone, Written
  PROVE  Spec => []RejectedIsNotSent
<1>1. PayoutInv /\ Steady => RejectedIsNotSent
  BY DEF Steady, RejectedIsNotSent, Phase, PayoutInv, TypeOK, Task, Sending, Releasing
<1>2. PayoutInv /\ Steady /\ [Next]_vars => (PayoutInv /\ Steady)'
  BY NextInv, NextSteady
<1> QED
  BY <1>1, <1>2, InitInv, InitSteady, PTL DEF Spec

(***************************************************************************)
(* Quiet scenarios: besides the above, every release arrives, the failure  *)
(* of a transfer is told once, nobody debits the account by hand, and the  *)
(* deposit covers every payout, since the error of reserve_balance is not  *)
(* looked at.  Bridge may refuse a POST and answers may be lost.           *)
(***************************************************************************)
Calm ==
  /\ Alone /\ Written
  /\ "rpcError" \notin Faults /\ "debit" \notin Ops
  /\ Deliveries["failed"] =< 1
  /\ IsFiniteSet(Payouts) /\ Deposit >= Total(Cost, Payouts)

\* The job of a task, and the one job on a payout, if any.
JobOf(t) == IF Busy(t) THEN task[t] ELSE Idle
On(t, p) == Busy(t) /\ task[t].p = p
Cur(p) ==
  IF \E t \in Tasks : On(t, p) THEN task[CHOOSE t \in Tasks : On(t, p)] ELSE Idle

PendingPcs == {"review", "post", "row", "entry", "mark", "release", "failMark", "rejectMark"}
FailingPcs == {"fMark", "fPayout", "fRelease"}
\* How a payout and its transfer stand while job k is on it.
Sound(p, k) ==
  LET s == status[p]  b == bridge[p]  failures == inbox[<<p, "failed">>] IN
  /\ k.pc \in {"reserve", "insert"} => s = "absent"
  /\ k.pc \in PendingPcs => s = "pending"
  /\ k.pc = "release" => k.then \in {"failMark", "rejectMark"}
  /\ k.pc # "fallback"
  /\ k.pc \in {"row", "entry"} => b # "none"
  /\ k.pc \in {"cPayout", "cSettle"} => s \in {"processing", "completed"} /\ b = "complete"
  /\ k.pc = "cSettle" \/ charges[p] # 0 => s = "completed"
  /\ k.pc \in {"fMark", "fPayout"} => s = "processing"
  /\ k.pc = "fRelease" => s = "failed"
  /\ k.pc \in FailingPcs => b = "failed" /\ failures = 0 /\ row[p] # "none"
  /\ row[p] # "none" =>
       b # "none" /\ (k.pc \in {"entry", "mark"} \/ s \in {"processing", "completed", "failed"})
  /\ row[p] # "none" /\ s = "failed" => b = "failed" /\ failures = 0
  /\ s = "completed" => b = "complete"
  /\ failures =< 1
  /\ failures > 0 => b = "failed"
  /\ inbox[<<p, "complete">>] > 0 => b = "complete"

\* Whether a part of the reserve is the payout's, and how much; and what the
\* account must have for it as long as it has claimed nothing.
Claim(p, k) ==
  \/ k.pc \in {"insert", "fRelease"}
  \/ k.pc \notin {"failMark", "rejectMark"} /\ p \in Keeping
Share(p, k) == IF Claim(p, k) THEN Cost[p] ELSE 0
Want(p, k) == IF ~Claim(p, k) /\ charges[p] = 0 THEN Cost[p] ELSE 0
Shares == [p \in Payouts |-> Share(p, Cur(p))]
Wants == [p \in Payouts |-> Want(p, Cur(p))]
Backed == bal.reserved = Total(Shares, Payouts)
Funded == bal.available >= Total(Wants, Payouts)

CalmInv ==
  /\ PayoutInv /\ Steady /\ Funded /\ Backed
  /\ \A p \in Payouts : Sound(p, Cur(p))

(***************************************************************************)
(* A step of one task on one payout.                                       *)
(***************************************************************************)
Elsewhere(p) ==
  \A q \in Payouts \ {p} :
    /\ status'[q] = status[q] /\ row'[q] = row[q] /\ bridge'[q] = bridge[q]
    /\ charges'[q] = charges[q]
    /\ \A kind \in Kinds : inbox'[<<q, kind>>] = inbox[<<q, kind>>]
Moves(t, p) ==
  /\ \A u \in Tasks : u # t => task'[u] = task[u]
  /\ On(t, p) \/ (~Busy(t) /\ \A u \in Tasks : ~On(u, p))
  /\ task'[t].pc = "idle" \/ task'[t].p = p
  /\ Elsewhere(p)
\* The reserve moves with the claim, and leaves the account with the charge.
Paired(t, p) ==
  \/ bal' = bal /\ (Claim(p, task[t])' <=> Claim(p, JobOf(t)))
     /\ charges'[p] = charges[p]
  \/ bal' = Freed(bal, -Cost[p]) /\ Claim(p, task[t])' /\ ~Claim(p, JobOf(t))
     /\ charges[p] = 0 /\ charges'[p] = 0
  \/ bal' = Freed(bal, Cost[p]) /\ ~Claim(p, task[t])' /\ Claim(p, JobOf(t))
     /\ charges[p] = 0 /\ charges'[p] = 0
  \/ /\ ~Claim(p, task[t])' /\ Claim(p, JobOf(t)) /\ charges'[p] # 0
     /\ bal'.available = bal.available /\ bal'.reserved = bal.reserved - Cost[p]
Handled(t, p) ==
  /\ Moves(t, p)
  /\ Sound(p, task[t])'
  /\ Paired(t, p)

LEMMA CurIs ==
  ASSUME Steady
  PROVE  /\ \A t \in Tasks, p \in Payouts : On(t, p) => Cur(p) = task[t]
         /\ \A p \in Payouts : (\A t \in Tasks : ~On(t, p)) => Cur(p) = Idle
<1>1. ASSUME NEW t \in Tasks, NEW p \in Payouts, On(t, p) PROVE Cur(p) = task[t]
  <2>1. (CHOOSE u \in Tasks : On(u, p)) \in Tasks /\ On(CHOOSE u \in Tasks : On(u, p), p)
    BY <1>1
  <2>2. (CHOOSE u \in Tasks : On(u, p)) = t
    BY <1>1, <2>1 DEF Steady, On
  <2> QED
    BY <1>1, <2>2 DEF Cur
<1> QED
  BY <1>1 DEF Cur

LEMMA CurMoves ==
  ASSUME Steady, Steady', NEW t \in Tasks, NEW p \in Payouts, Moves(t, p)
  PROVE  /\ Cur(p) = JobOf(t)
         /\ Cur(p)' = JobOf(t)'
         /\ \A q \in Payouts \ {p} : Cur(q)' = Cur(q)
<1>1. \A u \in Tasks, q \in Payouts : u # t => (On(u, q)' <=> On(u, q))
  BY DEF Moves, On, Busy, At
<1>2. \A q \in Payouts \ {p} : ~On(t, q) /\ ~On(t, q)'
  BY DEF Moves, On, Busy, At
<1>3. \A u \in Tasks : u # t => ~On(u, p)
  BY DEF Moves, Steady, On
<1>4. Cur(p) = JobOf(t)
  BY CurIs DEF Moves, JobOf, On
<1>5. Cur(p)' = JobOf(t)'
  <2>1. CASE Busy(t)'
    <3>1. \A u \in Tasks : On(u, p)' <=> u = t
      BY <1>1, <1>3, <2>1 DEF Moves, On, Busy, At
    <3>2. (CHOOSE u \in Tasks : On(u, p)') = t
      BY <3>1
    <3> QED
      BY <2>1, <3>1, <3>2 DEF Cur, JobOf
  <2>2. CASE ~Busy(t)'
    <3>1. \A u \in Tasks : ~On(u, p)'
      BY <1>1, <1>3, <2>2 DEF On
    <3> QED
      BY <2>2, <3>1 DEF Cur, JobOf
  <2> QED
    BY <2>1, <2>2
<1>6. ASSUME NEW q \in Payouts \ {p} PROVE Cur(q)' = Cur(q)
  <2>1. \A u \in Tasks : On(u, q)' <=> On(u, q)
    BY <1>1, <1>2
  <2>2. CASE \E u \in Tasks : On(u, q)
    <3>1. PICK u \in Tasks : On(u, q)
      BY <2>2
    <3>2. (CHOOSE v \in Tasks : On(v, q)') = u
      BY <2>1, <3>1 DEF Steady, On
    <3>3. Cur(q)' = task'[u]
      BY <2>1, <3>1, <3>2 DEF Cur
    <3>4. Cur(q) = task[u] /\ u # t
      BY <1>2, <3>1, CurIs
    <3> QED
      BY <3>3, <3>4 DEF Moves
  <2>3. CASE \A u \in Tasks : ~On(u, q)
    BY <2>1, <2>3 DEF Cur, Idle, Job, Empty, APayout
  <2> QED
    BY <2>2, <2>3
<1> QED
  BY <1>4, <1>5, <1>6

LEMMA ShareType ==
  /\ Ints(Shares, Payouts) /\ Ints(Shares', Payouts)
  /\ \A p \in Payouts : Shares[p] >= 0 /\ Shares'[p] >= 0 /\ Shares[p] = Share(p, Cur(p))
                          /\ Shares'[p] = Share(p, Cur(p))'
BY CostAssumption DEF Ints, Shares, Share

LEMMA WantType ==
  /\ Ints(Wants, Payouts) /\ Ints(Wants', Payouts)
  /\ \A p \in Payouts : Wants[p] >= 0 /\ Wants'[p] >= 0 /\ Wants[p] = Want(p, Cur(p))
                          /\ Wants'[p] = Want(p, Cur(p))'
BY CostAssumption DEF Ints, Wants, Want

\* A job at rest says the same whatever it was.
LEMMA RestIsIdle ==
  ASSUME NEW t \in Tasks, NEW p \in Payouts
  PROVE  /\ Sound(p, task[t])' => Sound(p, JobOf(t))'
         /\ Claim(p, task[t])' <=> Claim(p, JobOf(t))'
<1>1. CASE Busy(t)'
  BY <1>1 DEF JobOf, Sound, Claim
<1>2. CASE ~Busy(t)'
  <2>1. task'[t].pc = "idle" /\ Idle.pc = "idle" /\ JobOf(t)' = Idle
    BY <1>2, IdleType DEF Busy, At, JobOf, Idle, Job, Empty, APayout
  <2> QED
    BY <2>1 DEF Sound, Claim, PendingPcs, FailingPcs
<1> QED
  BY <1>1, <1>2

\* What holds of one payout and its job is all that a step must keep.
LEMMA HandledKeeps ==
  ASSUME Calm, CalmInv, PayoutInv', Steady', NEW t \in Tasks, NEW p \in Payouts, Handled(t, p)
  PROVE  CalmInv'
<1>1. TypeOK /\ TypeOK' /\ Steady /\ Moves(t, p)
  BY DEF CalmInv, PayoutInv, Handled
<1>2. /\ Cur(p) = JobOf(t)
      /\ Cur(p)' = JobOf(t)'
      /\ \A q \in Payouts \ {p} : Cur(q)' = Cur(q)
  BY <1>1, CurMoves
<1>3. ASSUME NEW q \in Payouts PROVE Sound(q, Cur(q))'
  <2>1. CASE q = p
    <3>1. Sound(p, JobOf(t))'
      BY RestIsIdle DEF Handled
    <3> QED
      BY <1>2, <2>1, <3>1 DEF Sound
  <2>2. CASE q # p
    <3>1. Sound(q, Cur(q)) /\ Cur(q)' = Cur(q)
      BY <1>2, <2>2 DEF CalmInv
    <3>2. /\ status'[q] = status[q] /\ row'[q] = row[q] /\ bridge'[q] = bridge[q]
          /\ charges'[q] = charges[q]
          /\ inbox'[<<q, "complete">>] = inbox[<<q, "complete">>]
          /\ inbox'[<<q, "failed">>] = inbox[<<q, "failed">>]
      BY <1>1, <2>2 DEF Moves, Elsewhere, Kinds
    <3> QED
      BY <3>1, <3>2 DEF Sound
  <2> QED
    BY <2>1, <2>2
<1>4. \A q \in Payouts \ {p} : Shares'[q] = Shares[q] /\ Wants'[q] = Wants[q]
  <2> SUFFICES ASSUME NEW q \in Payouts \ {p}
               PROVE  /\ Share(q, Cur(q))' = Share(q, Cur(q))
                      /\ Want(q, Cur(q))' = Want(q, Cur(q))
    BY ShareType, WantType
  <2>1. Cur(q)' = Cur(q) /\ status'[q] = status[q] /\ charges'[q] = charges[q]
    BY <1>1, <1>2 DEF Moves, Elsewhere
  <2> QED
    BY <2>1 DEF Share, Want, Claim, Keeping
<1>5. /\ Shares[p] = Share(p, JobOf(t)) /\ Shares'[p] = Share(p, JobOf(t))'
      /\ Wants[p] = Want(p, JobOf(t)) /\ Wants'[p] = Want(p, JobOf(t))'
  <2>1. Share(p, Cur(p))' = Share(p, JobOf(t))' /\ Want(p, Cur(p))' = Want(p, JobOf(t))'
    BY <1>2 DEF Share, Want, Claim
  <2>2. Share(p, Cur(p)) = Share(p, JobOf(t)) /\ Want(p, Cur(p)) = Want(p, JobOf(t))
    BY <1>2
  <2> QED
    BY <2>1, <2>2, ShareType, WantType
<1>6. /\ Total(Shares', Payouts) = Total(Shares, Payouts) - Shares[p] + Shares'[p]
      /\ Total(Wants', Payouts) = Total(Wants, Payouts) - Wants[p] + Wants'[p]
  BY <1>4, ShareType, WantType, TotalChanges DEF Calm
<1>7. /\ Total(Shares, Payouts) \in Int /\ Shares[p] \in Int /\ Shares'[p] \in Int
      /\ Total(Wants, Payouts) \in Int /\ Wants[p] \in Int /\ Wants'[p] \in Int
      /\ bal \in Balance /\ bal' \in Balance /\ Cost[p] \in Nat
  BY <1>1, ShareType, WantType, TotalType, CostAssumption DEF Calm, Ints, TypeOK
<1>8. /\ bal'.reserved - Shares'[p] = bal.reserved - Shares[p]
      /\ bal'.available - Wants'[p] >= bal.available - Wants[p]
  <2>1. Paired(t, p)
    BY DEF Handled
  <2>2. /\ Shares[p] = IF Claim(p, JobOf(t)) THEN Cost[p] ELSE 0
        /\ Shares'[p] = IF Claim(p, task[t])' THEN Cost[p] ELSE 0
        /\ Wants[p] = IF ~Claim(p, JobOf(t)) /\ charges[p] = 0 THEN Cost[p] ELSE 0
        /\ Wants'[p] = IF ~Claim(p, task[t])' /\ charges'[p] = 0 THEN Cost[p] ELSE 0
    BY <1>5, RestIsIdle DEF Share, Want
  <2>3. bal.available \in Nat /\ bal.reserved \in Nat
    BY <1>7 DEF Balance
  <2> QED
    BY <1>7, <2>1, <2>2, <2>3 DEF Paired, Freed
<1>9. Backed'
  <2>1. bal'.reserved \in Int /\ bal.reserved \in Int /\ bal.reserved = Total(Shares, Payouts)
    BY <1>7 DEF Balance, CalmInv, Backed
  <2>2. bal'.reserved = Total(Shares', Payouts)
    BY <1>6, <1>7, <1>8, <2>1
  <2> QED
    BY <2>2 DEF Backed
<1>10. Funded'
  <2>1. bal'.available \in Int /\ bal.available \in Int /\ bal.available >= Total(Wants, Payouts)
    BY <1>7 DEF Balance, CalmInv, Funded
  <2>2. bal'.available >= Total(Wants', Payouts)
    BY <1>6, <1>7, <1>8, <2>1
  <2> QED
    BY <2>2 DEF Funded
<1> QED
  BY <1>3, <1>9, <1>10 DEF CalmInv

(***************************************************************************)
(* The reserve holds what the payouts claim, and what is free suffices for *)
(* those that claim nothing yet.                                           *)
(***************************************************************************)
LEMMA ReserveHolds ==
  ASSUME Calm, CalmInv, NEW p \in Payouts, Claim(p, Cur(p))
  PROVE  bal.reserved >= Cost[p]
<1>1. Shares[p] = Cost[p]
  BY ShareType DEF Share
<1>2. Shares[p] =< Total(Shares, Payouts)
  BY ShareType, TotalCovers DEF Calm
<1> QED
  BY <1>1, <1>2 DEF CalmInv, Backed

LEMMA DepositSuffices ==
  ASSUME Calm, CalmInv, NEW p \in Payouts, ~Claim(p, Cur(p)), charges[p] = 0
  PROVE  bal.available >= Cost[p]
<1>1. Wants[p] = Cost[p]
  BY WantType DEF Want
<1>2. /\ Wants[p] =< Total(Wants, Payouts)
      /\ Total(Wants, Payouts) \in Int /\ Wants[p] \in Int
  BY WantType, TotalCovers, TotalType DEF Calm, Ints
<1>3. bal.available \in Int /\ bal.available >= Total(Wants, Payouts)
  BY DEF CalmInv, Funded, PayoutInv, TypeOK, Balance
<1> QED
  BY <1>1, <1>2, <1>3

(***************************************************************************)
(* What a step knows of its payout.                                        *)
(***************************************************************************)
Known(p) ==
  /\ status[p] \in Statuses /\ bal \in Balance /\ Cost[p] \in Nat
  /\ inbox[<<p, "failed">>] \in Nat
  /\ debits[p] \in Nat /\ charges[p] \in Nat /\ debits[p] + charges[p] =< 1
  /\ Claim(p, Cur(p)) => bal.reserved >= Cost[p]
  /\ ~Claim(p, Cur(p)) /\ charges[p] = 0 => bal.available >= Cost[p]

LEMMA PayoutKnown ==
  ASSUME Calm, CalmInv, NEW p \in Payouts
  PROVE  Known(p)
<1>1. TypeOK /\ Cost[p] \in Nat
  BY CostAssumption DEF CalmInv, PayoutInv
<1>2. debits[p] + charges[p] =< 1
  BY DEF CalmInv, Steady, Phase
<1> QED
  BY <1>1, <1>2, ReserveHolds, DepositSuffices DEF Known, TypeOK, Kinds

\* Of one at work, and of one nobody works on.
LEMMA AtWork ==
  ASSUME Calm, CalmInv, NEW t \in Tasks, ~At(t, "idle"), NEW p, p = task[t].p
  PROVE  /\ p \in Payouts /\ TypeOK /\ PayoutInv /\ On(t, p) /\ JobOf(t) = task[t]
         /\ Known(p) /\ Cur(p) = task[t] /\ Sound(p, task[t])
<1>1. PayoutInv /\ TypeOK /\ Steady
  BY DEF CalmInv, PayoutInv
<1>2. p \in Payouts /\ On(t, p)
  BY <1>1, TaskFields DEF On, Busy
<1>3. Cur(p) = task[t]
  BY <1>1, <1>2, CurIs
<1> QED
  BY <1>1, <1>2, <1>3, PayoutKnown DEF JobOf, On, CalmInv

LEMMA AtRest ==
  ASSUME Calm, CalmInv, NEW t \in Tasks, NEW p \in Payouts, Free(t, p)
  PROVE  /\ TypeOK /\ PayoutInv /\ JobOf(t) = Idle /\ Idle.pc = "idle" /\ ~Busy(t)
         /\ \A u \in Tasks : ~On(u, p)
         /\ Known(p) /\ Cur(p) = Idle /\ Sound(p, Idle)
<1>1. PayoutInv /\ TypeOK /\ Steady
  BY DEF CalmInv, PayoutInv
<1>2. ~Busy(t) /\ \A u \in Tasks : ~On(u, p)
  BY DEF Free, On, Busy, Calm, Alone
<1>3. Cur(p) = Idle
  BY <1>1, <1>2, CurIs
<1> QED
  BY <1>1, <1>2, <1>3, PayoutKnown, IdleType DEF JobOf, CalmInv

(***************************************************************************)
(* Each step keeps its payout sound and moves the reserve with the claim.  *)
(***************************************************************************)
LEMMA ReserveHandled ==
  ASSUME Calm, CalmInv, NEW t \in Tasks, Reserve(t)
  PROVE  \E p \in Payouts : Handled(t, p)
<1> PICK p \in Payouts : p = task[t].p
  BY TaskFields DEF CalmInv, PayoutInv
<1>1. task[t].pc = "reserve" /\ ~At(t, "idle")
  BY DEF Reserve, At
<1>2. /\ p \in Payouts /\ TypeOK /\ PayoutInv /\ On(t, p) /\ JobOf(t) = task[t]
      /\ Known(p) /\ Cur(p) = task[t] /\ Sound(p, task[t])
  BY <1>1, AtWork
<1>3. /\ task'[t].pc = "insert" /\ task'[t].p = p
      /\ \A u \in Tasks : u # t => task'[u] = task[u]
  BY <1>2, Went DEF Reserve, Pcs
<1>4. Moves(t, p)
  BY <1>2, <1>3 DEF Reserve, Reserved, Moves, Elsewhere, TypeOK, payoutVars, moneyVars
<1>5. Sound(p, task[t])'
  BY <1>1, <1>2, <1>3 DEF Reserve, Reserved, Sound, Known, PendingPcs, FailingPcs,
    Keeping, Statuses, TypeOK, payoutVars, moneyVars
<1>6. Paired(t, p)
  BY <1>1, <1>2, <1>3 DEF Reserve, Reserved, Paired, Claim, Known, Sound, PendingPcs,
    FailingPcs, Keeping, Statuses, TypeOK, payoutVars, moneyVars
<1> QED
  BY <1>4, <1>5, <1>6 DEF Handled

LEMMA InsertHandled ==
  ASSUME Calm, CalmInv, NEW t \in Tasks, Insert(t)
  PROVE  \E p \in Payouts : Handled(t, p)
<1> PICK p \in Payouts : p = task[t].p
  BY TaskFields DEF CalmInv, PayoutInv
<1>1. task[t].pc = "insert" /\ ~At(t, "idle")
  BY DEF Insert, At
<1>2. /\ p \in Payouts /\ TypeOK /\ PayoutInv /\ On(t, p) /\ JobOf(t) = task[t]
      /\ Known(p) /\ Cur(p) = task[t] /\ Sound(p, task[t])
  BY <1>1, AtWork
<1>3. /\ task'[t].pc \in {"review", "post"} /\ task'[t].p = p
      /\ status' = [status EXCEPT ![p] = "pending"]
      /\ \A u \in Tasks : u # t => task'[u] = task[u]
  <2>1. PICK pc \in {"review", "post"} : Goto(t, pc) /\ Write(p, "pending")
    BY DEF Insert, Calm, Written
  <2>2. pc \in Pcs /\ pc # "idle"
    BY DEF Pcs
  <2> QED
    BY <1>2, <2>1, <2>2, Went DEF Write
<1>4. Moves(t, p)
  BY <1>2, <1>3 DEF Insert, Moves, Elsewhere, TypeOK, payoutVars, moneyVars
<1>5. Sound(p, task[t])'
  BY <1>1, <1>2, <1>3 DEF Insert, Sound, Known, PendingPcs, FailingPcs, Keeping,
    Statuses, TypeOK, payoutVars, moneyVars
<1>6. Paired(t, p)
  BY <1>1, <1>2, <1>3 DEF Insert, Paired, Claim, Known, Sound, PendingPcs, FailingPcs,
    Keeping, Statuses, TypeOK, payoutVars, moneyVars
<1> QED
  BY <1>4, <1>5, <1>6 DEF Handled

LEMMA OpenReviewHandled ==
  ASSUME Calm, CalmInv, NEW t \in Tasks, OpenReview(t)
  PROVE  \E p \in Payouts : Handled(t, p)
<1> PICK p \in Payouts : p = task[t].p
  BY TaskFields DEF CalmInv, PayoutInv
<1>1. task[t].pc = "review" /\ ~At(t, "idle")
  BY DEF OpenReview, At
<1>2. /\ p \in Payouts /\ TypeOK /\ PayoutInv /\ On(t, p) /\ JobOf(t) = task[t]
      /\ Known(p) /\ Cur(p) = task[t] /\ Sound(p, task[t])
  BY <1>1, AtWork
<1>3. task'[t].pc = "idle" /\ \A u \in Tasks : u # t => task'[u] = task[u]
  BY <1>2, Went DEF OpenReview, Done, Pcs
<1>4. Moves(t, p)
  BY <1>2, <1>3 DEF OpenReview, Moves, Elsewhere, TypeOK, payoutVars, moneyVars
<1>5. Sound(p, task[t])'
  BY <1>1, <1>2, <1>3 DEF OpenReview, Sound, Known, PendingPcs, FailingPcs,
    Keeping, Statuses, TypeOK, payoutVars, moneyVars
<1>6. Paired(t, p)
  BY <1>1, <1>2, <1>3 DEF OpenReview, Paired, Claim, Known, Sound, PendingPcs,
    FailingPcs, Keeping, Statuses, TypeOK, payoutVars, moneyVars
<1> QED
  BY <1>4, <1>5, <1>6 DEF Handled

LEMMA PostHandled ==
  ASSUME Calm, CalmInv, NEW t \in Tasks, Post(t)
  PROVE  \E p \in Payouts : Handled(t, p)
<1> PICK p \in Payouts : p = task[t].p
  BY TaskFields DEF CalmInv, PayoutInv
<1>1. task[t].pc = "post" /\ ~At(t, "idle")
  BY DEF Post, At
<1>2. /\ p \in Payouts /\ TypeOK /\ PayoutInv /\ On(t, p) /\ JobOf(t) = task[t]
      /\ Known(p) /\ Cur(p) = task[t] /\ Sound(p, task[t])
  BY <1>1, AtWork
<1>3. /\ task'[t].pc = "row" /\ task'[t].p = p
      /\ \A u \in Tasks : u # t => task'[u] = task[u]
  BY <1>2, Went DEF Post, Pcs
<1>4. Moves(t, p)
  BY <1>2, <1>3 DEF Post, Sent, Moves, Elsewhere, TypeOK, payoutVars, moneyVars
<1>5. Sound(p, task[t])'
  BY <1>1, <1>2, <1>3 DEF Post, Sent, Sound, Known, PendingPcs, FailingPcs,
    Keeping, Statuses, TypeOK, payoutVars, moneyVars
<1>6. Paired(t, p)
  BY <1>1, <1>2, <1>3 DEF Post, Sent, Paired, Claim, Known, Sound, PendingPcs,
    FailingPcs, Keeping, Statuses, TypeOK, payoutVars, moneyVars
<1> QED
  BY <1>4, <1>5, <1>6 DEF Handled

LEMMA PostFailsHandled ==
  ASSUME Calm, CalmInv, NEW t \in Tasks, PostFails(t)
  PROVE  \E p \in Payouts : Handled(t, p)
<1> PICK p \in Payouts : p = task[t].p
  BY TaskFields DEF CalmInv, PayoutInv
<1>1. task[t].pc = "post" /\ ~At(t, "idle")
  BY DEF PostFails, At
<1>2. /\ p \in Payouts /\ TypeOK /\ PayoutInv /\ On(t, p) /\ JobOf(t) = task[t]
      /\ Known(p) /\ Cur(p) = task[t] /\ Sound(p, task[t])
  BY <1>1, AtWork
<1>3. /\ task'[t].pc = "release" /\ task'[t].p = p /\ task'[t].then = "failMark"
      /\ \A u \in Tasks : u # t => task'[u] = task[u]
  BY <1>2, Started DEF PostFails, ReleaseThen
<1>4. Moves(t, p)
  BY <1>2, <1>3 DEF PostFails, Sent, Moves, Elsewhere, TypeOK, payoutVars, moneyVars
<1>5. Sound(p, task[t])'
  BY <1>1, <1>2, <1>3 DEF PostFails, Sent, Sound, Known, PendingPcs, FailingPcs,
    Keeping, Statuses, TypeOK, payoutVars, moneyVars
<1>6. Paired(t, p)
  BY <1>1, <1>2, <1>3 DEF PostFails, Sent, Paired, Claim, Known, Sound, PendingPcs,
    FailingPcs, Keeping, Statuses, TypeOK, payoutVars, moneyVars
<1> QED
  BY <1>4, <1>5, <1>6 DEF Handled

LEMMA RecordHandled ==
  ASSUME Calm, CalmInv, NEW t \in Tasks, Record(t)
  PROVE  \E p \in Payouts : Handled(t, p)
<1> PICK p \in Payouts : p = task[t].p
  BY TaskFields DEF CalmInv, PayoutInv
<1>1. task[t].pc = "row" /\ ~At(t, "idle")
  BY DEF Record, At
<1>2. /\ p \in Payouts /\ TypeOK /\ PayoutInv /\ On(t, p) /\ JobOf(t) = task[t]
      /\ Known(p) /\ Cur(p) = task[t] /\ Sound(p, task[t])
  BY <1>1, AtWork
<1>3. /\ task'[t].pc = "entry" /\ task'[t].p = p
      /\ \A u \in Tasks : u # t => task'[u] = task[u]
  BY <1>2, Went DEF Record, Pcs
<1>4. Moves(t, p)
  BY <1>2, <1>3 DEF Record, Moves, Elsewhere, TypeOK, payoutVars, moneyVars
<1>5. Sound(p, task[t])'
  BY <1>1, <1>2, <1>3 DEF Record, Sound, Known, PendingPcs, FailingPcs, Keeping,
    Statuses, TypeOK, payoutVars, moneyVars
<1>6. Paired(t, p)
  BY <1>1, <1>2, <1>3 DEF Record, Paired, Claim, Known, Sound, PendingPcs, FailingPcs,
    Keeping, Statuses, TypeOK, payoutVars, moneyVars
<1> QED
  BY <1>4, <1>5, <1>6 DEF Handled

LEMMA DebitHandled ==
  ASSUME Calm, CalmInv, NEW t \in Tasks, Debit(t)
  PROVE  \E p \in Payouts : Handled(t, p)
<1> PICK p \in Payouts : p = task[t].p
  BY TaskFields DEF CalmInv, PayoutInv
<1>1. task[t].pc = "entry" /\ ~At(t, "idle")
  BY DEF Debit, At
<1>2. /\ p \in Payouts /\ TypeOK /\ PayoutInv /\ On(t, p) /\ JobOf(t) = task[t]
      /\ Known(p) /\ Cur(p) = task[t] /\ Sound(p, task[t])
  BY <1>1, AtWork
<1>3. /\ task'[t].pc = "mark" /\ task'[t].p = p
      /\ \A u \in Tasks : u # t => task'[u] = task[u]
  BY <1>2, Went DEF Debit, Pcs
<1>4. Moves(t, p)
  BY <1>2, <1>3 DEF Debit, Moves, Elsewhere, TypeOK, payoutVars, moneyVars
<1>5. Sound(p, task[t])'
  BY <1>1, <1>2, <1>3 DEF Debit, Sound, Known, PendingPcs, FailingPcs, Keeping,
    Statuses, TypeOK, payoutVars, moneyVars
<1>6. Paired(t, p)
  BY <1>1, <1>2, <1>3 DEF Debit, Paired, Claim, Known, Sound, PendingPcs, FailingPcs,
    Keeping, Statuses, TypeOK, payoutVars, moneyVars
<1> QED
  BY <1>4, <1>5, <1>6 DEF Handled

LEMMA MarkHandled ==
  ASSUME Calm, CalmInv, NEW t \in Tasks, Mark(t)
  PROVE  \E p \in Payouts : Handled(t, p)
<1> PICK p \in Payouts : p = task[t].p
  BY TaskFields DEF CalmInv, PayoutInv
<1>1. task[t].pc = "mark" /\ ~At(t, "idle")
  BY DEF Mark, At
<1>2. /\ p \in Payouts /\ TypeOK /\ PayoutInv /\ On(t, p) /\ JobOf(t) = task[t]
      /\ Known(p) /\ Cur(p) = task[t] /\ Sound(p, task[t])
  BY <1>1, AtWork
<1>3. task'[t].pc = "idle" /\ \A u \in Tasks : u # t => task'[u] = task[u]
  BY <1>2, Went DEF Mark, Done, Pcs
<1>4. Moves(t, p)
  BY <1>2, <1>3 DEF Mark, Write, Moves, Elsewhere, TypeOK, payoutVars, moneyVars
<1>5. Sound(p, task[t])'
  BY <1>1, <1>2, <1>3 DEF Mark, Write, Sound, Known, PendingPcs, FailingPcs,
    Keeping, Statuses, TypeOK, payoutVars, moneyVars
<1>6. Paired(t, p)
  BY <1>1, <1>2, <1>3 DEF Mark, Write, Paired, Claim, Known, Sound, PendingPcs,
    FailingPcs, Keeping, Statuses, TypeOK, payoutVars, moneyVars
<1> QED
  BY <1>4, <1>5, <1>6 DEF Handled

LEMMA ReleaseHandled ==
  ASSUME Calm, CalmInv, NEW t \in Tasks, Release(t)
  PROVE  \E p \in Payouts : Handled(t, p)
<1> PICK p \in Payouts : p = task[t].p
  BY TaskFields DEF CalmInv, PayoutInv
<1>1. task[t].pc = "release" /\ ~At(t, "idle")
  BY DEF Release, At
<1>2. /\ p \in Payouts /\ TypeOK /\ PayoutInv /\ On(t, p) /\ JobOf(t) = task[t]
      /\ Known(p) /\ Cur(p) = task[t] /\ Sound(p, task[t])
  BY <1>1, AtWork
<1>3. /\ task'[t].pc \in {"failMark", "rejectMark"} /\ task'[t].p = p
      /\ bal' = Freed(bal, Cost[p])
      /\ \A u \in Tasks : u # t => task'[u] = task[u]
  <2>1. task[t].then \in {"failMark", "rejectMark"} /\ task[t].then \in Pcs
    BY <1>1, <1>2 DEF Sound, Pcs
  <2>2. bal.reserved >= Cost[p]
    BY <1>1, <1>2 DEF Known, Claim, Sound, PendingPcs, Keeping
  <2> QED
    BY <1>2, <2>1, <2>2, Went DEF Release, Releases
<1>4. Moves(t, p)
  BY <1>2, <1>3 DEF Release, Moves, Elsewhere, TypeOK, payoutVars, moneyVars
<1>5. Sound(p, task[t])'
  BY <1>1, <1>2, <1>3 DEF Release, Sound, Known, PendingPcs, FailingPcs,
    Keeping, Statuses, TypeOK, payoutVars, moneyVars
<1>6. Paired(t, p)
  BY <1>1, <1>2, <1>3 DEF Release, Paired, Claim, Known, Sound, PendingPcs, FailingPcs,
    Keeping, Statuses, TypeOK, payoutVars, moneyVars
<1> QED
  BY <1>4, <1>5, <1>6 DEF Handled

LEMMA FailMarkHandled ==
  ASSUME Calm, CalmInv, NEW t \in Tasks, FailMark(t)
  PROVE  \E p \in Payouts : Handled(t, p)
<1> PICK p \in Payouts : p = task[t].p
  BY TaskFields DEF CalmInv, PayoutInv
<1>1. task[t].pc = "failMark" /\ ~At(t, "idle")
  BY DEF FailMark, At
<1>2. /\ p \in Payouts /\ TypeOK /\ PayoutInv /\ On(t, p) /\ JobOf(t) = task[t]
      /\ Known(p) /\ Cur(p) = task[t] /\ Sound(p, task[t])
  BY <1>1, AtWork
<1>3. task'[t].pc = "idle" /\ \A u \in Tasks : u # t => task'[u] = task[u]
  BY <1>2, Went DEF FailMark, Done, Pcs
<1>4. Moves(t, p)
  BY <1>2, <1>3 DEF FailMark, Write, Moves, Elsewhere, TypeOK, payoutVars, moneyVars
<1>5. Sound(p, task[t])'
  BY <1>1, <1>2, <1>3 DEF FailMark, Write, Sound, Known, PendingPcs, FailingPcs,
    Keeping, Statuses, TypeOK, payoutVars, moneyVars
<1>6. Paired(t, p)
  BY <1>1, <1>2, <1>3 DEF FailMark, Write, Paired, Claim, Known, Sound, PendingPcs,
    FailingPcs, Keeping, Statuses, TypeOK, payoutVars, moneyVars
<1> QED
  BY <1>4, <1>5, <1>6 DEF Handled

LEMMA RejectReadHandled ==
  ASSUME Calm, CalmInv, NEW t \in Tasks, RejectRead(t)
  PROVE  \E p \in Payouts : Handled(t, p)
<1> PICK p \in Payouts : p = task[t].p
  BY TaskFields DEF CalmInv, PayoutInv
<1>1. task[t].pc = "rejectRead" /\ ~At(t, "idle")
  BY DEF RejectRead, At
<1>2. /\ p \in Payouts /\ TypeOK /\ PayoutInv /\ On(t, p) /\ JobOf(t) = task[t]
      /\ Known(p) /\ Cur(p) = task[t] /\ Sound(p, task[t])
  BY <1>1, AtWork
<1>3. /\ \A u \in Tasks : u # t => task'[u] = task[u]
      /\ \/ status[p] = "pending" /\ task'[t].pc = "release"
            /\ task'[t].p = p /\ task'[t].then = "rejectMark"
         \/ status[p] # "pending" /\ task'[t].pc = "idle"
  BY <1>2, Went, Started DEF RejectRead, ReleaseThen, Done, Pcs
<1>4. Moves(t, p)
  BY <1>2, <1>3 DEF RejectRead, Moves, Elsewhere, TypeOK, payoutVars, moneyVars
<1>5. Sound(p, task[t])'
  BY <1>1, <1>2, <1>3 DEF RejectRead, Sound, Known, PendingPcs, FailingPcs,
    Keeping, Statuses, TypeOK, payoutVars, moneyVars
<1>6. Paired(t, p)
  BY <1>1, <1>2, <1>3 DEF RejectRead, Paired, Claim, Known, Sound, PendingPcs,
    FailingPcs, Keeping, Statuses, TypeOK, payoutVars, moneyVars
<1> QED
  BY <1>4, <1>5, <1>6 DEF Handled

LEMMA RejectMarkHandled ==
  ASSUME Calm, CalmInv, NEW t \in Tasks, RejectMark(t)
  PROVE  \E p \in Payouts : Handled(t, p)
<1> PICK p \in Payouts : p = task[t].p
  BY TaskFields DEF CalmInv, PayoutInv
<1>1. task[t].pc = "rejectMark" /\ ~At(t, "idle")
  BY DEF RejectMark, At
<1>2. /\ p \in Payouts /\ TypeOK /\ PayoutInv /\ On(t, p) /\ JobOf(t) = task[t]
      /\ Known(p) /\ Cur(p) = task[t] /\ Sound(p, task[t])
  BY <1>1, AtWork
<1>3. task'[t].pc = "idle" /\ \A u \in Tasks : u # t => task'[u] = task[u]
  BY <1>2, Went DEF RejectMark, Done, Pcs
<1>4. Moves(t, p)
  BY <1>2, <1>3 DEF RejectMark, Write, Moves, Elsewhere, TypeOK, payoutVars, moneyVars
<1>5. Sound(p, task[t])'
  BY <1>1, <1>2, <1>3 DEF RejectMark, Write, Sound, Known, PendingPcs, FailingPcs,
    Keeping, Statuses, TypeOK, payoutVars, moneyVars
<1>6. Paired(t, p)
  BY <1>1, <1>2, <1>3 DEF RejectMark, Write, Paired, Claim, Known, Sound, PendingPcs,
    FailingPcs, Keeping, Statuses, TypeOK, payoutVars, moneyVars
<1> QED
  BY <1>4, <1>5, <1>6 DEF Handled

LEMMA CompletePayoutHandled ==
  ASSUME Calm, CalmInv, NEW t \in Tasks, CompletePayout(t)
  PROVE  \E p \in Payouts : Handled(t, p)
<1> PICK p \in Payouts : p = task[t].p
  BY TaskFields DEF CalmInv, PayoutInv
<1>1. task[t].pc = "cPayout" /\ ~At(t, "idle")
  BY DEF CompletePayout, At
<1>2. /\ p \in Payouts /\ TypeOK /\ PayoutInv /\ On(t, p) /\ JobOf(t) = task[t]
      /\ Known(p) /\ Cur(p) = task[t] /\ Sound(p, task[t])
  BY <1>1, AtWork
<1>3. /\ task'[t].pc = "cSettle" /\ task'[t].p = p
      /\ \A u \in Tasks : u # t => task'[u] = task[u]
  BY <1>2, Went DEF CompletePayout, Pcs
<1>4. Moves(t, p)
  BY <1>2, <1>3 DEF CompletePayout, Write, Moves, Elsewhere, TypeOK, payoutVars,
    moneyVars
<1>5. Sound(p, task[t])'
  BY <1>1, <1>2, <1>3 DEF CompletePayout, Write, Sound, Known, PendingPcs, FailingPcs,
    Keeping, Statuses, TypeOK, payoutVars, moneyVars
<1>6. Paired(t, p)
  BY <1>1, <1>2, <1>3 DEF CompletePayout, Write, Paired, Claim, Known, Sound,
    PendingPcs, FailingPcs, Keeping, Statuses, TypeOK, payoutVars, moneyVars
<1> QED
  BY <1>4, <1>5, <1>6 DEF Handled

LEMMA CompleteSettleHandled ==
  ASSUME Calm, CalmInv, NEW t \in Tasks, CompleteSettle(t)
  PROVE  \E p \in Payouts : Handled(t, p)
<1> PICK p \in Payouts : p = task[t].p
  BY TaskFields DEF CalmInv, PayoutInv
<1>1. task[t].pc = "cSettle" /\ ~At(t, "idle")
  BY DEF CompleteSettle, At
<1>2. /\ p \in Payouts /\ TypeOK /\ PayoutInv /\ On(t, p) /\ JobOf(t) = task[t]
      /\ Known(p) /\ Cur(p) = task[t] /\ Sound(p, task[t])
  BY <1>1, AtWork
<1>3. task'[t].pc = "idle" /\ \A u \in Tasks : u # t => task'[u] = task[u]
  BY <1>2, Went DEF CompleteSettle, Done, Pcs
<1>4. /\ charges' = [charges EXCEPT ![p] = @ + Matched(p)]
      /\ bal' = Posted(bal, -(Matched(p) * Cost[p]))
      /\ UNCHANGED <<status, row, bridge, inbox>>
  <2>1. Matched(p) \in Nat /\ Cost[p] \in Nat
    BY <1>2, MatchedIs DEF Known
  <2> QED
    BY <2>1, SettledIs DEF CompleteSettle, payoutVars
<1>5. Moves(t, p)
  BY <1>2, <1>3, <1>4 DEF Moves, Elsewhere, TypeOK
<1>6. status[p] = "completed" /\ bridge[p] = "complete"
  BY <1>1, <1>2 DEF Sound
<1>7. Sound(p, task[t])'
  BY <1>1, <1>2, <1>3, <1>4, <1>6 DEF Sound, PendingPcs, FailingPcs
<1>8. (Matched(p) = 0 \/ (Matched(p) = 1 /\ charges[p] = 0)) /\ charges[p] \in Nat
  BY <1>2, MatchedIs DEF Known
<1>9. CASE Matched(p) = 0
  <2>1. charges'[p] = charges[p] /\ bal' = Posted(bal, 0)
    BY <1>2, <1>4, <1>8, <1>9 DEF TypeOK, Known
  <2>2. bal' = bal
    BY <1>2, <2>1 DEF Posted, Balance, Known
  <2>3. Claim(p, task[t])' <=> Claim(p, JobOf(t))
    BY <1>1, <1>2, <1>3, <1>4, <2>1 DEF Claim, Keeping
  <2> QED
    BY <1>5, <1>7, <2>1, <2>2, <2>3 DEF Handled, Paired
<1>10. CASE Matched(p) = 1 /\ charges[p] = 0
  <2>1. charges'[p] = 1 /\ bal' = Posted(bal, -Cost[p])
    BY <1>2, <1>4, <1>10 DEF TypeOK, Known
  <2>2. ~Claim(p, task[t])' /\ Claim(p, JobOf(t))
    BY <1>1, <1>2, <1>3, <1>4, <1>6, <1>10, <2>1 DEF Claim, Keeping
  <2>3. bal.reserved >= Cost[p]
    BY <1>2, <2>2 DEF Known
  <2>4. bal'.available = bal.available /\ bal'.reserved = bal.reserved - Cost[p]
    BY <1>2, <2>1, <2>3 DEF Posted, Balance, Known, AtLeast, AtMost
  <2> QED
    BY <1>5, <1>7, <2>1, <2>2, <2>4 DEF Handled, Paired
<1> QED
  BY <1>8, <1>9, <1>10

LEMMA FailedMarkHandled ==
  ASSUME Calm, CalmInv, NEW t \in Tasks, FailedMark(t)
  PROVE  \E p \in Payouts : Handled(t, p)
<1> PICK p \in Payouts : p = task[t].p
  BY TaskFields DEF CalmInv, PayoutInv
<1>1. task[t].pc = "fMark" /\ ~At(t, "idle")
  BY DEF FailedMark, At
<1>2. /\ p \in Payouts /\ TypeOK /\ PayoutInv /\ On(t, p) /\ JobOf(t) = task[t]
      /\ Known(p) /\ Cur(p) = task[t] /\ Sound(p, task[t])
  BY <1>1, AtWork
<1>3. /\ task'[t].pc = "fPayout" /\ task'[t].p = p
      /\ \A u \in Tasks : u # t => task'[u] = task[u]
  BY <1>2, Went DEF FailedMark, Pcs
<1>4. Moves(t, p)
  BY <1>2, <1>3 DEF FailedMark, SetRow, Moves, Elsewhere, TypeOK, payoutVars, moneyVars
<1>5. Sound(p, task[t])'
  BY <1>1, <1>2, <1>3 DEF FailedMark, SetRow, Sound, Known, PendingPcs, FailingPcs,
    Keeping, Statuses, TypeOK, payoutVars, moneyVars
<1>6. Paired(t, p)
  BY <1>1, <1>2, <1>3 DEF FailedMark, SetRow, Paired, Claim, Known, Sound, PendingPcs,
    FailingPcs, Keeping, Statuses, TypeOK, payoutVars, moneyVars
<1> QED
  BY <1>4, <1>5, <1>6 DEF Handled

LEMMA FailedPayoutHandled ==
  ASSUME Calm, CalmInv, NEW t \in Tasks, FailedPayout(t)
  PROVE  \E p \in Payouts : Handled(t, p)
<1> PICK p \in Payouts : p = task[t].p
  BY TaskFields DEF CalmInv, PayoutInv
<1>1. task[t].pc = "fPayout" /\ ~At(t, "idle")
  BY DEF FailedPayout, At
<1>2. /\ p \in Payouts /\ TypeOK /\ PayoutInv /\ On(t, p) /\ JobOf(t) = task[t]
      /\ Known(p) /\ Cur(p) = task[t] /\ Sound(p, task[t])
  BY <1>1, AtWork
<1>3. /\ task'[t].pc = "fRelease" /\ task'[t].p = p
      /\ \A u \in Tasks : u # t => task'[u] = task[u]
  BY <1>2, Went DEF FailedPayout, Pcs
<1>4. Moves(t, p)
  BY <1>2, <1>3 DEF FailedPayout, Write, Moves, Elsewhere, TypeOK, payoutVars, moneyVars
<1>5. Sound(p, task[t])'
  BY <1>1, <1>2, <1>3 DEF FailedPayout, Write, Sound, Known, PendingPcs, FailingPcs,
    Keeping, Statuses, TypeOK, payoutVars, moneyVars
<1>6. Paired(t, p)
  BY <1>1, <1>2, <1>3 DEF FailedPayout, Write, Paired, Claim, Known, Sound, PendingPcs,
    FailingPcs, Keeping, Statuses, TypeOK, payoutVars, moneyVars
<1> QED
  BY <1>4, <1>5, <1>6 DEF Handled

LEMMA FailedReleaseHandled ==
  ASSUME Calm, CalmInv, NEW t \in Tasks, FailedRelease(t)
  PROVE  \E p \in Payouts : Handled(t, p)
<1> PICK p \in Payouts : p = task[t].p
  BY TaskFields DEF CalmInv, PayoutInv
<1>1. task[t].pc = "fRelease" /\ ~At(t, "idle")
  BY DEF FailedRelease, At
<1>2. /\ p \in Payouts /\ TypeOK /\ PayoutInv /\ On(t, p) /\ JobOf(t) = task[t]
      /\ Known(p) /\ Cur(p) = task[t] /\ Sound(p, task[t])
  BY <1>1, AtWork
<1>3. /\ task'[t].pc = "idle" /\ \A u \in Tasks : u # t => task'[u] = task[u]
      /\ bal' = Freed(bal, Cost[p])
  <2>1. bal.reserved >= Cost[p]
    BY <1>1, <1>2 DEF Known, Claim
  <2> QED
    BY <1>2, <2>1, Went DEF FailedRelease, Releases, Done, Pcs, Calm
<1>4. Moves(t, p)
  BY <1>2, <1>3 DEF FailedRelease, Moves, Elsewhere, TypeOK, payoutVars, moneyVars
<1>5. Sound(p, task[t])'
  BY <1>1, <1>2, <1>3 DEF FailedRelease, Sound, Known, PendingPcs, FailingPcs,
    Keeping, Statuses, TypeOK, payoutVars, moneyVars
<1>6. Paired(t, p)
  BY <1>1, <1>2, <1>3 DEF FailedRelease, Paired, Claim, Known, Sound, PendingPcs,
    FailingPcs, Keeping, Statuses, TypeOK, payoutVars, moneyVars
<1> QED
  BY <1>4, <1>5, <1>6 DEF Handled

LEMMA StepCalm ==
  ASSUME Calm, CalmInv, NEW t \in Tasks, Step(t)
  PROVE  \E p \in Payouts : Handled(t, p)
<1>1. ~FallbackRead(t) /\ ~DebitThrows(t)
  BY DEF FallbackRead, DebitThrows, Calm, Written
<1>2. ~FallbackWrite(t)
  <2> SUFFICES ASSUME task[t].pc = "fallback" PROVE FALSE
    BY DEF FallbackWrite, At
  <2>1. Sound(task[t].p, task[t])
    BY AtWork DEF At
  <2> QED
    BY <2>1 DEF Sound
<1> QED
  BY <1>1, <1>2, ReserveHandled, InsertHandled, OpenReviewHandled, PostHandled,
    PostFailsHandled, RecordHandled, DebitHandled, MarkHandled, ReleaseHandled,
    FailMarkHandled, RejectReadHandled, RejectMarkHandled, CompletePayoutHandled,
    CompleteSettleHandled, FailedMarkHandled, FailedPayoutHandled, FailedReleaseHandled
    DEF Step

(***************************************************************************)
(* Each request and webhook that begins does so too.                       *)
(***************************************************************************)
LEMMA TakeOne ==
  ASSUME TypeOK, NEW p \in Payouts, NEW kind \in Kinds, Take(p, kind)
  PROVE  /\ inbox[<<p, kind>>] > 0
         /\ inbox'[<<p, kind>>] = inbox[<<p, kind>>] - 1
         /\ \A q \in Payouts, other \in Kinds :
              <<q, other>> # <<p, kind>> => inbox'[<<q, other>>] = inbox[<<q, other>>]
<1>1. inbox \in [Payouts \X Kinds -> Nat]
  BY DEF TypeOK
<1>2. inbox' = [inbox EXCEPT ![<<p, kind>>] = inbox[<<p, kind>>] - 1]
  BY DEF Take
<1>3. inbox[<<p, kind>>] > 0
  BY Zenon DEF Take
<1> QED
  BY <1>1, <1>2, <1>3

LEMMA CreateHandled ==
  ASSUME Calm, CalmInv, NEW t \in Tasks, NEW p \in Payouts, Create(t, p)
  PROVE  Handled(t, p)
<1>1. Free(t, p)
  BY DEF Create, Begin
<1>2. /\ TypeOK /\ PayoutInv /\ JobOf(t) = Idle /\ Idle.pc = "idle" /\ ~Busy(t)
      /\ \A u \in Tasks : ~On(u, p)
      /\ Known(p) /\ Cur(p) = Idle /\ Sound(p, Idle)
  BY <1>1, AtRest
<1>3. /\ task'[t].pc = "reserve" /\ task'[t].p = p
      /\ \A u \in Tasks : u # t => task'[u] = task[u]
  BY <1>2, Started DEF Create, Begin
<1>4. Moves(t, p)
  BY <1>2, <1>3 DEF Create, Moves, Elsewhere, Kinds, TypeOK, payoutVars, moneyVars
<1>5. Sound(p, task[t])'
  BY <1>2, <1>3 DEF Create, Sound, Known, PendingPcs, FailingPcs, Keeping,
    Statuses, TypeOK, payoutVars, moneyVars
<1>6. Paired(t, p)
  BY <1>2, <1>3 DEF Create, Paired, Claim, Known, Sound, PendingPcs, FailingPcs,
    Keeping, Statuses, TypeOK, payoutVars, moneyVars
<1> QED
  BY <1>4, <1>5, <1>6 DEF Handled

LEMMA ApproveHandled ==
  ASSUME Calm, CalmInv, NEW t \in Tasks, NEW p \in Payouts, Approve(t, p)
  PROVE  Handled(t, p)
<1>1. Free(t, p)
  BY DEF Approve, Begin
<1>2. /\ TypeOK /\ PayoutInv /\ JobOf(t) = Idle /\ Idle.pc = "idle" /\ ~Busy(t)
      /\ \A u \in Tasks : ~On(u, p)
      /\ Known(p) /\ Cur(p) = Idle /\ Sound(p, Idle)
  BY <1>1, AtRest
<1>3. /\ task'[t].pc = "post" /\ task'[t].p = p
      /\ \A u \in Tasks : u # t => task'[u] = task[u]
  BY <1>2, Started DEF Approve, Begin
<1>4. Moves(t, p)
  BY <1>2, <1>3 DEF Approve, Moves, Elsewhere, Kinds, TypeOK, payoutVars, moneyVars
<1>5. Sound(p, task[t])'
  BY <1>2, <1>3 DEF Approve, Sound, Known, PendingPcs, FailingPcs, Keeping,
    Statuses, TypeOK, payoutVars, moneyVars
<1>6. Paired(t, p)
  BY <1>2, <1>3 DEF Approve, Paired, Claim, Known, Sound, PendingPcs, FailingPcs,
    Keeping, Statuses, TypeOK, payoutVars, moneyVars
<1> QED
  BY <1>4, <1>5, <1>6 DEF Handled

LEMMA RejectReviewHandled ==
  ASSUME Calm, CalmInv, NEW t \in Tasks, NEW p \in Payouts, RejectReview(t, p)
  PROVE  Handled(t, p)
<1>1. Free(t, p)
  BY DEF RejectReview, Begin
<1>2. /\ TypeOK /\ PayoutInv /\ JobOf(t) = Idle /\ Idle.pc = "idle" /\ ~Busy(t)
      /\ \A u \in Tasks : ~On(u, p)
      /\ Known(p) /\ Cur(p) = Idle /\ Sound(p, Idle)
  BY <1>1, AtRest
<1>3. /\ task'[t].pc = "rejectRead" /\ task'[t].p = p
      /\ \A u \in Tasks : u # t => task'[u] = task[u]
  BY <1>2, Started DEF RejectReview, Begin
<1>4. Moves(t, p)
  BY <1>2, <1>3 DEF RejectReview, Moves, Elsewhere, Kinds, TypeOK, payoutVars, moneyVars
<1>5. Sound(p, task[t])'
  BY <1>2, <1>3 DEF RejectReview, Sound, Known, PendingPcs, FailingPcs, Keeping,
    Statuses, TypeOK, payoutVars, moneyVars
<1>6. Paired(t, p)
  BY <1>2, <1>3 DEF RejectReview, Paired, Claim, Known, Sound, PendingPcs, FailingPcs,
    Keeping, Statuses, TypeOK, payoutVars, moneyVars
<1> QED
  BY <1>4, <1>5, <1>6 DEF Handled

LEMMA RejectHandled ==
  ASSUME Calm, CalmInv, NEW t \in Tasks, NEW p \in Payouts, Reject(t, p)
  PROVE  Handled(t, p)
<1>1. Free(t, p)
  BY DEF Reject, Begin
<1>2. /\ TypeOK /\ PayoutInv /\ JobOf(t) = Idle /\ Idle.pc = "idle" /\ ~Busy(t)
      /\ \A u \in Tasks : ~On(u, p)
      /\ Known(p) /\ Cur(p) = Idle /\ Sound(p, Idle)
  BY <1>1, AtRest
<1>3. /\ task'[t].pc = "release" /\ task'[t].p = p /\ task'[t].then = "rejectMark"
      /\ \A u \in Tasks : u # t => task'[u] = task[u]
  BY <1>2, Started DEF Reject
<1>4. Moves(t, p)
  BY <1>2, <1>3 DEF Reject, Moves, Elsewhere, Kinds, TypeOK, payoutVars, moneyVars
<1>5. Sound(p, task[t])'
  BY <1>2, <1>3 DEF Reject, Sound, Known, PendingPcs, FailingPcs, Keeping,
    Statuses, TypeOK, payoutVars, moneyVars
<1>6. Paired(t, p)
  BY <1>2, <1>3 DEF Reject, Paired, Claim, Known, Sound, PendingPcs, FailingPcs,
    Keeping, Statuses, TypeOK, payoutVars, moneyVars
<1> QED
  BY <1>4, <1>5, <1>6 DEF Handled

LEMMA CompleteStartHandled ==
  ASSUME Calm, CalmInv, NEW t \in Tasks, NEW p \in Payouts, CompleteStart(t, p)
  PROVE  Handled(t, p)
<1>1. Free(t, p)
  BY DEF CompleteStart, Begin
<1>2. /\ TypeOK /\ PayoutInv /\ JobOf(t) = Idle /\ Idle.pc = "idle" /\ ~Busy(t)
      /\ \A u \in Tasks : ~On(u, p)
      /\ Known(p) /\ Cur(p) = Idle /\ Sound(p, Idle)
  BY <1>1, AtRest
<1>3. /\ task'[t].pc = (IF row[p] = "none" THEN "idle" ELSE "cPayout") /\ task'[t].p = p
      /\ \A u \in Tasks : u # t => task'[u] = task[u]
      /\ inbox[<<p, "complete">>] > 0 /\ inbox'[<<p, "complete">>] = inbox[<<p, "complete">>] - 1
      /\ inbox'[<<p, "failed">>] = inbox[<<p, "failed">>]
      /\ \A q \in Payouts \ {p}, other \in Kinds : inbox'[<<q, other>>] = inbox[<<q, other>>]
      /\ inbox[<<p, "complete">>] \in Nat
      /\ row' = (IF row[p] = "none" THEN row ELSE [row EXCEPT ![p] = "completed"])
      /\ UNCHANGED <<status, charges, bal, bridge>>
  <2>1. /\ task'[t].pc = (IF row[p] = "none" THEN "idle" ELSE "cPayout") /\ task'[t].p = p
        /\ \A u \in Tasks : u # t => task'[u] = task[u]
    BY <1>2, Started DEF CompleteStart, Begin
  <2>2. Take(p, "complete") /\ "complete" \in Kinds /\ "failed" \in Kinds
    BY DEF CompleteStart, Kinds
  <2>3. UNCHANGED <<status, charges, bal, bridge>>
    BY DEF CompleteStart, payoutVars, moneyVars
  <2>4. row' = IF row[p] = "none" THEN row ELSE [row EXCEPT ![p] = "completed"]
    BY DEF CompleteStart, SetRow, moneyVars
  <2>5. inbox[<<p, "complete">>] \in Nat
    BY <1>2, <2>2 DEF TypeOK, Kinds
  <2>6. /\ inbox[<<p, "complete">>] > 0 /\ inbox'[<<p, "complete">>] = inbox[<<p, "complete">>] - 1
        /\ inbox'[<<p, "failed">>] = inbox[<<p, "failed">>]
        /\ \A q \in Payouts \ {p}, other \in Kinds : inbox'[<<q, other>>] = inbox[<<q, other>>]
    BY <1>2, <2>2, TakeOne
  <2> QED
    BY <2>1, <2>3, <2>4, <2>5, <2>6
<1>4. Moves(t, p)
  BY <1>2, <1>3 DEF Moves, Elsewhere, Kinds, TypeOK, payoutVars, moneyVars
<1>5. Sound(p, task[t])'
  BY <1>2, <1>3 DEF Sound, Known, PendingPcs, FailingPcs, Keeping, Statuses,
    TypeOK, payoutVars, moneyVars
<1>6. Paired(t, p)
  BY <1>2, <1>3 DEF Paired, Claim, Known, Sound, PendingPcs, FailingPcs,
    Keeping, Statuses, TypeOK, payoutVars, moneyVars
<1> QED
  BY <1>4, <1>5, <1>6 DEF Handled

LEMMA FailedStartHandled ==
  ASSUME Calm, CalmInv, NEW t \in Tasks, NEW p \in Payouts, FailedStart(t, p)
  PROVE  Handled(t, p)
<1>1. Free(t, p)
  BY DEF FailedStart, Begin
<1>2. /\ TypeOK /\ PayoutInv /\ JobOf(t) = Idle /\ Idle.pc = "idle" /\ ~Busy(t)
      /\ \A u \in Tasks : ~On(u, p)
      /\ Known(p) /\ Cur(p) = Idle /\ Sound(p, Idle)
  BY <1>1, AtRest
<1>3. /\ task'[t].pc = (IF row[p] \in {"none", "completed"} THEN "idle" ELSE "fMark") /\ task'[t].p = p
      /\ \A u \in Tasks : u # t => task'[u] = task[u]
      /\ inbox[<<p, "failed">>] > 0 /\ inbox'[<<p, "failed">>] = inbox[<<p, "failed">>] - 1
      /\ inbox'[<<p, "complete">>] = inbox[<<p, "complete">>]
      /\ \A q \in Payouts \ {p}, other \in Kinds : inbox'[<<q, other>>] = inbox[<<q, other>>]
      /\ inbox[<<p, "complete">>] \in Nat
      /\ row' = row
      /\ UNCHANGED <<status, charges, bal, bridge>>
  <2>1. /\ task'[t].pc = (IF row[p] \in {"none", "completed"} THEN "idle" ELSE "fMark")
        /\ task'[t].p = p
        /\ \A u \in Tasks : u # t => task'[u] = task[u]
    BY <1>2, Started DEF FailedStart, Begin
  <2>2. Take(p, "failed") /\ "complete" \in Kinds /\ "failed" \in Kinds
    BY DEF FailedStart, Kinds
  <2>3. UNCHANGED <<status, charges, bal, bridge>>
    BY DEF FailedStart, payoutVars, moneyVars
  <2>4. row' = row
    BY DEF FailedStart, SetRow, moneyVars
  <2>5. inbox[<<p, "complete">>] \in Nat
    BY <1>2, <2>2 DEF TypeOK, Kinds
  <2>6. /\ inbox[<<p, "failed">>] > 0 /\ inbox'[<<p, "failed">>] = inbox[<<p, "failed">>] - 1
        /\ inbox'[<<p, "complete">>] = inbox[<<p, "complete">>]
        /\ \A q \in Payouts \ {p}, other \in Kinds : inbox'[<<q, other>>] = inbox[<<q, other>>]
    BY <1>2, <2>2, TakeOne
  <2> QED
    BY <2>1, <2>3, <2>4, <2>5, <2>6
<1>4. Moves(t, p)
  BY <1>2, <1>3 DEF Moves, Elsewhere, Kinds, TypeOK, payoutVars, moneyVars
<1>5. Sound(p, task[t])'
  BY <1>2, <1>3 DEF Sound, Known, PendingPcs, FailingPcs, Keeping, Statuses,
    TypeOK, payoutVars, moneyVars
<1>6. Paired(t, p)
  BY <1>2, <1>3 DEF Paired, Claim, Known, Sound, PendingPcs, FailingPcs,
    Keeping, Statuses, TypeOK, payoutVars, moneyVars
<1> QED
  BY <1>4, <1>5, <1>6 DEF Handled

(***************************************************************************)
(* Bridge and manual credits, and the induction.                           *)
(***************************************************************************)
LEMMA BridgeCalm ==
  ASSUME Calm, CalmInv, PayoutInv', Steady', NEW p \in Payouts, NEW to \in Kinds, BridgeMoves(p, to)
  PROVE  CalmInv'
<1>1. TypeOK /\ Sound(p, Cur(p)) /\ inbox \in [Payouts \X Kinds -> Nat]
  BY DEF CalmInv, PayoutInv, TypeOK
<1>2. UNCHANGED <<status, row, charges, bal, task>>
  BY DEF BridgeMoves, payoutVars, moneyVars
<1>3. /\ bridge[p] = "sent" /\ bridge'[p] = to
      /\ \A q \in Payouts \ {p} : bridge'[q] = bridge[q]
  BY <1>1 DEF BridgeMoves, TypeOK
<1>4. inbox' = [inbox EXCEPT ![<<p, to>>] = Deliveries[to]] /\ Deliveries[to] \in Nat
  BY DeliveriesAssumption DEF BridgeMoves
<1>5. /\ inbox'[<<p, to>>] = Deliveries[to]
      /\ \A q \in Payouts, kind \in Kinds :
           <<q, kind>> # <<p, to>> => inbox'[<<q, kind>>] = inbox[<<q, kind>>]
  BY <1>1, <1>4
<1>6. \A q \in Payouts : Cur(q)' = Cur(q)
  BY <1>2 DEF Cur, On, Busy, At, Idle, Job, Empty, APayout
<1>7. ASSUME NEW q \in Payouts PROVE Sound(q, Cur(q))'
  <2>1. CASE q # p
    <3>1. Sound(q, Cur(q)) /\ bridge'[q] = bridge[q]
      BY <1>3, <2>1 DEF CalmInv
    <3>2. /\ inbox'[<<q, "failed">>] = inbox[<<q, "failed">>]
          /\ inbox'[<<q, "complete">>] = inbox[<<q, "complete">>]
      BY <1>5, <2>1 DEF Kinds
    <3> QED
      BY <1>2, <1>6, <3>1, <3>2 DEF Sound
  <2>2. CASE q = p
    <3>1. inbox[<<p, "failed">>] = 0 /\ inbox[<<p, "complete">>] = 0
      BY <1>1, <1>3 DEF Sound, Kinds
    <3>2. /\ to = "failed" => inbox'[<<p, "failed">>] =< 1 /\ inbox'[<<p, "complete">>] = 0
          /\ to = "complete" => inbox'[<<p, "failed">>] = 0
      BY <1>5, <3>1 DEF Calm, Kinds
    <3> QED
      BY <1>1, <1>2, <1>3, <1>6, <2>2, <3>2 DEF Sound, Kinds, FailingPcs
  <2> QED
    BY <2>1, <2>2
<1> QED
  BY <1>2, <1>6, <1>7 DEF CalmInv, Funded, Backed, Shares, Share, Wants, Want, Claim,
    Keeping

LEMMA AdjustCalm ==
  ASSUME Calm, CalmInv, PayoutInv', Steady', NEW type \in {"credit", "debit"}, Adjust(type)
  PROVE  CalmInv'
<1>1. UNCHANGED <<status, row, charges, bridge, inbox, task>> /\ type = "credit"
  BY DEF Adjust, payoutVars, moneyVars, Calm
<1>2. bal \in Balance /\ bal' = Posted(bal, 1)
  BY <1>1 DEF Adjust, Signed, CalmInv, PayoutInv, TypeOK
<1>3. /\ bal'.amount = bal.amount + 1 /\ bal'.available = bal.available + 1
      /\ bal'.reserved = bal.reserved
  BY <1>2 DEF Posted
<1>4. \A p \in Payouts : Cur(p)' = Cur(p)
  BY <1>1 DEF Cur, On, Busy, At, Idle, Job, Empty, APayout
<1>5. Shares' = Shares /\ Wants' = Wants
  BY <1>1, <1>4 DEF Shares, Share, Wants, Want, Claim, Keeping
<1>6. ASSUME NEW p \in Payouts PROVE Sound(p, Cur(p))'
  BY <1>1, <1>4 DEF Sound, CalmInv
<1>7. Total(Wants, Payouts) \in Int /\ bal.available \in Int
  BY <1>2, WantType, TotalType DEF Calm, Balance
<1>8. Funded' /\ Backed'
  BY <1>3, <1>5, <1>7 DEF CalmInv, Funded, Backed
<1> QED
  BY <1>6, <1>8 DEF CalmInv

LEMMA NextCalm ==
  ASSUME Calm, CalmInv, [Next]_vars
  PROVE  CalmInv'
<1>1. PayoutInv' /\ Steady'
  BY NextInv, NextSteady DEF CalmInv, Calm
<1>2. ASSUME NEW t \in Tasks, NEW p \in Payouts, Handled(t, p) PROVE CalmInv'
  BY <1>1, <1>2, HandledKeeps
<1>3. CASE \E t \in Tasks : Step(t)
  BY <1>2, <1>3, StepCalm
<1>4. CASE \E t \in Tasks, p \in Payouts :
             Create(t, p) \/ Approve(t, p) \/ Reject(t, p) \/ RejectReview(t, p) \/ Webhook(t, p)
  BY <1>2, <1>4, CreateHandled, ApproveHandled, RejectHandled, RejectReviewHandled,
    CompleteStartHandled, FailedStartHandled DEF Webhook
<1>5. ~Crash
  BY DEF Crash, Calm, Alone
<1>6. CASE UNCHANGED vars
  <2>1. UNCHANGED <<status, row, charges, bal, bridge, inbox, task>>
    BY <1>6 DEF vars, payoutVars, moneyVars
  <2>2. \A p \in Payouts : Cur(p)' = Cur(p)
    BY <2>1 DEF Cur, On, Busy, At, Idle, Job, Empty, APayout
  <2>3. ASSUME NEW p \in Payouts PROVE Sound(p, Cur(p))'
    BY <2>1, <2>2 DEF Sound, CalmInv
  <2> QED
    BY <1>1, <2>1, <2>2, <2>3 DEF CalmInv, Funded, Backed, Shares, Share, Wants, Want,
      Claim, Keeping
<1> QED
  BY <1>1, <1>3, <1>4, <1>5, <1>6, BridgeCalm, AdjustCalm DEF Next

LEMMA InitCalm ==
  ASSUME Calm, Init
  PROVE  CalmInv
<1>1. PayoutInv /\ Steady
  BY InitInv, InitSteady
<1>2. \A t \in Tasks : ~Busy(t)
  BY IdleType DEF Init, Busy, At
<1>3. \A p \in Payouts : Cur(p) = Idle
  BY <1>2 DEF Cur, On
<1>4. ASSUME NEW p \in Payouts PROVE Sound(p, Idle)
  BY IdleType DEF Init, Sound, Kinds, PendingPcs, FailingPcs
<1>5. \A p \in Payouts : Shares[p] = 0
  <2> SUFFICES ASSUME NEW p \in Payouts PROVE ~Claim(p, Idle)
    BY <1>3, ShareType DEF Share
  <2> QED
    BY IdleType DEF Init, Claim, Keeping
<1>6. Total(Shares, Payouts) = 0
  <2>1. Ints(Shares, {}) /\ {} \subseteq Payouts
    BY DEF Ints
  <2>2. \A p \in Payouts : Shares[p] = IF p \in {} THEN Shares[p] ELSE 0
    BY <1>5
  <2> QED
    BY <2>1, <2>2, TotalWhere, TotalOfNone DEF Calm
<1>7. Funded
  <2>1. \A p \in Payouts : Wants[p] =< Cost[p]
    BY WantType, CostAssumption DEF Want
  <2>2. Ints(Cost, Payouts)
    BY CostAssumption DEF Ints
  <2>3. /\ Total(Wants, Payouts) =< Total(Cost, Payouts)
        /\ Total(Wants, Payouts) \in Int /\ Total(Cost, Payouts) \in Int
    BY <2>1, <2>2, WantType, TotalAtMost, TotalType DEF Calm
  <2>4. bal.available = Deposit /\ Deposit \in Nat /\ Deposit >= Total(Cost, Payouts)
    BY DepositAssumption DEF Init, Empty, Calm
  <2> QED
    BY <2>3, <2>4 DEF Funded
<1> QED
  BY <1>1, <1>3, <1>4, <1>6, <1>7 DEF CalmInv, Backed, Init, Empty

LEMMA CalmMatches ==
  ASSUME Calm, CalmInv
  PROVE  ReserveMatchesPayouts
<1> SUFFICES ASSUME Quiet PROVE bal.reserved = Total(Cost, Keeping)
  BY DEF ReserveMatchesPayouts, Total, MapThenSumSet, MapThenFoldSet
<1>1. \A p \in Payouts : Cur(p) = Idle
  BY DEF Quiet, Cur, On, Busy
<1>2. /\ Keeping \subseteq Payouts
      /\ \A p \in Payouts : Shares[p] = IF p \in Keeping THEN Cost[p] ELSE 0
  <2> SUFFICES ASSUME NEW p \in Payouts PROVE Claim(p, Idle) <=> p \in Keeping
    BY <1>1, ShareType DEF Share, Keeping
  <2> QED
    BY IdleType DEF Claim, Keeping, Keeping
<1>3. Ints(Cost, Keeping)
  BY <1>2, CostAssumption DEF Ints
<1>4. Total(Cost, Keeping) = Total(Shares, Payouts)
  BY <1>2, <1>3, TotalWhere DEF Calm
<1> QED
  BY <1>4 DEF CalmInv, Backed

\* Between requests the reserved part of the balance is what the payouts cost
\* that were asked for and neither given back nor charged, in every quiet
\* scenario: none is given back twice by executePayout, rejectPayout and
\* handleTransferFailed, none is left behind, and a settlement takes exactly
\* the payout's own.  Nothing in the proof asks which transfer id the debit
\* carries, so the theorem holds of the code with that repaired as well.
THEOREM ReserveIsThePayouts ==
  ASSUME Calm
  PROVE  Spec => []ReserveMatchesPayouts
<1>1. Init => CalmInv
  BY InitCalm
<1>2. CalmInv /\ [Next]_vars => CalmInv'
  BY NextCalm
<1>3. CalmInv => ReserveMatchesPayouts
  BY CalmMatches
<1> QED
  BY <1>1, <1>2, <1>3, PTL DEF Spec

(***************************************************************************)
(* The onboarding of a client, beside the payouts.                         *)
(***************************************************************************)
OP == INSTANCE Onboarding_proofs WITH
        Tasks <- Handlers, Ops <- ClientOps, Faults <- ClientFaults,
        review <- clientReview, bridge <- customer, inbox <- events, task <- handler

(***************************************************************************)
(* O and OP instantiate one module: their actions are the same.            *)
(***************************************************************************)
LEMMA SameRows ==
  /\ O!Apps = OP!Apps /\ O!Latest = OP!Latest /\ \A S : O!In(S) = OP!In(S)
  /\ \A S : O!Cardinality(S) = OP!Cardinality(S)
<1>1. O!Apps = OP!Apps
  BY DEF O!Apps, OP!Apps
<1>2. \A S : O!Cardinality(S) = OP!Cardinality(S)
  BY DEF O!Cardinality, OP!Cardinality
<1>3. {a \in O!Apps : app[a] # "none"} = {a \in OP!Apps : app[a] # "none"}
  BY <1>1
<1>4. O!Latest = OP!Latest
  BY <1>2, <1>3 DEF O!Latest, OP!Latest
<1>5. \A S : O!In(S) = OP!In(S)
  BY <1>1 DEF O!In, OP!In
<1> QED
  BY <1>1, <1>2, <1>4, <1>5

USE SameRows
USE DEF O!rowVars, OP!rowVars, O!bridgeVars, OP!bridgeVars, O!At, OP!At, O!Start,
  OP!Start, O!Goto, OP!Goto, O!Done, OP!Done, O!Idle, OP!Idle, O!SetApp, OP!SetApp,
  O!SetReview, OP!SetReview

LEMMA SameStep ==
  ASSUME NEW t
  PROVE  O!Step(t) <=> OP!Step(t)
<1>1. O!Started(t) <=> OP!Started(t)
  BY DEF O!Started, OP!Started
<1>2. O!Submitted(t) <=> OP!Submitted(t)
  BY DEF O!Submitted, OP!Submitted
<1>3. O!InReview(t) <=> OP!InReview(t)
  BY DEF O!InReview, OP!InReview
<1>4. O!Send(t) <=> OP!Send(t)
  BY DEF O!Send, OP!Send
<1>5. O!RegisterCustomer(t) <=> OP!RegisterCustomer(t)
  BY DEF O!RegisterCustomer, OP!RegisterCustomer, O!Reached, OP!Reached, O!Updated,
    OP!Updated, O!Registered, OP!Registered
<1>6. O!RegisterFails(t) <=> OP!RegisterFails(t)
  BY DEF O!RegisterFails, OP!RegisterFails, O!Reached, OP!Reached, O!Updated,
    OP!Updated, O!Registered, OP!Registered
<1>7. O!Returned(t) <=> OP!Returned(t)
  BY DEF O!Returned, OP!Returned
<1>8. O!StoreCustomer(t) <=> OP!StoreCustomer(t)
  BY DEF O!StoreCustomer, OP!StoreCustomer
<1>9. O!PendingBridge(t) <=> OP!PendingBridge(t)
  BY DEF O!PendingBridge, OP!PendingBridge
<1>10. O!UpdateCustomer(t) <=> OP!UpdateCustomer(t)
  BY DEF O!UpdateCustomer, OP!UpdateCustomer, O!Updated, OP!Updated
<1>11. O!UpdateFails(t) <=> OP!UpdateFails(t)
  BY DEF O!UpdateFails, OP!UpdateFails, O!Updated, OP!Updated
<1>12. O!Resent(t) <=> OP!Resent(t)
  BY DEF O!Resent, OP!Resent
<1>13. O!CloseReview(t) <=> OP!CloseReview(t)
  BY DEF O!CloseReview, OP!CloseReview
<1>14. O!RejectApp(t) <=> OP!RejectApp(t)
  BY DEF O!RejectApp, OP!RejectApp
<1>15. O!RejectProfile(t) <=> OP!RejectProfile(t)
  BY DEF O!RejectProfile, OP!RejectProfile
<1>16. O!ChangeApp(t) <=> OP!ChangeApp(t)
  BY DEF O!ChangeApp, OP!ChangeApp
<1>17. O!ChangeProfile(t) <=> OP!ChangeProfile(t)
  BY DEF O!ChangeProfile, OP!ChangeProfile
<1>18. O!LinkApproveApps(t) <=> OP!LinkApproveApps(t)
  BY DEF O!LinkApproveApps, OP!LinkApproveApps, O!Approvable, OP!Approvable
<1>19. O!FindApprovable(t) <=> OP!FindApprovable(t)
  BY DEF O!FindApprovable, OP!FindApprovable, O!Approvable, OP!Approvable
<1>20. O!ApproveApp(t) <=> OP!ApproveApp(t)
  BY DEF O!ApproveApp, OP!ApproveApp
<1>21. O!ApproveProfile(t) <=> OP!ApproveProfile(t)
  BY DEF O!ApproveProfile, OP!ApproveProfile
<1>22. O!InitializeWallets(t) <=> OP!InitializeWallets(t)
  BY DEF O!InitializeWallets, OP!InitializeWallets
<1>23. O!CloseApproved(t) <=> OP!CloseApproved(t)
  BY DEF O!CloseApproved, OP!CloseApproved
<1>24. O!FindSent(t) <=> OP!FindSent(t)
  BY DEF O!FindSent, OP!FindSent
<1>25. O!BridgeRejectsApp(t) <=> OP!BridgeRejectsApp(t)
  BY DEF O!BridgeRejectsApp, OP!BridgeRejectsApp
<1>26. O!BridgeRejectsProfile(t) <=> OP!BridgeRejectsProfile(t)
  BY DEF O!BridgeRejectsProfile, OP!BridgeRejectsProfile
<1>27. O!BlockingIssues(t) <=> OP!BlockingIssues(t)
  BY DEF O!BlockingIssues, OP!BlockingIssues
<1>28. O!ReportIssues(t) <=> OP!ReportIssues(t)
  BY DEF O!ReportIssues, OP!ReportIssues
<1>29. O!ResolvedIssues(t) <=> OP!ResolvedIssues(t)
  BY DEF O!ResolvedIssues, OP!ResolvedIssues
<1> QED
  BY <1>1, <1>2, <1>3, <1>4, <1>5, <1>6, <1>7, <1>8, <1>9, <1>10, <1>11, <1>12, <1>13,
    <1>14, <1>15, <1>16, <1>17, <1>18, <1>19, <1>20, <1>21, <1>22, <1>23, <1>24, <1>25,
    <1>26, <1>27, <1>28, <1>29 DEF O!Step, OP!Step

LEMMA SameWebhook ==
  ASSUME NEW t
  PROVE  O!Webhook(t) <=> OP!Webhook(t)
<1>1. O!CustomerCreated(t) <=> OP!CustomerCreated(t)
  BY DEF O!CustomerCreated, OP!CustomerCreated, O!Take, OP!Take, O!Free, OP!Free,
    O!Quiet, OP!Quiet, O!Without, OP!Without
<1>2. O!KycLinkApproved(t) <=> OP!KycLinkApproved(t)
  BY DEF O!KycLinkApproved, OP!KycLinkApproved, O!Take, OP!Take, O!Free, OP!Free,
    O!Quiet, OP!Quiet, O!Without, OP!Without
<1>3. \A e : O!CustomerUpdated(t, e) <=> OP!CustomerUpdated(t, e)
  BY DEF O!CustomerUpdated, OP!CustomerUpdated, O!Take, OP!Take, O!Free, OP!Free,
    O!Quiet, OP!Quiet, O!Without, OP!Without, O!Handler, OP!Handler
<1> QED
  BY <1>1, <1>2, <1>3 DEF O!Webhook, OP!Webhook

LEMMA SameRequests ==
  ASSUME NEW t
  PROVE  /\ O!CreateKycApplication(t) <=> OP!CreateKycApplication(t)
         /\ O!SubmitKycApplication(t) <=> OP!SubmitKycApplication(t)
         /\ \A a : O!Staff(t, a) <=> OP!Staff(t, a)
<1>1. O!CreateKycApplication(t) <=> OP!CreateKycApplication(t)
  BY DEF O!CreateKycApplication, OP!CreateKycApplication, O!Active, OP!Active,
    O!Request, OP!Request, O!Free, OP!Free, O!Quiet, OP!Quiet
<1>2. O!SubmitKycApplication(t) <=> OP!SubmitKycApplication(t)
  BY DEF O!SubmitKycApplication, OP!SubmitKycApplication, O!Editable, OP!Editable,
    O!Request, OP!Request, O!Free, OP!Free, O!Quiet, OP!Quiet
<1>3. \A a : O!Staff(t, a) <=> OP!Staff(t, a)
  BY DEF O!Staff, OP!Staff, O!ApproveReview, OP!ApproveReview, O!Request, OP!Request,
    O!Free, OP!Free, O!Quiet, OP!Quiet, O!ResendToBridge, OP!ResendToBridge,
    O!RejectReview, OP!RejectReview, O!RequestChanges, OP!RequestChanges
<1> QED
  BY <1>1, <1>2, <1>3

LEMMA SameNext == O!Next <=> OP!Next
<1>1. \A to : O!BridgeRules(to) <=> OP!BridgeRules(to)
  BY DEF O!BridgeRules, OP!BridgeRules, O!Quiet, OP!Quiet, O!Verdict, OP!Verdict,
    O!Notices, OP!Notices
<1>2. O!Crash <=> OP!Crash
  BY DEF O!Crash, OP!Crash, O!Quiet, OP!Quiet
<1>3. ASSUME NEW t \in Handlers
      PROVE  (\/ O!Step(t) \/ O!Webhook(t)
              \/ O!CreateKycApplication(t) \/ O!SubmitKycApplication(t)
              \/ \E a \in O!Apps : O!Staff(t, a)) <=>
             (\/ OP!Step(t) \/ OP!Webhook(t)
              \/ OP!CreateKycApplication(t) \/ OP!SubmitKycApplication(t)
              \/ \E a \in OP!Apps : OP!Staff(t, a))
  BY SameStep, SameWebhook, SameRequests
<1> QED
  BY <1>1, <1>2, <1>3, SameStep, SameWebhook, SameRequests DEF O!Next, OP!Next

\* What the tables of a client say at rest, in the run that checks it too.
THEOREM ClientTablesAgree ==
  ASSUME OP!Orderly
  PROVE  MCSpec => []TablesAgree
<1>1. MCInit => OP!Init
  BY DEF MCInit, O!Init, OP!Init
<1>2. OP!Spec => []OP!TablesAgree
  <2>1. OP!BoundsAssumption
    BY ClientAssumption DEF O!BoundsAssumption, OP!BoundsAssumption
  <2> QED
    BY <2>1, OP!TablesComeToAgree
<1>3. [MCNext]_MCvars => [OP!Next]_(OP!vars)
  BY SameNext DEF MCNext, MCvars, Pays, Joins, clientVars, OP!vars
<1>4. OP!TablesAgree => TablesAgree
  BY DEF TablesAgree, OP!TablesAgree, O!TablesAgree, O!Quiet, OP!Quiet
<1> QED
  BY <1>1, <1>2, <1>3, <1>4, PTL DEF MCSpec, OP!Spec
=============================================================================
