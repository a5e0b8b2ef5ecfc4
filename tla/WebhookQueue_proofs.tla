------------------------ MODULE WebhookQueue_proofs ------------------------
(***************************************************************************)
(* Proofs about WebhookQueue, for any events, any number of overlapping    *)
(* ticks, any limit of retries and any faults.                             *)
(***************************************************************************)
EXTENDS WebhookQueue, TLAPS

LEMMA IdleType == Idle \in Job
BY DEF Idle, Job, TickPcs

\* The job that a step of tick w leaves behind.
LEMMA BecomeType ==
  ASSUME TypeOK, NEW w \in Ticks, NEW pc \in TickPcs, NEW set \in SUBSET Events,
         NEW cur \in SUBSET Events, NEW seen \in [Events -> Nat],
         Become(w, pc, set, cur, seen)
  PROVE  /\ tick' \in [Ticks -> Job]
         /\ tick'[w].pc = pc /\ tick'[w].set = set
         /\ tick'[w].cur = cur /\ tick'[w].seen = seen
         /\ \A v \in Ticks : v # w => tick'[v] = tick[v]
BY DEF Become, TypeOK, Job

LEMMA JobFields ==
  ASSUME TypeOK, NEW w \in Ticks
  PROVE  /\ tick[w].set \in SUBSET Events /\ tick[w].cur \in SUBSET Events
         /\ tick[w].seen \in [Events -> Nat]
BY DEF TypeOK, Job

LEMMA ContinueType ==
  ASSUME TypeOK, NEW w \in Ticks, NEW pc \in TickPcs, NEW cur \in SUBSET Events,
         Continue(w, pc, cur)
  PROVE  /\ tick' \in [Ticks -> Job]
         /\ tick'[w].pc = pc /\ tick'[w].cur = cur /\ tick'[w].seen = tick[w].seen
         /\ \A v \in Ticks : v # w => tick'[v] = tick[v]
BY DEF Continue, Become, TypeOK, Job

LEMMA IdleSeen == Idle.seen \in [Events -> Nat] /\ \A e \in Events : Idle.seen[e] = 0
BY DEF Idle

(***************************************************************************)
(* A step of a tick keeps the invariant when it only moves the tick and    *)
(* rewrites rows: rows keep their counts or take those of a failure, and   *)
(* become "failed" or "processed" only as the invariant wants.             *)
(***************************************************************************)
Harmless(w) ==
  /\ \A v \in Ticks : v # w => tick'[v] = tick[v]
  /\ \A e \in Events : Counted(e, tick[w].seen[e])'
  /\ \A e \in Events :
       (At(w, "retry") /\ Working(w, e))' => Counted(e, tick[w].seen[e] + 1)'
  /\ \A e \in Events : (At(w, "mark") /\ Working(w, e))' => e \in handled'
  /\ \A e \in Events : Counted(e, retry[e])'
  /\ \A e \in Events : thrown[e] =< thrown'[e]
  /\ handled \subseteq handled'
  /\ \A e \in Events : status'[e] = "failed" =>
       status[e] = "failed" \/ thrown'[e] = MaxRetries
  /\ \A e \in Events : status'[e] = "processed" =>
       status[e] = "processed" \/ e \in handled'

LEMMA HarmlessKeepsInv ==
  ASSUME QueueInv, TypeOK', NEW w \in Ticks, Harmless(w)
  PROVE  QueueInv'
<1> USE MaxRetriesAssumption DEF QueueInv, Harmless
<1>1. \A e \in Events : thrown[e] \in 0 .. MaxRetries /\ thrown'[e] \in 0 .. MaxRetries
  BY DEF TypeOK
<1>2. ASSUME NEW e \in Events, NEW n \in Nat, Counted(e, n)
      PROVE  n =< thrown'[e] \/ thrown'[e] = MaxRetries
  BY <1>1, <1>2 DEF Counted
<1>3. ASSUME NEW v \in Ticks, NEW e \in Events
      PROVE  /\ Counted(e, tick[v].seen[e])'
             /\ (At(v, "retry") /\ Working(v, e))' => Counted(e, tick[v].seen[e] + 1)'
             /\ (At(v, "mark") /\ Working(v, e))' => e \in handled'
  <2>1. CASE v = w BY <2>1
  <2>2. CASE v # w
    <3>1. tick[v].seen[e] \in Nat /\ tick'[v] = tick[v] BY <2>2, JobFields
    <3> QED BY <1>2, <2>2, <3>1 DEF At, Working, Counted
  <2> QED BY <2>1, <2>2
<1>4. GivenUpAfterRetries'
  BY <1>1 DEF GivenUpAfterRetries
<1>5. ProcessedMeansHandled' BY DEF ProcessedMeansHandled
<1> QED BY <1>3, <1>4, <1>5

(***************************************************************************)
(* Every action is harmless or leaves the tables alone.                    *)
(***************************************************************************)
\* A failing query counts, and any other leaves the count.
LEMMA Counting == (UNCHANGED upsets \/ Upset \/ QueryFails) /\ TypeOK => upsets' \in Nat
BY DEF Upset, QueryFails, TypeOK

LEMMA TickType ==
  ASSUME TypeOK, NEW w \in Ticks, Tick(w)
  PROVE  TypeOK'
<1> USE JobFields, MaxRetriesAssumption DEF rowVars, bridgeVars, history
<1>1. CASE TickStart(w)
  <2>1. Stuck \in SUBSET Events /\ {} \in SUBSET Events /\ "claim" \in TickPcs
        /\ (IF Stuck = {} THEN "claim" ELSE "rescue") \in TickPcs
    BY DEF Stuck, TickPcs
  <2>2. tick' \in [Ticks -> Job]
    BY <1>1, <2>1, BecomeType, IdleSeen DEF TickStart
  <2> QED BY <1>1, <2>2, Counting DEF TickStart, TypeOK
<1>2. CASE Rescue(w)
  <2>1. tick' \in [Ticks -> Job]
    BY <1>2, BecomeType, IdleSeen DEF Rescue, TickPcs
  <2>2. status' \in [Events -> RowStatuses] /\ snatched' \subseteq Events
    BY <1>2 DEF Rescue, TypeOK, RowStatuses
  <2> QED BY <1>2, <2>1, <2>2, Counting DEF Rescue, TypeOK
<1>3. CASE Claim(w)
  <2>1. PICK claimed \in SUBSET {e \in Events : status[e] = "pending"} :
          /\ status' = [e \in Events |->
                          IF e \in claimed THEN "processing" ELSE status[e]]
          /\ stamp' = [e \in Events |->
                         IF e \in claimed /\ ClaimStamps THEN "fresh" ELSE stamp[e]]
          /\ Become(w, "next", claimed, {},
                    [e \in Events |-> IF e \in claimed THEN retry[e] ELSE 0])
    BY <1>3 DEF Claim
  <2>2. [e \in Events |-> IF e \in claimed THEN retry[e] ELSE 0] \in [Events -> Nat]
    BY DEF TypeOK
  <2>3. tick' \in [Ticks -> Job]
    BY <2>1, <2>2, BecomeType DEF TickPcs
  <2> QED BY <1>3, <2>1, <2>3 DEF Claim, TypeOK, RowStatuses
<1>4. CASE Finish(w) \/ ClaimFails(w)
  BY <1>4, IdleType, Counting DEF Finish, ClaimFails, TypeOK
<1>5. ASSUME NEW e \in Events, ProcessOne(w, e) PROVE TypeOK'
  <2>1. tick' \in [Ticks -> Job] BY <1>5, BecomeType DEF ProcessOne, TickPcs
  <2>2. /\ status' \in [Events -> RowStatuses]
        /\ stamp' \in [Events -> {"none", "fresh", "old"}]
    BY <1>5 DEF ProcessOne, TypeOK, RowStatuses
  <2> QED BY <1>5, <2>1, <2>2, Counting DEF ProcessOne, TypeOK
<1>6. ASSUME NEW e \in Events, Dispatch(w, e) PROVE TypeOK'
  <2>1. tick' \in [Ticks -> Job] BY <1>6, BecomeType DEF Dispatch, Continue, TickPcs
  <2> QED BY <1>6, <2>1 DEF Dispatch, TypeOK
<1>7. ASSUME NEW e \in Events, MarkProcessed(w, e) PROVE TypeOK'
  <2>1. tick' \in [Ticks -> Job]
    BY <1>7, BecomeType DEF MarkProcessed, Continue, TickPcs
  <2>2. status' \in [Events -> RowStatuses]
    BY <1>7 DEF MarkProcessed, TypeOK, RowStatuses
  <2> QED BY <1>7, <2>1, <2>2, Counting DEF MarkProcessed, TypeOK
<1>8. ASSUME NEW e \in Events, DispatchThrows(w, e) PROVE TypeOK'
  <2>1. tick' \in [Ticks -> Job]
    BY <1>8, BecomeType DEF DispatchThrows, Continue, TickPcs
  <2>2. thrown' \in [Events -> 0 .. MaxRetries]
    BY <1>8 DEF DispatchThrows, TypeOK
  <2> QED BY <1>8, <2>1, <2>2 DEF DispatchThrows, TypeOK
<1>9. ASSUME NEW e \in Events, Retry(w, e) PROVE TypeOK'
  <2>1. tick' \in [Ticks -> Job] BY <1>9, BecomeType DEF Retry, Continue, TickPcs
  <2>2. status' \in [Events -> RowStatuses] /\ retry' \in [Events -> Nat]
    BY <1>9 DEF Retry, TypeOK, RowStatuses
  <2> QED BY <1>9, <2>1, <2>2, Counting DEF Retry, TypeOK
<1> QED BY <1>1, <1>2, <1>3, <1>4, <1>5, <1>6, <1>7, <1>8, <1>9 DEF Tick

LEMMA TickHarmless ==
  ASSUME QueueInv, TypeOK', NEW w \in Ticks, Tick(w)
  PROVE  Harmless(w)
<1>t. TypeOK BY DEF QueueInv
<1> USE JobFields, MaxRetriesAssumption DEF QueueInv, Harmless, At, Working
<1>0. \A e \in Events : thrown[e] \in 0 .. MaxRetries BY DEF TypeOK
<1>1. CASE TickStart(w)
  <2>1. Stuck \in SUBSET Events
        /\ (IF Stuck = {} THEN "claim" ELSE "rescue") \in TickPcs
    BY DEF Stuck, TickPcs
  <2>2. /\ tick'[w].pc \in {"claim", "rescue"} /\ tick'[w].seen = Idle.seen
        /\ \A v \in Ticks : v # w => tick'[v] = tick[v]
    <3>1. PICK pc \in {"claim", "rescue"}, set \in SUBSET Events :
            Become(w, pc, set, {}, Idle.seen)
      BY <1>1, <2>1 DEF TickStart
    <3> QED BY <1>t, <3>1 DEF Become, TypeOK
  <2>3. UNCHANGED <<status, retry, thrown, handled>>
    BY <1>1 DEF TickStart, rowVars, history
  <2>4. \A e \in Events : tick[w].seen[e] \in Nat /\ tick'[w].seen[e] = 0
    BY <2>2, IdleSeen
  <2> QED BY <1>0, <2>2, <2>3, <2>4 DEF Counted
<1>2. CASE Rescue(w)
  <2>1. /\ tick'[w].pc = "claim" /\ tick'[w].seen = Idle.seen
        /\ \A v \in Ticks : v # w => tick'[v] = tick[v]
    BY <1>2, BecomeType, IdleSeen DEF Rescue, TickPcs
  <2>2. /\ UNCHANGED <<retry, thrown, handled>>
        /\ \A e \in Events : status'[e] = status[e] \/ status'[e] = "pending"
    BY <1>2 DEF Rescue, TypeOK
  <2> QED BY <1>0, <2>1, <2>2, IdleSeen DEF Counted
<1>3. CASE Claim(w)
  <2>1. PICK claimed \in SUBSET {e \in Events : status[e] = "pending"} :
          /\ status' = [e \in Events |->
                          IF e \in claimed THEN "processing" ELSE status[e]]
          /\ Become(w, "next", claimed, {},
                    [e \in Events |-> IF e \in claimed THEN retry[e] ELSE 0])
    BY <1>3 DEF Claim
  <2>2. [e \in Events |-> IF e \in claimed THEN retry[e] ELSE 0] \in [Events -> Nat]
    BY DEF TypeOK
  <2>3. /\ tick'[w].pc = "next"
        /\ \A e \in Events : tick'[w].seen[e] = IF e \in claimed THEN retry[e] ELSE 0
        /\ \A v \in Ticks : v # w => tick'[v] = tick[v]
    BY <2>1, <2>2, BecomeType DEF TickPcs
  <2> QED BY <1>0, <1>3, <2>1, <2>3 DEF Claim, Counted, history
<1>4. CASE Finish(w) \/ ClaimFails(w)
  BY <1>0, <1>4, IdleSeen
  DEF Finish, ClaimFails, TypeOK, Counted, Idle, rowVars, history
<1>5. ASSUME NEW e \in Events, ProcessOne(w, e) PROVE Harmless(w)
  <2>1. /\ tick'[w].pc \in {"handle", "next"} /\ tick'[w].seen = tick[w].seen
        /\ \A v \in Ticks : v # w => tick'[v] = tick[v]
    <3>1. CASE e \in Verified
      <4>1. Become(w, "handle", tick[w].set \ {e}, {e}, tick[w].seen)
        BY <1>5, <3>1 DEF ProcessOne
      <4> QED BY <1>t, <4>1 DEF Become, TypeOK, Job
    <3>2. CASE e \notin Verified
      <4>1. Become(w, "next", tick[w].set \ {e}, {}, tick[w].seen)
        BY <1>5, <3>2 DEF ProcessOne
      <4> QED BY <1>t, <4>1 DEF Become, TypeOK, Job
    <3> QED BY <3>1, <3>2
  <2> QED BY <1>0, <1>5, <2>1 DEF ProcessOne, Counted, TypeOK, history
<1>6. ASSUME NEW e \in Events, Dispatch(w, e) PROVE Harmless(w)
  <2>1. /\ tick'[w].pc = "mark" /\ tick'[w].seen = tick[w].seen /\ tick'[w].cur = {e}
        /\ \A v \in Ticks : v # w => tick'[v] = tick[v]
    BY <1>t, <1>6, ContinueType DEF Dispatch, TickPcs
  <2> QED BY <1>0, <1>6, <2>1 DEF Dispatch, Counted, rowVars
<1>7. ASSUME NEW e \in Events, MarkProcessed(w, e) PROVE Harmless(w)
  <2>1. /\ tick'[w].pc = "next" /\ tick'[w].seen = tick[w].seen
        /\ \A v \in Ticks : v # w => tick'[v] = tick[v]
    BY <1>t, <1>7, ContinueType DEF MarkProcessed, TickPcs
  <2>2. /\ UNCHANGED <<retry, thrown, handled>> /\ e \in handled
        /\ \A f \in Events : status'[f] = status[f] \/ (f = e /\ status'[f] = "processed")
    BY <1>7 DEF MarkProcessed, TypeOK, history
  <2> QED BY <1>0, <2>1, <2>2 DEF Counted
<1>8. ASSUME NEW e \in Events, DispatchThrows(w, e) PROVE Harmless(w)
  <2>1. /\ tick'[w].pc = "retry" /\ tick'[w].seen = tick[w].seen /\ tick'[w].cur = {e}
        /\ \A v \in Ticks : v # w => tick'[v] = tick[v]
    BY <1>t, <1>8, ContinueType DEF DispatchThrows, TickPcs
  <2>2. /\ thrown'[e] = thrown[e] + 1 \/ thrown'[e] = MaxRetries
        /\ \A f \in Events : thrown[f] =< thrown'[f] /\ thrown'[f] =< MaxRetries
    <3>1. thrown' = [thrown EXCEPT ![e] = IF @ < MaxRetries THEN @ + 1 ELSE @]
      BY <1>8 DEF DispatchThrows
    <3>2. thrown \in [Events -> 0 .. MaxRetries] BY DEF TypeOK
    <3>3. thrown'[e] = IF thrown[e] < MaxRetries THEN thrown[e] + 1 ELSE thrown[e]
      BY <3>1, <3>2
    <3>4. \A f \in Events : f # e => thrown'[f] = thrown[f] BY <3>1, <3>2
    <3> QED BY <1>0, <3>3, <3>4
  <2>3. UNCHANGED <<status, retry, handled>> BY <1>8 DEF DispatchThrows, rowVars
  <2>4. \A f \in Events : Counted(f, tick[w].seen[f])' /\ Counted(f, retry[f])'
    <3>1. \A f \in Events : tick[w].seen[f] \in Nat /\ retry[f] \in Nat
      BY <1>t, JobFields DEF TypeOK
    <3>2. \A f \in Events : Counted(f, tick[w].seen[f]) /\ Counted(f, retry[f])
      OBVIOUS
    <3>3. ASSUME NEW f \in Events, NEW n \in Nat, Counted(f, n)
          PROVE  n =< thrown'[f] \/ thrown'[f] = MaxRetries
      <4>1. /\ thrown[f] \in Nat /\ thrown'[f] \in Nat
            /\ thrown[f] =< thrown'[f] /\ thrown'[f] =< MaxRetries
        BY <1>0, <2>2 DEF TypeOK
      <4>2. n =< thrown[f] \/ thrown[f] = MaxRetries BY <3>3 DEF Counted
      <4> QED BY ONLY <4>1, <4>2, n \in Nat, MaxRetriesAssumption
    <3> QED BY <2>1, <2>3, <3>1, <3>2, <3>3 DEF Counted
  <2>5. Counted(e, tick[w].seen[e] + 1)'
    BY <1>0, <2>1, <2>2 DEF Counted
  <2> QED BY <1>0, <2>1, <2>2, <2>3, <2>4, <2>5
<1>9. ASSUME NEW e \in Events, Retry(w, e) PROVE Harmless(w)
  <2>1. /\ tick'[w].pc = "next" /\ tick'[w].seen = tick[w].seen
        /\ \A v \in Ticks : v # w => tick'[v] = tick[v]
    BY <1>t, <1>9, ContinueType DEF Retry, TickPcs
  <2>2. Counted(e, tick[w].seen[e] + 1) BY <1>9 DEF Retry
  <2>3. UNCHANGED <<thrown, handled>> BY <1>9 DEF Retry, history
  <2>4. \A f \in Events : Counted(f, retry[f])'
    <3>1. \A f \in Events : retry'[f] = retry[f]
                            \/ (f = e /\ retry'[f] = tick[w].seen[e] + 1)
      BY <1>9 DEF Retry, TypeOK
    <3> QED BY <2>2, <2>3, <3>1 DEF Counted
  <2>5. \A f \in Events : status'[f] = "failed" =>
          status[f] = "failed" \/ thrown'[f] = MaxRetries
    <3>1. tick[w].seen[e] \in Nat BY <1>t, JobFields
    <3>2. tick[w].seen[e] + 1 >= MaxRetries => thrown[e] = MaxRetries
      BY <1>0, <2>2, <3>1 DEF Counted
    <3>3. \A f \in Events : status'[f] = "failed" =>
            status[f] = "failed" \/ (f = e /\ tick[w].seen[e] + 1 >= MaxRetries)
      BY <1>t, <1>9 DEF Retry, TypeOK
    <3> QED BY <2>3, <3>2, <3>3
  <2>6. \A f \in Events : status'[f] = "processed" => status[f] = "processed"
    BY <1>9 DEF Retry, TypeOK
  <2> QED BY <1>0, <2>1, <2>3, <2>4, <2>5, <2>6 DEF Counted
<1> QED BY <1>1, <1>2, <1>3, <1>4, <1>5, <1>6, <1>7, <1>8, <1>9 DEF Tick

LEMMA NextKeepsInv ==
  ASSUME QueueInv, [Next]_vars
  PROVE  QueueInv'
<1> USE MaxRetriesAssumption DEF QueueInv
<1>1. CASE \E w \in Ticks : Tick(w)
  BY <1>1, TickType, TickHarmless, HarmlessKeepsInv
<1>2. ASSUME NEW e \in Events, Sink(e) PROVE QueueInv'
  <2>1. UNCHANGED <<retry, tick, thrown, handled>> BY <1>2 DEF Sink, history
  <2>2. \A f \in Events : status'[f] = status[f] \/ status'[f] = "pending"
    BY <1>2 DEF Sink, TypeOK
  <2>3. TypeOK' BY <1>2 DEF Sink, TypeOK, RowStatuses, history
  <2> QED BY <2>1, <2>2, <2>3
    DEF Counted, At, Working, GivenUpAfterRetries, ProcessedMeansHandled
<1>3. ASSUME NEW e \in Events, Age(e) PROVE QueueInv'
  <2>1. UNCHANGED <<status, retry, tick, thrown, handled>> BY <1>3 DEF Age, history
  <2>2. TypeOK' BY <1>3, Counting DEF Age, TypeOK, bridgeVars, history
  <2> QED BY <2>1, <2>2
    DEF Counted, At, Working, GivenUpAfterRetries, ProcessedMeansHandled
<1>4. CASE Crash
  <2>1. UNCHANGED <<status, retry, thrown, handled>> BY <1>4 DEF Crash, rowVars, history
  <2>2. \A w \in Ticks : tick'[w] = Idle BY <1>4 DEF Crash
  <2>3. TypeOK'
    BY <1>4, IdleType, Counting DEF Crash, TypeOK, rowVars, bridgeVars, history
  <2>4. \A e \in Events : thrown[e] \in 0 .. MaxRetries BY DEF TypeOK
  <2> QED BY <2>1, <2>2, <2>3, <2>4, IdleSeen
    DEF Counted, At, Working, Idle, GivenUpAfterRetries, ProcessedMeansHandled
<1>5. CASE UNCHANGED vars
  BY <1>5 DEF vars, TypeOK, Counted, At, Working, GivenUpAfterRetries,
     ProcessedMeansHandled
<1> QED BY <1>1, <1>2, <1>3, <1>4, <1>5 DEF Next

LEMMA InitInv == Init => QueueInv
<1> SUFFICES ASSUME Init PROVE QueueInv
  OBVIOUS
<1>1. TypeOK
  BY IdleType, MaxRetriesAssumption, DeliveriesAssumption
  DEF Init, TypeOK, RowStatuses
<1>2. \A w \in Ticks : tick[w] = Idle BY DEF Init
<1> QED BY <1>1, <1>2, IdleSeen, MaxRetriesAssumption
  DEF Init, QueueInv, Counted, At, Working, Idle, GivenUpAfterRetries,
      ProcessedMeansHandled

\* Counts never run ahead of failures and marks never ahead of handlers, in
\* every reachable state (processWebhooks, processOne).
THEOREM QueueInvariant == Spec => []QueueInv
<1>1. QueueInv /\ [Next]_vars => QueueInv' BY NextKeepsInv
<1> QED BY <1>1, InitInv, PTL DEF Spec

\* An event is given up only after its handler failed MaxRetries times.
THEOREM GivenUpOnlyAfterRetries == Spec => []GivenUpAfterRetries
<1>1. QueueInv => GivenUpAfterRetries BY DEF QueueInv
<1> QED BY <1>1, QueueInvariant, PTL

\* An event marked as processed has been handled to the end.
THEOREM ProcessedEventsWereHandled == Spec => []ProcessedMeansHandled
<1>1. QueueInv => ProcessedMeansHandled BY DEF QueueInv
<1> QED BY <1>1, QueueInvariant, PTL

\* Every row keeps a status that its column allows.
THEOREM TypeCorrect == Spec => []TypeOK
<1>1. QueueInv => TypeOK BY DEF QueueInv
<1> QED BY <1>1, QueueInvariant, PTL

(***************************************************************************)
(* Claims are exclusive, for the events that no rescue took from a tick:   *)
(* the row of an event that a tick holds is in "processing", where a claim *)
(* does not look, and only a rescue takes it out of there under the tick.  *)
(* Such an event also keeps an attempt until it is given up.               *)
(***************************************************************************)
Neat(w) ==
  /\ tick[w].pc \in {"idle", "claim"} => tick[w].set = {}
  /\ tick[w].pc \in {"idle", "rescue", "claim", "next"} => tick[w].cur = {}
  /\ tick[w].set \cap tick[w].cur = {}
Unfinished == {"none", "pending", "processing"}
HeldRow(e) == \A w \in Ticks : e \in Held(w) => status[e] = "processing"
KeepsAttempt(e) == status[e] \in Unfinished => retry[e] < MaxRetries
Stamped(e) == ClaimStamps /\ status[e] = "processing" => stamp[e] # "none"
ClaimInv ==
  /\ \A w \in Ticks : Neat(w)
  /\ \A e \in Events : Stamped(e)
  /\ \A e \in Events \ snatched : HeldRow(e) /\ KeepsAttempt(e)
  /\ ClaimsAreExclusive

\* What a step of tick w does: it takes only events that are not in
\* "processing", and the rows of what others hold stay as they are.
Moves(w) ==
  /\ \A v \in Ticks : v # w => tick'[v] = tick[v]
  /\ Neat(w)'
  /\ snatched \subseteq snatched'
  /\ \A e \in Events : Stamped(e)'
  /\ \A e \in Events \ snatched' :
       /\ KeepsAttempt(e)'
       /\ e \in Held(w)' => /\ status'[e] = "processing"
                            /\ e \in Held(w) \/ status[e] # "processing"
       /\ \A v \in Ticks : v # w /\ e \in Held(v) => status'[e] = "processing"

LEMMA MovesKeepClaims ==
  ASSUME TypeOK, TypeOK', ClaimInv, NEW w \in Ticks, Moves(w)
  PROVE  ClaimInv'
<1>1. \A v \in Ticks : v # w => Held(v)' = Held(v) /\ Neat(v)'
  BY DEF Held, ClaimInv, Neat, Moves, At
<1>2. \A v \in Ticks : Neat(v)' BY <1>1 DEF Moves
<1>3. \A e \in Events \ snatched' : HeldRow(e)' /\ KeepsAttempt(e)'
  BY <1>1 DEF Moves, HeldRow
<1>4. \A v \in Ticks : Held(v)' \subseteq Events
  BY DEF TypeOK, Job, Held
<1>5. ASSUME NEW u \in Ticks, NEW v \in Ticks, u # v,
             NEW e \in Events, e \in Held(u)', e \in Held(v)', e \notin snatched'
      PROVE  FALSE
  <2>0. e \notin snatched /\ HeldRow(e) BY <1>5 DEF Moves, ClaimInv
  <2>1. CASE u = w
    <3>1. e \in Held(v) BY <1>1, <1>5, <2>1
    <3>2. e \in Held(w) BY <1>5, <2>0, <2>1, <3>1 DEF Moves, HeldRow
    <3> QED BY <1>5, <2>0, <2>1, <3>1, <3>2 DEF ClaimInv, ClaimsAreExclusive
  <2>2. CASE v = w
    <3>1. e \in Held(u) BY <1>1, <1>5, <2>2
    <3>2. e \in Held(w) BY <1>5, <2>0, <2>2, <3>1 DEF Moves, HeldRow
    <3> QED BY <1>5, <2>0, <2>2, <3>1, <3>2 DEF ClaimInv, ClaimsAreExclusive
  <2>3. CASE u # w /\ v # w
    BY <1>1, <1>5, <2>0, <2>3 DEF ClaimInv, ClaimsAreExclusive
  <2> QED BY <2>1, <2>2, <2>3
<1>6. ClaimsAreExclusive'
  BY <1>4, <1>5 DEF ClaimsAreExclusive
<1> QED BY <1>2, <1>3, <1>6 DEF ClaimInv, Moves

LEMMA TickMoves ==
  ASSUME TypeOK, TypeOK', ClaimInv, NEW w \in Ticks, Tick(w)
  PROVE  Moves(w)
<1>0. /\ Neat(w) /\ \A e \in Events : Stamped(e)
      /\ \A e \in Events \ snatched : HeldRow(e) /\ KeepsAttempt(e)
  BY DEF ClaimInv
<1>a. ASSUME NEW e \in Events \ snatched, NEW v \in Ticks, v # w, e \in Held(v)
      PROVE  status[e] = "processing" /\ e \notin Held(w)
  BY <1>a DEF ClaimInv, HeldRow, ClaimsAreExclusive
\* A step that takes nothing and changes no row.
<1>b. ASSUME UNCHANGED <<rowVars, snatched>>, Held(w)' \subseteq Held(w), Neat(w)',
             \A v \in Ticks : v # w => tick'[v] = tick[v]
      PROVE  Moves(w)
  BY <1>0, <1>a, <1>b DEF Moves, rowVars, KeepsAttempt, Stamped, HeldRow
<1>1. CASE TickStart(w)
  <2>1. /\ tick'[w].pc \in {"claim", "rescue"} /\ tick'[w].cur = {}
        /\ tick'[w].pc = "claim" => tick'[w].set = {}
        /\ \A v \in Ticks : v # w => tick'[v] = tick[v]
    <3>1. PICK pc \in {"claim", "rescue"}, set \in SUBSET Events :
            /\ Become(w, pc, set, {}, Idle.seen)
            /\ pc = "claim" => set = {}
      BY <1>1 DEF TickStart, Stuck
    <3> QED BY <3>1 DEF Become, TypeOK
  <2>2. Held(w)' = {} /\ Neat(w)'
    BY <2>1 DEF Held, At, Neat
  <2>3. UNCHANGED <<rowVars, snatched>> BY <1>1 DEF TickStart, history
  <2> QED BY <1>b, <2>1, <2>2, <2>3
<1>2. CASE Rescue(w)
  <2>1. /\ tick'[w].pc = "claim" /\ tick'[w].set = {} /\ tick'[w].cur = {}
        /\ \A v \in Ticks : v # w => tick'[v] = tick[v]
    BY <1>2 DEF Rescue, Become, TypeOK
  <2>2. Held(w)' = {} /\ Neat(w)'
    BY <2>1 DEF Held, At, Neat
  <2>3. CASE UNCHANGED <<status, snatched>>
    BY <1>2, <1>b, <2>1, <2>2, <2>3 DEF Rescue, rowVars
  <2>4. CASE /\ status' =
                  [e \in Events |-> IF e \in tick[w].set THEN "pending" ELSE status[e]]
             /\ snatched' = snatched \cup
                  {e \in tick[w].set : status[e] # "pending" /\ e \notin Abandoned}
    <3>1. \A e \in Events : status'[e] = status[e]
                            \/ (e \in tick[w].set /\ status'[e] = "pending")
      BY <2>4
    <3>2. UNCHANGED <<retry, stamp>> BY <1>2 DEF Rescue
    <3>3. \A e \in Events : Stamped(e)' BY <1>0, <3>1, <3>2 DEF Stamped
    <3>4. ASSUME NEW e \in Events \ snatched'
          PROVE  /\ KeepsAttempt(e)'
                 /\ \A v \in Ticks : v # w /\ e \in Held(v) => status'[e] = "processing"
      <4>1. e \notin snatched BY <2>4
      <4>2. CASE status'[e] = status[e]
        BY <1>0, <1>a, <3>2, <4>1, <4>2 DEF KeepsAttempt
      <4>3. CASE e \in tick[w].set /\ status'[e] = "pending" /\ status[e] = "pending"
        BY <4>2, <4>3
      <4>4. CASE e \in tick[w].set /\ status'[e] = "pending" /\ status[e] # "pending"
        <5>1. e \in Abandoned BY <2>4, <4>4
        <5>2. retry[e] < MaxRetries /\ \A v \in Ticks : e \notin Held(v)
          BY <5>1 DEF Abandoned, Stuck
        <5> QED BY <3>2, <5>2 DEF KeepsAttempt
      <4> QED BY <3>1, <4>2, <4>3, <4>4
    <3> QED BY <2>1, <2>2, <2>4, <3>3, <3>4 DEF Moves
  <2> QED BY <1>2, <2>3, <2>4 DEF Rescue
<1>3. CASE Claim(w)
  <2>1. PICK claimed \in SUBSET {e \in Events : status[e] = "pending"} :
          /\ status' = [e \in Events |->
                         IF e \in claimed THEN "processing" ELSE status[e]]
          /\ stamp' = [e \in Events |->
                         IF e \in claimed /\ ClaimStamps THEN "fresh" ELSE stamp[e]]
          /\ Become(w, "next", claimed, {},
                    [e \in Events |-> IF e \in claimed THEN retry[e] ELSE 0])
    BY <1>3 DEF Claim
  <2>2. /\ tick'[w].pc = "next" /\ tick'[w].set = claimed /\ tick'[w].cur = {}
        /\ \A v \in Ticks : v # w => tick'[v] = tick[v]
    BY <2>1 DEF Become, TypeOK
  <2>3. Held(w)' = claimed /\ Neat(w)'
    BY <2>2 DEF At, Neat, Held
  <2>4. UNCHANGED <<retry, snatched>> BY <1>3 DEF Claim, history
  <2>5. \A e \in Events : Stamped(e)' BY <1>0, <2>1 DEF Stamped
  <2>6. \A e \in Events \ snatched : KeepsAttempt(e)'
    BY <1>0, <2>1, <2>4 DEF KeepsAttempt, Unfinished
  <2>7. \A e \in claimed : status[e] # "processing" /\ status'[e] = "processing"
    BY <2>1
  <2>8. \A e \in Events \ snatched, v \in Ticks :
          v # w /\ e \in Held(v) => status'[e] = "processing"
    BY <1>a, <2>1
  <2> QED BY <2>2, <2>3, <2>4, <2>5, <2>6, <2>7, <2>8 DEF Moves
<1>4. CASE Finish(w) \/ ClaimFails(w)
  <2>1. /\ tick'[w] = Idle /\ \A v \in Ticks : v # w => tick'[v] = tick[v]
    BY <1>4 DEF Finish, ClaimFails, TypeOK
  <2>2. Held(w)' = {} /\ Neat(w)'
    BY <2>1 DEF At, Neat, Held, Idle
  <2> QED BY <1>4, <1>b, <2>1, <2>2 DEF Finish, ClaimFails, history
<1>5. ASSUME NEW e \in Events, ProcessOne(w, e) PROVE Moves(w)
  <2>1. /\ tick'[w].pc = "handle" \/ (tick'[w].pc = "next" /\ tick'[w].cur = {})
        /\ tick'[w].set = tick[w].set \ {e} /\ tick'[w].cur \subseteq {e}
        /\ \A v \in Ticks : v # w => tick'[v] = tick[v]
    <3>1. CASE Become(w, "handle", tick[w].set \ {e}, {e}, tick[w].seen)
      BY <3>1 DEF Become, TypeOK
    <3>2. CASE Become(w, "next", tick[w].set \ {e}, {}, tick[w].seen)
      BY <3>2 DEF Become, TypeOK
    <3> QED BY <1>5, <3>1, <3>2 DEF ProcessOne
  <2>2. Held(w)' \subseteq Held(w) /\ Neat(w)' /\ e \in Held(w)
    BY <1>5, <2>1 DEF ProcessOne, At, Neat, Held
  <2>3. CASE UNCHANGED <<status, stamp>>
    BY <1>5, <1>b, <2>1, <2>2, <2>3 DEF ProcessOne, rowVars, history
  <2>4. CASE /\ status' = [status EXCEPT ![e] = "processing"]
             /\ stamp' = [stamp EXCEPT ![e] = "fresh"]
    <3>1. /\ status'[e] = "processing" /\ stamp'[e] = "fresh"
          /\ \A f \in Events : f # e => status'[f] = status[f] /\ stamp'[f] = stamp[f]
      BY <2>4 DEF TypeOK
    <3>2. UNCHANGED <<retry, snatched>> BY <1>5 DEF ProcessOne, history
    <3>3. \A f \in Events : Stamped(f)' BY <1>0, <3>1 DEF Stamped
    <3>4. e \notin snatched => status[e] = "processing"
      BY <1>0, <2>2 DEF HeldRow
    <3>5. \A f \in Events \ snatched : status'[f] = status[f]
      BY <3>1, <3>4
    <3>6. \A f \in Events \ snatched : KeepsAttempt(f)'
      BY <1>0, <3>2, <3>5 DEF KeepsAttempt
    <3> QED BY <1>0, <1>a, <2>1, <2>2, <3>2, <3>3, <3>5, <3>6 DEF Moves, HeldRow
  <2> QED BY <1>5, <2>3, <2>4 DEF ProcessOne
<1>6. ASSUME NEW e \in Events, Dispatch(w, e) \/ DispatchThrows(w, e) PROVE Moves(w)
  <2>1. /\ tick'[w].pc \in {"mark", "retry"} /\ tick'[w].set = tick[w].set
        /\ tick'[w].cur = {e} /\ tick[w].cur = {e} /\ tick[w].pc = "handle"
        /\ \A v \in Ticks : v # w => tick'[v] = tick[v]
    <3>1. PICK pc \in {"mark", "retry"} :
            /\ Become(w, pc, tick[w].set, {e}, tick[w].seen)
            /\ tick[w].cur = {e} /\ tick[w].pc = "handle"
      BY <1>6 DEF Dispatch, DispatchThrows, Continue, Working, At
    <3> QED BY <3>1 DEF Become, TypeOK
  <2>2. UNCHANGED <<rowVars, snatched>>
    BY <1>6 DEF Dispatch, DispatchThrows
  <2>3. Held(w)' = Held(w) /\ Neat(w)'
    BY <1>0, <2>1 DEF Neat, Held, At
  <2> QED BY <1>b, <2>1, <2>2, <2>3
<1>7. ASSUME NEW e \in Events, MarkProcessed(w, e) \/ Retry(w, e) PROVE Moves(w)
  <2>1. /\ tick'[w].pc = "next" /\ tick'[w].set = tick[w].set
        /\ tick'[w].cur = {} /\ e \in Held(w)
        /\ \A v \in Ticks : v # w => tick'[v] = tick[v]
    <3>1. /\ Become(w, "next", tick[w].set, {}, tick[w].seen)
          /\ tick[w].cur = {e} /\ tick[w].pc \in {"mark", "retry"}
      BY <1>7 DEF MarkProcessed, Retry, Continue, Working, At
    <3> QED BY <3>1 DEF Become, TypeOK, Held, At
  <2>2. Held(w)' \subseteq Held(w) /\ Neat(w)'
    BY <2>1 DEF Neat, Held, At
  <2>3. UNCHANGED <<stamp, snatched>> BY <1>7 DEF MarkProcessed, Retry, history
  <2>4. CASE UNCHANGED <<status, retry>>
    BY <1>b, <2>1, <2>2, <2>3, <2>4 DEF rowVars
  <2>5. CASE ~UNCHANGED <<status, retry>>
    <3>1. \A f \in Events : f # e => status'[f] = status[f] /\ retry'[f] = retry[f]
      BY <1>7 DEF MarkProcessed, Retry, TypeOK
    <3>2. status'[e] = "processed" \/ status'[e] = "failed"
          \/ (status'[e] = "pending" /\ retry'[e] < MaxRetries)
      <4>1. CASE MarkProcessed(w, e)
        BY <2>5, <4>1 DEF MarkProcessed, TypeOK
      <4>2. CASE Retry(w, e)
        <5>1. tick[w].seen[e] + 1 \in Nat BY JobFields
        <5>2. retry'[e] = tick[w].seen[e] + 1
              /\ status'[e] = IF tick[w].seen[e] + 1 >= MaxRetries THEN "failed"
                                                                  ELSE "pending"
          BY <2>5, <4>2 DEF Retry, TypeOK
        <5> QED BY <5>1, <5>2, MaxRetriesAssumption
      <4> QED BY <1>7, <4>1, <4>2
    <3>3. \A f \in Events : Stamped(f)' BY <1>0, <2>3, <3>1, <3>2 DEF Stamped
    <3>4. \A f \in Events \ snatched : KeepsAttempt(f)'
      BY <1>0, <3>1, <3>2 DEF KeepsAttempt, Unfinished
    <3>5. e \notin Held(w)'
      <4>1. tick[w].cur = {e} BY <1>7 DEF MarkProcessed, Retry, Working
      <4> QED BY <1>0, <2>1, <4>1 DEF Held, At, Neat
    <3> QED BY <1>0, <1>a, <2>1, <2>2, <2>3, <3>1, <3>3, <3>4, <3>5 DEF Moves, HeldRow
  <2> QED BY <2>4, <2>5
<1> QED BY <1>1, <1>2, <1>3, <1>4, <1>5, <1>6, <1>7 DEF Tick

LEMMA ClaimsStay ==
  ASSUME TypeOK, TypeOK', ClaimInv, [Next]_vars
  PROVE  ClaimInv'
<1>1. CASE \E w \in Ticks : Tick(w)
  BY <1>1, TickMoves, MovesKeepClaims
<1>2. ASSUME NEW e \in Events, Sink(e) PROVE ClaimInv'
  <2>1. \A f \in Events : status'[f] = status[f]
                          \/ (status[f] = "none" /\ status'[f] = "pending")
    BY <1>2 DEF Sink, TypeOK
  <2>2. UNCHANGED <<retry, stamp, tick, snatched>>
    BY <1>2 DEF Sink, history
  <2>3. \A w \in Ticks : Held(w)' = Held(w) BY <2>2 DEF Held, At
  <2> QED BY <2>1, <2>2, <2>3
    DEF ClaimInv, Neat, Stamped, HeldRow, KeepsAttempt, Unfinished, ClaimsAreExclusive
<1>3. ASSUME NEW e \in Events, Age(e) PROVE ClaimInv'
  <2>1. UNCHANGED <<status, retry, tick, snatched>>
    BY <1>3 DEF Age, history
  <2>2. \A f \in Events : stamp'[f] = stamp[f] \/ stamp'[f] = "old"
    BY <1>3 DEF Age, TypeOK
  <2>3. \A w \in Ticks : Held(w)' = Held(w) BY <2>1 DEF Held, At
  <2> QED BY <2>1, <2>2, <2>3
    DEF ClaimInv, Neat, Stamped, HeldRow, KeepsAttempt, ClaimsAreExclusive
<1>4. CASE Crash
  <2>1. UNCHANGED <<status, retry, stamp, snatched>>
    BY <1>4 DEF Crash, rowVars, history
  <2>2. \A w \in Ticks : tick'[w] = Idle BY <1>4 DEF Crash
  <2>3. \A w \in Ticks : Held(w)' = {} /\ Neat(w)'
    BY <2>2 DEF Held, Neat, At, Idle
  <2> QED BY <2>1, <2>3
    DEF ClaimInv, Stamped, HeldRow, KeepsAttempt, ClaimsAreExclusive
<1>5. CASE UNCHANGED vars
  <2>1. UNCHANGED <<status, retry, stamp, tick, snatched>> BY <1>5 DEF vars
  <2>2. \A w \in Ticks : Held(w)' = Held(w) BY <2>1 DEF Held, At
  <2> QED BY <2>1, <2>2
    DEF ClaimInv, Neat, Stamped, HeldRow, KeepsAttempt, ClaimsAreExclusive
<1> QED BY <1>1, <1>2, <1>3, <1>4, <1>5 DEF Next

LEMMA ClaimInvariant == Spec => []ClaimInv
<1>1. Init => ClaimInv
  <2> SUFFICES ASSUME Init PROVE ClaimInv
    OBVIOUS
  <2>1. \A w \in Ticks : tick[w] = Idle
    BY DEF Init
  <2>2. \A w \in Ticks : Held(w) = {} /\ Neat(w)
    BY <2>1 DEF Held, Neat, At, Idle
  <2> QED BY <2>2, MaxRetriesAssumption
    DEF Init, ClaimInv, Stamped, HeldRow, KeepsAttempt, ClaimsAreExclusive
<1>2. TypeOK /\ TypeOK' /\ ClaimInv /\ [Next]_vars => ClaimInv'
  BY ClaimsStay
<1> QED BY <1>1, <1>2, TypeCorrect, PTL DEF Spec

\* Overlapping ticks never hold one event that no rescue put back under them
\* ("dos ticks del CRON que se solapen nunca obtendran el mismo evento"): for
\* any number of ticks and any batch, with ticks that are slow, crashes and
\* queries that fail.
THEOREM ClaimsStayExclusive == Spec => []ClaimsAreExclusive
<1>1. ClaimInv => ClaimsAreExclusive
  BY DEF ClaimInv
<1> QED BY <1>1, ClaimInvariant, PTL

\* What a crash or an UPDATE of processOne that failed leaves in processing
\* satisfies the condition of the rescue as soon as it is two minutes old.
THEOREM StuckCanBeRescued == Spec => []StuckIsRescuable
<1>1. ClaimInv => StuckIsRescuable
  BY DEF ClaimInv, StuckIsRescuable, Stamped, KeepsAttempt, Unfinished
<1> QED BY <1>1, ClaimInvariant, PTL
=============================================================================
