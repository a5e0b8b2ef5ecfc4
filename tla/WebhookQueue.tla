---------------------------- MODULE WebhookQueue ----------------------------
(***************************************************************************)
(* The inbox of Bridge's events: the public endpoint stores each event and *)
(* answers 200, and a cron that runs every thirty seconds takes what is    *)
(* pending and handles it.  A tick of the cron does not wait for the one   *)
(* before it, so ticks overlap.                                            *)
(*                                                                         *)
(* A tick first puts back what has been in "processing" for two minutes,   *)
(* with a SELECT and a later UPDATE by id; then it claims a batch and      *)
(* handles its events one by one.  Faults is the set of failures:          *)
(*   "throw"       a handler throws                                        *)
(*   "dbError"     the INSERT of an event fails                            *)
(*   "crash"       the process dies with its ticks                         *)
(*   "queryError"  a query of a tick fails: no UPDATE looks at its error   *)
(*   "slow"        an event is two minutes old while a tick still has it   *)
(* The last three upset the queue, Upsets times in all at most.            *)
(***************************************************************************)
EXTENDS Integers, FiniteSets

CONSTANTS
  Events,
  Verified,      \* events whose signature was verified when they arrived
  Ticks,         \* ticks that may overlap
  MaxRetries,    \* 5
  Batch,         \* batch_size, 50
  Deliveries,    \* how many times Bridge sends each event
  ClaimStamps,   \* claim_pending_webhooks sets processing_started_at
  Upsets, Faults

ASSUME VerifiedAssumption == Verified \subseteq Events
ASSUME MaxRetriesAssumption == MaxRetries \in Nat \ {0}
ASSUME BatchAssumption == Batch \in Nat \ {0}
ASSUME DeliveriesAssumption == Deliveries \in Nat
ASSUME ClaimStampsAssumption == ClaimStamps \in BOOLEAN
ASSUME UpsetsAssumption == Upsets \in Nat

VARIABLES
  status,   \* webhook_events.status; "none" when there is no row
  retry,    \* retry_count
  stamp,    \* processing_started_at: never set, recent or two minutes old
  left,     \* deliveries that Bridge has not made yet
  acked,    \* events Bridge got a 200 for
  tick,
  upsets,   \* how often the queue was upset
  handled,  \* events whose handler ran to its end
  thrown,   \* how often a handler threw, counted up to MaxRetries
  snatched  \* events put back though they were not abandoned

vars == <<status, retry, stamp, left, acked, tick, upsets, handled, thrown, snatched>>
rowVars == <<status, retry, stamp>>
history == <<handled, thrown, snatched>>
bridgeVars == <<left, acked>>

RowStatuses == {"none", "pending", "processing", "processed", "failed"}
TickPcs == {"idle", "rescue", "claim", "next", "handle", "mark", "retry"}

\* set: the stuck events read, or what is left of the batch; cur: the event
\* at hand; seen: the retry_count of each claimed event when it was claimed.
Job == [pc : TickPcs, set : SUBSET Events, cur : SUBSET Events,
        seen : [Events -> Nat]]
Idle == [pc |-> "idle", set |-> {}, cur |-> {}, seen |-> [e \in Events |-> 0]]

Init ==
  /\ status = [e \in Events |-> "none"]
  /\ retry = [e \in Events |-> 0]
  /\ stamp = [e \in Events |-> "none"]
  /\ left = [e \in Events |-> Deliveries]
  /\ acked = {}
  /\ tick = [w \in Ticks |-> Idle]
  /\ upsets = 0
  /\ handled = {}
  /\ thrown = [e \in Events |-> 0]
  /\ snatched = {}

At(w, pc) == tick[w].pc = pc
Working(w, e) == tick[w].cur = {e}
\* The events a tick has claimed and not finished.
Held(w) == IF At(w, "rescue") THEN {} ELSE tick[w].set \cup tick[w].cur
Become(w, pc, set, cur, seen) ==
  tick' = [tick EXCEPT ![w] = [pc |-> pc, set |-> set, cur |-> cur, seen |-> seen]]
Continue(w, pc, cur) == Become(w, pc, tick[w].set, cur, tick[w].seen)

Upset == upsets < Upsets /\ upsets' = upsets + 1
\* A query of a tick fails: it changes nothing, and the tick may not notice.
QueryFails == "queryError" \in Faults /\ Upset

(***************************************************************************)
(* The endpoint.  A second delivery meets the unique index; any error of   *)
(* the INSERT is logged and Bridge gets its 200 all the same.              *)
(***************************************************************************)
Sink(e) ==
  /\ left[e] > 0
  /\ left' = [left EXCEPT ![e] = @ - 1]
  /\ acked' = acked \cup {e}
  /\ \/ status' = IF status[e] = "none" THEN [status EXCEPT ![e] = "pending"]
                                        ELSE status
     \/ "dbError" \in Faults /\ UNCHANGED status
  /\ UNCHANGED <<retry, stamp, tick, upsets, history>>

(***************************************************************************)
(* A tick of the cron.                                                     *)
(***************************************************************************)
\* Mutant: no event is rescued.
NoneStuck == {}
Stuck ==
  {e \in Events : status[e] = "processing" /\ stamp[e] = "old" /\ retry[e] < MaxRetries}

\* A SELECT that fails finds nothing.
TickStart(w) ==
  /\ At(w, "idle")
  /\ \/ /\ Become(w, IF Stuck = {} THEN "claim" ELSE "rescue", Stuck, {}, Idle.seen)
        /\ UNCHANGED upsets
     \/ QueryFails /\ Become(w, "claim", {}, {}, Idle.seen)
  /\ UNCHANGED <<rowVars, bridgeVars, history>>

\* What the rescue is for: stuck events that no tick is working on.
Abandoned == {e \in Stuck : \A w \in Ticks : e \notin Held(w)}

\* UPDATE ... SET status = 'pending' WHERE id IN (...): whatever they are now.
Rescue(w) ==
  /\ At(w, "rescue")
  /\ \/ /\ status' =
             [e \in Events |-> IF e \in tick[w].set THEN "pending" ELSE status[e]]
        /\ snatched' = snatched \cup
             {e \in tick[w].set : status[e] # "pending" /\ e \notin Abandoned}
        /\ UNCHANGED upsets
     \/ QueryFails /\ UNCHANGED <<status, snatched>>
  /\ Become(w, "claim", {}, {}, Idle.seen)
  /\ UNCHANGED <<retry, stamp, bridgeVars, handled, thrown>>

\* Mutant: the claim also takes what another tick has claimed.
ClaimAny(w) ==
  /\ At(w, "claim")
  /\ \E claimed \in SUBSET {e \in Events : status[e] \in {"pending", "processing"}} :
       /\ Cardinality(claimed) =< Batch
       /\ status' = [e \in Events |-> IF e \in claimed THEN "processing" ELSE status[e]]
       /\ stamp' = [e \in Events |->
                      IF e \in claimed /\ ClaimStamps THEN "fresh" ELSE stamp[e]]
       /\ Become(w, "next", claimed, {},
                 [e \in Events |-> IF e \in claimed THEN retry[e] ELSE 0])
  /\ UNCHANGED <<retry, bridgeVars, upsets, history>>
\* claim_pending_webhooks, external: one statement marks at most Batch
\* pending events that no other tick is marking.
Claim(w) ==
  LET pending == {e \in Events : status[e] = "pending"} IN
  /\ At(w, "claim")
  /\ \E claimed \in SUBSET pending :
       /\ Cardinality(claimed) =< Batch
       /\ claimed = pending \/ Cardinality(claimed) = Batch
       /\ status' = [e \in Events |-> IF e \in claimed THEN "processing" ELSE status[e]]
       /\ stamp' = [e \in Events |->
                      IF e \in claimed /\ ClaimStamps THEN "fresh" ELSE stamp[e]]
       /\ Become(w, "next", claimed, {},
                 [e \in Events |-> IF e \in claimed THEN retry[e] ELSE 0])
  /\ UNCHANGED <<retry, bridgeVars, upsets, history>>

\* An error of the claim ends the tick.
ClaimFails(w) ==
  /\ At(w, "claim")
  /\ QueryFails
  /\ tick' = [tick EXCEPT ![w] = Idle]
  /\ UNCHANGED <<rowVars, bridgeVars, history>>

Finish(w) ==
  /\ At(w, "next")
  /\ tick[w].set = {}
  /\ tick' = [tick EXCEPT ![w] = Idle]
  /\ UNCHANGED <<rowVars, bridgeVars, upsets, history>>

\* processOne marks its event without looking at what it has become.  An
\* unverified one is to be marked 'ignored', which is not among the values
\* that the CHECK of the column allows: the UPDATE changes nothing.
ProcessOne(w, e) ==
  /\ At(w, "next")
  /\ e \in tick[w].set
  /\ \/ /\ status' = [status EXCEPT ![e] = "processing"]
        /\ stamp' = [stamp EXCEPT ![e] = "fresh"]
        /\ UNCHANGED upsets
     \/ QueryFails /\ UNCHANGED <<status, stamp>>
  /\ IF e \in Verified
     THEN Become(w, "handle", tick[w].set \ {e}, {e}, tick[w].seen)
     ELSE Become(w, "next", tick[w].set \ {e}, {}, tick[w].seen)
  /\ UNCHANGED <<retry, bridgeVars, history>>

Dispatch(w, e) ==
  /\ At(w, "handle") /\ Working(w, e)
  /\ handled' = handled \cup {e}
  /\ Continue(w, "mark", {e})
  /\ UNCHANGED <<rowVars, bridgeVars, upsets, thrown, snatched>>

MarkProcessed(w, e) ==
  /\ At(w, "mark") /\ Working(w, e)
  /\ \/ status' = [status EXCEPT ![e] = "processed"] /\ UNCHANGED upsets
     \/ QueryFails /\ UNCHANGED status
  /\ Continue(w, "next", {})
  /\ UNCHANGED <<retry, stamp, bridgeVars, history>>

DispatchThrows(w, e) ==
  /\ "throw" \in Faults
  /\ At(w, "handle") /\ Working(w, e)
  /\ thrown' = [thrown EXCEPT ![e] = IF @ < MaxRetries THEN @ + 1 ELSE @]
  /\ Continue(w, "retry", {e})
  /\ UNCHANGED <<rowVars, bridgeVars, upsets, handled, snatched>>

\* Mutant: one attempt too few.
RetryEarly(w, e) ==
  LET count == tick[w].seen[e] + 1 IN
  /\ At(w, "retry") /\ Working(w, e)
  /\ retry' = [retry EXCEPT ![e] = count]
  /\ status' = [status EXCEPT ![e] =
                  IF count >= MaxRetries - 1 THEN "failed" ELSE "pending"]
  /\ Continue(w, "next", {})
  /\ UNCHANGED <<stamp, bridgeVars, upsets, history>>
\* The new count comes from the event as it was claimed.
Retry(w, e) ==
  LET count == tick[w].seen[e] + 1 IN
  /\ At(w, "retry") /\ Working(w, e)
  /\ \/ /\ retry' = [retry EXCEPT ![e] = count]
        /\ status' =
             [status EXCEPT ![e] = IF count >= MaxRetries THEN "failed" ELSE "pending"]
        /\ UNCHANGED upsets
     \/ QueryFails /\ UNCHANGED <<retry, status>>
  /\ Continue(w, "next", {})
  /\ UNCHANGED <<stamp, bridgeVars, history>>

\* Two minutes pass.  A tick takes less over an event unless it is slow.
Age(e) ==
  /\ status[e] = "processing" /\ stamp[e] = "fresh"
  /\ \/ (\A w \in Ticks : e \notin Held(w)) /\ UNCHANGED upsets
     \/ (\E w \in Ticks : e \in Held(w)) /\ "slow" \in Faults /\ Upset
  /\ stamp' = [stamp EXCEPT ![e] = "old"]
  /\ UNCHANGED <<status, retry, bridgeVars, tick, history>>

Crash ==
  /\ "crash" \in Faults /\ Upset
  /\ \E w \in Ticks : ~At(w, "idle")
  /\ tick' = [w \in Ticks |-> Idle]
  /\ UNCHANGED <<rowVars, bridgeVars, history>>

Tick(w) ==
  \/ TickStart(w) \/ Rescue(w) \/ Claim(w) \/ ClaimFails(w) \/ Finish(w)
  \/ \E e \in Events :
       \/ ProcessOne(w, e) \/ Dispatch(w, e) \/ MarkProcessed(w, e)
       \/ DispatchThrows(w, e) \/ Retry(w, e)

Next ==
  \/ \E w \in Ticks : Tick(w)
  \/ \E e \in Events : Sink(e) \/ Age(e)
  \/ Crash

Spec == Init /\ [][Next]_vars

\* The cron keeps ticking, every tick goes on and time passes.
FairSpec ==
  /\ Spec
  /\ \A w \in Ticks : WF_vars(Tick(w))
  /\ \A e \in Events : WF_vars(Age(e))

(***************************************************************************)
(* Properties.                                                             *)
(***************************************************************************)
TypeOK ==
  /\ status \in [Events -> RowStatuses]
  /\ retry \in [Events -> Nat]
  /\ stamp \in [Events -> {"none", "fresh", "old"}]
  /\ left \in [Events -> Nat]
  /\ acked \subseteq Events
  /\ tick \in [Ticks -> Job]
  /\ upsets \in Nat
  /\ handled \subseteq Events
  /\ thrown \in [Events -> 0 .. MaxRetries]
  /\ snatched \subseteq Events

\* An event is given up only after its handler failed MaxRetries times, even
\* when ticks that overlap write counts they read long before (processOne).
GivenUpAfterRetries ==
  \A e \in Events : status[e] = "failed" => thrown[e] = MaxRetries

\* An event marked as processed has been handled to the end at least once,
\* whatever rescues, retries and upsets came between (processOne).
ProcessedMeansHandled ==
  \A e \in Events : status[e] = "processed" => e \in handled

\* The inductive invariant of the two above: no count that a row or a tick
\* holds is ahead of the failures, and a tick about to mark has handled.
Counted(e, n) == n =< thrown[e] \/ thrown[e] = MaxRetries
QueueInv ==
  /\ TypeOK
  /\ \A e \in Events : Counted(e, retry[e])
  /\ \A w \in Ticks, e \in Events : Counted(e, tick[w].seen[e])
  /\ \A w \in Ticks, e \in Events :
       At(w, "retry") /\ Working(w, e) => Counted(e, tick[w].seen[e] + 1)
  /\ \A w \in Ticks, e \in Events : At(w, "mark") /\ Working(w, e) => e \in handled
  /\ GivenUpAfterRetries /\ ProcessedMeansHandled

\* processWebhooks: "dos ticks del CRON que se solapen nunca obtendran el
\* mismo evento".  Whatever fails, two ticks hold one event only if a rescue
\* put it back while a tick was working on it or after it was finished: its
\* UPDATE does not look at what it puts back.
ClaimsAreExclusive ==
  \A v, w \in Ticks : v # w => Held(v) \cap Held(w) \subseteq snatched

\* An event left in processing, by a crash or by an UPDATE that failed, is one
\* that the rescue will find: it has a timestamp and attempts left.  Only an
\* event that a rescue took from a tick may be left there for good
\* (processWebhooks, processOne).
StuckIsRescuable ==
  ClaimStamps =>
    \A e \in Events \ snatched :
      status[e] = "processing" => stamp[e] # "none" /\ retry[e] < MaxRetries

\* The queue empties: every stored event is handled or given up for good, and
\* none is left half way or turned over for ever.
Drains == <>[](\A e \in Events : status[e] \in {"none", "processed", "failed"})
=============================================================================
