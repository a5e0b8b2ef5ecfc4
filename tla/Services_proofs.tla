-------------------------- MODULE Services_proofs --------------------------

(***************************************************************************)
(* Proofs about the parts that MCServices puts side by side, for any       *)
(* values of its constants: the key of a creation, requests of review, the *)
(* attempts of a limiter, deposits to virtual accounts, drains of          *)
(* liquidation addresses, the slots of the flows and what a client keeps   *)
(* at Bridge.  For each part: its inductive invariant, that its first      *)
(* state has it and that each step of it keeps it, and what follows from   *)
(* it.  An invariant says under which failures a conjunct of it is not     *)
(* claimed.                                                                *)
(***************************************************************************)

EXTENDS MCServices, SumTheorems, FiniteSetTheorems, WellFoundedInduction, TLAPS

(***************************************************************************)
(* Small sets.                                                             *)
(***************************************************************************)
LEMMA AtMostOne ==
  ASSUME NEW S, \A x, y \in S : x = y
  PROVE  IsFiniteSet(S) /\ Cardinality(S) <= 1
<1>1. CASE S = {}
  BY <1>1, FS_EmptySet
<1>2. CASE S # {}
  <2>1. PICK x : x \in S
    BY <1>2
  <2>2. S = {x}
    BY <2>1
  <2>3. IsFiniteSet(S) /\ Cardinality(S) = 1
    BY <2>2, FS_Singleton
  <2> QED
    BY <2>3
<1> QED
  BY <1>1, <1>2

LEMMA OneMore ==
  ASSUME NEW S, IsFiniteSet(S), NEW x
  PROVE  IsFiniteSet(S \cup {x}) /\ Cardinality(S \cup {x}) =< Cardinality(S) + 1
<1>1. Cardinality(S) \in Nat
  BY FS_CardinalityType
<1>2. /\ IsFiniteSet(S \cup {x})
      /\ Cardinality(S \cup {x}) = IF x \in S THEN Cardinality(S) ELSE Cardinality(S) + 1
  BY FS_AddElement
<1> QED
  BY <1>1, <1>2

LEMMA KeyCardinality == \A S : ID!Cardinality(S) = Cardinality(S)
BY DEF ID!Cardinality, Cardinality

(***************************************************************************)
(* The key of a creation.  While no INSERT of it fails the row is a lock:  *)
(* it is there from the INSERT to the order of whoever holds it, whoever   *)
(* deletes it has no order alive, and while there is one nobody does.      *)
(***************************************************************************)
Holding == {"handler", "leg", "store", "delete"}
Locked ==
  /\ \A r \in Keyed : call[r].pc \in Holding => key.status # "none"
  /\ \A r, q \in Keyed : call[r].pc \in Holding /\ call[q].pc \in Holding => r = q
  /\ \A r \in Keyed : call[r].pc \notin {"unlocked", "unlockedLeg"}
  /\ created # {} =>
       /\ key.status # "none"
       /\ \A r \in Keyed : call[r].pc \notin {"handler", "delete"}
  /\ \A r \in Keyed, q \in created : call[r].pc = "leg" => r = q
  /\ \A r, q \in created : r = q
KeyInv ==
  /\ ID!TypeOK
  /\ \A r \in Keyed : call[r].answer = "created" =>
       call[r].order \in created /\ call[call[r].order].pc \in {"store", "gone"}
  /\ \A r \in Keyed : call[r].pc \in {"leg", "unlockedLeg", "store"} => r \in created
  /\ key.status = "stored" => key.order \in created /\ call[key.order].pc = "gone"
  /\ faults \cap {"insert", "unmarked"} = {} => Locked

LEMMA KeyInit == ID!Init => KeyInv
BY DEF ID!Init, ID!NoRow, KeyInv, Locked, Holding, ID!TypeOK

LEMMA KeyStep == KeyInv /\ ID!Next => KeyInv'
<1> SUFFICES ASSUME KeyInv, ID!Next PROVE KeyInv'
  OBVIOUS
<1> USE DEF KeyInv, Locked, Holding, ID!TypeOK, ID!At, ID!Goto, ID!Answer, ID!NoRow
<1>1. ASSUME NEW r \in Keyed, ID!Lookup(r) PROVE KeyInv'
  <2>1. CASE ID!Goto(r, "insert")
    BY <1>1, <2>1 DEF ID!Lookup
  <2>2. CASE ID!Replay(r) /\ key.status = "stored"
    BY <1>1, <2>2 DEF ID!Lookup, ID!Replay
  <2>3. CASE ID!Replay(r) /\ key.status # "stored"
    BY <1>1, <2>3 DEF ID!Lookup, ID!Replay
  <2> QED
    BY <1>1, <2>1, <2>2, <2>3 DEF ID!Lookup
<1>2. ASSUME NEW r \in Keyed, ID!Insert(r) PROVE KeyInv'
  <2>1. CASE key.status = "none" /\ key' = [ID!NoRow EXCEPT !.status = "zero"]
    <3>1. key' = [status |-> "zero", order |-> Nil, expired |-> FALSE]
      BY <2>1
    <3>2. call' = [call EXCEPT ![r].pc = "handler"]
      BY <1>2, <2>1, <3>1 DEF ID!Insert
    <3>3. ID!TypeOK'
      BY <1>2, <3>1, <3>2 DEF ID!Insert
    <3>4. faults \cap {"insert", "unmarked"} = {} => created = {}
      BY <1>2, <2>1
    <3>5. (faults \cap {"insert", "unmarked"} = {} => Locked)'
      BY <1>2, <2>1, <3>1, <3>2, <3>3, <3>4 DEF ID!Insert
    <3> QED
      BY <1>2, <2>1, <3>1, <3>2, <3>3, <3>4 DEF ID!Insert
  <2>2. CASE UNCHANGED key
    BY <1>2, <2>2 DEF ID!Insert
  <2> QED
    BY <1>2, <2>1, <2>2 DEF ID!Insert
<1>3. ASSUME NEW r \in Keyed, ID!Retry(r) PROVE KeyInv'
  BY <1>3 DEF ID!Retry, ID!Replay
<1>4. ASSUME NEW r \in Keyed, ID!Handle(r) PROVE KeyInv'
  BY <1>4 DEF ID!Handle
<1>5. ASSUME NEW r \in Keyed, ID!HandleUnlocked(r) PROVE KeyInv'
  <2>1. CASE created' = created \cup {r} /\ ID!Goto(r, "unlockedLeg")
    BY <1>5, <2>1 DEF ID!HandleUnlocked
  <2>2. CASE ID!Answer(r, "gone", "failed", Nil) /\ UNCHANGED created
    BY <1>5, <2>2 DEF ID!HandleUnlocked
  <2> QED
    BY <1>5, <2>1, <2>2 DEF ID!HandleUnlocked
<1>10. ASSUME NEW r \in Keyed, ID!Leg(r) PROVE KeyInv'
  <2>1. CASE ID!Answer(r, "store", "created", r) /\ UNCHANGED created
    BY <1>10, <2>1 DEF ID!Leg
  <2>2. CASE ID!Answer(r, "delete", "failed", Nil) /\ created' = created \ {r}
    <3>1. \A q \in Keyed : call[q].answer = "created" => call[q].order # r
      BY <1>10 DEF ID!Leg
    <3>2. key.status = "stored" => key.order # r
      BY <1>10 DEF ID!Leg
    <3>3. ID!TypeOK'
      BY <1>10, <2>2 DEF ID!Leg
    <3>4. (faults \cap {"insert", "unmarked"} = {} => Locked)'
      BY <1>10, <2>2 DEF ID!Leg
    <3> QED
      BY <1>10, <2>2, <3>1, <3>2, <3>3, <3>4 DEF ID!Leg
  <2>3. CASE ID!Answer(r, "delete", "failed", Nil) /\ "unmarked" \in faults /\ UNCHANGED created
    BY <1>10, <2>3 DEF ID!Leg
  <2> QED
    BY <1>10, <2>1, <2>2, <2>3 DEF ID!Leg, ID!LegFails
<1>11. ASSUME NEW r \in Keyed, ID!UnlockedLeg(r) PROVE KeyInv'
  <2>1. CASE ID!Answer(r, "gone", "created", r) /\ UNCHANGED created
    BY <1>11, <2>1 DEF ID!UnlockedLeg
  <2>2. CASE ID!Answer(r, "gone", "failed", Nil) /\ created' = created \ {r}
    <3>1. \A q \in Keyed : call[q].answer = "created" => call[q].order # r
      BY <1>11 DEF ID!UnlockedLeg
    <3>2. key.status = "stored" => key.order # r
      BY <1>11 DEF ID!UnlockedLeg
    <3>3. ID!TypeOK'
      BY <1>11, <2>2 DEF ID!UnlockedLeg
    <3>4. (faults \cap {"insert", "unmarked"} = {} => Locked)'
      BY <1>11, <2>2 DEF ID!UnlockedLeg
    <3> QED
      BY <1>11, <2>2, <3>1, <3>2, <3>3, <3>4 DEF ID!UnlockedLeg
  <2>3. CASE ID!Answer(r, "gone", "failed", Nil) /\ "unmarked" \in faults /\ UNCHANGED created
    BY <1>11, <2>3 DEF ID!UnlockedLeg
  <2> QED
    BY <1>11, <2>1, <2>2, <2>3 DEF ID!UnlockedLeg, ID!LegFails
<1>6. ASSUME NEW r \in Keyed, ID!Store(r) PROVE KeyInv'
  <2> USE DEF ID!Store
  <2>1. CASE key' = [key EXCEPT !.status = "stored", !.order = r]
    <3>1. key' = [status |-> "stored", order |-> r, expired |-> key.expired]
      BY <2>1
    <3> QED
    BY <1>6, <2>1, <3>1
  <2>2. CASE UNCHANGED key
    BY <1>6, <2>2
  <2> QED
    BY <1>6, <2>1, <2>2
<1>7. ASSUME NEW r \in Keyed, ID!Delete(r) PROVE KeyInv'
  <2> USE DEF ID!Delete
  <2>1. CASE key' = ID!NoRow
    BY <1>7, <2>1
  <2>2. CASE UNCHANGED key
    BY <1>7, <2>2
  <2> QED
    BY <1>7, <2>1, <2>2
<1>8. ASSUME NEW r \in Keyed, ID!Crash(r) PROVE KeyInv'
  BY <1>8 DEF ID!Crash
<1>9. CASE ID!Expire
  BY <1>9 DEF ID!Expire
<1> QED
  BY <1>1, <1>2, <1>3, <1>4, <1>5, <1>6, <1>7, <1>8, <1>9, <1>10, <1>11 DEF ID!Next

LEMMA KeyHolds == KeyInv => ID!KeyMakesOneOrder
<1> SUFFICES ASSUME KeyInv PROVE ID!KeyMakesOneOrder
  OBVIOUS
<1>1. faults \cap {"insert", "unmarked"} = {} => Cardinality(created) <= 1
  BY AtMostOne DEF KeyInv, Locked
<1> QED
  BY <1>1, KeyCardinality DEF KeyInv, ID!KeyMakesOneOrder

LEMMA KeyInvariant == Spec => [](part = "keys" => KeyInv)
<1>1. Init => (part = "keys" => KeyInv)
  BY KeyInit DEF Init
<1>2. (part = "keys" => KeyInv) /\ [Next]_vars => (part = "keys" => KeyInv)'
  <2> SUFFICES ASSUME part = "keys" => KeyInv, [Next]_vars, part' = "keys" PROVE KeyInv'
    OBVIOUS
  <2>1. CASE Next
    BY <2>1, KeyStep DEF Next
  <2>2. CASE UNCHANGED vars
    BY <2>2 DEF vars, keysOwn, KeyInv, Locked, Holding, ID!TypeOK
  <2> QED
    BY <2>1, <2>2
<1> QED
  BY <1>1, <1>2, PTL DEF Spec

\* However many requests carry a key, one order of it at most is alive, and every
\* answer names that order: whoever inserted the row of the key holds it until he
\* stored his answer, or deleted it after his order was failed
\* (IdempotencyInterceptor, handleBridgeLegFailure).
THEOREM KeysMakeOneOrder == Spec => []KeyMakesOneOrder
<1>1. (part = "keys" => KeyInv) => KeyMakesOneOrder
  BY KeyHolds DEF KeyMakesOneOrder
<1> QED
  BY <1>1, KeyInvariant, PTL

(***************************************************************************)
(* Requests of review.  A request is approved with no order alive, only    *)
(* one call at a time builds one of it, and until that call linked the     *)
(* order or lost it again nobody can approve the request; when calls do    *)
(* not overlap, each request that no call is at work on says what became   *)
(* of it.                                                                  *)
(***************************************************************************)
Building == {"build", "leg", "rollback", "link"}
Unapproved == {"absent", "pending_review"}
Matches(r) == (review[r] = "approved" <=> made[r] = 1) /\ (made[r] = 1 <=> r \in linked)
OneAtATime ==
  /\ \A t \in Tasks : task[t].pc \in Building =>
       task[t].r \notin linked /\ review[task[t].r] \notin Unapproved
  /\ \A t \in Tasks : task[t].pc \in {"leg", "link"} => made[task[t].r] > 0
  /\ \A t, u \in Tasks :
       task[t].pc \in Building /\ task[u].pc \in Building /\ task[t].r = task[u].r => t = u
  /\ \A t \in Tasks : task[t].pc = "cancel" => review[task[t].r] # "absent"
  /\ \A r \in Reviews : r \in linked => made[r] > 0 /\ review[r] \notin Unapproved
OneEach ==
  /\ \A r \in Reviews : made[r] =< 1 /\ (review[r] \in Unapproved => made[r] = 0)
  /\ \A t \in Tasks : task[t].pc \in {"build", "rollback"} => made[task[t].r] = 0
InTurn ==
  /\ \A t, u \in Tasks : task[t].pc # "idle" /\ task[u].pc # "idle" => t = u
  /\ \A r \in Reviews :
       (\A t \in Tasks : task[t].pc \in Building => task[t].r # r) => Matches(r)
  /\ \A t \in Tasks : task[t].pc \in Building => review[task[t].r] = "approved"
  /\ \A t \in Tasks : task[t].pc = "cancel" => review[task[t].r] # "approved"
ReviewInv ==
  /\ OA!TypeOK
  /\ OneAtATime
  /\ "unmarked" \notin faults => OneEach
  /\ faults \subseteq {"edits"} => InTurn

LEMMA AdmissionConstants ==
  /\ Amounts \subseteq Nat \ {0} /\ MaxAmount \in Nat /\ Hourly \in Nat
  /\ MaxMade \in Nat /\ OA!Idle.r \in Reviews
BY InstancesAssumption DEF OA!AmountsAssumption, OA!RequestsAssumption, OA!Idle

LEMMA ReviewInit == OA!Init => ReviewInv
BY AdmissionConstants DEF OA!Init, ReviewInv, OneAtATime, OneEach, InTurn, Matches, Building,
  Unapproved, OA!TypeOK, OA!Idle, OA!NoLimit, OA!NoFlow, OA!LimitRow, OA!FlowRow,
  OA!States, OA!Statuses, OA!Pcs

LEMMA OverrideType ==
  ASSUME OA!TypeOK, OA!Edit
  PROVE  limit' \in [Overrides -> OA!LimitRow] /\ flow' \in [Overrides -> OA!FlowRow]
<1> USE DEF OA!TypeOK, OA!LimitRow, OA!FlowRow, OA!States
<1>1. PICK i \in Overrides :
       \/ \E max \in Amounts \cup {0} :
            \/ OA!CreateLimitOverride(i, max)
            \/ \E state \in OA!States : OA!UpdateLimitOverride(i, max, state)
       \/ \E enabled \in BOOLEAN :
            \/ OA!CreateFlowOverride(i, enabled)
            \/ \E state \in OA!States : OA!UpdateFlowOverride(i, enabled, state)
       \/ OA!DeleteLimitOverride(i) \/ OA!DeleteFlowOverride(i) \/ OA!Lapse(i)
  BY DEF OA!Edit
<1>2. ASSUME NEW max \in Amounts \cup {0}, OA!CreateLimitOverride(i, max)
      PROVE limit' \in [Overrides -> OA!LimitRow] /\ flow' = flow
  BY <1>2 DEF OA!CreateLimitOverride
<1>3. ASSUME NEW max \in Amounts \cup {0}, NEW state \in OA!States,
             OA!UpdateLimitOverride(i, max, state)
      PROVE limit' \in [Overrides -> OA!LimitRow] /\ flow' = flow
  BY <1>3 DEF OA!UpdateLimitOverride
<1>4. ASSUME NEW enabled \in BOOLEAN, OA!CreateFlowOverride(i, enabled)
      PROVE limit' = limit /\ flow' \in [Overrides -> OA!FlowRow]
  BY <1>4 DEF OA!CreateFlowOverride
<1>5. ASSUME NEW enabled \in BOOLEAN, NEW state \in OA!States,
             OA!UpdateFlowOverride(i, enabled, state)
      PROVE limit' = limit /\ flow' \in [Overrides -> OA!FlowRow]
  BY <1>5 DEF OA!UpdateFlowOverride
<1>6. CASE OA!DeleteLimitOverride(i)
  BY <1>6 DEF OA!DeleteLimitOverride, OA!NoLimit
<1>7. CASE OA!DeleteFlowOverride(i)
  BY <1>7 DEF OA!DeleteFlowOverride, OA!NoFlow
<1>8. CASE OA!Lapse(i)
  BY <1>8 DEF OA!Lapse
<1> QED
  BY <1>1, <1>2, <1>3, <1>4, <1>5, <1>6, <1>7, <1>8

\* The two steps that make an order of request r and lose it again.
LEMMA BuildKeeps ==
  ASSUME ReviewInv, OA!TypeOK', NEW t \in Tasks, NEW r \in Reviews,
         r = task[t].r, task[t].pc = "build", UNCHANGED <<review, linked, faults>>,
         \A q \in Reviews : q # r => made'[q] = made[q],
         \A u \in Tasks : u # t => task'[u] = task[u],
         task'[t].r = r,
         \/ task'[t].pc = "leg" /\ made'[r] = made[r] + 1
         \/ task'[t].pc = "rollback" /\ made'[r] = made[r],
         made[r] \in Nat, made'[r] \in Nat
  PROVE  ReviewInv'
<1> USE DEF ReviewInv, Building, Unapproved
<1>1. \A u \in Tasks : task[u].r \in Reviews
  BY DEF OA!TypeOK
<1>2. OneAtATime'
  BY <1>1 DEF OneAtATime
<1>3. ("unmarked" \notin faults => OneEach)'
  BY <1>1 DEF OneAtATime, OneEach
<1>4. ASSUME faults \subseteq {"edits"}
      PROVE  /\ \A u \in Tasks : u # t => task[u].pc = "idle"
             /\ review[r] = "approved"
             /\ \A q \in Reviews : q # r => Matches(q)
  BY <1>4 DEF InTurn
<1>5. (faults \subseteq {"edits"} => InTurn)'
  BY <1>1, <1>4 DEF InTurn, Matches
<1> QED
  BY <1>2, <1>3, <1>5

LEMMA LegKeeps ==
  ASSUME ReviewInv, OA!TypeOK', NEW t \in Tasks, NEW r \in Reviews,
         r = task[t].r, task[t].pc = "leg", UNCHANGED <<review, linked, faults>>,
         \A q \in Reviews : q # r => made'[q] = made[q],
         \A u \in Tasks : u # t => task'[u] = task[u],
         task'[t].r = r,
         \/ task'[t].pc = "link" /\ made'[r] = made[r]
         \/ task'[t].pc = "rollback" /\ made'[r] = made[r] - 1
         \/ task'[t].pc = "rollback" /\ made'[r] = made[r] /\ "unmarked" \in faults,
         made[r] \in Nat, made[r] > 0, made'[r] \in Nat
  PROVE  ReviewInv'
<1> USE DEF ReviewInv, Building, Unapproved
<1>1. \A u \in Tasks : task[u].r \in Reviews
  BY DEF OA!TypeOK
<1>2. OneAtATime'
  BY <1>1 DEF OneAtATime
<1>3. ("unmarked" \notin faults => OneEach)'
  BY <1>1 DEF OneAtATime, OneEach
<1>4. ASSUME faults \subseteq {"edits"}
      PROVE  /\ \A u \in Tasks : u # t => task[u].pc = "idle"
             /\ review[r] = "approved"
             /\ \A q \in Reviews : q # r => Matches(q)
  BY <1>4 DEF InTurn
<1>5. (faults \subseteq {"edits"} => InTurn)'
  BY <1>1, <1>4 DEF InTurn, Matches
<1> QED
  BY <1>2, <1>3, <1>5

\* A step of a call that has to do with no request.
LEMMA ElsewhereKeeps ==
  ASSUME ReviewInv, OA!TypeOK', NEW t \in Tasks, task[t].pc \notin Building \cup {"idle"},
         task'[t].pc \notin Building \cup {"cancel"}, UNCHANGED <<review, linked, made, faults>>,
         \A u \in Tasks : u # t => task'[u] = task[u]
  PROVE  ReviewInv'
<1> USE DEF ReviewInv, Building, Unapproved
<1>1. OneAtATime'
  BY DEF OneAtATime
<1>2. ("unmarked" \notin faults => OneEach)'
  BY DEF OneEach
<1>3. (faults \subseteq {"edits"} => InTurn)'
  BY DEF InTurn, Matches
<1> QED
  BY <1>1, <1>2, <1>3

\* The calls that only look.
LEMMA LooksKeep ==
  ASSUME ReviewInv, NEW t \in Tasks, OA!CheckAmountLimits(t) \/ OA!LookupReview(t)
  PROVE  ReviewInv'
<1>1. OA!TypeOK /\ OA!Idle.r \in Reviews /\ task[t].pc \in {"limit", "lookup"}
  BY AdmissionConstants DEF ReviewInv, OA!CheckAmountLimits, OA!LookupReview, OA!At
<1>2. PICK at \in {"order", "lookup", "insert", "idle"}, r \in Reviews, amount \in Amounts \cup {0} :
        task' = [task EXCEPT ![t] = [pc |-> at, r |-> r, amount |-> amount]]
  <2>1. task[t].r \in Reviews /\ task[t].amount \in Amounts \cup {0}
    BY <1>1 DEF OA!TypeOK
  <2>2. OA!Idle = [pc |-> "idle", r |-> OA!Idle.r, amount |-> 0]
    BY DEF OA!Idle
  <2>3. \/ OA!Goto(t, "order") \/ OA!Goto(t, "lookup") \/ OA!Goto(t, "insert")
        \/ OA!Done(t)
    BY DEF OA!CheckAmountLimits, OA!LookupReview
  <2> QED
    BY <1>1, <2>1, <2>2, <2>3 DEF OA!Goto, OA!Become, OA!Done
<1>3. UNCHANGED <<approved, limit, flow, review, linked, made, recent, faults>>
  BY DEF OA!CheckAmountLimits, OA!LookupReview, OA!overrideVars, OA!reviewVars
<1>4. OA!TypeOK'
  BY <1>1, <1>2, <1>3 DEF OA!TypeOK, OA!Pcs
<1>5. task'[t].pc = at /\ \A u \in Tasks : u # t => task'[u] = task[u]
  BY <1>1, <1>2 DEF OA!TypeOK
<1> QED
  BY <1>1, <1>3, <1>4, <1>5, ElsewhereKeeps DEF Building

\* The order of a request.
LEMMA BuildStep ==
  ASSUME ReviewInv, NEW t \in Tasks, OA!BuildOrder(t)
  PROVE  ReviewInv'
<1>1. PICK r \in Reviews : r = task[t].r
  BY DEF ReviewInv, OA!TypeOK
<1>2. OA!TypeOK /\ made \in [Reviews -> Nat] /\ made[r] \in Nat
  BY AdmissionConstants DEF ReviewInv, OA!TypeOK
<1>3. task[t].pc = "build" /\ UNCHANGED <<review, linked, faults, approved, limit, flow>>
  BY DEF OA!BuildOrder, OA!At, OA!overrideVars
<1>4. \/ /\ made[r] < MaxMade /\ made' = [made EXCEPT ![r] = made[r] + 1]
         /\ OA!CountOrder /\ OA!Goto(t, "leg")
      \/ made' = made /\ recent' = recent /\ OA!Goto(t, "rollback")
  BY <1>1 DEF OA!BuildOrder
<1>5. OA!TypeOK'
  BY <1>1, <1>2, <1>3, <1>4, AdmissionConstants
  DEF OA!TypeOK, OA!CountOrder, OA!Goto, OA!Become, OA!Pcs
<1>6. /\ \A q \in Reviews : q # r => made'[q] = made[q]
      /\ \A u \in Tasks : u # t => task'[u] = task[u]
      /\ task'[t].r = r
      /\ \/ task'[t].pc = "leg" /\ made'[r] = made[r] + 1
         \/ task'[t].pc = "rollback" /\ made'[r] = made[r]
  BY <1>1, <1>2, <1>4 DEF OA!TypeOK, OA!Goto, OA!Become
<1>7. made'[r] \in Nat
  BY <1>2, <1>6
<1> QED
  BY <1>1, <1>2, <1>3, <1>5, <1>6, <1>7, BuildKeeps

\* The leg of that order.
LEMMA LegStep ==
  ASSUME ReviewInv, NEW t \in Tasks, OA!ExecuteLeg(t)
  PROVE  ReviewInv'
<1>1. PICK r \in Reviews : r = task[t].r
  BY DEF ReviewInv, OA!TypeOK
<1>2. OA!TypeOK /\ made \in [Reviews -> Nat] /\ made[r] \in Nat
  BY AdmissionConstants DEF ReviewInv, OA!TypeOK
<1>3. /\ task[t].pc = "leg"
      /\ UNCHANGED <<review, linked, faults, approved, limit, flow, recent>>
  BY DEF OA!ExecuteLeg, OA!At, OA!overrideVars
<1>4. made[r] > 0
  BY <1>1, <1>3 DEF ReviewInv, OneAtATime
<1>5. \/ made' = made /\ OA!Goto(t, "link")
      \/ made' = [made EXCEPT ![r] = made[r] - 1] /\ OA!Goto(t, "rollback")
      \/ made' = made /\ "unmarked" \in faults /\ OA!Goto(t, "rollback")
  BY <1>1 DEF OA!ExecuteLeg
<1>6. OA!TypeOK'
  BY <1>1, <1>2, <1>3, <1>4, <1>5, AdmissionConstants DEF OA!TypeOK, OA!Goto, OA!Become, OA!Pcs
<1>7. /\ \A q \in Reviews : q # r => made'[q] = made[q]
      /\ \A u \in Tasks : u # t => task'[u] = task[u]
      /\ task'[t].r = r
      /\ \/ task'[t].pc = "link" /\ made'[r] = made[r]
         \/ task'[t].pc = "rollback" /\ made'[r] = made[r] - 1
         \/ task'[t].pc = "rollback" /\ made'[r] = made[r] /\ "unmarked" \in faults
  BY <1>1, <1>2, <1>5 DEF OA!TypeOK, OA!Goto, OA!Become
<1>8. made'[r] \in Nat
  BY <1>2, <1>4, <1>7
<1> QED
  BY <1>1, <1>2, <1>3, <1>4, <1>6, <1>7, <1>8, LegKeeps

LEMMA ReviewStep == ReviewInv /\ OA!Next => ReviewInv'
<1> SUFFICES ASSUME ReviewInv, OA!Next PROVE ReviewInv'
  OBVIOUS
<1>1. \A t \in Tasks, r \in Reviews, amount \in Amounts \cup {0} :
        OA!Free(t) => OA!At(t, "idle")
                      /\ (faults \subseteq {"edits"} => \A u \in Tasks : OA!At(u, "idle"))
  BY DEF OA!Free
<1> USE AdmissionConstants DEF ReviewInv, OneAtATime, OneEach, InTurn, Matches, Building, Unapproved, OA!TypeOK,
      OA!At, OA!Become, OA!Goto, OA!Done, OA!Set, OA!CountOrder, OA!overrideVars,
      OA!reviewVars, OA!Pcs, OA!Statuses
<1>2. ASSUME NEW t \in Tasks, NEW amount \in Amounts, OA!Create(t, amount) PROVE ReviewInv'
  BY <1>1, <1>2 DEF OA!Create, OA!Idle
<1>3. ASSUME NEW t \in Tasks, OA!CheckAmountLimits(t) PROVE ReviewInv'
  BY ONLY ReviewInv, <1>3, LooksKeep
<1>4. ASSUME NEW t \in Tasks, OA!InsertOrder(t) PROVE ReviewInv'
  BY <1>4 DEF OA!InsertOrder, OA!Idle
<1>5. ASSUME NEW t \in Tasks, OA!LookupReview(t) PROVE ReviewInv'
  BY ONLY ReviewInv, <1>5, LooksKeep
<1>6. ASSUME NEW t \in Tasks, OA!BuildOrder(t) PROVE ReviewInv'
  BY ONLY ReviewInv, <1>6, BuildStep
<1>19. ASSUME NEW t \in Tasks, OA!ExecuteLeg(t) PROVE ReviewInv'
  BY ONLY ReviewInv, <1>19, LegStep
<1>7. ASSUME NEW t \in Tasks, OA!Rollback(t) PROVE ReviewInv'
  <2> USE DEF OA!Rollback, OA!Idle
  <2>1. OA!TypeOK'
    BY <1>7
  <2>2. OneAtATime'
    BY <1>7
  <2>3. ("unmarked" \notin faults => OneEach)'
    BY <1>7
  <2>4. (faults \subseteq {"edits"} => InTurn)'
    BY <1>7
  <2> QED
    BY <2>1, <2>2, <2>3, <2>4
<1>8. ASSUME NEW t \in Tasks, OA!LinkPaymentOrder(t) PROVE ReviewInv'
  BY <1>8 DEF OA!LinkPaymentOrder, OA!Idle
<1>9. ASSUME NEW t \in Tasks, OA!CancelReview(t) PROVE ReviewInv'
  BY <1>9 DEF OA!CancelReview, OA!Idle
<1>10. ASSUME NEW t \in Tasks, NEW r \in Reviews, OA!InsertReview(t, r) PROVE ReviewInv'
  BY <1>10 DEF OA!InsertReview, OA!Idle
<1>11. ASSUME NEW t \in Tasks, NEW r \in Reviews, OA!ApproveReview(t, r) PROVE ReviewInv'
  BY <1>1, <1>11 DEF OA!ApproveReview
<1>12. ASSUME NEW t \in Tasks, NEW r \in Reviews, OA!RejectReview(t, r) PROVE ReviewInv'
  BY <1>1, <1>12 DEF OA!RejectReview
<1>13. ASSUME NEW t \in Tasks, NEW r \in Reviews, OA!CheckCancel(t, r) PROVE ReviewInv'
  BY <1>1, <1>13 DEF OA!CheckCancel
<1>14. CASE OA!Expire
  BY <1>14 DEF OA!Expire, OA!Pending
<1>15. CASE OA!Edit
  BY <1>15, OverrideType DEF OA!Edit
<1>16. CASE OA!Hour
  BY <1>16 DEF OA!Hour
<1>17. CASE OA!Suspend
  BY <1>17 DEF OA!Suspend
<1>18. CASE OA!Crash
  BY <1>18 DEF OA!Crash, OA!Idle
<1> QED
  BY <1>2, <1>3, <1>4, <1>5, <1>6, <1>7, <1>8, <1>9, <1>10, <1>11, <1>12, <1>13, <1>14,
    <1>15, <1>16, <1>17, <1>18, <1>19 DEF OA!Next, OA!Step, OA!Call

LEMMA ReviewHolds == ReviewInv => OA!OneOrderPerReview /\ OA!ReviewsMatchOrders
BY DEF ReviewInv, OneAtATime, OneEach, InTurn, Matches, Building, Unapproved, OA!TypeOK, OA!At,
  OA!OneOrderPerReview, OA!ReviewsMatchOrders

LEMMA ReviewInvariant == Spec => [](part = "admission" => ReviewInv)
<1>1. Init => (part = "admission" => ReviewInv)
  BY ReviewInit DEF Init
<1>2. (part = "admission" => ReviewInv) /\ [Next]_vars => (part = "admission" => ReviewInv)'
  <2> SUFFICES ASSUME part = "admission" => ReviewInv, [Next]_vars, part' = "admission"
               PROVE  ReviewInv'
    OBVIOUS
  <2>1. CASE Next
    BY <2>1, ReviewStep DEF Next
  <2>2. CASE UNCHANGED vars
    BY <2>2 DEF vars, admissionOwn, ReviewInv, OneAtATime, OneEach, InTurn, Matches, Building,
      Unapproved, OA!TypeOK
  <2> QED
    BY <2>1, <2>2
<1> QED
  BY <1>1, <1>2, PTL DEF Spec

\* A request of review has one order alive at most, whoever approves it and when and
\* however often its leg fails, and none while it can be approved: unless the row of
\* a failed leg could not be marked.  Without overlap, crash or refusal it is approved
\* exactly if it has one (approveReview, createOrderFromReview, cancelReview).
THEOREM ReviewsMakeOneOrder == Spec => []OneOrderPerReview
<1>1. (part = "admission" => ReviewInv) => OneOrderPerReview
  BY ReviewHolds DEF OneOrderPerReview
<1> QED
  BY <1>1, ReviewInvariant, PTL

(***************************************************************************)
(* The attempts of a limiter: first their types, then what the windows     *)
(* admit.                                                                  *)
(***************************************************************************)

AttemptRow == [count : Nat, first : RL!Time, last : RL!Time, until : Nat]
Attempt == [pc : {"idle", "insert", "open", "track"}, id : Buckets, read : AttemptRow]
TypedLimits ==
  /\ limiter \in {"guard", "throttle"} /\ faults \in LimitWorlds
  /\ bucket \in [Buckets -> AttemptRow]
  /\ now \in RL!Time
  /\ admitted \in [RL!Time -> Nat]
  /\ task \in [Tasks -> Attempt]
LEMMA TypedLimitsDef == RL!TypeOK <=> TypedLimits
BY DEF RL!TypeOK, TypedLimits, RL!Row, AttemptRow, Attempt

LEMMA LimitConstants ==
  /\ Window \in Nat /\ Block \in Nat /\ Horizon \in Nat
  /\ RL!None \in AttemptRow /\ RL!Idle \in Attempt
<1>1. Buckets # {} /\ Window \in Nat /\ Block \in Nat /\ Horizon \in Nat
  BY InstancesAssumption DEF RL!LimitsAssumption
<1>2. RL!None \in AttemptRow
  BY <1>1 DEF RL!None, AttemptRow, RL!Time
<1>3. (CHOOSE i \in Buckets : TRUE) \in Buckets
  BY <1>1
<1> QED
  BY <1>1, <1>2, <1>3 DEF RL!Idle, Attempt

LEMMA LimitInit == RL!Init => RL!TypeOK
<1> SUFFICES ASSUME RL!Init PROVE TypedLimits
  BY TypedLimitsDef
<1> QED
  BY LimitConstants DEF RL!Init, TypedLimits, RL!Time

LEMMA LimitStep == RL!TypeOK /\ RL!Next => RL!TypeOK'
<1> SUFFICES ASSUME TypedLimits, RL!Next PROVE TypedLimits'
  BY TypedLimitsDef, PTL
<1>1. ASSUME NEW t \in Tasks, RL!Done(t) PROVE task' \in [Tasks -> Attempt]
  BY <1>1, LimitConstants DEF RL!Done, TypedLimits
<1>2. ASSUME RL!Admit PROVE admitted' \in [RL!Time -> Nat]
  BY <1>2 DEF RL!Admit, TypedLimits
<1>3. RL!Fresh \in AttemptRow
  BY DEF RL!Fresh, AttemptRow, TypedLimits
<1>4. ASSUME NEW t \in Tasks, RL!Read(t) PROVE TypedLimits'
  <2>1. ASSUME NEW pc \in {"insert", "track", "open"}, NEW i \in Buckets, RL!Goto(t, pc, i)
        PROVE  task' \in [Tasks -> Attempt]
    BY <2>1 DEF RL!Goto, TypedLimits, Attempt
  <2>2. RL!Idle.id \in Buckets
    BY LimitConstants DEF Attempt
  <2>3. RL!Found \subseteq Buckets
    BY DEF RL!Found, RL!Existing
  <2>4. PICK pc \in {"insert", "track", "open"}, i \in Buckets : RL!Goto(t, pc, i)
    BY <1>4, <2>2, <2>3 DEF RL!Read
  <2>5. task' \in [Tasks -> Attempt]
    BY <2>1, <2>4
  <2> QED
    BY <1>4, <2>5 DEF RL!Read, TypedLimits
<1>5. ASSUME NEW t \in Tasks, NEW i \in Buckets, RL!InsertRow(t, i) PROVE TypedLimits'
  BY <1>1, <1>2, <1>3, <1>5 DEF RL!InsertRow, RL!Write, TypedLimits
<1>6. ASSUME NEW t \in Tasks, RL!FailOpen(t) PROVE TypedLimits'
  BY <1>1, <1>2, <1>6 DEF RL!FailOpen, TypedLimits
<1>7. ASSUME NEW t \in Tasks, RL!Refuse(t) PROVE TypedLimits'
  BY <1>1, <1>7 DEF RL!Refuse, TypedLimits
<1>8. ASSUME NEW t \in Tasks, RL!Restart(t) PROVE TypedLimits'
  BY <1>1, <1>2, <1>3, <1>8 DEF RL!Restart, RL!Write, TypedLimits, Attempt
<1>9. ASSUME NEW t \in Tasks, RL!Track(t) PROVE TypedLimits'
  <2>1. PICK i \in Buckets : i = task[t].id
    BY DEF TypedLimits, Attempt
  <2>2. PICK n \in Nat : n = task[t].read.count + 1
    BY DEF TypedLimits, Attempt, AttemptRow
  <2>3. now + Block \in Nat /\ now \in RL!Time
    BY LimitConstants DEF TypedLimits, RL!Time
  <2>4. /\ [bucket[i] EXCEPT !.count = n, !.last = now] \in AttemptRow
        /\ [bucket[i] EXCEPT !.count = n, !.last = now, !.until = now + Block] \in AttemptRow
    BY <2>3 DEF TypedLimits, AttemptRow
  <2>5. bucket' \in [Buckets -> AttemptRow]
    BY <1>9, <2>1, <2>2, <2>4 DEF RL!Track, RL!Write, TypedLimits
  <2>6. UNCHANGED admitted \/ RL!Admit
    BY <1>9 DEF RL!Track
  <2> QED
    BY <1>1, <1>2, <1>9, <2>5, <2>6 DEF RL!Track, TypedLimits
<1>10. CASE RL!Tick
  BY <1>10, LimitConstants DEF RL!Tick, TypedLimits, RL!Time
<1> QED
  BY <1>4, <1>5, <1>6, <1>7, <1>8, <1>9, <1>10 DEF RL!Next

LEMMA LimitInvariant == Spec => [](part = "limits" => RL!TypeOK)
<1>1. Init => (part = "limits" => RL!TypeOK)
  BY LimitInit DEF Init
<1>2. (part = "limits" => RL!TypeOK) /\ [Next]_vars => (part = "limits" => RL!TypeOK)'
  <2> SUFFICES ASSUME part = "limits" => RL!TypeOK, [Next]_vars, part' = "limits"
               PROVE  RL!TypeOK'
    OBVIOUS
  <2>1. CASE Next
    BY <2>1, LimitStep DEF Next
  <2>2. CASE UNCHANGED vars
    BY <2>2 DEF vars, limitsOwn, RL!TypeOK
  <2> QED
    BY <2>1, <2>2
<1> QED
  BY <1>1, <1>2, PTL DEF Spec

(***************************************************************************)
(* What a limiter admits, from one tick to another.  A window begins with  *)
(* the attempt that makes or restarts the row, at f, and c attempts have   *)
(* been counted since; P is what one window admits.                        *)
(***************************************************************************)
From(f) == {j \in RL!Time : f =< j}
Until(k, f) == {j \in RL!Time : k =< j /\ j < f}
Around(k) == {j \in RL!Time : k =< j /\ j =< k + Window}
Windowed(a, f, c, P) ==
  /\ a[f] >= 1
  /\ Total(a, From(f)) =< c
  /\ Total(a, From(f)) =< P
  /\ \A j \in RL!Time : j > f + Window => a[j] = 0
  /\ \A k \in RL!Time : k =< f /\ f =< k + Window => Total(a, Until(k, f)) =< P - 1
WithinMax(a, P) == \A k \in RL!Time : Total(a, Around(k)) =< 2 * P - 1

LEMMA TicksAreFinite ==
  /\ RL!Time \subseteq Nat /\ \A S \in SUBSET RL!Time : IsFiniteSet(S)
  /\ \A f : From(f) \in SUBSET RL!Time
  /\ \A k : Around(k) \in SUBSET RL!Time
  /\ \A k, f : Until(k, f) \in SUBSET RL!Time
<1>1. Horizon \in Nat
  BY LimitConstants
<1>2. RL!Time = 0 .. Horizon
  BY DEF RL!Time
<1>3. IsFiniteSet(0 .. Horizon)
  BY <1>1, FS_Interval
<1>4. \A f : From(f) \subseteq RL!Time
  BY DEF From
<1>5. \A f : Around(f) \subseteq RL!Time
  BY DEF Around
<1>6. \A k, f : Until(k, f) \subseteq RL!Time
  BY DEF Until
<1>7. RL!Time \subseteq Nat
  BY <1>1, <1>2
<1>8. \A S \in SUBSET RL!Time : IsFiniteSet(S)
  BY <1>2, <1>3, FS_Subset
<1> QED
  BY <1>4, <1>5, <1>6, <1>7, <1>8

LEMMA CountsOf ==
  ASSUME NEW a \in [RL!Time -> Nat], NEW S \in SUBSET RL!Time
  PROVE  /\ IsFiniteSet(S) /\ Ints(a, S) /\ (\A j \in S : a[j] >= 0)
         /\ Total(a, S) \in Int
<1>1. IsFiniteSet(S) /\ Ints(a, S) /\ (\A j \in S : a[j] >= 0)
  BY TicksAreFinite DEF Ints
<1> QED
  BY <1>1, TotalType

LEMMA NothingCounted ==
  ASSUME NEW a \in [RL!Time -> Nat], NEW S \in SUBSET RL!Time, \A j \in S : a[j] = 0
  PROVE  Total(a, S) = 0
<1>1. Ints(a, {}) /\ {} \subseteq S
  BY DEF Ints
<1>2. \A j \in S : a[j] = IF j \in {} THEN a[j] ELSE 0
  OBVIOUS
<1> QED
  BY <1>1, <1>2, CountsOf, TotalWhere, TotalOfNone

\* One more attempt is admitted at tick n.
Plus(a, n) == [a EXCEPT ![n] = @ + 1]
LEMMA MoreCounts ==
  ASSUME NEW a \in [RL!Time -> Nat], NEW n \in RL!Time, NEW S \in SUBSET RL!Time,
         NEW b, b = Plus(a, n)
  PROVE  /\ b \in [RL!Time -> Nat] /\ b[n] = a[n] + 1
         /\ \A j \in RL!Time \ {n} : b[j] = a[j]
         /\ n \in S => Total(b, S) = Total(a, S) + 1
         /\ n \notin S => Total(b, S) = Total(a, S)
<1>1. /\ b \in [RL!Time -> Nat] /\ b[n] = a[n] + 1
      /\ \A j \in RL!Time \ {n} : b[j] = a[j]
  BY DEF Plus
<1>2. /\ IsFiniteSet(S) /\ Ints(a, S) /\ Ints(b, S) /\ Total(a, S) \in Int
      /\ Total(b, S) \in Int
  BY <1>1, CountsOf
<1>3. CASE n \in S
  <2>1. Total(b, S) = Total(a, S) - a[n] + b[n]
    BY <1>1, <1>2, <1>3, TotalChanges
  <2> QED
    BY <1>1, <1>2, <1>3, <2>1
<1>4. CASE n \notin S
  <2>1. \A j \in S : a[j] = b[j]
    BY <1>1, <1>4
  <2>2. Total(a, S) = Total(b, S)
    BY <1>2, <2>1, TotalSame
  <2> QED
    BY <1>1, <1>4, <2>2
<1> QED
  BY <1>1, <1>3, <1>4

LEMMA Stretches ==
  ASSUME NEW f \in RL!Time, NEW k \in RL!Time
  PROVE  /\ f \in From(f)
         /\ f =< k => Around(k) \subseteq From(f)
         /\ Around(k) \subseteq Until(k, f) \cup From(f) /\ Until(k, f) \cap From(f) = {}
         /\ \A n \in RL!Time : f + Window < n /\ n =< k + Window =>
              Until(k, n) \subseteq From(f) \ {f}
<1>1. Window \in Nat /\ \A j \in RL!Time : j \in Nat
  BY LimitConstants, TicksAreFinite
<1> QED
  BY <1>1 DEF From, Around, Until

\* Around any tick lie the end of one window and the window that begins at f, but
\* not the first attempt of both.
LEMMA WindowsHold ==
  ASSUME NEW a \in [RL!Time -> Nat], NEW f \in RL!Time, NEW c \in Nat, NEW P \in Nat \ {0},
         Windowed(a, f, c, P),
         \A k \in RL!Time : k + Window < f => Total(a, Around(k)) =< 2 * P - 1
  PROVE  WithinMax(a, P)
<1> SUFFICES ASSUME NEW k \in RL!Time PROVE Total(a, Around(k)) =< 2 * P - 1
  BY DEF WithinMax
<1>1. f \in Nat /\ k \in Nat /\ Window \in Nat
  BY LimitConstants, TicksAreFinite
<1>2. Total(a, Around(k)) \in Int /\ Total(a, From(f)) \in Int /\ Total(a, Until(k, f)) \in Int
  BY CountsOf, TicksAreFinite
<1>3. CASE f =< k
  <2>1. Around(k) \subseteq From(f)
    BY <1>3, Stretches
  <2>2. Total(a, Around(k)) =< Total(a, From(f))
    BY <2>1, CountsOf, TicksAreFinite, TotalPart
  <2> QED
    BY <1>2, <2>2 DEF Windowed
<1>4. CASE k < f /\ f =< k + Window
  <2> DEFINE R == Until(k, f)  S == From(f)
  <2>1. Around(k) \subseteq R \cup S /\ R \cap S = {}
    BY Stretches
  <2>2. Total(a, Around(k)) =< Total(a, R \cup S)
    <3>1. R \cup S \in SUBSET RL!Time
      BY TicksAreFinite
    <3> QED
      BY <2>1, <3>1, CountsOf, TotalPart
  <2>3. Total(a, R \cup S) = Total(a, R) + Total(a, S)
    BY <2>1, CountsOf, TicksAreFinite, TotalUnion
  <2>4. Total(a, R) =< P - 1 /\ Total(a, S) =< P
    BY <1>1, <1>4 DEF Windowed
  <2> HIDE DEF R, S
  <2> QED
    BY <1>2, <2>2, <2>3, <2>4 DEF R, S
<1>5. CASE k + Window < f
  BY <1>5
<1> QED
  BY <1>1, <1>3, <1>4, <1>5

\* An attempt counted in the window that began at f.
LEMMA AdmitInWindow ==
  ASSUME NEW a \in [RL!Time -> Nat], NEW f \in RL!Time, NEW c \in Nat, NEW P \in Nat \ {0},
         NEW n \in RL!Time, NEW b, b = Plus(a, n),
         Windowed(a, f, c, P), WithinMax(a, P),
         f =< n, n =< f + Window, c + 1 =< P
  PROVE  Windowed(b, f, c + 1, P) /\ WithinMax(b, P)
<1>1. f \in Nat /\ n \in Nat /\ Window \in Nat
  BY LimitConstants, TicksAreFinite
<1>2. b \in [RL!Time -> Nat] /\ b[n] = a[n] + 1 /\ \A j \in RL!Time \ {n} : b[j] = a[j]
  BY DEF Plus
<1>3. Total(b, From(f)) = Total(a, From(f)) + 1 /\ Total(a, From(f)) \in Int
  <2>1. n \in From(f) /\ From(f) \in SUBSET RL!Time
    BY TicksAreFinite DEF From
  <2> QED
    BY <2>1, MoreCounts, CountsOf
<1>4. \A k \in RL!Time : Total(b, Until(k, f)) = Total(a, Until(k, f))
  <2> TAKE k \in RL!Time
  <2>1. n \notin Until(k, f) /\ Until(k, f) \in SUBSET RL!Time
    BY <1>1, TicksAreFinite DEF Until
  <2> QED
    BY <2>1, MoreCounts
<1>5. Windowed(b, f, c + 1, P)
  <2>1. b[f] >= 1
    BY <1>1, <1>2 DEF Windowed
  <2>2. \A j \in RL!Time : j > f + Window => b[j] = 0
    BY <1>1, <1>2 DEF Windowed
  <2> QED
    BY <1>3, <1>4, <2>1, <2>2 DEF Windowed
<1>6. \A k \in RL!Time : k + Window < f => Total(b, Around(k)) =< 2 * P - 1
  <2> SUFFICES ASSUME NEW k \in RL!Time, k + Window < f PROVE Total(b, Around(k)) =< 2 * P - 1
    OBVIOUS
  <2>1. n \notin Around(k) /\ Around(k) \in SUBSET RL!Time
    BY <1>1, TicksAreFinite DEF Around
  <2>2. Total(b, Around(k)) = Total(a, Around(k))
    BY <2>1, MoreCounts
  <2> QED
    BY <2>2 DEF WithinMax
<1> QED
  BY <1>2, <1>5, <1>6, WindowsHold

\* An attempt that begins a window, where none was admitted from then on, after a
\* window that began at f or, when f is n, after none.
LEMMA AdmitFirst ==
  ASSUME NEW a \in [RL!Time -> Nat], NEW P \in Nat \ {0},
         NEW n \in RL!Time, NEW b, b = Plus(a, n), WithinMax(a, P),
         \A j \in RL!Time : j >= n => a[j] = 0,
         \A k \in RL!Time : k =< n /\ n =< k + Window => Total(a, Until(k, n)) =< P - 1
  PROVE  Windowed(b, n, 1, P) /\ WithinMax(b, P)
<1>1. n \in Nat /\ Window \in Nat
  BY LimitConstants, TicksAreFinite
<1>2. b \in [RL!Time -> Nat] /\ b[n] = a[n] + 1 /\ \A j \in RL!Time \ {n} : b[j] = a[j]
  BY DEF Plus
<1>3. Total(b, From(n)) = 1
  <2>1. n \in From(n) /\ From(n) \in SUBSET RL!Time /\ \A j \in From(n) : a[j] = 0
    BY <1>1, TicksAreFinite DEF From
  <2>2. Total(a, From(n)) = 0
    BY <2>1, NothingCounted
  <2> QED
    BY <2>1, <2>2, MoreCounts
<1>4. \A k \in RL!Time : Total(b, Until(k, n)) = Total(a, Until(k, n))
  <2> TAKE k \in RL!Time
  <2>1. n \notin Until(k, n) /\ Until(k, n) \in SUBSET RL!Time
    BY <1>1, TicksAreFinite DEF Until
  <2> QED
    BY <2>1, MoreCounts
<1>5. Windowed(b, n, 1, P)
  <2>1. b[n] >= 1
    BY <1>2
  <2>2. \A j \in RL!Time : j > n + Window => b[j] = 0
    BY <1>1, <1>2, TicksAreFinite
  <2> QED
    BY <1>3, <1>4, <2>1, <2>2 DEF Windowed
<1>6. \A k \in RL!Time : k + Window < n => Total(b, Around(k)) =< 2 * P - 1
  <2> SUFFICES ASSUME NEW k \in RL!Time, k + Window < n PROVE Total(b, Around(k)) =< 2 * P - 1
    OBVIOUS
  <2>1. n \notin Around(k) /\ Around(k) \in SUBSET RL!Time
    BY <1>1, TicksAreFinite DEF Around
  <2>2. Total(b, Around(k)) = Total(a, Around(k))
    BY <2>1, MoreCounts
  <2> QED
    BY <2>2 DEF WithinMax
<1> QED
  BY <1>2, <1>5, <1>6, WindowsHold

\* What the end of a window that is over can still admit.
LEMMA AfterWindow ==
  ASSUME NEW a \in [RL!Time -> Nat], NEW f \in RL!Time, NEW c \in Nat, NEW P \in Nat \ {0},
         NEW n \in RL!Time, Windowed(a, f, c, P), f + Window < n
  PROVE  /\ \A j \in RL!Time : j >= n => a[j] = 0
         /\ \A k \in RL!Time : k =< n /\ n =< k + Window => Total(a, Until(k, n)) =< P - 1
<1>1. f \in Nat /\ n \in Nat /\ Window \in Nat
  BY LimitConstants, TicksAreFinite
<1>2. \A j \in RL!Time : j >= n => a[j] = 0
  BY <1>1, TicksAreFinite DEF Windowed
<1>3. ASSUME NEW k \in RL!Time, k =< n, n =< k + Window
      PROVE  Total(a, Until(k, n)) =< P - 1
  <2> DEFINE S == From(f)
  <2>1. f \in S /\ S \in SUBSET RL!Time /\ Until(k, n) \subseteq S \ {f}
    BY <1>3, Stretches, TicksAreFinite
  <2>2. Total(a, S) = a[f] + Total(a, S \ {f}) /\ Total(a, S \ {f}) \in Int
    BY <2>1, CountsOf, TotalWithout
  <2>3. Total(a, Until(k, n)) =< Total(a, S \ {f})
    BY <2>1, CountsOf, TotalPart
  <2>4. Total(a, S) =< P /\ a[f] >= 1 /\ a[f] \in Int
    BY DEF Windowed
  <2>5. Total(a, Until(k, n)) \in Int
    BY CountsOf, TicksAreFinite
  <2> HIDE DEF S
  <2> QED
    BY <2>2, <2>3, <2>4, <2>5
<1> QED
  BY <1>2, <1>3

(***************************************************************************)
(* When requests do not overlap and the table answers, there is one row at *)
(* most, what a request has read is what it says, and the attempts that    *)
(* were let in are counted by it.                                          *)
(***************************************************************************)
Requesting(t) == task[t].pc # "idle"
Kept(i) == bucket[i].count > 0
OneRow == \A i, j \in Buckets : Kept(i) /\ Kept(j) => i = j
HasRead(t) ==
  /\ task[t].pc # "open"
  /\ task[t].pc = "insert" => \A i \in Buckets : ~Kept(i)
  /\ task[t].pc = "track" => Kept(task[t].id) /\ task[t].read = bucket[task[t].id]
Counted ==
  /\ \A t, u \in Tasks : Requesting(t) /\ Requesting(u) => t = u
  /\ OneRow
  /\ \A t \in Tasks : HasRead(t)
  /\ (\A i \in Buckets : ~Kept(i)) => \A j \in RL!Time : admitted[j] = 0
  /\ \A j \in RL!Time : j > now => admitted[j] = 0
  /\ \A i \in Buckets : Kept(i) =>
       /\ bucket[i].first =< now
       /\ Windowed(admitted, bucket[i].first, bucket[i].count, RL!PerWindow)
  /\ WithinMax(admitted, RL!PerWindow)
LimitInv == TypedLimits /\ (faults = {} => Counted)

LEMMA PerWindowType ==
  ASSUME TypedLimits
  PROVE  RL!PerWindow \in Nat \ {0}
BY InstancesAssumption DEF RL!LimitsAssumption, RL!PerWindow, TypedLimits

LEMMA FoundIsKept ==
  ASSUME TypedLimits, OneRow
  PROVE  RL!Found = {i \in Buckets : Kept(i)}
<1>1. RL!Existing = {i \in Buckets : Kept(i)}
  BY DEF RL!Existing, Kept
<1>2. CASE RL!Existing = {}
  BY <1>1, <1>2 DEF RL!Found
<1>3. CASE RL!Existing # {}
  <2>1. PICK i \in Buckets : i \in RL!Existing
    BY <1>1, <1>3
  <2>2. RL!Existing = {i}
    BY <1>1, <2>1 DEF OneRow
  <2>3. Cardinality(RL!Existing) = 1
    BY <2>2, FS_Singleton
  <2>4. RL!Cardinality(RL!Existing) = 1
    BY <2>3 DEF RL!Cardinality, Cardinality
  <2>5. bucket[i].last \in Nat
    BY TicksAreFinite DEF TypedLimits, AttemptRow
  <2> QED
    BY <1>1, <2>2, <2>4, <2>5 DEF RL!Found
<1> QED
  BY <1>2, <1>3

LEMMA OneAtWork ==
  ASSUME TypedLimits, Counted, NEW t \in Tasks, Requesting(t), RL!Done(t)
  PROVE  /\ \A u \in Tasks : ~Requesting(u)'
         /\ \A u \in Tasks : HasRead(u)'
<1>1. RL!Idle.pc = "idle"
  BY DEF RL!Idle
<1>2. \A u \in Tasks : task'[u].pc = "idle"
  BY <1>1 DEF RL!Done, TypedLimits, Counted, Requesting
<1> QED
  BY <1>2 DEF Requesting, HasRead

\* A step that admits nobody and writes no row.
LEMMA NothingWritten ==
  ASSUME TypedLimits, Counted, now' \in Nat, now =< now', UNCHANGED <<limiter, bucket, admitted>>,
         \A t, u \in Tasks : Requesting(t)' /\ Requesting(u)' => t = u,
         \A t \in Tasks : HasRead(t)'
  PROVE  Counted'
<1>1. \A i \in Buckets : Kept(i)' <=> Kept(i)
  BY DEF Kept
<1>2. /\ now \in Nat /\ \A j \in RL!Time : j \in Nat
      /\ \A i \in Buckets : bucket[i].first \in Nat
  BY TicksAreFinite DEF TypedLimits, AttemptRow
<1>3. RL!PerWindow' = RL!PerWindow
  BY DEF RL!PerWindow
<1>4. OneRow' /\ ((\A i \in Buckets : ~Kept(i)') => \A j \in RL!Time : admitted'[j] = 0)
  BY <1>1 DEF Counted, OneRow
<1>5. \A j \in RL!Time : j > now' => admitted'[j] = 0
  BY <1>2 DEF Counted
<1>6. \A i \in Buckets : Kept(i)' =>
        /\ bucket'[i].first =< now'
        /\ Windowed(admitted', bucket'[i].first, bucket'[i].count, RL!PerWindow')
  BY <1>1, <1>2, <1>3 DEF Counted
<1>7. WithinMax(admitted', RL!PerWindow')
  BY <1>3 DEF Counted
<1> QED
  BY <1>4, <1>5, <1>6, <1>7 DEF Counted

\* A step that ends a request by writing the only row.
LEMMA RowWritten ==
  ASSUME TypedLimits, Counted, NEW t \in Tasks, Requesting(t), RL!Done(t),
         NEW i \in Buckets, \A j \in Buckets \ {i} : ~Kept(j),
         bucket'[i].count > 0, \A j \in Buckets \ {i} : bucket'[j] = bucket[j],
         bucket'[i].first =< now, UNCHANGED <<limiter, now>>,
         \A j \in RL!Time : j > now => admitted'[j] = 0,
         Windowed(admitted', bucket'[i].first, bucket'[i].count, RL!PerWindow),
         WithinMax(admitted', RL!PerWindow)
  PROVE  Counted'
<1>1. \A j \in Buckets : Kept(j)' <=> j = i
  BY DEF Kept
<1>2. RL!PerWindow' = RL!PerWindow
  BY DEF RL!PerWindow
<1>3. /\ \A u \in Tasks : ~Requesting(u)'
      /\ \A u \in Tasks : HasRead(u)'
  BY OneAtWork
<1>4. OneRow' /\ ~(\A j \in Buckets : ~Kept(j)')
  BY <1>1 DEF OneRow
<1>5. \A j \in Buckets : Kept(j)' =>
        /\ bucket'[j].first =< now'
        /\ Windowed(admitted', bucket'[j].first, bucket'[j].count, RL!PerWindow')
  BY <1>1, <1>2
<1> QED
  BY <1>2, <1>3, <1>4, <1>5 DEF Counted

LEMMA ReadCounts ==
  ASSUME TypedLimits, TypedLimits', faults = {}, Counted, NEW t \in Tasks, RL!Read(t)
  PROVE  Counted'
<1>1. \A u \in Tasks : task[u].pc = "idle"
  BY DEF RL!Read, RL!Free, RL!At
<1>2. RL!Found = {i \in Buckets : Kept(i)}
  BY FoundIsKept DEF Counted
<1>3. UNCHANGED <<limiter, bucket, now, admitted>> /\ now \in Nat
  BY TicksAreFinite DEF RL!Read, TypedLimits
<1>4. \A u \in Tasks \ {t} : task'[u].pc = "idle"
  BY <1>1 DEF RL!Read, RL!Goto, TypedLimits
<1>5. HasRead(t)'
  <2>1. CASE RL!Found = {} /\ RL!Goto(t, "insert", RL!Idle.id)
    BY <1>2, <1>3, <2>1 DEF RL!Goto, TypedLimits, HasRead, Kept
  <2>2. CASE \E i \in RL!Found : RL!Goto(t, "track", i)
    BY <1>2, <1>3, <2>2 DEF RL!Goto, TypedLimits, HasRead, Kept
  <2> QED
    BY <2>1, <2>2 DEF RL!Read
<1>6. \A u \in Tasks : HasRead(u)'
  BY <1>4, <1>5 DEF HasRead
<1>7. \A u, v \in Tasks : Requesting(u)' /\ Requesting(v)' => u = v
  BY <1>4 DEF Requesting
<1> QED
  BY <1>3, <1>6, <1>7, NothingWritten

LEMMA InsertCounts ==
  ASSUME TypedLimits, faults = {}, Counted, NEW t \in Tasks, NEW i \in Buckets, RL!InsertRow(t, i)
  PROVE  Counted'
<1>1. Requesting(t) /\ \A j \in Buckets : ~Kept(j)
  BY DEF RL!InsertRow, RL!At, Requesting, Counted, HasRead
<1>2. /\ bucket'[i] = RL!Fresh /\ \A j \in Buckets \ {i} : bucket'[j] = bucket[j]
      /\ admitted' = Plus(admitted, now) /\ RL!Done(t) /\ UNCHANGED <<limiter, now>>
  BY DEF RL!InsertRow, RL!Write, RL!Admit, TypedLimits, Plus
<1>3. /\ now \in RL!Time /\ now \in Nat /\ admitted \in [RL!Time -> Nat]
      /\ \A j \in RL!Time : admitted[j] = 0
      /\ WithinMax(admitted, RL!PerWindow) /\ RL!PerWindow \in Nat \ {0}
  BY <1>1, TicksAreFinite, PerWindowType DEF TypedLimits, Counted
<1>4. \A k \in RL!Time : Total(admitted, Until(k, now)) =< RL!PerWindow - 1
  <2> TAKE k \in RL!Time
  <2>1. Until(k, now) \in SUBSET RL!Time
    BY TicksAreFinite
  <2>2. Total(admitted, Until(k, now)) = 0
    BY <1>3, <2>1, NothingCounted
  <2> QED
    BY <1>3, <2>2
<1>5. Windowed(admitted', now, 1, RL!PerWindow) /\ WithinMax(admitted', RL!PerWindow)
  BY <1>2, <1>3, <1>4, AdmitFirst
<1>6. \A j \in RL!Time : j > now => admitted'[j] = 0
  BY <1>2, <1>3 DEF Plus
<1>7. bucket'[i].count = 1 /\ bucket'[i].first = now
  BY <1>2 DEF RL!Fresh
<1> QED
  BY <1>1, <1>2, <1>3, <1>5, <1>6, <1>7, RowWritten

\* The row that a request has read.
LEMMA TrackedRow ==
  ASSUME TypedLimits, Counted, NEW t \in Tasks, RL!At(t, "track")
  PROVE  \E i \in Buckets :
           /\ i = task[t].id /\ Requesting(t) /\ task[t].read = bucket[i]
           /\ Kept(i) /\ \A j \in Buckets \ {i} : ~Kept(j)
           /\ bucket[i] \in AttemptRow /\ bucket[i].first =< now
           /\ Windowed(admitted, bucket[i].first, bucket[i].count, RL!PerWindow)
<1>1. task[t].id \in Buckets
  BY DEF TypedLimits, Attempt
<1>2. Requesting(t) /\ Kept(task[t].id) /\ task[t].read = bucket[task[t].id]
  BY DEF RL!At, Requesting, Counted, HasRead
<1> QED
  BY <1>1, <1>2 DEF Counted, OneRow, TypedLimits

LEMMA RestartCounts ==
  ASSUME TypedLimits, faults = {}, Counted, NEW t \in Tasks, RL!Restart(t)
  PROVE  Counted'
<1>1. PICK i \in Buckets :
        /\ i = task[t].id /\ Requesting(t) /\ task[t].read = bucket[i]
        /\ Kept(i) /\ \A j \in Buckets \ {i} : ~Kept(j)
        /\ bucket[i] \in AttemptRow /\ bucket[i].first =< now
        /\ Windowed(admitted, bucket[i].first, bucket[i].count, RL!PerWindow)
  BY TrackedRow DEF RL!Restart
<1>2. /\ bucket'[i] = RL!Fresh /\ \A j \in Buckets \ {i} : bucket'[j] = bucket[j]
      /\ admitted' = Plus(admitted, now) /\ RL!Done(t) /\ UNCHANGED <<limiter, now>>
      /\ bucket[i].first + Window < now
  BY <1>1 DEF RL!Restart, RL!Outside, RL!Write, RL!Admit, TypedLimits, Plus
<1>3. /\ now \in RL!Time /\ now \in Nat /\ admitted \in [RL!Time -> Nat]
      /\ bucket[i].first \in RL!Time /\ bucket[i].count \in Nat
      /\ WithinMax(admitted, RL!PerWindow) /\ RL!PerWindow \in Nat \ {0}
  BY <1>1, TicksAreFinite, PerWindowType DEF TypedLimits, AttemptRow, Counted
<1>4. /\ \A j \in RL!Time : j >= now => admitted[j] = 0
      /\ \A k \in RL!Time : k =< now /\ now =< k + Window =>
           Total(admitted, Until(k, now)) =< RL!PerWindow - 1
  BY <1>1, <1>2, <1>3, AfterWindow
<1>5. Windowed(admitted', now, 1, RL!PerWindow) /\ WithinMax(admitted', RL!PerWindow)
  BY <1>2, <1>3, <1>4, AdmitFirst
<1>6. \A j \in RL!Time : j > now => admitted'[j] = 0
  <2>1. \A j \in RL!Time : j \in Nat
    BY TicksAreFinite
  <2>2. \A j \in RL!Time \ {now} : admitted'[j] = admitted[j]
    BY <1>2, <1>3 DEF Plus
  <2> QED
    BY <1>3, <1>4, <2>1, <2>2
<1>7. bucket'[i].count = 1 /\ bucket'[i].first = now
  BY <1>2 DEF RL!Fresh
<1> QED
  BY <1>1, <1>2, <1>3, <1>5, <1>6, <1>7, RowWritten

LEMMA TrackCounts ==
  ASSUME TypedLimits, faults = {}, Counted, NEW t \in Tasks, RL!Track(t)
  PROVE  Counted'
<1>1. PICK i \in Buckets :
        /\ i = task[t].id /\ Requesting(t) /\ task[t].read = bucket[i]
        /\ Kept(i) /\ \A j \in Buckets \ {i} : ~Kept(j)
        /\ bucket[i] \in AttemptRow /\ bucket[i].first =< now
        /\ Windowed(admitted, bucket[i].first, bucket[i].count, RL!PerWindow)
  BY TrackedRow DEF RL!Track
<1>2. /\ bucket'[i].count = bucket[i].count + 1 /\ bucket'[i].first = bucket[i].first
      /\ \A j \in Buckets \ {i} : bucket'[j] = bucket[j]
  <2>1. PICK n \in Nat : n = bucket[i].count + 1
    BY <1>1 DEF AttemptRow
  <2>2. \/ bucket' = [bucket EXCEPT ![i] = [bucket[i] EXCEPT !.count = n, !.last = now,
                                                            !.until = now + Block]]
        \/ bucket' = [bucket EXCEPT ![i] = [bucket[i] EXCEPT !.count = n, !.last = now]]
    BY <1>1, <2>1 DEF RL!Track, RL!Write
  <2>3. \/ bucket'[i] = [bucket[i] EXCEPT !.count = n, !.last = now, !.until = now + Block]
        \/ bucket'[i] = [bucket[i] EXCEPT !.count = n, !.last = now]
    BY <2>2 DEF TypedLimits
  <2>4. bucket'[i].count = n /\ bucket'[i].first = bucket[i].first
    BY <1>1, <2>3 DEF AttemptRow
  <2>5. \A j \in Buckets \ {i} : bucket'[j] = bucket[j]
    BY <2>2 DEF TypedLimits
  <2> QED
    BY <2>1, <2>4, <2>5
<1>3. /\ RL!Done(t) /\ UNCHANGED <<limiter, now>> /\ now =< bucket[i].first + Window
      /\ \/ RL!Exceeds(bucket[i].count + 1) /\ admitted' = admitted
         \/ ~RL!Exceeds(bucket[i].count + 1) /\ admitted' = Plus(admitted, now)
  <2>1. RL!Done(t) /\ UNCHANGED <<limiter, now>> /\ ~(bucket[i].first + Window < now)
    BY <1>1 DEF RL!Track, RL!Outside
  <2>2. now \in Nat /\ bucket[i].first \in Nat /\ Window \in Nat
    BY TicksAreFinite, LimitConstants DEF TypedLimits, AttemptRow
  <2>3. \/ RL!Exceeds(bucket[i].count + 1) /\ admitted' = admitted
        \/ ~RL!Exceeds(bucket[i].count + 1) /\ admitted' = Plus(admitted, now)
    BY <1>1 DEF RL!Track, RL!Admit, Plus
  <2> QED
    BY <2>1, <2>2, <2>3
<1>4. /\ now \in RL!Time /\ now \in Nat /\ admitted \in [RL!Time -> Nat]
      /\ bucket[i].first \in RL!Time /\ bucket[i].first \in Nat /\ bucket[i].count \in Nat
      /\ WithinMax(admitted, RL!PerWindow) /\ RL!PerWindow \in Nat \ {0}
      /\ \A j \in RL!Time : j > now => admitted[j] = 0
  BY <1>1, TicksAreFinite, PerWindowType DEF TypedLimits, AttemptRow, Counted
<1>5. /\ Windowed(admitted', bucket'[i].first, bucket'[i].count, RL!PerWindow)
      /\ WithinMax(admitted', RL!PerWindow)
  <2>1. CASE RL!Exceeds(bucket[i].count + 1) /\ admitted' = admitted
    <3>1. Total(admitted, From(bucket[i].first)) \in Int
      BY <1>4, CountsOf, TicksAreFinite
    <3>2. Total(admitted, From(bucket[i].first)) =< bucket[i].count
      BY <1>1 DEF Windowed
    <3>3. Total(admitted, From(bucket[i].first)) =< bucket[i].count + 1
      BY <1>4, <3>1, <3>2
    <3>4. Windowed(admitted, bucket[i].first, bucket[i].count + 1, RL!PerWindow)
      BY <1>1, <3>3 DEF Windowed
    <3> QED
      BY <1>2, <1>4, <2>1, <3>4
  <2>2. CASE ~RL!Exceeds(bucket[i].count + 1) /\ admitted' = Plus(admitted, now)
    <3>1. bucket[i].count + 1 =< RL!PerWindow
      BY <1>4, <2>2, InstancesAssumption DEF RL!Exceeds, RL!PerWindow, RL!LimitsAssumption
    <3> QED
      BY <1>1, <1>2, <1>3, <1>4, <2>2, <3>1, AdmitInWindow
  <2> QED
    BY <1>3, <2>1, <2>2
<1>6. \A j \in RL!Time : j > now => admitted'[j] = 0
  BY <1>3, <1>4 DEF Plus
<1>7. bucket'[i].count > 0 /\ bucket'[i].first =< now
  BY <1>1, <1>2, <1>4
<1> QED
  BY <1>1, <1>2, <1>3, <1>5, <1>6, <1>7, RowWritten

LEMMA LimitKept ==
  ASSUME LimitInv, TypedLimits', RL!Next
  PROVE  LimitInv'
<1> SUFFICES ASSUME faults' = {} PROVE Counted'
  BY DEF LimitInv
<1>1. faults = {} /\ TypedLimits /\ Counted
  BY DEF LimitInv, RL!Next, RL!Read, RL!FailOpen, RL!Refuse, RL!Restart, RL!Track,
    RL!InsertRow, RL!Tick
<1>2. ASSUME NEW t \in Tasks PROVE ~RL!FailOpen(t)
  BY <1>1 DEF RL!FailOpen, RL!At, Counted, HasRead
<1>3. ASSUME NEW t \in Tasks, RL!Refuse(t) PROVE Counted'
  <2>1. Requesting(t) /\ RL!Done(t) /\ UNCHANGED <<limiter, bucket, now, admitted>> /\ now \in Nat
    BY <1>1, <1>3, TicksAreFinite DEF RL!Refuse, RL!At, Requesting, TypedLimits
  <2> QED
    BY <1>1, <2>1, OneAtWork, NothingWritten
<1>4. CASE RL!Tick
  <2>1. now \in Nat /\ now' \in Nat /\ now =< now' /\ UNCHANGED <<limiter, bucket, admitted, task>>
    BY <1>1, <1>4, TicksAreFinite DEF RL!Tick, TypedLimits
  <2>2. /\ \A t, u \in Tasks : Requesting(t)' /\ Requesting(u)' => t = u
        /\ \A t \in Tasks : HasRead(t)'
    BY <1>1, <2>1 DEF Counted, Requesting, HasRead, Kept
  <2> QED
    BY <1>1, <2>1, <2>2, NothingWritten
<1> QED
  BY <1>1, <1>2, <1>3, <1>4, ReadCounts, InsertCounts, RestartCounts, TrackCounts DEF RL!Next

LEMMA LimitBegins ==
  ASSUME RL!Init
  PROVE  LimitInv
<1>1. TypedLimits
  BY LimitInit, TypedLimitsDef
<1>2. \A i \in Buckets : ~Kept(i)
  BY DEF RL!Init, RL!None, Kept
<1>3. \A t \in Tasks : task[t].pc = "idle"
  BY DEF RL!Init, RL!Idle
<1>4. \A j \in RL!Time : admitted[j] = 0
  BY DEF RL!Init
<1>5. WithinMax(admitted, RL!PerWindow)
  <2> SUFFICES ASSUME NEW k \in RL!Time PROVE Total(admitted, Around(k)) =< 2 * RL!PerWindow - 1
    BY DEF WithinMax
  <2>1. Around(k) \in SUBSET RL!Time /\ admitted \in [RL!Time -> Nat]
    BY <1>1, TicksAreFinite DEF TypedLimits
  <2>2. Total(admitted, Around(k)) = 0
    BY <1>4, <2>1, NothingCounted
  <2> QED
    BY <1>1, <2>2, PerWindowType
<1> QED
  BY <1>1, <1>2, <1>3, <1>4, <1>5 DEF LimitInv, Counted, OneRow, Requesting, HasRead

LEMMA LimitHolds == LimitInv => RL!AdmittedWithinMax
<1> SUFFICES ASSUME LimitInv, faults = {}, NEW k \in RL!Time
             PROVE  Total(admitted, Around(k)) < 2 * RL!PerWindow
  BY DEF RL!AdmittedWithinMax, RL!MapThenSumSet, RL!MapThenFoldSet, Total, MapThenSumSet,
    MapThenFoldSet, Around
<1>1. /\ admitted \in [RL!Time -> Nat] /\ RL!PerWindow \in Nat \ {0}
      /\ Total(admitted, Around(k)) =< 2 * RL!PerWindow - 1
  BY PerWindowType DEF LimitInv, TypedLimits, Counted, WithinMax
<1>2. Total(admitted, Around(k)) \in Int
  BY <1>1, CountsOf, TicksAreFinite
<1> QED
  BY <1>1, <1>2

LEMMA LimitsInvariant == Spec => [](part = "limits" => LimitInv)
<1>1. Init => (part = "limits" => LimitInv)
  BY LimitBegins DEF Init
<1>2. (part = "limits" => LimitInv) /\ [Next]_vars => (part = "limits" => LimitInv)'
  <2> SUFFICES ASSUME part = "limits" => LimitInv, [Next]_vars, part' = "limits"
               PROVE  LimitInv'
    OBVIOUS
  <2>1. CASE Next
    <3>1. LimitInv /\ RL!Next
      BY <2>1 DEF Next
    <3>2. RL!TypeOK'
      BY <3>1, LimitStep, TypedLimitsDef DEF LimitInv
    <3>3. TypedLimits'
      BY <3>2, TypedLimitsDef, PTL
    <3> QED
      BY <3>1, <3>3, LimitKept
  <2>2. CASE UNCHANGED vars
    BY <2>2 DEF vars, limitsOwn, LimitInv, TypedLimits, Counted, OneRow, Requesting, HasRead,
      Kept, RL!PerWindow
  <2> QED
    BY <2>1, <2>2
<1> QED
  BY <1>1, <1>2, PTL DEF Spec

\* When requests do not overlap and the table answers, no stretch as long as a window
\* admits what two windows may, for any maximum, window, block and horizon
\* (checkAndTrack, consumeBucket).
THEOREM LimitersAdmitWithinMax == Spec => []AdmittedWithinMax
<1>1. (part = "limits" => LimitInv) => AdmittedWithinMax
  BY LimitHolds DEF AdmittedWithinMax
<1> QED
  BY <1>1, LimitsInvariant, PTL

(***************************************************************************)
(* Deposits.  A webhook alone at work on a deposit takes it from phase to  *)
(* phase, and every phase says how often the deposit was credited and      *)
(* debited; the balance covers the deposits that were credited and not     *)
(* taken back.                                                             *)
(***************************************************************************)

Kind(d, k) == inbox[<<d, k>>]
\* Where a deposit stands when a webhook of it is at pc ("idle" if none is).
OncePhase(d, pc) ==
  /\ route[d] = "internal" =>
       /\ credits[d] =< 1
       /\ pc = "credit" => status[d] = "pending"
       /\ pc # "complete" /\ status[d] \in {"absent", "pending"} => credits[d] = 0
  /\ route[d] = "liquidated" =>
       /\ pc = "idle"
       /\ \A k \in VA!Kinds \ {"liquidated"} : Kind(d, k) = 0
       /\ "repeat" \notin faults =>
            credits[d] + Kind(d, "liquidated") =< (IF bridge[d] = "none" THEN 0 ELSE 1)
  /\ route[d] # "liquidated" => Kind(d, "liquidated") = 0
InternalPhase(d, pc) ==
  /\ pc \notin {"sweepIn", "sweepOut"}
  /\ bridge[d] = "none" => status[d] = "absent" /\ pc = "idle" /\ Kind(d, "received") = 0
  /\ Kind(d, "processed") > 0 => delivered[d]
  /\ Kind(d, "refunded") > 0 => bridge[d] = "refunded"
  /\ delivered[d] => bridge[d] \in {"processed", "flight", "refunded", "refundFailed"}
  /\ status[d] \in {"absent", "pending", "completed", "refunded"}
  /\ status[d] = "absent" => pc \in {"idle", "insert"} /\ credits[d] = 0 /\ debits[d] = 0
  /\ pc = "insert" => status[d] = "absent"
  /\ bridge[d] # "none" /\ Kind(d, "received") = 0 /\ pc # "insert" => status[d] # "absent"
  /\ status[d] = "pending" => debits[d] = 0 /\ (pc # "complete" => credits[d] = 0)
  /\ pc = "credit" => status[d] = "pending" /\ delivered[d]
  /\ pc = "complete" => status[d] = "pending" /\ credits[d] = 1 /\ delivered[d]
  /\ status[d] = "completed" =>
       credits[d] = 1 /\ delivered[d] /\ (pc # "refund" => debits[d] = 0)
  /\ status[d] = "refunded" => credits[d] = debits[d]
  /\ pc = "reverse" => status[d] = "completed"
  /\ pc = "refund" => credits[d] = debits[d]
  /\ pc \in {"reverse", "refund"} \/ status[d] = "refunded" =>
       bridge[d] = "refunded" /\ Kind(d, "processed") = 0
  /\ delivered[d] /\ Kind(d, "processed") = 0 /\ pc \notin {"credit", "complete"} =>
       status[d] \in {"completed", "refunded"}
  /\ bridge[d] = "refunded" /\ Kind(d, "refunded") = 0 /\ pc \notin {"reverse", "refund"} =>
       status[d] = "refunded"
SweptPhase(d, pc) ==
  /\ pc \notin {"credit", "complete", "reverse"}
  /\ status[d] \in {"absent", "swept_external", "refunded"}
  /\ credits[d] = debits[d] + (IF pc = "sweepOut" THEN 1 ELSE 0)
LiquidatedPhase(d, pc) ==
  /\ pc = "idle" /\ debits[d] = 0
  /\ bridge[d] \in {"none", "liquidated"}
  /\ delivered[d] <=> bridge[d] = "liquidated"
  /\ "repeat" \notin faults =>
       credits[d] + Kind(d, "liquidated") = (IF bridge[d] = "none" THEN 0 ELSE 1)
ExactPhase(d, pc) ==
  /\ route[d] = "internal" => InternalPhase(d, pc)
  /\ route[d] = "swept" => SweptPhase(d, pc)
  /\ route[d] = "liquidated" => LiquidatedPhase(d, pc)
Phase(d, pc) ==
  /\ OncePhase(d, pc)
  /\ faults \subseteq {"repeat"} => ExactPhase(d, pc)
Busy(t) == task[t].pc # "idle"
Taken == {d \in Deposits : route[d] = "internal" /\ credits[d] > debits[d]}
Exclusive ==
  \A t, u \in Tasks : Busy(t) /\ Busy(u) /\ task[t].d = task[u].d => t = u
Steady ==
  /\ Exclusive
  /\ \A d \in Deposits :
       (\A t \in Tasks : Busy(t) => task[t].d # d) => Phase(d, "idle")
  /\ \A t \in Tasks : Busy(t) => Phase(task[t].d, task[t].pc)
Delivery ==
  /\ \A d \in Deposits :
       /\ Kind(d, "processed") + Kind(d, "liquidated") > 0 => delivered[d]
       /\ route[d] # "swept" /\ credits[d] > 0 => delivered[d]
  /\ \A t \in Tasks : /\ task[t].pc = "credit" => delivered[task[t].d]
                      /\ task[t].pc \in {"sweepIn", "sweepOut"} => route[task[t].d] = "swept"
Funded == IsFiniteSet(Taken) /\ bal.available >= Net * Cardinality(Taken)
ArrivalInv ==
  /\ VA!TypeOK
  /\ bal.reserved = 0
  /\ Delivery
  /\ faults \cap {"overlap", "crash"} = {} => Steady
  /\ faults \subseteq {"repeat"} => Funded

LEMMA ArrivalConstants == Net \in Nat \ {0} /\ VA!Idle.pc = "idle" /\ VA!Idle.d \in Deposits
BY InstancesAssumption DEF VA!DepositsAssumption, VA!NetAssumption, VA!Idle

LEMMA ArrivalKinds ==
  /\ DOMAIN VA!Rank = {"none", "received", "review", "submitted", "processed", "flight",
                       "refunded", "refundFailed", "liquidated"}
  /\ VA!Kinds = {"received", "review", "submitted", "processed", "flight",
                 "refunded", "refundFailed", "liquidated"}
  /\ VA!Rank["received"] < VA!Rank["processed"]
  /\ VA!Rank["received"] < VA!Rank["refunded"]
  /\ VA!Rank["processed"] < VA!Rank["refunded"]
<1>1. DOMAIN VA!Rank = {"none", "received", "review", "submitted", "processed", "flight",
                       "refunded", "refundFailed", "liquidated"}
  BY DEF VA!Rank
<1>2. VA!Kinds = {"received", "review", "submitted", "processed", "flight",
                 "refunded", "refundFailed", "liquidated"}
  BY <1>1 DEF VA!Kinds
<1> QED
  BY <1>1, <1>2 DEF VA!Rank

LEMMA ArrivalInit == VA!Init => ArrivalInv
<1> SUFFICES ASSUME VA!Init PROVE ArrivalInv
  OBVIOUS
<1> USE ArrivalConstants, ArrivalKinds DEF VA!Init
<1>1. VA!TypeOK /\ bal.reserved = 0
  BY DEF VA!TypeOK, VA!Balance, VA!Statuses, VA!Closed, VA!Pcs, VA!Idle
<1>2. Delivery
  BY DEF Delivery, Kind
<1>3. Steady
  <2>1. \A t \in Tasks : ~Busy(t)
    BY DEF Busy
  <2>2. ASSUME NEW d \in Deposits PROVE Phase(d, "idle")
    <3>1. \A k \in VA!Kinds : Kind(d, k) = 0
      BY DEF Kind
    <3>2. /\ status[d] = "absent" /\ credits[d] = 0 /\ debits[d] = 0
          /\ bridge[d] = "none" /\ delivered[d] = FALSE
      OBVIOUS
    <3>3. OncePhase(d, "idle")
      BY <3>1, <3>2 DEF OncePhase
    <3>4. InternalPhase(d, "idle")
      BY <3>1, <3>2 DEF InternalPhase
    <3>5. SweptPhase(d, "idle") /\ LiquidatedPhase(d, "idle")
      BY <3>1, <3>2 DEF SweptPhase, LiquidatedPhase
    <3> QED
      BY <3>3, <3>4, <3>5 DEF Phase, ExactPhase
  <2> QED
    BY <2>1, <2>2 DEF Steady, Exclusive
<1>4. Taken = {}
  BY DEF Taken
<1>5. Funded
  BY <1>1, <1>4, FS_EmptySet DEF Funded
<1> QED
  BY <1>1, <1>2, <1>3, <1>5 DEF ArrivalInv

(***************************************************************************)
(* What a step does to one deposit, the others hold.                       *)
(***************************************************************************)
Alike(d) ==
  /\ route'[d] = route[d] /\ status'[d] = status[d] /\ bridge'[d] = bridge[d]
  /\ credits'[d] = credits[d] /\ debits'[d] = debits[d] /\ delivered'[d] = delivered[d]
  /\ \A k \in VA!Kinds : inbox'[<<d, k>>] = inbox[<<d, k>>]
  /\ faults' = faults
LEMMA AlikeKeeps ==
  ASSUME NEW d, NEW pc, Alike(d), Phase(d, pc)
  PROVE  Phase(d, pc)'
<1> USE ArrivalKinds DEF Alike, Phase, Kind
<1>1. OncePhase(d, pc)'
  BY DEF OncePhase
<1>2. InternalPhase(d, pc) => InternalPhase(d, pc)'
  BY DEF InternalPhase
<1>3. SweptPhase(d, pc) => SweptPhase(d, pc)'
  BY DEF SweptPhase
<1>4. LiquidatedPhase(d, pc) => LiquidatedPhase(d, pc)'
  BY DEF LiquidatedPhase
<1>5. ExactPhase(d, pc) => ExactPhase(d, pc)'
  BY <1>2, <1>3, <1>4 DEF ExactPhase
<1> QED
  BY <1>1, <1>5

LEMMA StepKept ==
  ASSUME VA!TypeOK, Steady, NEW t \in Tasks, Busy(t), NEW d \in Deposits, task[t].d = d,
         NEW pc, task'[t].pc = pc, pc # "idle" => task'[t].d = d,
         \A u \in Tasks : u # t => task'[u] = task[u],
         \A e \in Deposits : e # d => Alike(e),
         Phase(d, pc)'
  PROVE  Steady'
<1>1. Exclusive'
  BY DEF Steady, Exclusive, Busy
<1>2. ASSUME NEW e \in Deposits, \A u \in Tasks : (Busy(u) => task[u].d # e)'
      PROVE Phase(e, "idle")'
  BY <1>2, AlikeKeeps DEF Steady, Busy
<1>3. ASSUME NEW u \in Tasks, Busy(u)'
      PROVE Phase(task[u].d, task[u].pc)'
  <2>1. CASE u = t
    BY <1>3, <2>1 DEF Busy
  <2>2. CASE u # t
    <3>1. task'[u] = task[u] /\ task[u].d # d /\ Phase(task[u].d, task[u].pc)
      BY <1>3, <2>2 DEF Steady, Exclusive, Busy
    <3>2. PICK e \in Deposits, q \in VA!Pcs : e = task[u].d /\ q = task[u].pc
      BY <3>1 DEF VA!TypeOK
    <3>3. Phase(e, q)'
      BY <3>1, <3>2, AlikeKeeps
    <3> QED
      BY <3>1, <3>2, <3>3
  <2> QED
    BY <2>1, <2>2
<1> QED
  BY <1>1, <1>2, <1>3 DEF Steady

LEMMA BeginKept ==
  ASSUME VA!TypeOK, Steady, NEW t \in Tasks, ~Busy(t), NEW d \in Deposits,
         \A u \in Tasks : Busy(u) => task[u].d # d,
         NEW pc, task'[t].pc = pc, pc # "idle" => task'[t].d = d,
         \A u \in Tasks : u # t => task'[u] = task[u],
         \A e \in Deposits : e # d => Alike(e),
         Phase(d, pc)'
  PROVE  Steady'
<1>1. Exclusive'
  BY DEF Steady, Exclusive, Busy
<1>2. ASSUME NEW e \in Deposits, \A u \in Tasks : (Busy(u) => task[u].d # e)'
      PROVE Phase(e, "idle")'
  BY <1>2, AlikeKeeps DEF Steady, Busy
<1>3. ASSUME NEW u \in Tasks, Busy(u)'
      PROVE Phase(task[u].d, task[u].pc)'
  <2>1. CASE u = t
    BY <1>3, <2>1 DEF Busy
  <2>2. CASE u # t
    <3>1. task'[u] = task[u] /\ task[u].d # d /\ Phase(task[u].d, task[u].pc)
      BY <1>3, <2>2 DEF Steady, Exclusive, Busy
    <3>2. PICK e \in Deposits, q \in VA!Pcs : e = task[u].d /\ q = task[u].pc
      BY <3>1 DEF VA!TypeOK
    <3>3. Phase(e, q)'
      BY <3>1, <3>2, AlikeKeeps
    <3> QED
      BY <3>1, <3>2, <3>3
  <2> QED
    BY <2>1, <2>2
<1> QED
  BY <1>1, <1>2, <1>3 DEF Steady

LEMMA MoveKept ==
  ASSUME VA!TypeOK, Steady, NEW d \in Deposits, task' = task,
         \A e \in Deposits : e # d => Alike(e),
         \A pc \in VA!Pcs : Phase(d, pc) => Phase(d, pc)'
  PROVE  Steady'
<1>1. Exclusive'
  BY DEF Steady, Exclusive, Busy
<1>2. ASSUME NEW e \in Deposits, NEW pc \in VA!Pcs, Phase(e, pc)
      PROVE Phase(e, pc)'
  BY <1>2, AlikeKeeps
<1>3. "idle" \in VA!Pcs
  BY DEF VA!Pcs
<1>4. ASSUME NEW u \in Tasks, Busy(u)'
      PROVE Phase(task[u].d, task[u].pc)'
  <2>1. PICK e \in Deposits, q \in VA!Pcs : e = task[u].d /\ q = task[u].pc
    BY DEF VA!TypeOK
  <2>2. Phase(e, q)
    BY <1>4, <2>1 DEF Steady, Busy
  <2> QED
    BY <1>2, <2>1, <2>2
<1>5. ASSUME NEW e \in Deposits, \A u \in Tasks : (Busy(u) => task[u].d # e)'
      PROVE Phase(e, "idle")'
  BY <1>2, <1>3, <1>5 DEF Steady, Busy
<1> QED
  BY <1>1, <1>4, <1>5 DEF Steady

LEMMA Goes ==
  ASSUME VA!TypeOK, NEW t \in Tasks, NEW pc \in VA!Pcs, VA!Goto(t, pc)
  PROVE  /\ task' \in [Tasks -> [pc : VA!Pcs, d : Deposits]]
         /\ task'[t].pc = pc /\ (pc # "idle" => task'[t].d = task[t].d)
         /\ \A u \in Tasks : u # t => task'[u] = task[u]
<1>1. [pc |-> pc, d |-> task[t].d] \in [pc : VA!Pcs, d : Deposits]
  BY DEF VA!TypeOK
<1>2. VA!Idle \in [pc : VA!Pcs, d : Deposits] /\ VA!Idle.pc = "idle"
  BY ArrivalConstants DEF VA!Idle, VA!Pcs
<1> QED
  BY <1>1, <1>2 DEF VA!Goto, VA!TypeOK

Begun(t, d, kind, pc) ==
  /\ task' \in [Tasks -> [pc : VA!Pcs, d : Deposits]] /\ ~Busy(t)
  /\ task'[t].pc = pc /\ (pc # "idle" => task'[t].d = d)
  /\ \A u \in Tasks : u # t => task'[u] = task[u]
  /\ "overlap" \notin faults => \A u \in Tasks : Busy(u) => task[u].d # d
  /\ inbox[<<d, kind>>] > 0 /\ inbox' = [inbox EXCEPT ![<<d, kind>>] = @ - 1]
  /\ inbox' \in [Deposits \X VA!Kinds -> Nat]
  /\ UNCHANGED <<bridge, delivered, faults>>
  /\ "reorder" \notin faults =>
       \A k \in VA!Kinds : VA!Rank[k] < VA!Rank[kind] => inbox[<<d, k>>] = 0
LEMMA Begins ==
  ASSUME VA!TypeOK, NEW t \in Tasks, NEW d \in Deposits, NEW kind \in VA!Kinds,
         NEW pc \in VA!Pcs, VA!Begin(t, d, kind, pc)
  PROVE  Begun(t, d, kind, pc)
<1>1. [pc |-> pc, d |-> d] \in [pc : VA!Pcs, d : Deposits]
  OBVIOUS
<1>2. VA!Idle \in [pc : VA!Pcs, d : Deposits] /\ VA!Idle.pc = "idle"
  BY ArrivalConstants DEF VA!Idle, VA!Pcs
<1>3. inbox[<<d, kind>>] > 0 /\ inbox' = [inbox EXCEPT ![<<d, kind>>] = @ - 1]
  BY DEF VA!Begin, VA!Take
<1>4. inbox' \in [Deposits \X VA!Kinds -> Nat]
  BY <1>3 DEF VA!TypeOK
<1> QED
  BY <1>1, <1>2, <1>3, <1>4 DEF VA!Begin, VA!Take, VA!Free, VA!At, VA!TypeOK, Busy,
    Begun

LEMMA Took ==
  ASSUME VA!TypeOK, NEW t, NEW d \in Deposits, NEW kind \in VA!Kinds, NEW pc,
         Begun(t, d, kind, pc)
  PROVE  /\ \A e \in Deposits, k \in VA!Kinds :
              /\ inbox[<<e, k>>] \in Nat /\ inbox'[<<e, k>>] \in Nat
              /\ inbox'[<<e, k>>] = IF e = d /\ k = kind THEN inbox[<<e, k>>] - 1 ELSE inbox[<<e, k>>]
         /\ inbox[<<d, kind>>] > 0
<1> USE DEF Begun
<1>1. inbox[<<d, kind>>] > 0 /\ inbox' = [inbox EXCEPT ![<<d, kind>>] = @ - 1]
      /\ inbox' \in [Deposits \X VA!Kinds -> Nat]
  OBVIOUS
<1>2. inbox \in [Deposits \X VA!Kinds -> Nat]
  BY DEF VA!TypeOK
<1>3. ASSUME NEW e \in Deposits, NEW k \in VA!Kinds
      PROVE /\ inbox[<<e, k>>] \in Nat /\ inbox'[<<e, k>>] \in Nat
            /\ inbox'[<<e, k>>] = IF e = d /\ k = kind THEN inbox[<<e, k>>] - 1 ELSE inbox[<<e, k>>]
  <2>1. <<e, k>> \in Deposits \X VA!Kinds
    OBVIOUS
  <2>2. <<e, k>> = <<d, kind>> <=> e = d /\ k = kind
    OBVIOUS
  <2> QED
    BY <1>1, <1>2, <2>1, <2>2
<1> QED
  BY <1>1, <1>3

LEMMA Multiples == \A n, c \in Nat : n * (c + 1) = n * c + n /\ n * c \in Nat
OBVIOUS

LEMMA FundedByOne ==
  ASSUME VA!TypeOK, Funded, NEW d, Taken' \subseteq Taken \cup {d},
         bal'.available = bal.available + Net
  PROVE  Funded'
<1>1. IsFiniteSet(Taken \cup {d}) /\ Cardinality(Taken \cup {d}) <= Cardinality(Taken) + 1
  <2>1. IsFiniteSet(Taken) /\ Cardinality(Taken) \in Nat
    BY FS_CardinalityType DEF Funded
  <2>2. IsFiniteSet(Taken \cup {d})
        /\ Cardinality(Taken \cup {d}) =
             IF d \in Taken THEN Cardinality(Taken) ELSE Cardinality(Taken) + 1
    BY <2>1, FS_AddElement
  <2> QED
    BY <2>1, <2>2
<1>2. IsFiniteSet(Taken') /\ Cardinality(Taken') <= Cardinality(Taken) + 1
  BY <1>1, FS_Subset, FS_CardinalityType DEF Funded
<1>3. Cardinality(Taken) \in Nat /\ Cardinality(Taken') \in Nat
  BY <1>2, FS_CardinalityType DEF Funded
<1>4. Net * Cardinality(Taken') <= Net * Cardinality(Taken) + Net
  BY <1>2, <1>3, ArrivalConstants
<1>5. bal.available \in Nat /\ bal.available >= Net * Cardinality(Taken)
  BY DEF Funded, VA!TypeOK, VA!Balance
<1>6. Net * Cardinality(Taken) \in Nat /\ Net * Cardinality(Taken') \in Nat
  BY <1>3, ArrivalConstants, Multiples
<1>7. bal'.available >= Net * Cardinality(Taken')
  BY <1>4, <1>5, <1>6, ArrivalConstants
<1> QED
  BY <1>2, <1>7 DEF Funded

LEMMA OneLess ==
  ASSUME VA!TypeOK, Funded, NEW d \in Taken
  PROVE  /\ bal.available >= Net
         /\ Taken' = Taken \ {d} /\ bal'.available = bal.available - Net => Funded'
<1>1. IsFiniteSet(Taken \ {d}) /\ Cardinality(Taken \ {d}) = Cardinality(Taken) - 1
  BY FS_RemoveElement DEF Funded
<1>2. Cardinality(Taken) \in Nat /\ Cardinality(Taken \ {d}) \in Nat
  BY <1>1, FS_CardinalityType DEF Funded
<1>3. /\ Net * Cardinality(Taken) = Net * Cardinality(Taken \ {d}) + Net
      /\ Net * Cardinality(Taken \ {d}) \in Nat
  BY <1>1, <1>2, ArrivalConstants, Multiples
<1>4. bal.available \in Nat /\ bal.available >= Net * Cardinality(Taken)
  BY DEF Funded, VA!TypeOK, VA!Balance
<1>5. bal.available >= Net
  BY <1>3, <1>4, ArrivalConstants
<1>6. ASSUME Taken' = Taken \ {d}, bal'.available = bal.available - Net PROVE Funded'
  <2>1. bal'.available >= Net * Cardinality(Taken \ {d})
    BY <1>3, <1>4, <1>6, ArrivalConstants
  <2> QED
    BY <1>1, <1>6, <2>1 DEF Funded
<1> QED
  BY <1>5, <1>6

\* What a webhook at pc does to its deposit before it goes on at next.
SameMoney(d) == credits'[d] = credits[d] /\ debits'[d] = debits[d] /\ bal' = bal
Inserted(d, new) ==
  \/ status[d] = "absent" /\ status'[d] = new
  \/ (status[d] # "absent" \/ "dbError" \in faults) /\ status'[d] = status[d]
Written(d, pc, next) ==
  \/ /\ pc = "insert" /\ next = "idle" /\ route[d] # "swept"
     /\ Inserted(d, "pending") /\ SameMoney(d)
  \/ /\ pc = "insert" /\ next = "sweepIn" /\ route[d] = "swept"
     /\ Inserted(d, "swept_external") /\ SameMoney(d)
  \/ /\ pc = "sweepIn" /\ next = "sweepOut" /\ status'[d] = status[d]
     /\ debits'[d] = debits[d] /\ bal' = bal
     /\ \/ credits'[d] = credits[d] + 1
        \/ credits'[d] = credits[d] /\ "dbError" \in faults
  \/ /\ pc = "sweepOut" /\ next = "idle" /\ status'[d] = status[d]
     /\ credits'[d] = credits[d] /\ bal' = bal
     /\ \/ debits'[d] = debits[d] + 1
        \/ debits'[d] = debits[d] /\ "dbError" \in faults
  \/ pc = "late" /\ next = "idle" /\ status'[d] = status[d] /\ SameMoney(d)
  \/ /\ pc = "credit" /\ next = "complete" /\ status'[d] = status[d]
     /\ debits'[d] = debits[d]
     /\ \/ credits'[d] = credits[d] + 1 /\ bal' = VA!Posted(bal, Net)
        \/ SameMoney(d) /\ "dbError" \in faults
  \/ pc = "complete" /\ next = "idle" /\ status'[d] = "completed" /\ SameMoney(d)
  \/ /\ pc = "reverse" /\ next = "refund" /\ status'[d] = status[d]
     /\ credits'[d] = credits[d]
     /\ \/ debits'[d] = debits[d] + 1 /\ bal' = VA!Posted(bal, -Net)
        \/ SameMoney(d) /\ ("dbError" \in faults \/ ~VA!Postable(bal, -Net))
  \/ pc = "refund" /\ next = "idle" /\ status'[d] = "refunded" /\ SameMoney(d)
OnlyDeposit(d) ==
  /\ UNCHANGED <<route, bridge, delivered, inbox, faults>>
  /\ status' \in [Deposits -> VA!Statuses] /\ step' \in [Deposits -> DOMAIN VA!Rank]
  /\ credits' \in [Deposits -> Nat] /\ debits' \in [Deposits -> Nat]
  /\ bal' \in VA!Balance /\ bal'.reserved = 0
  /\ \A e \in Deposits : e # d =>
       status'[e] = status[e] /\ credits'[e] = credits[e] /\ debits'[e] = debits[e]

LEMMA StepWrites ==
  ASSUME VA!TypeOK, bal.reserved = 0, NEW t \in Tasks, VA!Step(t),
         NEW d \in Deposits, d = task[t].d
  PROVE  \E next \in VA!Pcs :
           VA!Goto(t, next) /\ OnlyDeposit(d) /\ Written(d, task[t].pc, next)
<1> USE DEF VA!TypeOK, VA!orderVars, VA!moneyVars, VA!bridgeVars, VA!At, VA!Done, VA!Pcs,
      Written, OnlyDeposit
<1>1. /\ VA!Posted(bal, Net) \in VA!Balance /\ VA!Posted(bal, Net).reserved = 0
      /\ VA!Posted(bal, Net) # bal
      /\ VA!Postable(bal, -Net) =>
           /\ VA!Posted(bal, -Net) \in VA!Balance /\ VA!Posted(bal, -Net).reserved = 0
  BY ArrivalConstants DEF VA!Posted, VA!Postable, VA!Balance, VA!AtMost, VA!AtLeast
<1>2. {"pending", "swept_external", "completed", "refunded"} \subseteq VA!Statuses
      /\ {"received", "processed", "refunded"} \subseteq DOMAIN VA!Rank
  BY ArrivalKinds DEF VA!Statuses, VA!Closed
<1>3. CASE VA!InsertPending(t)
  <2>1. \/ status[d] = "absent" /\ VA!SetStatus(d, "pending", "received")
        \/ (status[d] # "absent" \/ "dbError" \in faults) /\ UNCHANGED VA!orderVars
    BY <1>3 DEF VA!InsertPending
  <2>2. OnlyDeposit(d) /\ Inserted(d, "pending") /\ SameMoney(d)
    BY <1>2, <1>3, <2>1 DEF VA!InsertPending, VA!SetStatus, Inserted, SameMoney
  <2> QED
    BY <1>3, <2>2 DEF VA!InsertPending
<1>4. CASE VA!InsertSwept(t)
  <2>1. \/ status[d] = "absent" /\ VA!SetStatus(d, "swept_external", "processed")
        \/ (status[d] # "absent" \/ "dbError" \in faults) /\ UNCHANGED VA!orderVars
    BY <1>4 DEF VA!InsertSwept
  <2>2. OnlyDeposit(d) /\ Inserted(d, "swept_external") /\ SameMoney(d)
    BY <1>2, <1>4, <2>1 DEF VA!InsertSwept, VA!SetStatus, Inserted, SameMoney
  <2> QED
    BY <1>4, <2>2 DEF VA!InsertSwept
<1>5. CASE VA!SweepIn(t)
  BY <1>5 DEF VA!SweepIn, VA!Book
<1>6. CASE VA!SweepOut(t)
  BY <1>6 DEF VA!SweepOut, VA!Book
<1>7. CASE VA!Late(t)
  BY <1>2, <1>7 DEF VA!Late, SameMoney
<1>8. CASE VA!Credit(t)
  <2>1. \/ credits' = [credits EXCEPT ![d] = @ + 1] /\ bal' = VA!Posted(bal, Net)
        \/ UNCHANGED <<credits, bal>> /\ "dbError" \in faults
    BY <1>8 DEF VA!Credit, VA!Book
  <2> QED
    BY <1>1, <1>8, <2>1 DEF VA!Credit, SameMoney
<1>9. CASE VA!Complete(t)
  BY <1>2, <1>9 DEF VA!Complete, VA!SetStatus, SameMoney
<1>10. CASE VA!Reverse(t)
  <2>1. \/ /\ debits' = [debits EXCEPT ![d] = @ + 1] /\ bal' = VA!Posted(bal, -Net)
           /\ VA!Postable(bal, -Net)
        \/ /\ UNCHANGED <<debits, bal>>
           /\ "dbError" \in faults \/ ~VA!Postable(bal, -Net)
    BY <1>10 DEF VA!Reverse, VA!Book
  <2> QED
    BY <1>1, <1>10, <2>1 DEF VA!Reverse, SameMoney
<1>11. CASE VA!Refund(t)
  BY <1>2, <1>11 DEF VA!Refund, VA!SetStatus, SameMoney
<1> QED
  BY <1>3, <1>4, <1>5, <1>6, <1>7, <1>8, <1>9, <1>10, <1>11 DEF VA!Step

\* A deposit whose credit is to be taken back is one the balance covers.
LEMMA TakesBack ==
  ASSUME VA!TypeOK, bal.reserved = 0, Funded, NEW d \in Deposits, route[d] = "internal",
         ExactPhase(d, "reverse")
  PROVE  d \in Taken /\ VA!Postable(bal, -Net) /\ bal.available >= Net
<1>1. d \in Taken
  BY DEF Taken, ExactPhase, InternalPhase, VA!TypeOK
<1> QED
  BY <1>1, OneLess, ArrivalConstants
  DEF VA!Postable, VA!Posted, VA!AtMost, VA!TypeOK, VA!Balance

LEMMA ArrivalTaskStep ==
  ASSUME ArrivalInv, NEW t \in Tasks, VA!Step(t)
  PROVE  ArrivalInv'
<1>1. VA!TypeOK /\ bal.reserved = 0 /\ Delivery
  BY DEF ArrivalInv
<1>2. PICK d \in Deposits, pc \in VA!Pcs : d = task[t].d /\ pc = task[t].pc
  BY <1>1 DEF VA!TypeOK
<1>3. PICK next \in VA!Pcs : VA!Goto(t, next) /\ OnlyDeposit(d) /\ Written(d, pc, next)
  BY <1>1, <1>2, StepWrites
<1>4. /\ task' \in [Tasks -> [pc : VA!Pcs, d : Deposits]]
      /\ task'[t].pc = next /\ (next # "idle" => task'[t].d = d)
      /\ \A u \in Tasks : u # t => task'[u] = task[u]
  BY <1>1, <1>2, <1>3, Goes
<1>5. (VA!TypeOK /\ bal.reserved = 0)'
  BY <1>1, <1>3, <1>4 DEF OnlyDeposit, VA!TypeOK
<1>6. /\ UNCHANGED <<route, bridge, delivered, inbox, faults>>
      /\ \A e \in Deposits : e # d =>
           status'[e] = status[e] /\ credits'[e] = credits[e] /\ debits'[e] = debits[e]
      /\ credits[d] \in Nat /\ debits[d] \in Nat
  BY <1>1, <1>3 DEF OnlyDeposit, VA!TypeOK
<1>7. Busy(t)
  BY <1>2, <1>3 DEF Written, Busy
<1>8. Delivery'
  <2>1. /\ pc = "credit" => delivered[d]
        /\ pc \in {"sweepIn", "sweepOut"} => route[d] = "swept"
    BY <1>1, <1>2 DEF Delivery
  <2>2. credits'[d] = credits[d] \/ pc \in {"sweepIn", "credit"}
    BY <1>3 DEF Written, SameMoney
  <2>3. next # "credit" /\ (next \in {"sweepIn", "sweepOut"} => route[d] = "swept")
    BY <1>3, <2>1 DEF Written
  <2>4. ASSUME NEW e \in Deposits, route[e] # "swept", credits'[e] > 0 PROVE delivered[e]
    BY <1>1, <1>6, <2>1, <2>2, <2>4 DEF Delivery
  <2>5. \A e \in Deposits :
          (Kind(e, "processed") + Kind(e, "liquidated") > 0 => delivered[e])'
    BY <1>1, <1>6 DEF Delivery, Kind
  <2>6. \A u \in Tasks :
          /\ (task[u].pc = "credit" => delivered[task[u].d])'
          /\ (task[u].pc \in {"sweepIn", "sweepOut"} => route[task[u].d] = "swept")'
    BY <1>1, <1>4, <1>6, <2>3 DEF Delivery
  <2> QED
    BY <1>6, <2>4, <2>5, <2>6 DEF Delivery
<1>9. ASSUME faults' \subseteq {"repeat"}
      PROVE  Funded /\ ExactPhase(d, pc) /\ "dbError" \notin faults
  BY <1>2, <1>6, <1>7, <1>9 DEF ArrivalInv, Steady, Phase
<1>10. ASSUME faults' \cap {"overlap", "crash"} = {} PROVE Steady'
  <2>1. Steady /\ Phase(d, pc)
    BY <1>2, <1>6, <1>7, <1>10 DEF ArrivalInv, Steady
  <2>2. \A e \in Deposits : e # d => Alike(e)
    BY <1>6 DEF Alike
  <2>3. OncePhase(d, next)'
    <3>1. OncePhase(d, pc) /\ (pc \in {"sweepIn", "sweepOut"} => route[d] = "swept")
      BY <1>1, <1>2, <2>1 DEF Phase, Delivery
    <3>2. CASE route[d] = "internal"
      BY <1>3, <1>6, <3>1, <3>2 DEF OncePhase, Kind, Written, Inserted, SameMoney
    <3>3. CASE route[d] = "liquidated"
      BY <1>3, <1>6, <3>1, <3>3 DEF OncePhase, Written
    <3>4. CASE route[d] \notin {"internal", "liquidated"}
      BY <1>6, <3>1, <3>4 DEF OncePhase, Kind
    <3> QED
      BY <3>2, <3>3, <3>4
  <2>4. ASSUME faults \subseteq {"repeat"} PROVE ExactPhase(d, next)'
    <3>1. Funded /\ ExactPhase(d, pc) /\ "dbError" \notin faults
      BY <1>6, <1>9, <2>4
    <3>2. ASSUME route[d] = "internal" PROVE InternalPhase(d, next)'
      <4>1. InternalPhase(d, pc)
        BY <3>1, <3>2 DEF ExactPhase
      <4>2. CASE pc = "reverse"
        <5>1. VA!Postable(bal, -Net)
          BY <1>1, <3>1, <3>2, <4>2, TakesBack
        <5> QED
          BY <1>3, <1>6, <3>1, <4>1, <4>2, <5>1 DEF InternalPhase, Kind, Written
      <4>3. CASE pc # "reverse"
        BY <1>3, <1>6, <3>1, <3>2, <4>1, <4>3
        DEF InternalPhase, Kind, Written, Inserted, SameMoney
      <4> QED
        BY <4>2, <4>3
    <3>3. ASSUME route[d] = "swept" PROVE SweptPhase(d, next)'
      <4>1. SweptPhase(d, pc)
        BY <3>1, <3>3 DEF ExactPhase
      <4> QED
        BY <1>3, <1>6, <3>1, <3>3, <4>1 DEF SweptPhase, Written, Inserted, SameMoney
    <3>4. route[d] # "liquidated"
      BY <1>2, <1>7, <3>1 DEF ExactPhase, LiquidatedPhase, Busy
    <3> QED
      BY <1>6, <3>2, <3>3, <3>4 DEF ExactPhase
  <2>5. Phase(d, next)'
    BY <1>6, <2>1, <2>3, <2>4 DEF Phase
  <2> QED
    BY <1>1, <1>2, <1>4, <1>7, <2>1, <2>2, <2>5, StepKept
<1>11. ASSUME faults' \subseteq {"repeat"} PROVE Funded'
  <2>1. Funded /\ ExactPhase(d, pc) /\ "dbError" \notin faults
    BY <1>9, <1>11
  <2>2. CASE pc = "credit"
    <3>1. credits'[d] = credits[d] + 1 /\ debits'[d] = debits[d] /\ bal' = VA!Posted(bal, Net)
      BY <1>3, <2>1, <2>2 DEF Written
    <3>2. bal'.available = bal.available + Net
      BY <1>1, <3>1, ArrivalConstants DEF VA!Posted, VA!TypeOK, VA!Balance
    <3>3. Taken' \subseteq Taken \cup {d}
      BY <1>6 DEF Taken
    <3> QED
      BY <1>1, <2>1, <3>2, <3>3, FundedByOne
  <2>3. CASE pc = "reverse"
    <3>1. route[d] = "internal"
      BY <1>1, <2>1, <2>3 DEF ExactPhase, SweptPhase, LiquidatedPhase, VA!TypeOK
    <3>2. d \in Taken /\ VA!Postable(bal, -Net) /\ bal.available >= Net
      BY <1>1, <2>1, <2>3, <3>1, TakesBack
    <3>3. credits'[d] = credits[d] /\ debits'[d] = debits[d] + 1 /\ bal' = VA!Posted(bal, -Net)
      BY <1>3, <2>1, <2>3, <3>2 DEF Written
    <3>4. bal'.available = bal.available - Net
      BY <1>1, <3>2, <3>3, ArrivalConstants DEF VA!Posted, VA!AtMost, VA!TypeOK,
        VA!Balance
    <3>5. credits[d] = 1 /\ debits[d] = 0
      BY <2>1, <2>3, <3>1 DEF ExactPhase, InternalPhase
    <3>6. Taken' = Taken \ {d}
      BY <1>6, <3>3, <3>5 DEF Taken
    <3> QED
      BY <1>1, <2>1, <3>2, <3>4, <3>6, OneLess
  <2>4. CASE pc \notin {"credit", "reverse"}
    <3>1. bal' = bal
      BY <1>3, <2>4 DEF Written, SameMoney
    <3>2. route[d] = "internal" => credits'[d] = credits[d] /\ debits'[d] = debits[d]
      BY <1>3, <2>1, <2>4 DEF Written, SameMoney, ExactPhase, InternalPhase
    <3>3. Taken' = Taken
      BY <1>6, <3>2 DEF Taken
    <3> QED
      BY <2>1, <3>1, <3>3 DEF Funded
  <2> QED
    BY <2>2, <2>3, <2>4
<1> QED
  BY <1>5, <1>8, <1>10, <1>11 DEF ArrivalInv

\* What a webhook of kind makes of a deposit before its first write: how it goes on,
\* and at most one credit, of a liquidation.
Onward(d, kind, pc) ==
  \/ kind = "received" /\ pc = (IF status[d] = "absent" THEN "insert" ELSE "idle")
  \/ kind = "processed" /\ pc = (IF status[d] = "pending" THEN "credit" ELSE "late")
  \/ kind = "refunded" /\ pc = (CASE status[d] = "absent" -> "idle"
                                  [] status[d] = "completed" -> "reverse"
                                  [] OTHER -> "refund")
  \/ kind \in VA!Notices \cup {"submitted", "liquidated"} /\ pc = "idle"
OnlyCredits(d, kind) ==
  /\ UNCHANGED <<route, status, debits>> /\ credits' \in [Deposits -> Nat]
  /\ \A f \in Deposits : f # d => credits'[f] = credits[f]
  /\ \/ credits'[d] = credits[d] /\ (kind = "liquidated" => "dbError" \in faults)
     \/ credits'[d] = credits[d] + 1 /\ kind = "liquidated"
LEMMA WebhookTaken ==
  ASSUME ArrivalInv, NEW t \in Tasks, NEW d \in Deposits, NEW kind \in VA!Kinds,
         NEW pc \in VA!Pcs, VA!Begin(t, d, kind, pc), Onward(d, kind, pc),
         OnlyCredits(d, kind)
  PROVE  /\ Delivery'
         /\ (faults \cap {"overlap", "crash"} = {} => Steady)'
<1>1. VA!TypeOK /\ Delivery
  BY DEF ArrivalInv
<1>2. Begun(t, d, kind, pc)
  BY <1>1, Begins
<1>3. /\ ~Busy(t) /\ task'[t].pc = pc /\ (pc # "idle" => task'[t].d = d)
      /\ \A u \in Tasks : u # t => task'[u] = task[u]
      /\ "overlap" \notin faults => \A u \in Tasks : Busy(u) => task[u].d # d
      /\ UNCHANGED <<bridge, delivered, faults>>
  BY <1>2 DEF Begun
<1>4. /\ \A e \in Deposits, k \in VA!Kinds :
           /\ inbox[<<e, k>>] \in Nat /\ inbox'[<<e, k>>] \in Nat
           /\ inbox'[<<e, k>>] =
                IF e = d /\ k = kind THEN inbox[<<e, k>>] - 1 ELSE inbox[<<e, k>>]
      /\ inbox[<<d, kind>>] > 0
  BY <1>1, <1>2, Took
\* The kinds that the phases count.
<1>5. /\ inbox[<<d, "received">>] \in Nat /\ inbox[<<d, "processed">>] \in Nat
      /\ inbox[<<d, "refunded">>] \in Nat /\ inbox[<<d, "liquidated">>] \in Nat
      /\ inbox'[<<d, "received">>] =
           IF kind = "received" THEN inbox[<<d, "received">>] - 1
           ELSE inbox[<<d, "received">>]
      /\ inbox'[<<d, "processed">>] =
           IF kind = "processed" THEN inbox[<<d, "processed">>] - 1
           ELSE inbox[<<d, "processed">>]
      /\ inbox'[<<d, "refunded">>] =
           IF kind = "refunded" THEN inbox[<<d, "refunded">>] - 1
           ELSE inbox[<<d, "refunded">>]
      /\ inbox'[<<d, "liquidated">>] =
           IF kind = "liquidated" THEN inbox[<<d, "liquidated">>] - 1
           ELSE inbox[<<d, "liquidated">>]
  BY <1>4, ArrivalKinds
<1>6. "reorder" \notin faults =>
        /\ kind \in {"processed", "refunded"} => inbox[<<d, "received">>] = 0
        /\ kind = "refunded" => inbox[<<d, "processed">>] = 0
  <2>1. "reorder" \notin faults =>
          \A k \in VA!Kinds : VA!Rank[k] < VA!Rank[kind] => inbox[<<d, k>>] = 0
    BY <1>2 DEF Begun
  <2> QED
    BY <2>1, ArrivalKinds
<1>7. /\ UNCHANGED <<route, status, debits>>
      /\ \A f \in Deposits : f # d => credits'[f] = credits[f]
      /\ \/ credits'[d] = credits[d] /\ (kind = "liquidated" => "dbError" \in faults)
         \/ credits'[d] = credits[d] + 1 /\ kind = "liquidated"
      /\ credits[d] \in Nat /\ credits'[d] \in Nat /\ debits[d] \in Nat
  BY <1>1 DEF OnlyCredits, VA!TypeOK
<1>8. /\ pc = "credit" => kind = "processed" /\ status[d] = "pending"
      /\ pc \notin {"sweepIn", "sweepOut", "complete"}
  BY DEF Onward
<1>9. Delivery'
  <2>1. ASSUME NEW f \in Deposits
        PROVE /\ inbox'[<<f, "processed">>] =< inbox[<<f, "processed">>]
              /\ inbox'[<<f, "liquidated">>] =< inbox[<<f, "liquidated">>]
              /\ inbox'[<<f, "processed">>] \in Nat /\ inbox[<<f, "processed">>] \in Nat
              /\ inbox'[<<f, "liquidated">>] \in Nat /\ inbox[<<f, "liquidated">>] \in Nat
    <3>1. "processed" \in VA!Kinds /\ "liquidated" \in VA!Kinds
      BY ArrivalKinds
    <3> QED
      BY <1>4, <3>1
  <2>2. ASSUME NEW f \in Deposits, route[f] # "swept", credits'[f] > 0 PROVE delivered[f]
    <3>1. CASE f # d
      BY <1>1, <1>7, <2>2, <3>1 DEF Delivery
    <3>2. CASE f = d
      BY <1>1, <1>4, <1>5, <1>7, <2>2, <3>2 DEF Delivery, Kind
    <3> QED
      BY <3>1, <3>2
  <2>3. ASSUME NEW f \in Deposits
        PROVE /\ inbox'[<<f, "processed">>] + inbox'[<<f, "liquidated">>] > 0 =>
                   delivered'[f]
              /\ route'[f] # "swept" /\ credits'[f] > 0 => delivered'[f]
    BY <1>1, <1>3, <1>7, <2>1, <2>2 DEF Delivery, Kind
  <2>4. pc = "credit" => delivered[d]
    BY <1>1, <1>4, <1>5, <1>8 DEF Delivery, Kind
  <2>5. \A u \in Tasks :
          /\ (task[u].pc = "credit" => delivered[task[u].d])'
          /\ (task[u].pc \in {"sweepIn", "sweepOut"} => route[task[u].d] = "swept")'
    BY <1>1, <1>3, <1>7, <1>8, <2>4 DEF Delivery
  <2> QED
    BY <2>3, <2>5 DEF Delivery, Kind
<1>10. ASSUME faults' \cap {"overlap", "crash"} = {} PROVE Steady'
  <2>1. /\ faults' = faults /\ Steady /\ Phase(d, "idle")
        /\ \A u \in Tasks : Busy(u) => task[u].d # d
    BY <1>1, <1>3, <1>10 DEF ArrivalInv, Steady
  <2>2. OncePhase(d, "idle")
    BY <2>1 DEF Phase
  <2>3. route[d] = "liquidated" <=> kind = "liquidated"
    BY <1>4, <2>2 DEF OncePhase, Kind
  <2>4. \A e \in Deposits : e # d => Alike(e)
    BY <1>3, <1>4, <1>7 DEF Alike
  <2>5. OncePhase(d, pc)'
    <3>1. route[d] = "liquidated" =>
            \A k \in VA!Kinds \ {"liquidated"} : inbox'[<<d, k>>] = 0
      BY <1>4, <2>2 DEF OncePhase, Kind
    <3>2. route[d] = "liquidated" /\ "repeat" \notin faults =>
            credits'[d] + inbox'[<<d, "liquidated">>]
              =< (IF bridge[d] = "none" THEN 0 ELSE 1)
      BY <1>5, <1>7, <2>2, <2>3 DEF OncePhase, Kind
    <3>3. UNCHANGED <<route, status, faults, bridge>>
      BY <1>3, <1>7
    <3> QED
      BY <1>5, <1>6, <1>7, <1>8, <2>2, <2>3, <3>1, <3>2, <3>3 DEF OncePhase, Kind,
        Onward
  <2>6. ASSUME faults \subseteq {"repeat"} PROVE ExactPhase(d, pc)'
    <3>1. ExactPhase(d, "idle") /\ "dbError" \notin faults
      BY <2>1, <2>6 DEF Phase
    <3>2. UNCHANGED <<route, status, debits, bridge, delivered, faults>>
      BY <1>3, <1>7
    <3>3. ASSUME route[d] = "internal" PROVE InternalPhase(d, pc)'
      <4>1. InternalPhase(d, "idle") /\ kind # "liquidated" /\ credits'[d] = credits[d]
        BY <1>7, <2>3, <3>1, <3>3 DEF ExactPhase
      <4>2. CASE kind = "received"
        BY <1>4, <1>5, <3>2, <4>1, <4>2 DEF InternalPhase, Kind, Onward, VA!Notices
      <4>3. CASE kind = "processed"
        BY <1>4, <1>5, <1>6, <2>6, <3>2, <4>1, <4>3
        DEF InternalPhase, Kind, Onward, VA!Notices
      <4>4. CASE kind = "refunded"
        BY <1>4, <1>5, <1>6, <2>6, <3>2, <4>1, <4>4
        DEF InternalPhase, Kind, Onward, VA!Notices
      <4>5. CASE kind \notin {"received", "processed", "refunded"}
        BY <1>5, <3>2, <4>1, <4>5 DEF InternalPhase, Kind, Onward
      <4> QED
        BY <4>2, <4>3, <4>4, <4>5
    <3>4. ASSUME route[d] = "swept" PROVE SweptPhase(d, pc)'
      <4>1. SweptPhase(d, "idle") /\ credits'[d] = credits[d]
        BY <1>7, <2>3, <3>1, <3>4 DEF ExactPhase
      <4> QED
        BY <1>7, <3>2, <4>1 DEF SweptPhase, Onward
    <3>5. ASSUME route[d] = "liquidated" PROVE LiquidatedPhase(d, pc)'
      <4>1. /\ LiquidatedPhase(d, "idle") /\ kind = "liquidated" /\ pc = "idle"
            /\ credits'[d] = credits[d] + 1
        BY <1>7, <2>3, <3>1, <3>5 DEF ExactPhase, Onward
      <4> QED
        BY <1>4, <1>5, <1>7, <3>2, <4>1 DEF LiquidatedPhase, Kind
    <3> QED
      BY <3>2, <3>3, <3>4, <3>5 DEF ExactPhase
  <2>7. Phase(d, pc)'
    BY <2>1, <2>5, <2>6 DEF Phase
  <2> QED
    BY <1>1, <1>3, <2>1, <2>4, <2>7, BeginKept
<1> QED
  BY <1>9, <1>10

LEMMA ArrivalWebhook ==
  ASSUME ArrivalInv, NEW t \in Tasks, NEW d \in Deposits, VA!Webhook(t, d)
  PROVE  ArrivalInv'
<1>1. VA!TypeOK /\ bal.reserved = 0
  BY DEF ArrivalInv
\* All but the liquidation leave the money alone.
<1>2. ASSUME NEW kind \in VA!Kinds, NEW pc \in VA!Pcs, VA!Begin(t, d, kind, pc),
             Onward(d, kind, pc), step' \in [Deposits -> DOMAIN VA!Rank],
             kind # "liquidated", UNCHANGED <<route, status, credits, debits, bal>>
      PROVE  ArrivalInv'
  <2>1. OnlyCredits(d, kind)
    BY <1>1, <1>2 DEF OnlyCredits, VA!TypeOK
  <2>2. Delivery' /\ (faults \cap {"overlap", "crash"} = {} => Steady)'
    BY <1>2, <2>1, WebhookTaken
  <2>3. Begun(t, d, kind, pc)
    BY <1>1, <1>2, Begins
  <2>4. (VA!TypeOK /\ bal.reserved = 0)'
    BY <1>1, <1>2, <2>3 DEF VA!TypeOK, Begun
  <2>5. (faults \subseteq {"repeat"} => Funded)'
    BY <1>2, <2>3 DEF ArrivalInv, Begun, Funded, Taken
  <2> QED
    BY <2>2, <2>4, <2>5 DEF ArrivalInv
<1>3. CASE VA!FundsReceived(t, d)
  <2>1. PICK pc \in VA!Pcs : /\ VA!Begin(t, d, "received", pc)
                             /\ pc = IF status[d] = "absent" THEN "insert" ELSE "idle"
    BY <1>3 DEF VA!FundsReceived, VA!Pcs
  <2> QED
    BY <1>1, <1>2, <1>3, <2>1, ArrivalKinds
    DEF VA!FundsReceived, VA!orderVars, VA!moneyVars, Onward, VA!TypeOK
<1>4. CASE VA!PaymentSubmitted(t, d)
  <2>1. step' \in [Deposits -> DOMAIN VA!Rank]
    BY <1>1, <1>4, ArrivalKinds DEF VA!PaymentSubmitted, VA!TypeOK
  <2>2. VA!Begin(t, d, "submitted", "idle") /\ "idle" \in VA!Pcs
    BY <1>4 DEF VA!PaymentSubmitted, VA!Pcs
  <2> QED
    BY <1>2, <1>4, <2>1, <2>2, ArrivalKinds DEF VA!PaymentSubmitted, VA!moneyVars,
      Onward
<1>5. CASE VA!PaymentProcessed(t, d)
  <2>1. PICK pc \in VA!Pcs : /\ VA!Begin(t, d, "processed", pc)
                             /\ pc = IF status[d] = "pending" THEN "credit" ELSE "late"
    BY <1>5 DEF VA!PaymentProcessed, VA!Pcs
  <2> QED
    BY <1>1, <1>2, <1>5, <2>1, ArrivalKinds
    DEF VA!PaymentProcessed, VA!orderVars, VA!moneyVars, Onward, VA!TypeOK
<1>6. CASE VA!Refunded(t, d)
  <2>1. PICK pc \in VA!Pcs : /\ VA!Begin(t, d, "refunded", pc)
                             /\ pc = CASE status[d] = "absent" -> "idle"
                                       [] status[d] = "completed" -> "reverse"
                                       [] OTHER -> "refund"
    BY <1>6 DEF VA!Refunded, VA!Pcs
  <2> QED
    BY <1>1, <1>2, <1>6, <2>1, ArrivalKinds
    DEF VA!Refunded, VA!orderVars, VA!moneyVars, Onward, VA!TypeOK
<1>7. ASSUME NEW kind \in VA!Notices, VA!Notice(t, d, kind) PROVE ArrivalInv'
  <2>1. kind \in VA!Kinds /\ kind # "liquidated"
    BY ArrivalKinds DEF VA!Notices
  <2>2. step' \in [Deposits -> DOMAIN VA!Rank]
    BY <1>1, <1>7, <2>1, ArrivalKinds DEF VA!Notice, VA!TypeOK
  <2>3. VA!Begin(t, d, kind, "idle") /\ "idle" \in VA!Pcs
    BY <1>7 DEF VA!Notice, VA!Pcs
  <2> QED
    BY <1>2, <1>7, <2>1, <2>2, <2>3 DEF VA!Notice, VA!moneyVars, Onward
<1>8. CASE VA!LiquidationPayment(t, d)
  <2>1. VA!Begin(t, d, "liquidated", "idle") /\ Onward(d, "liquidated", "idle")
        /\ "idle" \in VA!Pcs /\ "liquidated" \in VA!Kinds
    BY <1>8, ArrivalKinds DEF VA!LiquidationPayment, Onward, VA!Pcs
  <2>2. OnlyCredits(d, "liquidated")
    BY <1>1, <1>8
    DEF VA!LiquidationPayment, VA!Book, VA!orderVars, OnlyCredits, VA!TypeOK
  <2>3. Delivery' /\ (faults \cap {"overlap", "crash"} = {} => Steady)'
    BY <2>1, <2>2, WebhookTaken
  <2>4. Begun(t, d, "liquidated", "idle")
    BY <1>1, <2>1, Begins
  <2>5. /\ bal' \in VA!Balance /\ bal'.reserved = 0
        /\ bal'.available >= bal.available /\ bal'.available \in Nat /\ bal.available \in Nat
    BY <1>1, <1>8, ArrivalConstants
    DEF VA!LiquidationPayment, VA!Posted, VA!AtMost, VA!AtLeast, VA!TypeOK, VA!Balance
  <2>6. (VA!TypeOK /\ bal.reserved = 0)'
    BY <1>1, <1>8, <2>2, <2>4, <2>5
    DEF VA!TypeOK, Begun, OnlyCredits, VA!LiquidationPayment, VA!orderVars
  <2>7. ASSUME faults' \subseteq {"repeat"} PROVE Funded'
    <3>1. Funded /\ Steady /\ ~Busy(t) /\ \A u \in Tasks : Busy(u) => task[u].d # d
      BY <2>4, <2>7 DEF ArrivalInv, Begun
    <3>2. Phase(d, "idle") /\ inbox[<<d, "liquidated">>] > 0
      BY <2>4, <3>1 DEF Steady, Begun
    <3>3. route[d] = "liquidated"
      BY <3>2 DEF Phase, OncePhase, Kind
    <3>4. Taken' = Taken
      BY <2>2, <3>3 DEF OnlyCredits, Taken
    <3>5. /\ IsFiniteSet(Taken) /\ Cardinality(Taken) \in Nat
          /\ bal.available >= Net * Cardinality(Taken)
      BY <3>1, FS_CardinalityType DEF Funded
    <3>6. Net * Cardinality(Taken) \in Nat
      BY <3>5, ArrivalConstants, Multiples
    <3> QED
      BY <2>5, <3>4, <3>5, <3>6 DEF Funded
  <2> QED
    BY <2>3, <2>6, <2>7 DEF ArrivalInv
<1> QED
  BY <1>3, <1>4, <1>5, <1>6, <1>7, <1>8 DEF VA!Webhook

LEMMA ArrivalMove ==
  ASSUME ArrivalInv, NEW d \in Deposits, VA!BridgeMoves(d)
  PROVE  ArrivalInv'
<1>0. VA!TypeOK /\ ArrivalInv /\ bal.reserved = 0 /\ Delivery
  BY DEF ArrivalInv
<1>1. PICK to \in VA!Kinds :
        /\ IF route[d] = "liquidated" THEN bridge[d] = "none" /\ to = "liquidated"
           ELSE <<bridge[d], to>> \in VA!Moves
        /\ bridge' = [bridge EXCEPT ![d] = to]
        /\ delivered' = [delivered EXCEPT ![d] = @ \/ to \in {"processed", "liquidated"}]
        /\ inbox' = [inbox EXCEPT ![<<d, to>>] = IF "repeat" \in faults THEN 2 ELSE 1]
  BY DEF VA!BridgeMoves
<1>2. UNCHANGED <<route, status, step, credits, debits, bal, faults, task>>
  BY DEF VA!BridgeMoves, VA!orderVars, VA!moneyVars
<1>3. PICK n \in {1, 2} : n = (IF "repeat" \in faults THEN 2 ELSE 1)
  OBVIOUS
<1>4. /\ inbox' \in [Deposits \X VA!Kinds -> Nat] /\ inbox \in [Deposits \X VA!Kinds -> Nat]
      /\ \A e \in Deposits, k \in VA!Kinds :
           inbox'[<<e, k>>] = IF e = d /\ k = to THEN n ELSE inbox[<<e, k>>]
  <2>1. inbox \in [Deposits \X VA!Kinds -> Nat]
    BY <1>0 DEF VA!TypeOK
  <2>2. inbox' = [inbox EXCEPT ![<<d, to>>] = n]
    BY <1>1, <1>3
  <2>3. inbox' \in [Deposits \X VA!Kinds -> Nat]
    BY <2>1, <2>2
  <2>4. ASSUME NEW e \in Deposits, NEW k \in VA!Kinds
        PROVE inbox'[<<e, k>>] = IF e = d /\ k = to THEN n ELSE inbox[<<e, k>>]
    <3>1. <<e, k>> = <<d, to>> <=> e = d /\ k = to
      OBVIOUS
    <3> QED
      BY <2>1, <2>2, <3>1
  <2> QED
    BY <2>1, <2>3, <2>4
<1>5. /\ bridge'[d] = to /\ (delivered'[d] <=> delivered[d] \/ to \in {"processed", "liquidated"})
      /\ \A e \in Deposits : e # d => bridge'[e] = bridge[e] /\ delivered'[e] = delivered[e]
  BY <1>0, <1>1 DEF VA!TypeOK
<1>6. (VA!TypeOK /\ bal.reserved = 0)'
  <2>1. bridge' \in [Deposits -> DOMAIN VA!Rank] /\ delivered' \in [Deposits -> BOOLEAN]
    BY <1>0, <1>1, ArrivalKinds DEF VA!TypeOK
  <2> QED
    BY <1>0, <1>2, <1>4, <2>1 DEF VA!TypeOK
<1>7. Delivery'
  <2>1. ASSUME NEW e \in Deposits
        PROVE /\ inbox'[<<e, "processed">>] + inbox'[<<e, "liquidated">>] > 0 => delivered'[e]
              /\ route'[e] # "swept" /\ credits'[e] > 0 => delivered'[e]
    <3>1. /\ inbox[<<e, "processed">>] \in Nat /\ inbox[<<e, "liquidated">>] \in Nat
          /\ inbox'[<<e, "processed">>] \in Nat /\ inbox'[<<e, "liquidated">>] \in Nat
          /\ e # d \/ to # "processed" => inbox'[<<e, "processed">>] = inbox[<<e, "processed">>]
          /\ e # d \/ to # "liquidated" => inbox'[<<e, "liquidated">>] = inbox[<<e, "liquidated">>]
      BY <1>4, ArrivalKinds
    <3>2. delivered[e] => delivered'[e]
      BY <1>5
    <3> QED
      BY <1>0, <1>2, <1>5, <3>1, <3>2 DEF Delivery, Kind
  <2>2. \A u \in Tasks : delivered[task[u].d] => delivered'[task[u].d]
    BY <1>0, <1>5 DEF VA!TypeOK
  <2> QED
    BY <1>0, <1>2, <2>1, <2>2 DEF Delivery, Kind
<1>8. ASSUME faults' \cap {"overlap", "crash"} = {} PROVE Steady'
  <2>1. Steady
    BY <1>0, <1>2, <1>8 DEF ArrivalInv
  <2>2. \A e \in Deposits : e # d => Alike(e)
    BY <1>2, <1>4, <1>5 DEF Alike
  <2>3. ASSUME NEW pc \in VA!Pcs, Phase(d, pc) PROVE Phase(d, pc)'
    <3>1. /\ inbox[<<d, "received">>] \in Nat /\ inbox[<<d, "processed">>] \in Nat
          /\ inbox[<<d, "refunded">>] \in Nat /\ inbox[<<d, "liquidated">>] \in Nat
          /\ inbox'[<<d, "received">>] = IF to = "received" THEN n ELSE inbox[<<d, "received">>]
          /\ inbox'[<<d, "processed">>] = IF to = "processed" THEN n ELSE inbox[<<d, "processed">>]
          /\ inbox'[<<d, "refunded">>] = IF to = "refunded" THEN n ELSE inbox[<<d, "refunded">>]
          /\ inbox'[<<d, "liquidated">>] =
               IF to = "liquidated" THEN n ELSE inbox[<<d, "liquidated">>]
      BY <1>4, ArrivalKinds
    <3>2. /\ OncePhase(d, pc) /\ UNCHANGED <<route, status, credits, debits, faults>>
          /\ credits[d] \in Nat /\ debits[d] \in Nat
      BY <1>0, <1>2, <2>3 DEF Phase, VA!TypeOK
    <3>3. /\ route[d] = "liquidated" => bridge[d] = "none" /\ to = "liquidated"
          /\ route[d] # "liquidated" =>
               to # "liquidated" /\ to # "none" /\ <<bridge[d], to>> \in VA!Moves
      BY <1>1 DEF VA!Moves
    <3>4. OncePhase(d, pc)'
      <4>1. route[d] = "liquidated" =>
              \A k \in VA!Kinds \ {"liquidated"} : inbox'[<<d, k>>] = 0
        BY <1>4, <3>2, <3>3 DEF OncePhase, Kind
      <4>2. (route[d] = "liquidated" /\ "repeat" \notin faults) =>
               credits'[d] + inbox'[<<d, "liquidated">>] =< 1
        BY <1>3, <3>1, <3>2, <3>3 DEF OncePhase, Kind
      <4> QED
        BY <1>5, <3>1, <3>2, <3>3, <4>1, <4>2 DEF OncePhase, Kind
    <3>5. ASSUME faults \subseteq {"repeat"} PROVE ExactPhase(d, pc)'
      <4>1. ExactPhase(d, pc)
        BY <2>3, <3>5 DEF Phase
      <4>2. route[d] = "internal" => InternalPhase(d, pc)'
        BY <1>3, <1>5, <3>1, <3>2, <3>3, <4>1 DEF ExactPhase, InternalPhase, Kind,
          VA!Moves
      <4>3. route[d] = "swept" => SweptPhase(d, pc)'
        BY <3>2, <4>1 DEF ExactPhase, SweptPhase
      <4>4. route[d] = "liquidated" => LiquidatedPhase(d, pc)'
        BY <1>3, <1>5, <3>1, <3>2, <3>3, <4>1 DEF ExactPhase, LiquidatedPhase, Kind
      <4> QED
        BY <3>2, <4>2, <4>3, <4>4 DEF ExactPhase
    <3> QED
      BY <3>2, <3>4, <3>5 DEF Phase
  <2> QED
    BY <1>0, <1>2, <2>1, <2>2, <2>3, MoveKept
<1>9. ASSUME faults' \subseteq {"repeat"} PROVE Funded'
  BY <1>0, <1>2, <1>9 DEF ArrivalInv, Funded, Taken
<1> QED
  BY <1>6, <1>7, <1>8, <1>9 DEF ArrivalInv

LEMMA ArrivalSpend ==
  ASSUME ArrivalInv, VA!Spend
  PROVE  ArrivalInv'
<1>0. VA!TypeOK /\ ArrivalInv /\ bal.reserved = 0 /\ Delivery
  BY DEF ArrivalInv
<1>1. /\ "spend" \in faults /\ bal' = VA!Posted(bal, -bal.available)
      /\ UNCHANGED <<route, status, step, credits, debits, bridge, delivered, inbox, faults, task>>
  BY DEF VA!Spend, VA!orderVars, VA!bridgeVars
<1>2. (VA!TypeOK /\ bal.reserved = 0)'
  BY <1>0, <1>1 DEF VA!TypeOK, VA!Balance, VA!Posted, VA!AtMost, VA!AtLeast
<1>3. Delivery'
  BY <1>0, <1>1 DEF Delivery, Kind
<1>4. ASSUME faults' \cap {"overlap", "crash"} = {} PROVE Steady'
  <2>1. \A e \in Deposits : Alike(e)
    BY <1>1 DEF Alike
  <2>2. Steady
    BY <1>0, <1>1, <1>4 DEF ArrivalInv
  <2> QED
    BY <1>0, <1>1, <2>1, <2>2, AlikeKeeps DEF Steady, Exclusive, Busy, VA!TypeOK
<1> QED
  BY <1>1, <1>2, <1>3, <1>4 DEF ArrivalInv

LEMMA ArrivalCrash ==
  ASSUME ArrivalInv, VA!Crash
  PROVE  ArrivalInv'
<1>0. VA!TypeOK /\ ArrivalInv /\ bal.reserved = 0 /\ Delivery
  BY DEF ArrivalInv
<1>1. /\ "crash" \in faults /\ task' = [t \in Tasks |-> VA!Idle]
      /\ UNCHANGED <<route, status, step, credits, debits, bal, bridge, delivered, inbox, faults>>
  BY DEF VA!Crash, VA!orderVars, VA!bridgeVars, VA!moneyVars
<1>2. (VA!TypeOK /\ bal.reserved = 0)'
  <2>1. VA!Idle \in [pc : VA!Pcs, d : Deposits]
    BY ArrivalConstants DEF VA!Idle, VA!Pcs
  <2> QED
    BY <1>0, <1>1, <2>1 DEF VA!TypeOK
<1>3. Delivery'
  BY <1>0, <1>1, ArrivalConstants DEF Delivery, Kind
<1> QED
  BY <1>1, <1>2, <1>3 DEF ArrivalInv

LEMMA ArrivalStep ==
  ASSUME ArrivalInv, VA!Next
  PROVE  ArrivalInv'
<1>1. ASSUME NEW t \in Tasks, VA!Step(t) PROVE ArrivalInv'
  BY <1>1, ArrivalTaskStep
<1>2. ASSUME NEW t \in Tasks, NEW d \in Deposits, VA!Webhook(t, d) PROVE ArrivalInv'
  BY <1>2, ArrivalWebhook
<1>3. ASSUME NEW d \in Deposits, VA!BridgeMoves(d) PROVE ArrivalInv'
  BY <1>3, ArrivalMove
<1> QED
  BY <1>1, <1>2, <1>3, ArrivalSpend, ArrivalCrash DEF VA!Next

LEMMA ArrivalHolds == ArrivalInv => VA!DepositsCreditedOnce /\ VA!DepositsAddUp
<1> SUFFICES ASSUME ArrivalInv PROVE VA!DepositsCreditedOnce /\ VA!DepositsAddUp
  OBVIOUS
<1>1. VA!TypeOK /\ Delivery
  BY DEF ArrivalInv
<1>2. ASSUME faults \cap {"overlap", "crash"} = {}, NEW d \in Deposits
      PROVE \E pc \in VA!Pcs : Phase(d, pc)
  <2>1. Steady
    BY <1>2 DEF ArrivalInv
  <2>2. CASE \A t \in Tasks : Busy(t) => task[t].d # d
    BY <2>1, <2>2 DEF Steady, VA!Pcs
  <2>3. CASE \E t \in Tasks : Busy(t) /\ task[t].d = d
    BY <1>1, <2>1, <2>3 DEF Steady, VA!TypeOK
  <2> QED
    BY <2>2, <2>3
<1>3. VA!DepositsCreditedOnce
  <2>1. ASSUME NEW d \in Deposits, route[d] # "swept",
               faults \cap {"overlap", "crash"} = {},
               route[d] = "liquidated" => "repeat" \notin faults
        PROVE credits[d] =< 1
    <3>1. PICK pc \in VA!Pcs : Phase(d, pc)
      BY <1>2, <2>1
    <3>2. /\ route[d] \in {"internal", "liquidated"} /\ credits[d] \in Nat
          /\ inbox[<<d, "liquidated">>] \in Nat
      BY <1>1, <2>1, ArrivalKinds DEF VA!TypeOK
    <3> QED
      BY <2>1, <3>1, <3>2 DEF Phase, OncePhase, Kind
  <2> QED
    BY <1>1, <2>1 DEF VA!DepositsCreditedOnce, VA!Internal, Delivery
<1>4. VA!DepositsAddUp
  <2>1. ASSUME faults \subseteq {"repeat"}, NEW d \in Deposits, VA!AtRest(d),
               route[d] = "liquidated" => "repeat" \notin faults
        PROVE credits[d] - debits[d] = VA!Kept(d)
    <3>1. Phase(d, "idle")
      BY <2>1 DEF ArrivalInv, Steady, VA!AtRest, VA!At, Busy
    <3>2. ExactPhase(d, "idle") /\ OncePhase(d, "idle")
      BY <2>1, <3>1 DEF Phase
    <3>3. /\ inbox[<<d, "received">>] = 0 /\ inbox[<<d, "processed">>] = 0
          /\ inbox[<<d, "refunded">>] = 0 /\ inbox[<<d, "liquidated">>] = 0
      BY <2>1, ArrivalKinds DEF VA!AtRest
    <3>4. /\ route[d] \in {"internal", "swept", "liquidated"}
          /\ credits[d] \in Nat /\ debits[d] \in Nat /\ delivered[d] \in BOOLEAN
      BY <1>1 DEF VA!TypeOK
    <3>5. VA!Kept(d) = IF route[d] # "swept" /\ delivered[d] /\ bridge[d] # "refunded"
                       THEN 1 ELSE 0
      BY DEF VA!Kept, VA!Internal
    <3>6. CASE route[d] = "internal"
      BY <3>2, <3>3, <3>4, <3>5, <3>6 DEF ExactPhase, InternalPhase, Kind
    <3>7. CASE route[d] = "swept"
      BY <3>2, <3>4, <3>5, <3>7 DEF ExactPhase, SweptPhase
    <3>8. CASE route[d] = "liquidated"
      BY <2>1, <3>2, <3>3, <3>4, <3>5, <3>8 DEF ExactPhase, LiquidatedPhase, Kind
    <3> QED
      BY <3>4, <3>6, <3>7, <3>8
  <2> QED
    BY <2>1 DEF VA!DepositsAddUp
<1> QED
  BY <1>3, <1>4

LEMMA ArrivalInvariant == Spec => [](part = "deposits" => ArrivalInv)
<1>1. Init => (part = "deposits" => ArrivalInv)
  BY ArrivalInit DEF Init
<1>2. (part = "deposits" => ArrivalInv) /\ [Next]_vars => (part = "deposits" => ArrivalInv)'
  <2> SUFFICES ASSUME part = "deposits" => ArrivalInv, [Next]_vars, part' = "deposits"
               PROVE ArrivalInv'
    OBVIOUS
  <2>1. CASE Next
    BY <2>1, ArrivalStep DEF Next
  <2>2. CASE UNCHANGED vars
    <3>1. /\ ArrivalInv /\ UNCHANGED <<route, status, step, credits, debits, bal>>
          /\ UNCHANGED <<bridge, delivered, inbox, faults, task>>
      BY <2>2 DEF vars, vaOwn, bridgeVars
    <3>2. (VA!TypeOK /\ bal.reserved = 0 /\ Delivery)'
      BY <3>1 DEF ArrivalInv, VA!TypeOK, Delivery, Kind
    <3>3. ASSUME faults \cap {"overlap", "crash"} = {} PROVE Steady'
      <4>1. (\A e \in Deposits : Alike(e)) /\ Steady /\ VA!TypeOK
        BY <3>1, <3>3 DEF ArrivalInv, Alike
      <4> QED
        BY <3>1, <4>1, AlikeKeeps DEF Steady, Exclusive, Busy, VA!TypeOK
    <3> QED
      BY <3>1, <3>2, <3>3 DEF ArrivalInv, Funded, Taken
  <2> QED
    BY <2>1, <2>2
<1> QED
  BY <1>1, <1>2, PTL DEF Spec

(***************************************************************************)
(* Drains.  A drain is paid once and to the order it was linked to.  When  *)
(* webhooks come one at a time each event is left once; when they come in  *)
(* order too, an order is linked to one drain until that drain is done.    *)
(* The oldest order is a least element of a set of numbers, which is there *)
(* because the order of the naturals is well founded.                      *)
(***************************************************************************)

LEMMA LeastOf ==
  ASSUME NEW S \in SUBSET Nat, S # {}
  PROVE  \E o \in S : \A p \in S : o =< p
<1>1. IsWellFoundedOn(OpToRel(<, Nat), Nat)
  BY NatLessThanWellFounded
<1>2. PICK o \in S : \A y \in S : ~ (<<y, o>> \in OpToRel(<, Nat))
  BY <1>1, WFMin
<1>3. ASSUME NEW y \in S PROVE o =< y
  <2>1. ~ (<<y, o>> \in OpToRel(<, Nat))
    BY <1>2
  <2>2. ~(y < o)
    BY <2>1 DEF OpToRel
  <2> QED
    BY <2>2
<1> QED
  BY <1>3

Running(t) == task[t].pc # "idle"
Left(d, k) == inbox[<<d, k>>]
\* One webhook at a time, each event once.
Sequential ==
  /\ \A t, u \in Tasks : Running(t) /\ Running(u) => t = u
  /\ \A d \in Drains :
       /\ Left(d, "processed") =< 1
       /\ Left(d, "processed") > 0 => paidBy[d] = {}
       /\ \A t \in Tasks : task[t].d = d /\ task[t].pc \in {"late", "complete"} =>
            Left(d, "processed") = 0 /\ paidBy[d] = {}
  /\ \A t \in Tasks : task[t].pc = "complete" => status[task[t].o] = "processing"
  /\ \A d \in Drains : \A o \in paidBy[d] : status[o] # "processing"
  /\ \A d, e \in Drains : \A o \in paidBy[d], p \in paidBy[e] : o = p <=> d = e
\* ... and in order.
Unlinked(d) == \A o \in DrainOrders : drain[o] # d
\* Where a drain stands, and a webhook of it at pc that goes on with order o.
Placed(d) ==
  /\ \A o \in paidBy[d] : drain[o] = d
  /\ bridge[d] = DR!None => Left(d, "created") = 0 /\ Unlinked(d)
  /\ Left(d, "created") =< 1 /\ (Left(d, "created") > 0 => Unlinked(d))
  /\ Left(d, "broken") > 0 => bridge[d] \in {"broken", "refunded"}
  /\ Left(d, "refunded") > 0 => bridge[d] = "refunded"
  /\ bridge[d] = "created" \/ Left(d, "processed") > 0 =>
       \A o \in DrainOrders : drain[o] = d => status[o] = "processing"
AtWork(d, pc, o) ==
  /\ bridge[d] # DR!None /\ Left(d, "created") = 0
  /\ pc = "link" => drain[o] = DR!None /\ status[o] = "processing" /\ Unlinked(d)
  /\ pc = "late" => Unlinked(d)
  /\ pc = "complete" =>
       /\ drain[o] \in {DR!None, d}
       /\ \A p \in DrainOrders : drain[p] = d => p = o
  /\ pc = "fail" =>
       /\ drain[o] = d /\ bridge[d] \in {"broken", "refunded"}
       /\ Left(d, "processed") = 0
Ordered ==
  /\ \A o, p \in DrainOrders : drain[o] = drain[p] /\ drain[o] # DR!None => o = p
  /\ \A d \in Drains : Placed(d)
  /\ \A t \in Tasks : Running(t) => AtWork(task[t].d, task[t].pc, task[t].o)
Payments ==
  /\ \A d \in Drains : /\ Left(d, "processed") > 0 \/ paidBy[d] # {} => d \in paid
                       /\ d \in paid => bridge[d] \in {"processed", "broken", "refunded"}
  /\ \A t \in Tasks : /\ task[t].pc \in {"late", "complete"} => task[t].d \in paid
                      /\ task[t].pc \notin {"idle", "late"} => task[t].o \in DrainOrders
DrainInv ==
  /\ DR!TypeOK
  /\ Payments
  /\ faults \subseteq {"reorder", "crash"} => Sequential
  /\ faults \subseteq {"crash"} => Ordered

LEMMA DrainConstants ==
  /\ DrainOrders \subseteq Nat /\ 0 \notin DrainOrders /\ DR!None \notin Drains
  /\ DR!Idle \in [pc : DR!Pcs, d : Drains, o : DrainOrders \cup {0}] /\ DR!Idle.pc = "idle"
  /\ \A d \in Drains : SameAddress[d] \subseteq DrainOrders /\ SameAmount[d] \subseteq DrainOrders
BY InstancesAssumption DEF DR!OrdersAssumption, DR!DrainsAssumption, DR!FitsAssumption,
  DR!Idle, DR!Pcs

LEMMA OldestIn == ASSUME NEW S \in SUBSET DrainOrders, S # {} PROVE DR!Oldest(S) \in S
<1>1. \E o \in S : \A p \in S : o =< p
  BY DrainConstants, LeastOf
<1> QED
  BY <1>1 DEF DR!Oldest

LEMMA MatchOpen ==
  ASSUME NEW d \in Drains
  PROVE  DR!Match(d) = 0 \/ (/\ DR!Match(d) \in DrainOrders /\ drain[DR!Match(d)] = DR!None
                             /\ status[DR!Match(d)] = "processing")
<1>1. DR!Open \subseteq DrainOrders /\ \A o \in DR!Open : drain[o] = DR!None /\ status[o] = "processing"
  BY DEF DR!Open
<1>2. CASE SameAddress[d] \cap DR!Open # {}
  <2>1. DR!Match(d) = DR!Oldest(SameAddress[d] \cap DR!Open)
    BY <1>2 DEF DR!Match
  <2> QED
    BY <1>1, <1>2, <2>1, OldestIn
<1>3. CASE SameAddress[d] \cap DR!Open = {} /\ SameAmount[d] \cap DR!Open # {}
  <2>1. DR!Match(d) = DR!Oldest(SameAmount[d] \cap DR!Open)
    BY <1>3 DEF DR!Match
  <2> QED
    BY <1>1, <1>3, <2>1, OldestIn
<1>4. CASE SameAddress[d] \cap DR!Open = {} /\ SameAmount[d] \cap DR!Open = {}
  BY <1>4 DEF DR!Match
<1> QED
  BY <1>2, <1>3, <1>4

LEMMA DrainCardinality == \A S : DR!Cardinality(S) = Cardinality(S)
BY DEF DR!Cardinality, Cardinality

LEMMA SingleIn ==
  ASSUME NEW S \in SUBSET DrainOrders
  PROVE  /\ DR!Single(S) = 0 \/ DR!Single(S) \in S
         /\ \A o \in S : (\A p \in S : o = p) => DR!Single(S) = o
<1>1. Cardinality({}) = 0 /\ \A o : Cardinality({o}) = 1
  BY FS_EmptySet, FS_Singleton
<1>2. ASSUME Cardinality(S) = 1 PROVE DR!Single(S) = DR!Oldest(S) /\ DR!Oldest(S) \in S
  BY <1>1, <1>2, DrainCardinality, OldestIn DEF DR!Single
<1>3. ASSUME NEW o \in S, \A p \in S : o = p PROVE DR!Single(S) = o
  <2>1. S = {o}
    BY <1>3
  <2> QED
    BY <1>1, <1>2, <2>1
<1>4. Cardinality(S) # 1 => DR!Single(S) = 0
  BY DrainCardinality DEF DR!Single
<1> QED
  BY <1>2, <1>3, <1>4

LEMMA DrainInit == DR!Init => DrainInv
<1> SUFFICES ASSUME DR!Init PROVE DrainInv
  OBVIOUS
<1>1. DR!TypeOK
  BY DrainConstants DEF DR!Init, DR!TypeOK, DR!Kinds, DR!Terminal
<1>2. \A d \in Drains : /\ Left(d, "processed") = 0 /\ Left(d, "created") = 0
                        /\ Left(d, "broken") = 0 /\ Left(d, "refunded") = 0
                        /\ paidBy[d] = {} /\ bridge[d] = "none"
  BY DEF DR!Init, DR!Kinds, DR!None, Left
<1>3. (\A t \in Tasks : task[t].pc = "idle") /\ paid = {}
  BY DrainConstants DEF DR!Init
<1>4. \A o \in DrainOrders : drain[o] = "none" /\ "none" \notin Drains
  BY DrainConstants DEF DR!Init, DR!None
<1>5. Payments
  BY <1>2, <1>3 DEF Payments
<1>6. Sequential
  BY <1>2, <1>3 DEF Sequential, Running
<1>7. Ordered
  BY <1>2, <1>3, <1>4 DEF Ordered, Running, Placed, Unlinked, DR!None
<1> QED
  BY <1>1, <1>5, <1>6, <1>7 DEF DrainInv

LEMMA Lefts ==
  ASSUME DR!TypeOK
  PROVE  \A d \in Drains, k \in DR!Kinds : Left(d, k) \in Nat
BY DEF DR!TypeOK, Left

LEMMA Starts ==
  ASSUME DR!TypeOK, NEW t \in Tasks, NEW d \in Drains, NEW pc \in DR!Pcs,
         NEW o \in DrainOrders \cup {0}, DR!Start(t, pc, d, o)
  PROVE  /\ task' \in [Tasks -> [pc : DR!Pcs, d : Drains, o : DrainOrders \cup {0}]]
         /\ task'[t].pc = pc /\ (pc # "idle" => task'[t].d = d /\ task'[t].o = o)
         /\ \A u \in Tasks : u # t => task'[u] = task[u]
<1>1. [pc |-> pc, d |-> d, o |-> o] \in [pc : DR!Pcs, d : Drains, o : DrainOrders \cup {0}]
  OBVIOUS
<1> QED
  BY <1>1, DrainConstants DEF DR!Start, DR!TypeOK

LEMMA Ends ==
  ASSUME DR!TypeOK, NEW t \in Tasks, DR!Done(t)
  PROVE  /\ task' \in [Tasks -> [pc : DR!Pcs, d : Drains, o : DrainOrders \cup {0}]]
         /\ task'[t].pc = "idle"
         /\ \A u \in Tasks : u # t => task'[u] = task[u]
BY DrainConstants DEF DR!Done, DR!TypeOK

\* What the taking of a webhook does.
Handed(t, d, kind, pc, o) ==
  /\ task' \in [Tasks -> [pc : DR!Pcs, d : Drains, o : DrainOrders \cup {0}]]
  /\ task'[t].pc = pc /\ (pc # "idle" => task'[t].d = d /\ task'[t].o = o)
  /\ \A u \in Tasks : u # t => task'[u] = task[u]
  /\ task[t].pc = "idle"
  /\ "overlap" \notin faults => \A u \in Tasks : ~Running(u)
  /\ inbox' \in [Drains \X DR!Kinds -> Nat]
  /\ \A e \in Drains, k \in DR!Kinds :
       Left(e, k)' = IF e = d /\ k = kind THEN Left(e, k) - 1 ELSE Left(e, k)
  /\ Left(d, kind) > 0
  /\ "reorder" \notin faults =>
       \A k \in DR!Kinds : DR!Rank[k] < DR!Rank[kind] => Left(d, k) = 0
  /\ UNCHANGED <<bridge, paid, faults>>
LEMMA Takes ==
  ASSUME DR!TypeOK, NEW t \in Tasks, NEW d \in Drains, NEW kind \in DR!Kinds, NEW pc \in DR!Pcs,
         NEW o \in DrainOrders \cup {0}, DR!Take(t, d, kind, pc, o)
  PROVE  Handed(t, d, kind, pc, o)
<1>1. inbox[<<d, kind>>] > 0 /\ inbox' = [inbox EXCEPT ![<<d, kind>>] = @ - 1]
  BY DEF DR!Take
<1>2. inbox \in [Drains \X DR!Kinds -> Nat]
  BY DEF DR!TypeOK
<1>3. inbox' \in [Drains \X DR!Kinds -> Nat]
  BY <1>1, <1>2
<1>4. ASSUME NEW e \in Drains, NEW k \in DR!Kinds
      PROVE inbox'[<<e, k>>] =
              IF e = d /\ k = kind THEN inbox[<<e, k>>] - 1 ELSE inbox[<<e, k>>]
  <2>1. <<e, k>> \in Drains \X DR!Kinds /\ (<<e, k>> = <<d, kind>> <=> e = d /\ k = kind)
    OBVIOUS
  <2> QED
    BY <1>1, <1>2, <2>1
<1>5. /\ task' \in [Tasks -> [pc : DR!Pcs, d : Drains, o : DrainOrders \cup {0}]]
      /\ task'[t].pc = pc /\ (pc # "idle" => task'[t].d = d /\ task'[t].o = o)
      /\ \A u \in Tasks : u # t => task'[u] = task[u]
  BY Starts DEF DR!Take
<1>6. /\ task[t].pc = "idle"
      /\ "overlap" \notin faults => \A u \in Tasks : ~Running(u)
      /\ UNCHANGED <<bridge, paid, faults>>
  BY DEF DR!Take, DR!Free, DR!At, Running
<1>7. "reorder" \notin faults =>
        \A k \in DR!Kinds : DR!Rank[k] < DR!Rank[kind] => inbox[<<d, k>>] = 0
  BY DEF DR!Take
<1> QED
  BY <1>1, <1>3, <1>4, <1>5, <1>6, <1>7 DEF Handed, Left

LEMMA DrainKinds ==
  /\ DR!Kinds = {"created", "processed", "broken", "refunded"}
  /\ DR!Rank["created"] < DR!Rank["processed"] /\ DR!Rank["created"] < DR!Rank["broken"]
  /\ DR!Rank["created"] < DR!Rank["refunded"] /\ DR!Rank["processed"] < DR!Rank["broken"]
  /\ DR!Rank["processed"] < DR!Rank["refunded"]
BY DEF DR!Kinds, DR!Rank

\* A webhook that is taken and goes on at pc with order o, having seen that it may.
Seen(d, kind, pc, o) ==
  /\ pc \notin {"idle", "late"} => o \in DrainOrders
  /\ pc \in {"late", "complete"} => kind = "processed"
  /\ pc = "complete" => status[o] = "processing" /\ drain[o] = d
  /\ pc = "link" => kind = "created" /\ drain[o] = DR!None /\ status[o] = "processing"
  /\ pc = "late" /\ faults \subseteq {"crash"} => Unlinked(d)
  /\ pc = "fail" => kind = "broken" /\ drain[o] = d
LEMMA HandedKeeps ==
  ASSUME DrainInv, NEW t \in Tasks, NEW d \in Drains, NEW kind \in DR!Kinds,
         NEW pc \in DR!Pcs, NEW o \in DrainOrders \cup {0}, Handed(t, d, kind, pc, o),
         Seen(d, kind, pc, o), UNCHANGED <<status, drain, noted, paidBy>>
  PROVE  DrainInv'
<1>0. DR!TypeOK /\ Payments
  BY DEF DrainInv
<1>1. DR!TypeOK'
  BY <1>0 DEF DR!TypeOK, Handed
<1>2. /\ Left(d, "processed") \in Nat /\ Left(d, "created") \in Nat
      /\ Left(d, "broken") \in Nat /\ Left(d, "refunded") \in Nat
      /\ \A e \in Drains : /\ Left(e, "processed") \in Nat /\ Left(e, "created") \in Nat
                           /\ Left(e, "broken") \in Nat /\ Left(e, "refunded") \in Nat
  BY <1>0, Lefts, DrainKinds
<1>3. /\ \A e \in Drains :
           /\ Left(e, "processed")' =
                IF e = d /\ kind = "processed" THEN Left(e, "processed") - 1 ELSE Left(e, "processed")
           /\ Left(e, "created")' =
                IF e = d /\ kind = "created" THEN Left(e, "created") - 1 ELSE Left(e, "created")
           /\ Left(e, "broken")' =
                IF e = d /\ kind = "broken" THEN Left(e, "broken") - 1 ELSE Left(e, "broken")
           /\ Left(e, "refunded")' =
                IF e = d /\ kind = "refunded" THEN Left(e, "refunded") - 1 ELSE Left(e, "refunded")
      /\ Left(d, kind) > 0
      /\ "reorder" \notin faults =>
           /\ kind # "created" => Left(d, "created") = 0
           /\ kind \in {"broken", "refunded"} => Left(d, "processed") = 0
  BY DrainKinds DEF Handed
<1>4. /\ task'[t].pc = pc /\ (pc # "idle" => task'[t].d = d /\ task'[t].o = o)
      /\ \A u \in Tasks : u # t => task'[u] = task[u]
      /\ "overlap" \notin faults => \A u \in Tasks : ~Running(u)
      /\ UNCHANGED <<bridge, paid, faults>>
  BY DEF Handed
<1>5. Payments'
  <2>1. \A e \in Drains :
          /\ Left(e, "processed")' > 0 \/ paidBy'[e] # {} => e \in paid'
          /\ e \in paid' => bridge'[e] \in {"processed", "broken", "refunded"}
    BY <1>0, <1>2, <1>3, <1>4 DEF Payments
  <2>2. pc \in {"late", "complete"} => d \in paid
    BY <1>0, <1>3 DEF Payments, Seen
  <2>3. \A u \in Tasks : /\ task'[u].pc \in {"late", "complete"} => task'[u].d \in paid'
                         /\ task'[u].pc \notin {"idle", "late"} => task'[u].o \in DrainOrders
    BY <1>0, <1>4, <2>2 DEF Payments, Seen
  <2> QED
    BY <2>1, <2>3 DEF Payments
<1>6. ASSUME faults' \subseteq {"reorder", "crash"} PROVE Sequential'
  <2>1. /\ Sequential
        /\ \A u \in Tasks : u # t => task'[u].pc = "idle"
    BY <1>4, <1>6 DEF DrainInv, Running
  <2>2. \A u, v \in Tasks : Running(u)' /\ Running(v)' => u = v
    BY <2>1 DEF Running
  <2>3. ASSUME NEW e \in Drains
        PROVE /\ Left(e, "processed")' =< 1
              /\ Left(e, "processed")' > 0 => paidBy'[e] = {}
              /\ e = d /\ kind = "processed" => Left(e, "processed")' = 0 /\ paidBy'[e] = {}
    BY <1>2, <1>3, <2>1 DEF Sequential
  <2>4. \A u \in Tasks : task'[u].pc = "complete" => status'[task'[u].o] = "processing"
    BY <1>4, <2>1 DEF Seen
  <2>5. \A u \in Tasks, e \in Drains :
          task'[u].d = e /\ task'[u].pc \in {"late", "complete"} =>
            Left(e, "processed")' = 0 /\ paidBy'[e] = {}
    BY <1>4, <2>1, <2>3 DEF Seen
  <2> QED
    BY <2>1, <2>2, <2>3, <2>4, <2>5 DEF Sequential
<1>7. ASSUME faults' \subseteq {"crash"} PROVE Ordered'
  <2>1. /\ Ordered /\ Sequential /\ "reorder" \notin faults
        /\ \A u \in Tasks : u # t => task'[u].pc = "idle"
    BY <1>4, <1>7 DEF DrainInv, Running
  <2>2. ASSUME NEW e \in Drains PROVE Placed(e)'
    <3>1. Placed(e)
      BY <2>1 DEF Ordered
    <3> QED
      BY <1>2, <1>3, <1>4, <3>1 DEF Placed, Unlinked
  <2>3. ASSUME pc # "idle" PROVE AtWork(d, pc, o)'
    <3>1. Placed(d) /\ \A p, q \in DrainOrders : drain[p] = drain[q] /\ drain[p] # DR!None => p = q
      BY <2>1 DEF Ordered
    <3>2. Left(d, "created")' = 0 /\ bridge[d] # DR!None
      BY <1>0, <1>2, <1>3, <2>1, <3>1, DrainKinds DEF Placed, Payments, DR!None
    <3>3. pc = "link" => drain[o] = DR!None /\ status[o] = "processing" /\ Unlinked(d)
      BY <1>3, <3>1 DEF Placed, Seen
    <3>4. pc = "late" => Unlinked(d)
      BY <1>4, <1>7 DEF Seen
    <3>5. pc = "complete" => /\ drain[o] \in {DR!None, d}
                             /\ \A p \in DrainOrders : drain[p] = d => p = o
      BY <3>1, DrainConstants DEF Seen
    <3>6. pc = "fail" => /\ drain[o] = d /\ bridge[d] \in {"broken", "refunded"}
                         /\ Left(d, "processed")' = 0
      BY <1>3, <2>1, <3>1 DEF Placed, Seen
    <3> QED
      BY <1>4, <3>2, <3>3, <3>4, <3>5, <3>6 DEF AtWork, Unlinked
  <2>4. \A u \in Tasks : Running(u)' => AtWork(task[u].d, task[u].pc, task[u].o)'
    BY <1>4, <2>1, <2>3 DEF Running
  <2> QED
    BY <2>1, <2>2, <2>4 DEF Ordered
<1> QED
  BY <1>1, <1>5, <1>6, <1>7 DEF DrainInv

LEMMA DrainWebhook ==
  ASSUME DrainInv, NEW t \in Tasks, NEW d \in Drains, DR!Webhook(t, d)
  PROVE  DrainInv'
<1>0. DR!TypeOK
  BY DEF DrainInv
<1>1. {"idle", "link", "late", "complete", "fail", "note"} \subseteq DR!Pcs
  BY DEF DR!Pcs
<1>2. DR!Linked(d) \subseteq DrainOrders /\ \A o \in DrainOrders : o \in DR!Linked(d) <=> drain[o] = d
  BY DEF DR!Linked
<1>3. CASE DR!DrainCreated(t, d)
  <2>1. PICK o \in DrainOrders \cup {0} : o = DR!Match(d)
    BY MatchOpen
  <2>2. PICK pc \in {"idle", "link"} : pc = (IF o = 0 THEN "idle" ELSE "link")
    OBVIOUS
  <2>3. /\ DR!Take(t, d, "created", pc, o)
        /\ UNCHANGED <<status, drain, noted, paidBy>>
    BY <1>3, <2>1, <2>2 DEF DR!DrainCreated, DR!orderVars
  <2>4. Handed(t, d, "created", pc, o)
    BY <1>0, <1>1, <2>3, Takes, DrainKinds
  <2>5. Seen(d, "created", pc, o)
    BY <2>1, <2>2, MatchOpen, DrainConstants DEF Seen
  <2> QED
    BY <1>1, <2>3, <2>4, <2>5, HandedKeeps, DrainKinds
<1>4. CASE DR!DrainProcessed(t, d)
  <2> DEFINE S == {p \in DR!Linked(d) : status[p] = "processing"}
  <2>1. PICK o \in DrainOrders \cup {0} : o = DR!Single(S) /\ (o # 0 => o \in S)
    BY <1>2, SingleIn
  <2>2. PICK pc \in {"late", "complete"} : pc = (IF o = 0 THEN "late" ELSE "complete")
    OBVIOUS
  <2>3. /\ DR!Take(t, d, "processed", pc, o)
        /\ UNCHANGED <<status, drain, noted, paidBy>>
    BY <1>4, <2>1, <2>2 DEF DR!DrainProcessed, DR!orderVars
  <2>4. Handed(t, d, "processed", pc, o)
    BY <1>0, <1>1, <2>3, Takes, DrainKinds
  <2>5. ASSUME o = 0, faults \subseteq {"crash"}, NEW p \in DrainOrders, drain[p] = d
        PROVE FALSE
    <3>1. Ordered /\ Placed(d) /\ Left(d, "processed") > 0
      BY <2>4, <2>5 DEF DrainInv, Ordered, Handed
    <3>2. p \in S
      BY <1>2, <2>5, <3>1 DEF Placed
    <3>3. \A q \in S : p = q
      BY <1>2, <2>5, <3>1, DrainConstants DEF Ordered
    <3>4. DR!Single(S) = p
      BY <1>2, <3>2, <3>3, SingleIn
    <3> QED
      BY <2>1, <2>5, <3>4, DrainConstants
  <2>6. Seen(d, "processed", pc, o)
    BY <1>2, <2>1, <2>2, <2>5 DEF Seen, Unlinked
  <2> QED
    BY <1>1, <2>3, <2>4, <2>6, HandedKeeps, DrainKinds
<1>5. PICK o \in DrainOrders \cup {0} :
        o = DR!Single(DR!Linked(d)) /\ (o # 0 => o \in DR!Linked(d))
  BY <1>2, SingleIn
<1>6. CASE DR!DrainBroken(t, d)
  <2>1. PICK pc \in {"idle", "fail"} :
          pc = IF o = 0 THEN "idle" ELSE IF status[o] \in DR!Terminal THEN "idle" ELSE "fail"
    OBVIOUS
  <2>2. /\ DR!Take(t, d, "broken", pc, o)
        /\ UNCHANGED <<status, drain, noted, paidBy>>
    BY <1>5, <1>6, <2>1 DEF DR!DrainBroken, DR!orderVars
  <2>3. Handed(t, d, "broken", pc, o)
    BY <1>0, <1>1, <2>2, Takes, DrainKinds
  <2>4. Seen(d, "broken", pc, o)
    BY <1>2, <1>5, <2>1 DEF Seen
  <2> QED
    BY <1>1, <2>2, <2>3, <2>4, HandedKeeps, DrainKinds
<1>7. CASE DR!DrainRefunded(t, d)
  <2>1. PICK pc \in {"idle", "note"} : pc = IF o = 0 THEN "idle" ELSE "note"
    OBVIOUS
  <2>2. /\ DR!Take(t, d, "refunded", pc, o)
        /\ UNCHANGED <<status, drain, noted, paidBy>>
    BY <1>5, <1>7, <2>1 DEF DR!DrainRefunded, DR!orderVars
  <2>3. Handed(t, d, "refunded", pc, o)
    BY <1>0, <1>1, <2>2, Takes, DrainKinds
  <2>4. Seen(d, "refunded", pc, o)
    BY <1>2, <1>5, <2>1 DEF Seen
  <2> QED
    BY <1>1, <2>2, <2>3, <2>4, HandedKeeps, DrainKinds
<1> QED
  BY <1>3, <1>4, <1>6, <1>7 DEF DR!Webhook

LEMMA DrainTask ==
  ASSUME DrainInv, NEW t \in Tasks, DR!Step(t)
  PROVE  DrainInv'
<1>0. DR!TypeOK /\ Payments
  BY DEF DrainInv
<1>1. PICK d \in Drains, o \in DrainOrders \cup {0}, pc \in DR!Pcs :
        d = task[t].d /\ o = task[t].o /\ pc = task[t].pc
  BY <1>0 DEF DR!TypeOK
<1>2. pc # "idle" /\ UNCHANGED <<bridge, paid, inbox, faults>>
  BY <1>1 DEF DR!Step, DR!Link, DR!LateMatch, DR!CompleteDrainOrder, DR!FailDrainOrder,
    DR!Note, DR!At, DR!bridgeVars
<1>3. /\ \A e \in Drains : UNCHANGED <<Left(e, "processed"), Left(e, "created"),
                                       Left(e, "broken"), Left(e, "refunded")>>
      /\ pc # "late" => o \in DrainOrders
      /\ pc \in {"late", "complete"} => d \in paid
  BY <1>0, <1>1, <1>2 DEF Left, Payments
<1>4. ASSUME faults' \subseteq {"reorder", "crash"}
      PROVE /\ Sequential
            /\ \A u \in Tasks : u # t => task[u].pc = "idle"
  BY <1>1, <1>2, <1>4 DEF DrainInv, Sequential, Running
<1>5. ASSUME faults' \subseteq {"crash"} PROVE Ordered /\ AtWork(d, pc, o)
  BY <1>1, <1>2, <1>5 DEF DrainInv, Ordered, Running
<1>6. CASE DR!LateMatch(t)
  <2>1. pc = "late" /\ UNCHANGED <<status, drain, noted, paidBy>>
    BY <1>1, <1>6 DEF DR!LateMatch, DR!At, DR!orderVars
  <2>2. PICK m \in DrainOrders \cup {0} : m = DR!Match(d)
    BY MatchOpen
  <2>3. PICK q \in {"idle", "complete"} : q = IF m = 0 THEN "idle" ELSE "complete"
    OBVIOUS
  <2>4. /\ task' \in [Tasks -> [pc : DR!Pcs, d : Drains, o : DrainOrders \cup {0}]]
        /\ task'[t].pc = q /\ (q # "idle" => task'[t].d = d /\ task'[t].o = m)
        /\ \A u \in Tasks : u # t => task'[u] = task[u]
    <3>1. CASE m = 0
      BY <1>0, <1>1, <1>6, <2>2, <2>3, <3>1, Ends DEF DR!LateMatch
    <3>2. CASE m # 0
      <4>1. DR!Start(t, "complete", d, m) /\ "complete" \in DR!Pcs
        BY <1>1, <1>6, <2>2, <3>2 DEF DR!LateMatch, DR!Pcs
      <4> QED
        BY <1>0, <2>3, <3>2, <4>1, Starts
    <3> QED
      BY <3>1, <3>2
  <2>5. q = "complete" =>
          m \in DrainOrders /\ drain[m] = DR!None /\ status[m] = "processing"
    BY <2>2, <2>3, MatchOpen
  <2>6. DR!TypeOK'
    BY <1>0, <1>2, <2>1, <2>4 DEF DR!TypeOK
  <2>7. Payments'
    BY <1>0, <1>2, <1>3, <2>1, <2>4, <2>5 DEF Payments
  <2>8. ASSUME faults' \subseteq {"reorder", "crash"} PROVE Sequential'
    <3>1. Sequential /\ \A u \in Tasks : u # t => task'[u].pc = "idle"
      BY <1>2, <1>4, <2>4, <2>8
    <3>2. Left(d, "processed") = 0 /\ paidBy[d] = {}
      BY <1>1, <2>1, <3>1 DEF Sequential
    <3>3. \A e \in Drains, u \in Tasks :
            task'[u].d = e /\ task'[u].pc \in {"late", "complete"} =>
              Left(e, "processed") = 0 /\ paidBy[e] = {}
      BY <2>4, <3>1, <3>2
    <3>4. \A u \in Tasks : task'[u].pc = "complete" => status[task'[u].o] = "processing"
      BY <2>4, <2>5, <3>1
    <3>5. \A u, v \in Tasks : Running(u)' /\ Running(v)' => u = v
      BY <3>1 DEF Running
    <3> QED
      BY <1>2, <1>3, <2>1, <3>1, <3>3, <3>4, <3>5 DEF Sequential
  <2>9. ASSUME faults' \subseteq {"crash"} PROVE Ordered'
    <3>1. q # "idle" => AtWork(d, q, m)'
      BY <1>2, <1>3, <1>5, <2>1, <2>5, <2>9 DEF AtWork, Unlinked
    <3>2. \A e \in Drains : Placed(e)'
      BY <1>2, <1>3, <1>5, <2>1, <2>9 DEF Ordered, Placed, Unlinked
    <3> QED
      BY <1>2, <1>4, <1>5, <2>1, <2>4, <2>9, <3>1, <3>2 DEF Ordered, Running
  <2> QED
    BY <2>6, <2>7, <2>8, <2>9 DEF DrainInv
<1>7. CASE DR!Done(t) /\ pc # "late"
  <2>1. /\ task' \in [Tasks -> [pc : DR!Pcs, d : Drains, o : DrainOrders \cup {0}]]
        /\ task'[t].pc = "idle" /\ o \in DrainOrders
        /\ \A u \in Tasks : u # t => task'[u] = task[u]
    BY <1>0, <1>3, <1>7, Ends
  <2>2. ASSUME faults' \subseteq {"reorder", "crash"},
               \A e \in Drains : \A p \in paidBy'[e] : status'[p] # "processing",
               \A e, f \in Drains : \A p \in paidBy'[e], q \in paidBy'[f] : p = q <=> e = f,
               \A e \in Drains : paidBy'[e] # {} => paidBy[e] # {} \/ (e = d /\ pc = "complete")
        PROVE Sequential'
    <3>1. Sequential /\ \A u \in Tasks : task'[u].pc = "idle"
      BY <1>2, <1>4, <2>1, <2>2
    <3>2. \A e \in Drains : Left(e, "processed") =< 1
                            /\ (Left(e, "processed") > 0 => paidBy'[e] = {})
      <4>1. pc = "complete" => Left(d, "processed") = 0
        BY <1>1, <3>1 DEF Sequential
      <4> QED
        BY <2>2, <3>1, <4>1 DEF Sequential
    <3> QED
      BY <1>3, <2>2, <3>1, <3>2 DEF Sequential, Running
  <2>3. ASSUME faults' \subseteq {"crash"},
               \A p, q \in DrainOrders : drain'[p] = drain'[q] /\ drain'[p] # DR!None => p = q,
               \A e \in Drains : Placed(e)'
        PROVE Ordered'
    BY <1>2, <1>4, <2>1, <2>3 DEF Ordered, Running
  <2>4. CASE DR!Link(t)
    <3>1. /\ pc = "link" /\ drain' = [drain EXCEPT ![o] = d] /\ UNCHANGED <<status, noted, paidBy>>
          /\ drain' \in [DrainOrders -> Drains \cup {DR!None}]
          /\ drain'[o] = d /\ \A p \in DrainOrders : p # o => drain'[p] = drain[p]
      BY <1>0, <1>1, <2>1, <2>4 DEF DR!Link, DR!At, DR!TypeOK
    <3>2. DR!TypeOK' /\ Payments'
      BY <1>0, <1>2, <1>3, <2>1, <3>1 DEF DR!TypeOK, Payments
    <3>3. ASSUME faults' \subseteq {"reorder", "crash"} PROVE Sequential'
      <4>1. Sequential
        BY <1>4, <3>3
      <4>2. \A e \in Drains : \A p \in paidBy'[e] : status'[p] # "processing"
        BY <3>1, <4>1 DEF Sequential
      <4>3. \A e, f \in Drains : \A p \in paidBy'[e], q \in paidBy'[f] : p = q <=> e = f
        BY <3>1, <4>1 DEF Sequential
      <4>4. \A e \in Drains : paidBy'[e] # {} => paidBy[e] # {} \/ (e = d /\ pc = "complete")
        BY <3>1
      <4> QED
        BY <2>2, <3>3, <4>2, <4>3, <4>4
    <3>4. ASSUME faults' \subseteq {"crash"} PROVE Ordered'
      <4>1. Sequential /\ Ordered /\ AtWork(d, pc, o)
        BY <1>4, <1>5, <3>4
      <4>2. drain[o] = DR!None /\ status[o] = "processing" /\ Unlinked(d) /\ bridge[d] # DR!None
            /\ Left(d, "created") = 0
        BY <3>1, <4>1 DEF AtWork
      <4>3. \A p, q \in DrainOrders : drain'[p] = drain'[q] /\ drain'[p] # DR!None => p = q
        BY <3>1, <4>1, <4>2 DEF Ordered, Unlinked
      <4>4. ASSUME NEW e \in Drains PROVE Placed(e)'
        <5>1. Placed(e) /\ \A p \in paidBy[e] : status[p] # "processing"
          BY <4>1 DEF Ordered, Sequential
        <5>2. \A p \in paidBy[e] : p \in DrainOrders
          BY <1>0 DEF DR!TypeOK
        <5>3. /\ \A p \in paidBy[e] : drain'[p] = e
              /\ \A p \in DrainOrders : drain'[p] = e => drain[p] = e \/ (e = d /\ p = o)
          BY <3>1, <4>2, <5>1, <5>2, DrainConstants DEF Placed
        <5>4. Left(d, "created") > 0 \/ bridge[d] = DR!None => FALSE
          BY <4>2
        <5> QED
          BY <1>2, <1>3, <3>1, <4>2, <5>1, <5>3, <5>4 DEF Placed, Unlinked
      <4> QED
        BY <2>3, <3>4, <4>3, <4>4
    <3> QED
      BY <3>2, <3>3, <3>4 DEF DrainInv
  <2>5. CASE DR!CompleteDrainOrder(t)
    <3>1. /\ pc = "complete" /\ UNCHANGED noted
          /\ drain' \in [DrainOrders -> Drains \cup {DR!None}]
          /\ status' \in [DrainOrders -> {"processing"} \cup DR!Terminal]
          /\ paidBy' \in [Drains -> SUBSET DrainOrders]
          /\ drain'[o] = d /\ \A p \in DrainOrders : p # o => drain'[p] = drain[p]
          /\ status'[o] = "completed" /\ \A p \in DrainOrders : p # o => status'[p] = status[p]
          /\ paidBy'[d] = paidBy[d] \cup {o} /\ \A e \in Drains : e # d => paidBy'[e] = paidBy[e]
      BY <1>0, <1>1, <2>1, <2>5 DEF DR!CompleteDrainOrder, DR!At, DR!TypeOK, DR!Terminal
    <3>2. DR!TypeOK'
      BY <1>0, <1>2, <2>1, <3>1 DEF DR!TypeOK
    <3>3. Payments'
      BY <1>0, <1>2, <1>3, <2>1, <3>1 DEF Payments
    <3>4. ASSUME faults' \subseteq {"reorder", "crash"}
          PROVE Sequential /\ paidBy[d] = {} /\ status[o] = "processing"
      <4>1. Sequential
        BY <1>2, <1>4, <3>4
      <4>2. task[t].pc = "complete" /\ task[t].d = d /\ task[t].o = o
        BY <1>1, <3>1
      <4>3. /\ \A u \in Tasks : task[u].d = d /\ task[u].pc \in {"late", "complete"} =>
                 paidBy[d] = {}
            /\ \A u \in Tasks : task[u].pc = "complete" => status[task[u].o] = "processing"
        BY <4>1 DEF Sequential
      <4> QED
        BY <4>1, <4>2, <4>3
    <3>5. \A e \in Drains : \A p \in paidBy[e] : p \in DrainOrders
      BY <1>0 DEF DR!TypeOK
    <3>6. ASSUME faults' \subseteq {"reorder", "crash"} PROVE Sequential'
      <4>1. ASSUME NEW e \in Drains, NEW p \in paidBy'[e]
            PROVE p \in paidBy[e] \/ (e = d /\ p = o)
        BY <3>1
      <4>2. \A e \in Drains : \A p \in paidBy[e] : p # o
        BY <3>4, <3>6 DEF Sequential
      <4>3. \A e \in Drains : \A p \in paidBy'[e] : status'[p] # "processing"
        BY <3>1, <3>4, <3>5, <3>6, <4>1 DEF Sequential
      <4>4. ASSUME NEW e \in Drains, NEW f \in Drains, NEW p \in paidBy'[e], NEW q \in paidBy'[f]
            PROVE p = q <=> e = f
        <5>1. /\ e = d => p = o
              /\ e # d => p \in paidBy[e]
              /\ f = d => q = o
              /\ f # d => q \in paidBy[f]
          BY <3>1, <3>4, <3>6, <4>4
        <5> QED
          BY <3>4, <3>6, <4>2, <5>1 DEF Sequential
      <4>5. \A e \in Drains : paidBy'[e] # {} => paidBy[e] # {} \/ (e = d /\ pc = "complete")
        BY <3>1
      <4> QED
        BY <2>2, <3>6, <4>3, <4>4, <4>5
    <3>7. ASSUME faults' \subseteq {"crash"} PROVE Ordered'
      <4>1. Sequential /\ Ordered /\ AtWork(d, pc, o) /\ paidBy[d] = {} /\ d \in paid
            /\ status[o] = "processing" /\ Left(d, "processed") = 0
        <5>1. Sequential /\ Ordered /\ AtWork(d, pc, o) /\ d \in paid
          BY <1>3, <1>4, <1>5, <3>1, <3>7
        <5>2. paidBy[d] = {} /\ status[o] = "processing"
          BY <3>4, <3>7
        <5>3. task[t].d = d /\ task[t].pc \in {"late", "complete"}
          BY <1>1, <3>1
        <5>4. Left(d, "processed") = 0
          BY <5>1, <5>3 DEF Sequential
        <5> QED
          BY <5>1, <5>2, <5>4
      <4>2. /\ drain[o] \in {DR!None, d} /\ \A p \in DrainOrders : drain[p] = d => p = o
            /\ bridge[d] # DR!None /\ Left(d, "created") = 0 /\ bridge[d] # "created"
        BY <1>0, <3>1, <4>1 DEF AtWork, Payments
      <4>3. \A p, q \in DrainOrders : drain'[p] = drain'[q] /\ drain'[p] # DR!None => p = q
        BY <3>1, <4>1, <4>2 DEF Ordered
      <4>4. ASSUME NEW e \in Drains PROVE Placed(e)'
        <5>1. Placed(e) /\ \A p \in paidBy[e] : status[p] # "processing"
          BY <4>1 DEF Ordered, Sequential
        <5>2. CASE e = d
          BY <1>2, <1>3, <3>1, <4>1, <4>2, <5>1, <5>2 DEF Placed, Unlinked
        <5>3. CASE e # d
          <6>1. \A p \in DrainOrders : drain'[p] = e <=> drain[p] = e
            BY <3>1, <4>2, <5>3, DrainConstants
          <6>2. \A p \in DrainOrders : drain[p] = e => status'[p] = status[p]
            BY <3>1, <4>2, <5>3, DrainConstants
          <6> QED
            BY <1>2, <1>3, <3>1, <3>5, <5>1, <5>3, <6>1, <6>2 DEF Placed, Unlinked
        <5> QED
          BY <5>2, <5>3
      <4> QED
        BY <2>3, <3>7, <4>3, <4>4
    <3> QED
      BY <3>2, <3>3, <3>6, <3>7 DEF DrainInv
  <2>6. CASE DR!FailDrainOrder(t)
    <3>1. /\ pc = "fail" /\ UNCHANGED <<noted, paidBy>>
          /\ drain' \in [DrainOrders -> Drains \cup {DR!None}]
          /\ status' \in [DrainOrders -> {"processing"} \cup DR!Terminal]
          /\ drain'[o] = d /\ \A p \in DrainOrders : p # o => drain'[p] = drain[p]
          /\ status'[o] = "failed" /\ \A p \in DrainOrders : p # o => status'[p] = status[p]
      BY <1>0, <1>1, <2>1, <2>6 DEF DR!FailDrainOrder, DR!At, DR!TypeOK, DR!Terminal
    <3>2. DR!TypeOK'
      BY <1>0, <1>2, <2>1, <3>1 DEF DR!TypeOK
    <3>3. Payments'
      BY <1>0, <1>2, <1>3, <2>1, <3>1 DEF Payments
    <3>4. \A e \in Drains : \A p \in paidBy[e] : p \in DrainOrders
      BY <1>0 DEF DR!TypeOK
    <3>5. ASSUME faults' \subseteq {"reorder", "crash"} PROVE Sequential'
      <4>1. Sequential
        BY <1>4, <3>5
      <4>2. \A e \in Drains : \A p \in paidBy'[e] : status'[p] # "processing"
        BY <3>1, <4>1, <3>4 DEF Sequential
      <4>3. \A e, f \in Drains : \A p \in paidBy'[e], q \in paidBy'[f] : p = q <=> e = f
        BY <3>1, <4>1 DEF Sequential
      <4>4. \A e \in Drains : paidBy'[e] # {} => paidBy[e] # {} \/ (e = d /\ pc = "complete")
        BY <3>1
      <4> QED
        BY <2>2, <3>5, <4>2, <4>3, <4>4
    <3>6. ASSUME faults' \subseteq {"crash"} PROVE Ordered'
      <4>1. Ordered /\ AtWork(d, pc, o)
        BY <1>5, <3>6
      <4>2. /\ drain[o] = d /\ bridge[d] \in {"broken", "refunded"} /\ Left(d, "processed") = 0
            /\ \A p \in DrainOrders : drain'[p] = drain[p]
        BY <3>1, <4>1 DEF AtWork
      <4>3. ASSUME NEW e \in Drains PROVE Placed(e)'
        BY <1>2, <1>3, <3>1, <3>4, <4>1, <4>2 DEF Ordered, Placed, Unlinked
      <4> QED
        BY <2>3, <3>6, <4>1, <4>2, <4>3 DEF Ordered
    <3> QED
      BY <3>2, <3>3, <3>5, <3>6 DEF DrainInv
  <2>7. CASE DR!Note(t)
    <3>1. /\ UNCHANGED <<status, drain, paidBy>> /\ noted' \in [DrainOrders -> BOOLEAN]
      BY <1>0, <2>7 DEF DR!Note, DR!TypeOK
    <3>2. DR!TypeOK' /\ Payments'
      BY <1>0, <1>2, <1>3, <2>1, <3>1 DEF DR!TypeOK, Payments
    <3>3. ASSUME faults' \subseteq {"reorder", "crash"} PROVE Sequential'
      <4>1. Sequential
        BY <1>4, <3>3
      <4>2. \A e \in Drains : \A p \in paidBy'[e] : status'[p] # "processing"
        BY <3>1, <4>1 DEF Sequential
      <4>3. \A e, f \in Drains : \A p \in paidBy'[e], q \in paidBy'[f] : p = q <=> e = f
        BY <3>1, <4>1 DEF Sequential
      <4>4. \A e \in Drains : paidBy'[e] # {} => paidBy[e] # {} \/ (e = d /\ pc = "complete")
        BY <3>1
      <4> QED
        BY <2>2, <3>3, <4>2, <4>3, <4>4
    <3>4. ASSUME faults' \subseteq {"crash"} PROVE Ordered'
      <4>1. \A e \in Drains : Placed(e)'
        BY <1>2, <1>3, <1>5, <3>1, <3>4 DEF Ordered, Placed, Unlinked
      <4> QED
        BY <1>5, <2>3, <3>1, <3>4, <4>1 DEF Ordered
    <3> QED
      BY <3>2, <3>3, <3>4 DEF DrainInv
  <2> QED
    BY <1>1, <1>7, <2>4, <2>5, <2>6, <2>7 DEF DR!Step, DR!LateMatch, DR!At
<1> QED
  BY <1>1, <1>6, <1>7 DEF DR!Step, DR!Link, DR!CompleteDrainOrder, DR!FailDrainOrder,
    DR!Note, DR!At

LEMMA DrainMove ==
  ASSUME DrainInv, NEW d \in Drains, DR!BridgeMoves(d)
  PROVE  DrainInv'
<1>0. DR!TypeOK /\ Payments
  BY DEF DrainInv
<1>1. PICK to \in DR!Kinds :
        /\ <<bridge[d], to>> \in {<<DR!None, "created">>, <<"created", "processed">>,
                                 <<"created", "broken">>, <<"processed", "broken">>,
                                 <<"broken", "refunded">>}
        /\ bridge' = [bridge EXCEPT ![d] = to]
        /\ paid' = (IF to = "processed" THEN paid \cup {d} ELSE paid)
        /\ inbox' = [inbox EXCEPT ![<<d, to>>] = IF "repeat" \in faults THEN 2 ELSE 1]
  BY DEF DR!BridgeMoves
<1>2. UNCHANGED <<status, drain, noted, paidBy, faults, task>>
  BY DEF DR!BridgeMoves, DR!orderVars
<1>3. PICK n \in {1, 2} : n = (IF "repeat" \in faults THEN 2 ELSE 1)
  OBVIOUS
<1>4. /\ inbox' \in [Drains \X DR!Kinds -> Nat]
      /\ \A e \in Drains, k \in DR!Kinds :
           inbox'[<<e, k>>] = IF e = d /\ k = to THEN n ELSE inbox[<<e, k>>]
  <2>1. inbox \in [Drains \X DR!Kinds -> Nat] /\ inbox' = [inbox EXCEPT ![<<d, to>>] = n]
    BY <1>0, <1>1, <1>3 DEF DR!TypeOK
  <2>2. inbox' \in [Drains \X DR!Kinds -> Nat]
    BY <2>1
  <2>3. ASSUME NEW e \in Drains, NEW k \in DR!Kinds
        PROVE inbox'[<<e, k>>] = IF e = d /\ k = to THEN n ELSE inbox[<<e, k>>]
    <3>1. <<e, k>> \in Drains \X DR!Kinds /\ (<<e, k>> = <<d, to>> <=> e = d /\ k = to)
      OBVIOUS
    <3> QED
      BY <2>1, <3>1
  <2> QED
    BY <2>2, <2>3
<1>5. /\ \A e \in Drains, k \in DR!Kinds : Left(e, k) \in Nat
      /\ \A e \in Drains, k \in DR!Kinds :
           Left(e, k)' = IF e = d /\ k = to THEN n ELSE Left(e, k)
  BY <1>0, <1>4, Lefts DEF Left
<1>6. \A e \in Drains :
        /\ Left(e, "processed") \in Nat /\ Left(e, "created") \in Nat
        /\ Left(e, "broken") \in Nat /\ Left(e, "refunded") \in Nat
        /\ Left(e, "processed")' =
             IF e = d /\ to = "processed" THEN n ELSE Left(e, "processed")
        /\ Left(e, "created")' = IF e = d /\ to = "created" THEN n ELSE Left(e, "created")
        /\ Left(e, "broken")' = IF e = d /\ to = "broken" THEN n ELSE Left(e, "broken")
        /\ Left(e, "refunded")' = IF e = d /\ to = "refunded" THEN n ELSE Left(e, "refunded")
  BY <1>5, DrainKinds
<1>7. /\ bridge' \in [Drains -> DR!Kinds \cup {DR!None}] /\ bridge'[d] = to
      /\ \A e \in Drains : e # d => bridge'[e] = bridge[e]
      /\ to = "created" => bridge[d] = DR!None
      /\ to = "processed" => bridge[d] = "created"
      /\ to = "broken" => bridge[d] \in {"created", "processed"}
      /\ to = "refunded" => bridge[d] = "broken"
      /\ to \in {"created", "processed", "broken", "refunded"}
  BY <1>0, <1>1, DrainKinds DEF DR!TypeOK
<1>8. DR!TypeOK'
  <2>1. paid' \subseteq Drains
    BY <1>0, <1>1 DEF DR!TypeOK
  <2> QED
    BY <1>0, <1>2, <1>4, <1>7, <2>1 DEF DR!TypeOK
<1>9. Payments'
  <2>1. \A e \in Drains : /\ e \in paid => e \in paid'
                          /\ e \in paid' => e \in paid \/ (e = d /\ to = "processed")
                          /\ to = "processed" => d \in paid'
    BY <1>1
  <2>2. \A e \in Drains :
          /\ Left(e, "processed")' > 0 \/ paidBy'[e] # {} => e \in paid'
          /\ e \in paid' => bridge'[e] \in {"processed", "broken", "refunded"}
    BY <1>0, <1>2, <1>6, <1>7, <2>1 DEF Payments, DR!None
  <2>3. \A u \in Tasks : /\ task[u].pc \in {"late", "complete"} => task[u].d \in paid'
                         /\ task[u].pc \notin {"idle", "late"} => task[u].o \in DrainOrders
    BY <1>0, <2>1 DEF Payments, DR!TypeOK
  <2> QED
    BY <1>2, <2>2, <2>3 DEF Payments
<1>10. ASSUME faults' \subseteq {"reorder", "crash"} PROVE Sequential'
  <2>1. Sequential /\ n = 1
    BY <1>2, <1>3, <1>10 DEF DrainInv
  <2>2. to = "processed" => d \notin paid /\ paidBy[d] = {}
    BY <1>0, <1>7 DEF Payments
  <2>3. ASSUME NEW e \in Drains
        PROVE /\ Left(e, "processed")' =< 1
              /\ Left(e, "processed")' > 0 => paidBy[e] = {}
    BY <1>6, <2>1, <2>2 DEF Sequential
  <2>4. ASSUME NEW e \in Drains, NEW u \in Tasks, task[u].d = e,
               task[u].pc \in {"late", "complete"}
        PROVE Left(e, "processed")' = 0 /\ paidBy[e] = {}
    <3>1. e \in paid /\ Left(e, "processed") = 0 /\ paidBy[e] = {}
      BY <1>0, <2>1, <2>4 DEF Payments, Sequential
    <3> QED
      BY <1>6, <2>2, <3>1
  <2> QED
    BY <1>2, <2>1, <2>3, <2>4 DEF Sequential, Running
<1>11. ASSUME faults' \subseteq {"crash"} PROVE Ordered'
  <2>1. Ordered /\ n = 1
    BY <1>2, <1>3, <1>11 DEF DrainInv
  <2>2. ASSUME NEW e \in Drains PROVE Placed(e)'
    <3>1. Placed(e)
      BY <2>1 DEF Ordered
    <3>2. CASE e # d
      BY <1>2, <1>6, <1>7, <3>1, <3>2 DEF Placed, Unlinked
    <3>3. CASE e = d
      <4>1. CASE to = "created"
        BY <1>2, <1>6, <1>7, <2>1, <3>1, <3>3, <4>1 DEF Placed, Unlinked, DR!None
      <4>2. CASE to = "processed"
        BY <1>2, <1>6, <1>7, <2>1, <3>1, <3>3, <4>2 DEF Placed, Unlinked, DR!None
      <4>3. CASE to = "broken"
        BY <1>2, <1>6, <1>7, <2>1, <3>1, <3>3, <4>3 DEF Placed, Unlinked, DR!None
      <4>4. CASE to = "refunded"
        BY <1>2, <1>6, <1>7, <2>1, <3>1, <3>3, <4>4 DEF Placed, Unlinked, DR!None
      <4> QED
        BY <1>7, <4>1, <4>2, <4>3, <4>4
    <3> QED
      BY <3>2, <3>3
  <2>3. ASSUME NEW u \in Tasks, Running(u) PROVE AtWork(task[u].d, task[u].pc, task[u].o)'
    <3>1. PICK e \in Drains, pc \in DR!Pcs, o \in DrainOrders \cup {0} :
            e = task[u].d /\ pc = task[u].pc /\ o = task[u].o
      BY <1>0 DEF DR!TypeOK
    <3>2. AtWork(e, pc, o)
      BY <2>1, <2>3, <3>1 DEF Ordered
    <3>3. AtWork(e, pc, o)'
      BY <1>2, <1>6, <1>7, <3>2 DEF AtWork, Unlinked, DR!None
    <3> QED
      BY <1>2, <3>1, <3>3
  <2> QED
    BY <1>2, <2>1, <2>2, <2>3 DEF Ordered, Running
<1> QED
  BY <1>8, <1>9, <1>10, <1>11 DEF DrainInv

LEMMA DrainOutside ==
  ASSUME DrainInv, DR!Crash \/ \E o \in DrainOrders : DR!StaffCloses(o)
  PROVE  DrainInv'
<1>0. DR!TypeOK /\ Payments
  BY DEF DrainInv
<1>1. ASSUME NEW o \in DrainOrders, DR!StaffCloses(o) PROVE DrainInv'
  <2>1. /\ "close" \in faults /\ status' \in [DrainOrders -> {"processing"} \cup DR!Terminal]
        /\ UNCHANGED <<drain, noted, bridge, paid, inbox, paidBy, faults, task>>
    BY <1>0, <1>1 DEF DR!StaffCloses, DR!TypeOK, DR!bridgeVars
  <2> QED
    BY <1>0, <2>1 DEF DrainInv, DR!TypeOK, Payments, Left
<1>2. ASSUME DR!Crash PROVE DrainInv'
  <2>1. /\ UNCHANGED <<status, drain, noted, bridge, paid, inbox, paidBy, faults>>
        /\ task' = [t \in Tasks |-> DR!Idle]
    BY <1>2 DEF DR!Crash, DR!orderVars, DR!bridgeVars
  <2>2. /\ task' \in [Tasks -> [pc : DR!Pcs, d : Drains, o : DrainOrders \cup {0}]]
        /\ \A t \in Tasks : task'[t].pc = "idle"
    BY <2>1, DrainConstants
  <2>3. DR!TypeOK' /\ Payments'
    BY <1>0, <2>1, <2>2 DEF DR!TypeOK, Payments, Left
  <2>4. Sequential => Sequential'
    BY <2>1, <2>2 DEF Sequential, Running, Left
  <2>5. Ordered => Ordered'
    BY <2>1, <2>2 DEF Ordered, Running, Placed, Unlinked, Left
  <2> QED
    BY <2>1, <2>3, <2>4, <2>5 DEF DrainInv
<1> QED
  BY <1>1, <1>2

LEMMA DrainStep ==
  ASSUME DrainInv, DR!Next
  PROVE  DrainInv'
BY DrainTask, DrainWebhook, DrainMove, DrainOutside DEF DR!Next

LEMMA DrainHolds == DrainInv => DR!DrainPaysOnce
<1> SUFFICES ASSUME DrainInv PROVE DR!DrainPaysOnce
  OBVIOUS
<1>1. DR!TypeOK /\ \A d \in Drains : paidBy[d] # {} => d \in paid
  BY DEF DrainInv, Payments
<1>2. ASSUME NEW S, \A o, p \in S : o = p PROVE Cardinality(S) =< 1
  BY <1>2, AtMostOne
<1>3. ASSUME faults \subseteq {"reorder", "crash"}
      PROVE /\ \A d \in Drains : Cardinality(paidBy[d]) =< 1
            /\ \A d, e \in Drains : paidBy[d] \cap paidBy[e] # {} => d = e
  <2>1. \A d, e \in Drains : \A o \in paidBy[d], p \in paidBy[e] : o = p <=> d = e
    BY <1>3 DEF DrainInv, Sequential
  <2> QED
    BY <1>2, <2>1
<1>4. ASSUME faults \subseteq {"reorder", "crash"}, "reorder" \notin faults, NEW d \in Drains
      PROVE Cardinality(DR!Linked(d)) =< 1 /\ paidBy[d] \subseteq DR!Linked(d)
  <2>1. Ordered /\ Placed(d)
    BY <1>4 DEF DrainInv, Ordered
  <2>2. \A o, p \in DR!Linked(d) : o = p
    BY <2>1, DrainConstants DEF Ordered, DR!Linked
  <2>3. paidBy[d] \subseteq DR!Linked(d)
    BY <1>1, <2>1 DEF Placed, DR!Linked, DR!TypeOK
  <2> QED
    BY <1>2, <2>2, <2>3
<1> QED
  BY <1>1, <1>3, <1>4, DrainCardinality DEF DR!DrainPaysOnce

LEMMA DrainInvariant == Spec => [](part = "drains" => DrainInv)
<1>1. Init => (part = "drains" => DrainInv)
  BY DrainInit DEF Init
<1>2. (part = "drains" => DrainInv) /\ [Next]_vars => (part = "drains" => DrainInv)'
  <2> SUFFICES ASSUME part = "drains" => DrainInv, [Next]_vars, part' = "drains"
               PROVE DrainInv'
    OBVIOUS
  <2>1. CASE Next
    BY <2>1, DrainStep DEF Next
  <2>2. CASE UNCHANGED vars
    <3>1. UNCHANGED <<part, faults, task, status, bridge, inbox, drain, noted, paid, paidBy>>
      BY <2>2 DEF vars, drainOwn, bridgeVars
    <3>2. DrainInv
      BY <3>1
    <3>3. DR!TypeOK'
      BY ONLY <3>1, <3>2 DEF DrainInv, DR!TypeOK
    <3>6. Payments'
      BY ONLY <3>1, <3>2 DEF DrainInv, Payments, Left
    <3>4. (faults \subseteq {"reorder", "crash"} => Sequential)'
      BY ONLY <3>1, <3>2 DEF DrainInv, Sequential, Running, Left
    <3>5. (faults \subseteq {"crash"} => Ordered)'
      BY ONLY <3>1, <3>2 DEF DrainInv, Ordered, Running, Placed, AtWork, Unlinked, Left
    <3> QED
      BY <3>3, <3>4, <3>5, <3>6 DEF DrainInv
  <2> QED
    BY <2>1, <2>2
<1> QED
  BY <1>1, <1>2, PTL DEF Spec

(***************************************************************************)
(* Slots.                                                                  *)
(***************************************************************************)
Open(e) == e.flow \in family
SameSlot(e, q) == OS!Indexed(e) /\ OS!IndexKey(e) = OS!IndexKey(q)
SlotIsFree(o) == \A q \in SlotOrders \ {o} : ~SameSlot(order[q], order[o])
AtSlot(t) ==
  LET o == task[t].o
      new == task[t].new IN
  /\ task[t].pc \in {"post", "insert"} =>
       /\ new.flow \in family
       /\ \A q \in SlotOrders : ~OS!Conflicting(order[q], new)
  /\ task[t].pc \in {"post", "leg", "undo"} => o \notin transfer
  /\ task[t].pc = "post" => task[t].skip /\ OS!CourseOf(new.flow).posts = "before"
  /\ task[t].pc = "insert" /\ o \in transfer =>
       task[t].skip /\ OS!CourseOf(new.flow).posts = "before"
  /\ task[t].pc \in {"leg", "link", "undo"} => SlotIsFree(o)
  /\ task[t].pc \in {"post", "leg"} => order[o].status # "pending_review"
Slots ==
  /\ refused \subseteq {"world_to_bolivia"}
  /\ \A t, u \in Tasks : task[t].pc # "idle" /\ task[u].pc # "idle" => t = u
  /\ \A t \in Tasks : AtSlot(t)
  /\ \A o \in transfer :
       order[o].linked \/ \E t \in Tasks : task[t].pc \in {"insert", "link"} /\ task[t].o = o
  /\ \A o \in SlotOrders : order[o].status = "pending_review" => o \notin transfer
  /\ \A o, q \in SlotOrders : OS!Indexed(order[o]) /\ SameSlot(order[q], order[o]) => o = q
SlotInv ==
  /\ OS!TypeOK
  /\ \A o \in SlotOrders : order[o].status # "absent" => Open(order[o])
  /\ \A t \in Tasks : task[t].pc # "idle" => task[t].new.flow \in family
  /\ \A t \in Tasks : task[t].pc \in {"leg", "link", "undo"} => Open(order[task[t].o])
  /\ faults \subseteq {"refuse"} => Slots

LEMMA FamilyFlows ==
  ASSUME family \in OS!Families
  PROVE  /\ family \subseteq OS!Flows /\ "none" \notin family
         /\ \A f, g \in family : f \notin OS!Rail => f = g
BY DEF OS!Families, OS!Flows, OS!Rail, OS!OnRamps, OS!Instructed, OS!OffRamps

\* The writes of a row keep its slot.
LEMMA SlotKept ==
  ASSUME NEW e \in OS!Row, NEW s, NEW b
  PROVE  /\ OS!IndexKey([e EXCEPT !.status = s]) = OS!IndexKey(e)
         /\ OS!IndexKey([e EXCEPT !.status = s, !.linked = b]) = OS!IndexKey(e)
BY DEF OS!IndexKey, OS!Row

\* An index refuses nothing that the check of the flow lets through.
LEMMA ChecksCover ==
  ASSUME family \in OS!Families, NEW e \in OS!Row, NEW q \in OS!Row,
         e.flow \in family, q.status # "absent" => q.flow \in family,
         e.flow # "world_to_bolivia", SameSlot(q, e)
  PROVE  OS!Conflicting(q, e)
<1>1. q.flow \in family /\ (e.flow \notin OS!Rail => q.flow = e.flow)
  BY FamilyFlows DEF SameSlot, OS!Indexed, OS!Pays, OS!Instructed, OS!OffRamps, OS!Rail,
    OS!OnRamps
<1> USE DEF SameSlot, OS!Indexed, OS!IndexKey, OS!Row, OS!Instructed, OS!OffRamps, OS!Rail, OS!OnRamps
<1>2. CASE e.flow = "bolivia_to_world"
  BY <1>1, <1>2 DEF OS!Conflicting, OS!ConflictingBoliviaToWorld
<1>3. CASE e.flow = "bolivia_to_wallet"
  BY <1>1, <1>3 DEF OS!Conflicting, OS!ConflictingPsav, OS!ConflictingBoliviaToWorld
<1>4. CASE e.flow = "bridge_wallet_to_fiat_bo"
  BY <1>1, <1>4 DEF OS!Conflicting, OS!ConflictingOffRamp
<1>5. CASE e.flow = "bridge_wallet_to_crypto"
  BY <1>1, <1>5 DEF OS!Conflicting, OS!ConflictingCryptoOffRamp
<1>6. CASE e.flow = "bridge_wallet_to_fiat_us"
  BY <1>1, <1>6 DEF OS!Conflicting, OS!ConflictingFiatUsOffRamp,
    OS!ConflictingCryptoOffRamp
<1>7. CASE e.flow = "wallet_to_world"
  BY <1>1, <1>7 DEF OS!Conflicting, OS!ConflictingWalletToWorld
<1>8. CASE e.flow \in OS!Rail
  <2>1. q.flow \in OS!Rail
    BY <1>1, <1>8 DEF OS!Families, OS!Flows
  <2>2. q.from = e.from /\ q.to = e.to
    BY <1>8, <2>1
  <2>3. q.status = "pending_review" \/ OS!Pays(q)
    BY <2>1
  <2>4. OS!ConflictingBridgeDeposit(q, e)
    BY <2>2, <2>3 DEF OS!ConflictingBridgeDeposit
  <2> QED
    BY <1>8, <2>4 DEF OS!Conflicting
<1> QED
  BY <1>1, <1>2, <1>3, <1>4, <1>5, <1>6, <1>7, <1>8, FamilyFlows DEF OS!Flows

LEMMA SlotConstants ==
  /\ OS!Blank \in OS!Row /\ ~OS!Indexed(OS!Blank)
  /\ OS!Idle.pc = "idle" /\ OS!Idle.o \in SlotOrders /\ OS!Idle.new = OS!Blank
  /\ OS!Idle = [pc |-> "idle", o |-> OS!Idle.o, new |-> OS!Blank, skip |-> FALSE]
  /\ OS!Flows \cap {"none"} = {}
BY InstancesAssumption DEF OS!SlotsAssumption, OS!Blank, OS!Row, OS!Statuses,
  OS!Indexed, OS!Pays, OS!Idle, OS!Flows, OS!Instructed, OS!OffRamps, OS!Rail,
  OS!OnRamps

LEMMA SlotInit == OS!Init => SlotInv
<1> SUFFICES ASSUME OS!Init PROVE SlotInv
  OBVIOUS
<1>1. OS!TypeOK
  BY SlotConstants DEF OS!Init, OS!TypeOK, OS!Idle
<1>2. \A o \in SlotOrders : order[o] = OS!Blank /\ order[o].status = "absent"
  BY DEF OS!Init, OS!Blank
<1>3. \A t \in Tasks : task[t].pc = "idle"
  BY SlotConstants DEF OS!Init
<1>4. Slots
  BY <1>2, <1>3, SlotConstants DEF OS!Init, Slots, AtSlot
<1> QED
  BY <1>1, <1>2, <1>3, <1>4 DEF SlotInv

\* A write that the index allows, or refuses.
LEMMA SlotStored ==
  ASSUME OS!TypeOK, NEW o \in SlotOrders, NEW e \in OS!Row, e.flow \in OS!Flows, OS!Store(o, e)
  PROVE  /\ order' \in [SlotOrders -> OS!Row] /\ refused' \subseteq OS!Flows
         /\ \A q \in SlotOrders \ {o} : order'[q] = order[q]
         /\ \/ OS!IndexAllows(o, e) /\ order'[o] = e /\ refused' = refused
            \/ ~OS!IndexAllows(o, e) /\ order'[o] = order[o] /\ refused' = refused \cup {e.flow}
BY DEF OS!Store, OS!TypeOK

SlotTask == [pc : {"idle", "post", "insert", "leg", "link", "undo"}, o : SlotOrders,
             new : OS!Row, skip : BOOLEAN]
LEMMA IdleSlot == OS!Idle \in SlotTask
<1>1. [pc |-> "idle", o |-> OS!Idle.o, new |-> OS!Blank, skip |-> FALSE] \in SlotTask
  BY SlotConstants DEF SlotTask
<1> QED
  BY <1>1, SlotConstants, Zenon

LEMMA SlotMoves ==
  ASSUME task \in [Tasks -> SlotTask], NEW t \in Tasks
  PROVE  /\ \A pc \in {"insert", "leg", "link", "undo"} :
              OS!Goto(t, pc) => task' \in [Tasks -> SlotTask]
         /\ OS!Done(t) => task' \in [Tasks -> SlotTask]
<1>2. OS!Done(t) => task' \in [Tasks -> SlotTask]
  BY IdleSlot DEF OS!Done
<1>3. ASSUME NEW pc \in {"insert", "leg", "link", "undo"}, OS!Goto(t, pc)
      PROVE  task' \in [Tasks -> SlotTask]
  BY <1>3 DEF SlotTask, OS!Goto, OS!Become
<1> QED
  BY <1>2, <1>3

Rewritten(e, s, o) == [e EXCEPT !.status = s, !.linked = o \in transfer]
\* A row keeps its type when its status and its link change.
LEMMA RowChanges ==
  ASSUME NEW e \in OS!Row, NEW s \in OS!Statuses, NEW b
  PROVE  /\ Rewritten(e, s, b) \in OS!Row /\ Rewritten(e, s, b).flow = e.flow
         /\ [e EXCEPT !.status = s] \in OS!Row
         /\ [e EXCEPT !.status = s].flow = e.flow
<1>1. CASE b \in transfer
  <2>1. (b \in transfer) = TRUE
    BY <1>1
  <2>2. /\ [e EXCEPT !.status = s, !.linked = TRUE] \in OS!Row
        /\ [e EXCEPT !.status = s, !.linked = TRUE].flow = e.flow
    BY DEF OS!Row
  <2>3. [e EXCEPT !.status = s] \in OS!Row /\ [e EXCEPT !.status = s].flow = e.flow
    BY DEF OS!Row
  <2> QED
    BY <2>1, <2>2, <2>3, Zenon DEF Rewritten
<1>2. CASE b \notin transfer
  <2>1. (b \in transfer) = FALSE
    BY <1>2
  <2>2. /\ [e EXCEPT !.status = s, !.linked = FALSE] \in OS!Row
        /\ [e EXCEPT !.status = s, !.linked = FALSE].flow = e.flow
    BY DEF OS!Row
  <2>3. [e EXCEPT !.status = s] \in OS!Row /\ [e EXCEPT !.status = s].flow = e.flow
    BY DEF OS!Row
  <2> QED
    BY <2>1, <2>2, <2>3, Zenon DEF Rewritten
<1> QED
  BY <1>1, <1>2

LEMMA SlotTypes == SlotInv /\ OS!Next => OS!TypeOK'
<1> SUFFICES ASSUME SlotInv, OS!Next PROVE OS!TypeOK'
  OBVIOUS
<1> USE SlotConstants, FamilyFlows
<1> USE DEF SlotInv, OS!TypeOK, OS!At, OS!Become, OS!Goto, OS!Done
<1>1. ASSUME NEW t \in Tasks, NEW o \in SlotOrders, NEW new \in OS!New, NEW skip \in BOOLEAN,
             OS!Check(t, o, new, skip)
      PROVE  OS!TypeOK'
  <2>1. new \in OS!Row
    BY DEF OS!New, OS!Row, OS!Statuses
  <2> QED
    BY <1>1, <2>1 DEF OS!Check
<1>2. ASSUME NEW t \in Tasks, OS!Post(t) PROVE OS!TypeOK'
  <2>1. task[t].o \in SlotOrders /\ task' \in [Tasks -> SlotTask]
    BY <1>2, SlotMoves DEF OS!Post, SlotTask
  <2> QED
    BY <1>2, <2>1 DEF OS!Post, OS!Accepted, SlotTask
<1>3. ASSUME NEW t \in Tasks, OS!Insert(t) PROVE OS!TypeOK'
  <2> DEFINE o == task[t].o
             f == task[t].new.flow
             row == [task[t].new EXCEPT !.status = OS!FirstStatus(f, task[t].skip),
                                        !.linked = o \in transfer]
  <2>1. task[t].pc # "idle" /\ f \in family /\ f \in OS!Flows
    BY <1>3 DEF OS!Insert
  <2>2. OS!FirstStatus(f, task[t].skip) \in OS!Statuses
    BY <2>1 DEF OS!FirstStatus, OS!CourseOf, OS!Course, OS!Statuses, OS!Flows, OS!Rail,
      OS!OnRamps, OS!Instructed, OS!OffRamps, OS!BoliviaToWorld, OS!BoliviaToWallet,
      OS!WorldToBolivia, OS!WalletToWallet, OS!FiatBoToBridgeWallet,
      OS!CryptoToBridgeWallet, OS!BridgeWalletToFiatBo, OS!BridgeWalletToCrypto,
      OS!BridgeWalletToFiatUs, OS!WalletToWorld
  <2>3. row \in OS!Row /\ row.flow = f
    <3>1. task[t].new \in OS!Row
      OBVIOUS
    <3>2. row = Rewritten(task[t].new, OS!FirstStatus(f, task[t].skip), o)
      BY Zenon DEF Rewritten
    <3>3. f = task[t].new.flow
      OBVIOUS
    <3>4. PICK new \in OS!Row, x \in OS!Statuses :
            new = task[t].new /\ x = OS!FirstStatus(f, task[t].skip)
      BY <2>2, <3>1
    <3>5. row = Rewritten(new, x, o) /\ f = new.flow
      BY <3>2, <3>3, <3>4
    <3> HIDE DEF row, f, o
    <3> QED
      BY <3>5, RowChanges
  <2>4. OS!Store(o, row)
    BY <1>3 DEF OS!Insert
  <2>5. order' \in [SlotOrders -> OS!Row] /\ refused' \subseteq OS!Flows
    BY <2>1, <2>3, <2>4, SlotStored
  <2>6. task' \in [Tasks -> SlotTask]
    BY <1>3, SlotMoves DEF OS!Insert, SlotTask
  <2> QED
    BY <1>3, <2>5, <2>6 DEF OS!Insert, SlotTask
<1>4. ASSUME NEW t \in Tasks, NEW o \in SlotOrders, OS!Approve(t, o) PROVE OS!TypeOK'
  <2> DEFINE e == [order[o] EXCEPT !.status = "processing"]
  <2>1. order[o] \in OS!Row /\ order[o].flow \in OS!Flows
    BY <1>4 DEF OS!Approve, Open
  <2>2. e \in OS!Row /\ e.flow \in OS!Flows
    BY <2>1 DEF OS!Row, OS!Statuses
  <2>3. order' \in [SlotOrders -> OS!Row] /\ refused' \subseteq OS!Flows
    BY <1>4, <2>2, SlotStored DEF OS!Approve
  <2> QED
    BY <1>4, <2>1, <2>3 DEF OS!Approve
<1>5. ASSUME NEW t \in Tasks, OS!Leg(t) PROVE OS!TypeOK'
  BY <1>5 DEF OS!Leg, OS!Accepted
<1>6. ASSUME NEW t \in Tasks, OS!Link(t) PROVE OS!TypeOK'
  <2> DEFINE o == task[t].o
             e == [order[o] EXCEPT !.status = OS!CourseOf(order[o].flow).next,
                                   !.linked = o \in transfer]
  <2>1. OS!CourseOf(order[o].flow).next \in OS!Statuses /\ order[o].flow \in OS!Flows
    <3>1. order[o].flow \in OS!Flows
      BY <1>6 DEF OS!Link, Open
    <3> QED
      BY <3>1 DEF OS!CourseOf, OS!Course, OS!Statuses, OS!Flows, OS!Rail, OS!OnRamps,
        OS!Instructed, OS!OffRamps, OS!BoliviaToWorld, OS!BoliviaToWallet,
        OS!WorldToBolivia, OS!WalletToWallet, OS!FiatBoToBridgeWallet,
        OS!CryptoToBridgeWallet, OS!BridgeWalletToFiatBo, OS!BridgeWalletToCrypto,
        OS!BridgeWalletToFiatUs, OS!WalletToWorld
  <2>2. e \in OS!Row /\ e.flow = order[o].flow
    <3>1. order[o] \in OS!Row
      OBVIOUS
    <3>2. e = Rewritten(order[o], OS!CourseOf(order[o].flow).next, o)
      BY Zenon DEF Rewritten
    <3>3. PICK r \in OS!Row, s \in OS!Statuses :
            r = order[o] /\ s = OS!CourseOf(order[o].flow).next
      BY <2>1, <3>1
    <3>4. Rewritten(r, s, o) \in OS!Row /\ Rewritten(r, s, o).flow = r.flow
      BY RowChanges
    <3>5. e = Rewritten(r, s, o)
      BY <3>2, <3>3, Zenon
    <3> HIDE DEF e, o
    <3> QED
      BY <3>3, <3>4, <3>5
  <2>3. OS!Store(o, e)
    BY <1>6 DEF OS!Link
  <2>4. order' \in [SlotOrders -> OS!Row] /\ refused' \subseteq OS!Flows
    BY <1>6, <2>1, <2>2, <2>3, SlotStored
  <2> QED
    BY <1>6, <2>4, SlotMoves DEF OS!Link, SlotTask
<1>7. ASSUME NEW t \in Tasks, OS!Undo(t) PROVE OS!TypeOK'
  <2> DEFINE o == task[t].o
             e == [order[o] EXCEPT !.status = IF task[t].skip THEN "closed" ELSE "pending_review"]
  <2>1. e \in OS!Row /\ e.flow = order[o].flow /\ order[o].flow \in OS!Flows
    <3>1. order[o] \in OS!Row /\ order[o].flow \in OS!Flows
      BY <1>7 DEF OS!Undo, Open
    <3>2. (IF task[t].skip THEN "closed" ELSE "pending_review") \in OS!Statuses
      BY DEF OS!Statuses
    <3> QED
      BY <3>1, <3>2, RowChanges, Zenon
  <2>2. order' \in [SlotOrders -> OS!Row] /\ refused' \subseteq OS!Flows
    BY <1>7, <2>1, SlotStored DEF OS!Undo
  <2> QED
    BY <1>7, <2>2, SlotMoves DEF OS!Undo, SlotTask
<1>8. ASSUME NEW o \in SlotOrders, OS!Advance(o) PROVE OS!TypeOK'
  <2>1. PICK s \in OS!Statuses : OS!Store(o, [order[o] EXCEPT !.status = s])
    BY <1>8 DEF OS!Advance
  <2>2. order[o].flow \in OS!Flows
    BY <1>8 DEF OS!Advance, Open
  <2>3. [order[o] EXCEPT !.status = s] \in OS!Row /\ [order[o] EXCEPT !.status = s].flow = order[o].flow
    BY DEF OS!Row
  <2>4. order' \in [SlotOrders -> OS!Row] /\ refused' \subseteq OS!Flows
    BY <2>1, <2>2, <2>3, SlotStored
  <2> QED
    BY <1>8, <2>4 DEF OS!Advance
<1>9. CASE OS!Crash
  <2>1. task' \in [Tasks -> SlotTask]
    BY <1>9, IdleSlot DEF OS!Crash
  <2> QED
    BY <1>9, <2>1 DEF OS!Crash, SlotTask
<1> QED
  BY <1>1, <1>2, <1>3, <1>4, <1>5, <1>6, <1>7, <1>8, <1>9 DEF OS!Next

LEMMA Courses ==
  ASSUME NEW f \in OS!Flows
  PROVE  /\ OS!CourseOf(f).first \in {"waiting_deposit", "created"}
         /\ OS!CourseOf(f).next \in {"waiting_deposit", "processing"}
         /\ OS!CourseOf(f).posts \in {"before", "after", "later"}
         /\ f = "world_to_bolivia" => OS!CourseOf(f).posts = "later"
BY DEF OS!CourseOf, OS!Course, OS!Statuses, OS!Flows, OS!Rail, OS!OnRamps,
  OS!Instructed, OS!OffRamps, OS!BoliviaToWorld, OS!BoliviaToWallet, OS!WorldToBolivia,
  OS!WalletToWallet, OS!FiatBoToBridgeWallet, OS!CryptoToBridgeWallet,
  OS!BridgeWalletToFiatBo, OS!BridgeWalletToCrypto, OS!BridgeWalletToFiatUs,
  OS!WalletToWorld

LEMMA RewrittenFields ==
  ASSUME NEW e \in OS!Row, NEW s, NEW o
  PROVE  /\ Rewritten(e, s, o).status = s
         /\ Rewritten(e, s, o).linked <=> o \in transfer
         /\ OS!IndexKey(Rewritten(e, s, o)) = OS!IndexKey(e)
BY DEF OS!IndexKey, OS!Row, Rewritten

\* What moves an order afterwards takes no slot that was free.
Moves(e, s) ==
  \/ e.status = "waiting_deposit" /\ s = "deposit_received"
  \/ e.status = "deposit_received" /\ s = "processing"
     /\ e.flow \in OS!Instructed \cup {"fiat_bo_to_bridge_wallet"}
  \/ e.status = "processing" /\ s = "deposit_received" /\ e.flow = "bolivia_to_world"
  \/ e.status \notin {"absent", "closed"} /\ s = "closed"
LEMMA MovesTakeNoSlot ==
  ASSUME family \in OS!Families, NEW e \in OS!Row, e.flow \in family, NEW s, Moves(e, s),
         NEW new \in OS!Row, new.flow \in family
  PROVE  LET m == [e EXCEPT !.status = s] IN
         /\ OS!Indexed(m) => OS!Indexed(e)
         /\ OS!Conflicting(m, new) => OS!Conflicting(e, new)
<1> DEFINE m == [e EXCEPT !.status = s]
<1>1. /\ m.status = s /\ m.flow = e.flow /\ m.from = e.from /\ m.to = e.to
      /\ m.linked = e.linked
  BY DEF OS!Row
<1>2. e.flow \in OS!Flows /\ (new.flow \notin OS!Rail => new.flow = e.flow)
      /\ (new.flow \in OS!Rail <=> e.flow \in OS!Rail)
  BY FamilyFlows
<1> HIDE DEF m
<1> USE DEF Moves, OS!Pays, OS!Instructed, OS!OffRamps, OS!Rail, OS!OnRamps
<1>3. OS!Indexed(m) => OS!Indexed(e)
  BY <1>1, <1>2 DEF OS!Indexed
<1>4. OS!Conflicting(m, new) => OS!Conflicting(e, new)
  <2>1. CASE new.flow = "bolivia_to_world"
    BY <1>1, <1>2, <2>1 DEF OS!Conflicting, OS!ConflictingBoliviaToWorld
  <2>2. CASE new.flow = "bolivia_to_wallet"
    BY <1>1, <1>2, <2>2 DEF OS!Conflicting, OS!ConflictingPsav,
      OS!ConflictingBoliviaToWorld
  <2>3. CASE new.flow = "world_to_bolivia"
    BY <1>1, <1>2, <2>3 DEF OS!Conflicting, OS!ConflictingWorldToBolivia
  <2>4. CASE new.flow = "bridge_wallet_to_fiat_bo"
    BY <1>1, <1>2, <2>4 DEF OS!Conflicting, OS!ConflictingOffRamp
  <2>5. CASE new.flow = "bridge_wallet_to_crypto"
    BY <1>1, <1>2, <2>5 DEF OS!Conflicting, OS!ConflictingCryptoOffRamp
  <2>6. CASE new.flow = "bridge_wallet_to_fiat_us"
    BY <1>1, <1>2, <2>6
      DEF OS!Conflicting, OS!ConflictingFiatUsOffRamp, OS!ConflictingCryptoOffRamp
  <2>7. CASE new.flow = "wallet_to_world"
    BY <1>1, <1>2, <2>7 DEF OS!Conflicting, OS!ConflictingWalletToWorld
  <2>8. CASE new.flow \in OS!Rail
    <3>1. OS!ConflictingBridgeDeposit(m, new) => OS!ConflictingBridgeDeposit(e, new)
      BY <1>1 DEF OS!ConflictingBridgeDeposit
    <3> QED
      BY <2>8, <3>1 DEF OS!Conflicting
  <2> QED
    BY <2>1, <2>2, <2>3, <2>4, <2>5, <2>6, <2>7, <2>8, FamilyFlows DEF OS!Flows
<1> QED
  BY <1>3, <1>4 DEF m

\* The rows of a family stay in it.
Flowing ==
  /\ \A o \in SlotOrders : order[o].status # "absent" => Open(order[o])
  /\ \A t \in Tasks : task[t].pc # "idle" => task[t].new.flow \in family
  /\ \A t \in Tasks : task[t].pc \in {"leg", "link", "undo"} => Open(order[task[t].o])
LEMMA SlotFlowing == SlotInv /\ OS!Next => Flowing'
<1> SUFFICES ASSUME SlotInv, OS!Next PROVE Flowing'
  OBVIOUS
<1>1. OS!TypeOK /\ Flowing
  BY DEF SlotInv, Flowing
<1>2. ASSUME NEW o \in SlotOrders, NEW e, OS!Store(o, e), Open(e), UNCHANGED family
      PROVE  /\ \A q \in SlotOrders : order'[q].status # "absent" => Open(order[q])'
             /\ \A q \in SlotOrders : Open(order[q]) => Open(order[q])'
  BY <1>1, <1>2 DEF OS!Store, OS!TypeOK, Flowing, Open
<1>3. ASSUME NEW t \in Tasks
      PROVE  /\ task[t] \in SlotTask
             /\ OS!Done(t) => /\ \A u \in Tasks \ {t} : task'[u] = task[u]
                              /\ task'[t].pc = "idle"
             /\ \A pc \in {"insert", "leg", "link", "undo"} : OS!Goto(t, pc) =>
                  /\ \A u \in Tasks \ {t} : task'[u] = task[u]
                  /\ task'[t].pc = pc /\ task'[t].new = task[t].new /\ task'[t].o = task[t].o
  BY <1>1, SlotConstants DEF OS!TypeOK, SlotTask, OS!Done, OS!Goto, OS!Become
<1>4. ASSUME NEW t \in Tasks, NEW o \in SlotOrders, NEW new \in OS!New, NEW skip \in BOOLEAN,
             OS!Check(t, o, new, skip)
      PROVE  Flowing'
  BY <1>1, <1>4 DEF OS!Check, OS!Become, OS!New, OS!TypeOK, Flowing, Open
<1>5. ASSUME NEW t \in Tasks, OS!Post(t) PROVE Flowing'
  <2>1. OS!Done(t) \/ OS!Goto(t, "insert")
    BY <1>5 DEF OS!Post
  <2>2. UNCHANGED <<order, family>> /\ task[t].new.flow \in family
    BY <1>1, <1>5 DEF OS!Post, OS!At, Flowing
  <2> QED
    BY <1>1, <1>3, <2>1, <2>2 DEF Flowing, Open
<1>6. ASSUME NEW t \in Tasks, OS!Insert(t) PROVE Flowing'
  <2>1. PICK e : e = Rewritten(task[t].new, OS!FirstStatus(task[t].new.flow, task[t].skip), task[t].o)
    OBVIOUS
  <2>2. OS!Store(task[t].o, e)
    BY <1>6, <2>1 DEF OS!Insert, Rewritten
  <2>3. Open(e)
    BY <1>1, <1>3, <1>6, <2>1 DEF OS!Insert, OS!At, Rewritten, SlotTask, Open, Flowing,
      OS!Row
  <2>4. task[t].o \in SlotOrders /\ UNCHANGED family
    BY <1>3, <1>6 DEF SlotTask, OS!Insert
  <2>5. /\ \A q \in SlotOrders : order'[q].status # "absent" => Open(order[q])'
        /\ \A q \in SlotOrders : Open(order[q]) => Open(order[q])'
    BY <1>2, <2>2, <2>3, <2>4
  <2>6. OS!Done(t) \/ (OS!Goto(t, "leg") /\ OS!IndexAllows(task[t].o, e))
    <3>1. IF OS!IndexAllows(task[t].o,
               Rewritten(task[t].new, OS!FirstStatus(task[t].new.flow, task[t].skip),
                         task[t].o))
                /\ task[t].skip /\ OS!CourseOf(task[t].new.flow).posts = "after"
          THEN OS!Goto(t, "leg") ELSE OS!Done(t)
      BY <1>6, Zenon DEF OS!Insert, Rewritten
    <3> QED
      BY <2>1, <3>1
  <2>7. OS!Goto(t, "leg") /\ OS!IndexAllows(task[t].o, e) => Open(order[task[t].o])'
    <3>1. OS!IndexAllows(task[t].o, e) => order'[task[t].o] = e
      BY <1>1, <2>2, <2>4 DEF OS!Store, OS!TypeOK
    <3>2. OS!Goto(t, "leg") => task'[t].o = task[t].o
      BY <1>3
    <3> QED
      BY <2>3, <2>4, <3>1, <3>2 DEF Open
  <2>8. \A u \in Tasks \ {t} : task'[u] = task[u]
    BY <1>3, <2>6
  <2>9. task'[t].pc = "idle" \/ (task'[t].new = task[t].new /\ Open(order[task[t].o])')
    <3>1. /\ OS!Done(t) => task'[t].pc = "idle"
          /\ OS!Goto(t, "leg") => task'[t].new = task[t].new
      BY <1>3
    <3> QED
      BY <2>6, <2>7, <3>1
  <2>10. task[t].new.flow \in family
    BY <1>1, <1>6 DEF Flowing, OS!Insert, OS!At
  <2> QED
    BY <1>1, <1>3, <2>4, <2>5, <2>6, <2>7, <2>8, <2>9, <2>10 DEF Flowing, SlotTask
<1>7. ASSUME NEW t \in Tasks, NEW o \in SlotOrders, OS!Approve(t, o) PROVE Flowing'
  <2>1. Open([order[o] EXCEPT !.status = "processing"]) /\ Open(order[o])
    BY <1>1, <1>7 DEF OS!Approve, Open, Flowing, OS!TypeOK, OS!Row
  <2>2. OS!Store(o, [order[o] EXCEPT !.status = "processing"]) /\ UNCHANGED family
    BY <1>7 DEF OS!Approve
  <2>3. /\ \A q \in SlotOrders : order'[q].status # "absent" => Open(order[q])'
        /\ \A q \in SlotOrders : Open(order[q]) => Open(order[q])'
    BY <1>2, <2>1, <2>2
  <2>4. /\ \A u \in Tasks \ {t} : task'[u] = task[u]
        /\ task'[t].pc = "leg" /\ task'[t].o = o /\ task'[t].new = order[o]
    BY <1>1, <1>7 DEF OS!Approve, OS!Become, OS!TypeOK
  <2> QED
    BY <1>1, <1>3, <2>1, <2>2, <2>3, <2>4 DEF Flowing, SlotTask, Open
<1>8. ASSUME NEW t \in Tasks, OS!Leg(t) PROVE Flowing'
  <2>1. OS!Goto(t, "link") \/ OS!Goto(t, "undo")
    BY <1>8 DEF OS!Leg
  <2>2. UNCHANGED <<order, family>> /\ task[t].new.flow \in family /\ Open(order[task[t].o])
    BY <1>1, <1>8 DEF OS!Leg, OS!At, Flowing
  <2> QED
    BY <1>1, <1>3, <2>1, <2>2 DEF Flowing, Open
<1>9. ASSUME NEW t \in Tasks, OS!Link(t) PROVE Flowing'
  <2> DEFINE o == task[t].o
  <2>1. PICK e : e = Rewritten(order[o], OS!CourseOf(order[o].flow).next, o)
    OBVIOUS
  <2>2. OS!Store(o, e) /\ OS!Done(t) /\ UNCHANGED family
    BY <1>9, <2>1 DEF OS!Link, Rewritten
  <2>3. o \in SlotOrders /\ Open(order[o])
    BY <1>1, <1>3, <1>9 DEF OS!Link, OS!At, SlotTask, Flowing
  <2>4. Open(e)
    BY <1>1, <2>1, <2>3 DEF Rewritten, Open, OS!TypeOK, OS!Row
  <2>5. /\ \A q \in SlotOrders : order'[q].status # "absent" => Open(order[q])'
        /\ \A q \in SlotOrders : Open(order[q]) => Open(order[q])'
    BY <1>2, <2>2, <2>3, <2>4
  <2> QED
    BY <1>1, <1>3, <2>2, <2>5 DEF Flowing, SlotTask
<1>10. ASSUME NEW t \in Tasks, OS!Undo(t) PROVE Flowing'
  <2> DEFINE o == task[t].o
  <2>1. PICK e : e = [order[o] EXCEPT !.status = IF task[t].skip THEN "closed" ELSE "pending_review"]
    OBVIOUS
  <2>2. OS!Store(o, e) /\ OS!Done(t) /\ UNCHANGED family
    BY <1>10, <2>1 DEF OS!Undo
  <2>3. o \in SlotOrders /\ Open(order[o])
    BY <1>1, <1>3, <1>10 DEF OS!Undo, OS!At, SlotTask, Flowing
  <2>4. Open(e)
    BY <1>1, <2>1, <2>3 DEF Open, OS!TypeOK, OS!Row
  <2>5. /\ \A q \in SlotOrders : order'[q].status # "absent" => Open(order[q])'
        /\ \A q \in SlotOrders : Open(order[q]) => Open(order[q])'
    BY <1>2, <2>2, <2>3, <2>4
  <2> QED
    BY <1>1, <1>3, <2>2, <2>5 DEF Flowing, SlotTask
<1>11. ASSUME NEW o \in SlotOrders, OS!Advance(o) PROVE Flowing'
  <2>1. PICK s \in OS!Statuses :
          order[o].status # "absent" /\ OS!Store(o, [order[o] EXCEPT !.status = s])
    BY <1>11 DEF OS!Advance
  <2>2. Open([order[o] EXCEPT !.status = s]) /\ UNCHANGED <<family, task>>
    BY <1>1, <1>11, <2>1 DEF OS!Advance, Open, Flowing, OS!TypeOK, OS!Row
  <2>3. /\ \A q \in SlotOrders : order'[q].status # "absent" => Open(order[q])'
        /\ \A q \in SlotOrders : Open(order[q]) => Open(order[q])'
    BY <1>2, <2>1, <2>2
  <2> QED
    BY <1>1, <1>3, <2>2, <2>3 DEF Flowing, SlotTask
<1>12. CASE OS!Crash
  <2>1. \A t \in Tasks : task'[t].pc = "idle"
    BY <1>12, SlotConstants DEF OS!Crash
  <2> QED
    BY <1>1, <1>12, <2>1 DEF OS!Crash, Flowing, Open
<1> QED
  BY <1>4, <1>5, <1>6, <1>7, <1>8, <1>9, <1>10, <1>11, <1>12 DEF OS!Next

Apart == \A o, q \in SlotOrders : OS!Indexed(order[o]) /\ SameSlot(order[q], order[o]) => o = q
LEMMA SlotsApart ==
  ASSUME OS!TypeOK, Apart, NEW o \in SlotOrders, NEW e \in OS!Row, e.flow \in OS!Flows, OS!Store(o, e)
  PROVE  Apart'
<1>1. CASE OS!IndexAllows(o, e) /\ order'[o] = e
  BY <1>1, SlotStored DEF Apart, SameSlot, OS!IndexAllows
<1>2. CASE order'[o] = order[o]
  BY <1>2, SlotStored DEF Apart, SameSlot
<1> QED
  BY <1>1, <1>2, SlotStored

LEMMA SlotsStep == SlotInv /\ OS!Next /\ faults \subseteq {"refuse"} => Slots'
<1> SUFFICES ASSUME SlotInv, OS!Next, faults \subseteq {"refuse"} PROVE Slots'
  OBVIOUS
<1>1. /\ OS!TypeOK /\ Flowing /\ Slots /\ Apart /\ OS!TypeOK' /\ Flowing'
      /\ transfer \subseteq SlotOrders /\ UNCHANGED family
  <2>1. UNCHANGED family
    BY DEF OS!Next, OS!Check, OS!Post, OS!Insert, OS!Approve, OS!Leg, OS!Link, OS!Undo,
      OS!Advance, OS!Crash
  <2> QED
    BY <2>1, SlotTypes, SlotFlowing DEF SlotInv, Flowing, Slots, Apart, OS!TypeOK
<1>2. ASSUME NEW t \in Tasks
      PROVE  /\ task[t] \in SlotTask
             /\ OS!Done(t) => /\ \A u \in Tasks \ {t} : task'[u] = task[u]
                              /\ task'[t].pc = "idle"
             /\ \A pc \in {"insert", "leg", "link", "undo"} : OS!Goto(t, pc) =>
                  /\ \A u \in Tasks \ {t} : task'[u] = task[u]
                  /\ task'[t].pc = pc /\ task'[t].new = task[t].new /\ task'[t].o = task[t].o
                  /\ task'[t].skip = task[t].skip
  BY <1>1, SlotConstants DEF OS!TypeOK, SlotTask, OS!Done, OS!Goto, OS!Become
<1>3. ASSUME NEW t \in Tasks, task[t].pc # "idle"
      PROVE  \A u \in Tasks \ {t} : task[u].pc = "idle"
  BY <1>1, <1>3 DEF Slots
<1>4. ASSUME NEW t \in Tasks, OS!Free(t)
      PROVE  /\ \A u \in Tasks : task[u].pc = "idle"
             /\ \A o \in transfer : order[o].linked
  BY <1>1, <1>4 DEF OS!Free, OS!At, Slots
<1>5. ASSUME NEW t \in Tasks, NEW o \in SlotOrders, NEW new \in OS!New, NEW skip \in BOOLEAN,
             OS!Check(t, o, new, skip)
      PROVE  Slots'
  <2>1. /\ \A u \in Tasks \ {t} : task'[u] = task[u]
        /\ task'[t].pc = IF skip /\ OS!CourseOf(new.flow).posts = "before" THEN "post" ELSE "insert"
        /\ task'[t].o = o /\ task'[t].new = new /\ task'[t].skip = skip
    BY <1>1, <1>5 DEF OS!Check, OS!Become, OS!TypeOK
  <2>2. /\ new.flow \in family /\ o \notin transfer /\ order[o].status # "pending_review"
        /\ \A q \in SlotOrders : ~OS!Conflicting(order[q], new)
        /\ UNCHANGED <<order, transfer, refused>> /\ OS!Free(t)
    BY <1>5 DEF OS!Check, OS!New, OS!Blank
  <2>3. AtSlot(t)'
    BY <1>1, <2>1, <2>2 DEF AtSlot
  <2>4. \A u \in Tasks \ {t} : AtSlot(u)'
    BY <1>1, <1>4, <2>1, <2>2 DEF AtSlot
  <2> QED
    BY <1>1, <1>4, <2>1, <2>2, <2>3, <2>4 DEF Slots
<1>6. ASSUME NEW t \in Tasks, OS!Post(t) PROVE Slots'
  <2>1. /\ task[t].pc = "post" /\ AtSlot(t) /\ UNCHANGED <<order, refused>>
        /\ \A u \in Tasks \ {t} : task[u].pc = "idle"
    BY <1>1, <1>3, <1>6 DEF OS!Post, OS!At, Slots
  <2>2. CASE transfer' = transfer \cup {task[t].o} /\ OS!Goto(t, "insert")
    <3>1. /\ \A u \in Tasks \ {t} : task'[u].pc = "idle"
          /\ task'[t].pc = "insert" /\ task'[t].new = task[t].new /\ task'[t].o = task[t].o
          /\ task'[t].skip = task[t].skip
      BY <1>2, <2>1, <2>2
    <3>2. AtSlot(t)' /\ \A u \in Tasks \ {t} : AtSlot(u)'
      BY <1>1, <2>1, <2>2, <3>1 DEF AtSlot
    <3>3. \A o \in transfer : order[o].linked
      BY <1>1, <2>1 DEF Slots
    <3> QED
      BY <1>1, <2>1, <2>2, <3>1, <3>2, <3>3 DEF Slots, AtSlot
  <2>3. CASE UNCHANGED transfer /\ OS!Done(t)
    <3>1. \A u \in Tasks : task'[u].pc = "idle"
      BY <1>2, <2>1, <2>3
    <3> QED
      BY <1>1, <2>1, <2>3, <3>1 DEF Slots, AtSlot
  <2> QED
    BY <1>6, <2>2, <2>3 DEF OS!Post, OS!Accepted
<1>7. ASSUME NEW t \in Tasks, OS!Insert(t) PROVE Slots'
  <2>0. PICK o, f : o = task[t].o /\ f = task[t].new.flow
    OBVIOUS
  <2>1. PICK e : e = Rewritten(task[t].new, OS!FirstStatus(f, task[t].skip), o)
    OBVIOUS
  <2>2. /\ task[t].pc = "insert" /\ AtSlot(t) /\ UNCHANGED transfer
        /\ \A u \in Tasks \ {t} : task[u].pc = "idle"
        /\ o \in SlotOrders /\ task[t].new \in OS!Row /\ f \in family
    BY <2>0, <1>1, <1>2, <1>3, <1>7 DEF OS!Insert, OS!At, Slots, SlotTask, Flowing
  <2>3. f \in OS!Flows /\ family \in OS!Families
    BY <2>0, <1>1, <2>2, FamilyFlows DEF OS!TypeOK
  <2>4. /\ OS!FirstStatus(f, task[t].skip) \in OS!Statuses
        /\ OS!FirstStatus(f, task[t].skip) = "pending_review" => ~task[t].skip
    BY <2>0, <2>3, Courses DEF OS!FirstStatus, OS!Statuses
  <2>5. e \in OS!Row /\ e.flow = f
    <3>1. PICK new \in OS!Row, x \in OS!Statuses :
            new = task[t].new /\ x = OS!FirstStatus(f, task[t].skip)
      BY <2>2, <2>4
    <3>2. e = Rewritten(new, x, o) /\ f = new.flow
      BY <2>0, <2>1, <3>1
    <3> QED
      BY <3>2, RowChanges
  <2>6. e.status = OS!FirstStatus(f, task[t].skip) /\ (e.linked <=> o \in transfer)
        /\ OS!IndexKey(e) = OS!IndexKey(task[t].new)
    BY <2>0, <2>1, <2>2, RewrittenFields
  <2>7. OS!Store(o, e)
    BY <2>0, <1>7, <2>1 DEF OS!Insert, Rewritten
  <2>8. Apart'
    BY <2>0, <1>1, <2>2, <2>3, <2>5, <2>7, SlotsApart
  <2>9. ASSUME f # "world_to_bolivia", NEW q \in SlotOrders PROVE ~SameSlot(order[q], e)
    <3>1. SameSlot(order[q], e) => SameSlot(order[q], task[t].new)
      BY <2>0, <2>6 DEF SameSlot
    <3>2. order[q] \in OS!Row /\ (order[q].status # "absent" => order[q].flow \in family)
      BY <2>0, <1>1 DEF OS!TypeOK, Flowing, Open
    <3>3. SameSlot(order[q], task[t].new) => OS!Conflicting(order[q], task[t].new)
      BY <2>0, <2>2, <2>3, <2>9, <3>2, ChecksCover
    <3> QED
      BY <2>0, <2>2, <3>1, <3>3 DEF AtSlot
  <2>10. f # "world_to_bolivia" => OS!IndexAllows(o, e)
    BY <2>0, <2>9 DEF OS!IndexAllows, SameSlot
  <2>11. /\ \A q \in SlotOrders \ {o} : order'[q] = order[q]
         /\ \/ OS!IndexAllows(o, e) /\ order'[o] = e /\ refused' = refused
            \/ ~OS!IndexAllows(o, e) /\ order'[o] = order[o] /\ refused' = refused \cup {f}
    BY <2>0, <1>1, <2>2, <2>3, <2>5, <2>7, SlotStored
  <2>12. refused' \subseteq {"world_to_bolivia"}
    BY <2>0, <1>1, <2>10, <2>11 DEF Slots
  <2>13. o \in transfer => OS!IndexAllows(o, e)
    BY <2>0, <2>2, <2>3, <2>10, Courses DEF AtSlot
  <2>14. \A q \in transfer : order'[q].linked
    BY <2>0, <1>1, <2>2, <2>6, <2>11, <2>13 DEF Slots
  <2>15. \A q \in SlotOrders : order'[q].status = "pending_review" => q \notin transfer
    <3>1. e.status = "pending_review" => o \notin transfer
      BY <2>0, <2>2, <2>4, <2>6 DEF AtSlot
    <3> QED
      BY <2>0, <1>1, <2>2, <2>11, <3>1 DEF Slots
  <2>16. \/ OS!Done(t)
         \/ OS!Goto(t, "leg") /\ OS!IndexAllows(o, e) /\ task[t].skip
            /\ OS!CourseOf(f).posts = "after"
    <3>1. IF OS!IndexAllows(o, Rewritten(task[t].new, OS!FirstStatus(f, task[t].skip), o))
                /\ task[t].skip /\ OS!CourseOf(f).posts = "after"
          THEN OS!Goto(t, "leg") ELSE OS!Done(t)
      BY <2>0, <1>7, Zenon DEF OS!Insert, Rewritten
    <3> QED
      BY <2>0, <2>1, <3>1
  <2>17. CASE OS!Done(t)
    <3>1. \A u \in Tasks : task'[u].pc = "idle"
      BY <2>0, <1>2, <2>2, <2>17
    <3> QED
      BY <2>0, <2>2, <2>8, <2>12, <2>14, <2>15, <3>1 DEF Slots, AtSlot, Apart
  <2>18. CASE OS!Goto(t, "leg") /\ OS!IndexAllows(o, e) /\ task[t].skip
              /\ OS!CourseOf(f).posts = "after"
    <3>1. /\ \A u \in Tasks \ {t} : task'[u].pc = "idle"
          /\ task'[t].pc = "leg" /\ task'[t].o = o
      BY <2>0, <1>2, <2>2, <2>18
    <3>2. f # "world_to_bolivia" /\ o \notin transfer
      BY <2>0, <2>2, <2>3, <2>18, Courses DEF AtSlot
    <3>3. order'[o] = e /\ e.status # "pending_review"
      BY <2>0, <2>4, <2>6, <2>11, <2>18
    <3>4. SlotIsFree(o)'
      BY <2>0, <2>2, <2>9, <2>11, <3>2, <3>3 DEF SlotIsFree
    <3>5. AtSlot(t)' /\ \A u \in Tasks \ {t} : AtSlot(u)'
      BY <2>0, <2>2, <3>1, <3>2, <3>3, <3>4 DEF AtSlot
    <3> QED
      BY <2>0, <2>2, <2>8, <2>12, <2>14, <2>15, <3>1, <3>5 DEF Slots, Apart
  <2> QED
    BY <2>0, <2>16, <2>17, <2>18
<1>8. ASSUME NEW t \in Tasks, NEW o \in SlotOrders, OS!Approve(t, o) PROVE Slots'
  <2>1. PICK e : e = [order[o] EXCEPT !.status = "processing"]
    OBVIOUS
  <2>2. /\ OS!Free(t) /\ order[o].status = "pending_review" /\ OS!Store(o, e)
        /\ UNCHANGED transfer /\ OS!Become(t, "leg", o, order[o], FALSE)
    BY <1>8, <2>1 DEF OS!Approve
  <2>3. order[o] \in OS!Row /\ order[o].flow \in OS!Flows
    BY <1>1, <2>2, FamilyFlows DEF OS!TypeOK, Flowing, Open
  <2>4. /\ e \in OS!Row /\ e.flow \in OS!Flows /\ e.status = "processing" /\ e.linked = order[o].linked
        /\ OS!IndexKey(e) = OS!IndexKey(order[o])
    BY <2>1, <2>3, SlotKept DEF OS!Row, OS!Statuses
  <2>5. Apart'
    BY <1>1, <2>2, <2>4, SlotsApart
  <2>6. \A q \in SlotOrders \ {o} : ~SameSlot(order[q], order[o])
    BY <1>1, <2>2 DEF Apart, OS!Indexed
  <2>7. OS!IndexAllows(o, e)
    BY <2>4, <2>6 DEF OS!IndexAllows, SameSlot
  <2>8. /\ \A q \in SlotOrders \ {o} : order'[q] = order[q]
        /\ order'[o] = e /\ refused' = refused
    BY <1>1, <2>2, <2>4, <2>7, SlotStored
  <2>9. /\ \A u \in Tasks \ {t} : task'[u] = task[u]
        /\ task'[t].pc = "leg" /\ task'[t].o = o
    BY <1>1, <2>2 DEF OS!Become, OS!TypeOK
  <2>10. SlotIsFree(o)'
    BY <2>4, <2>6, <2>8 DEF SlotIsFree, SameSlot
  <2>11. o \notin transfer
    BY <1>1, <2>2 DEF Slots
  <2>12. AtSlot(t)' /\ \A u \in Tasks \ {t} : AtSlot(u)'
    BY <1>4, <2>2, <2>4, <2>8, <2>9, <2>10, <2>11 DEF AtSlot
  <2> QED
    BY <1>1, <1>4, <2>2, <2>4, <2>5, <2>8, <2>9, <2>11, <2>12 DEF Slots, Apart
<1>9. ASSUME NEW t \in Tasks, OS!Leg(t) PROVE Slots'
  <2>1. /\ task[t].pc = "leg" /\ AtSlot(t) /\ UNCHANGED <<order, refused>>
        /\ \A u \in Tasks \ {t} : task[u].pc = "idle"
    BY <1>1, <1>3, <1>9 DEF OS!Leg, OS!At, Slots
  <2>2. \A o \in transfer : order[o].linked
    BY <1>1, <2>1 DEF Slots
  <2>3. CASE transfer' \in {transfer, transfer \cup {task[t].o}} /\ OS!Goto(t, "link")
    <3>1. /\ \A u \in Tasks \ {t} : task'[u].pc = "idle"
          /\ task'[t].pc = "link" /\ task'[t].o = task[t].o
      BY <1>2, <2>1, <2>3
    <3>2. AtSlot(t)' /\ \A u \in Tasks \ {t} : AtSlot(u)'
      BY <2>1, <2>3, <3>1 DEF AtSlot, SlotIsFree
    <3> QED
      BY <1>1, <2>1, <2>2, <2>3, <3>1, <3>2 DEF Slots, AtSlot
  <2>4. CASE UNCHANGED transfer /\ OS!Goto(t, "undo")
    <3>1. /\ \A u \in Tasks \ {t} : task'[u].pc = "idle"
          /\ task'[t].pc = "undo" /\ task'[t].o = task[t].o
      BY <1>2, <2>1, <2>4
    <3>2. AtSlot(t)' /\ \A u \in Tasks \ {t} : AtSlot(u)'
      BY <2>1, <2>4, <3>1 DEF AtSlot, SlotIsFree
    <3> QED
      BY <1>1, <2>1, <2>2, <2>4, <3>1, <3>2 DEF Slots, AtSlot
  <2> QED
    BY <1>9, <2>3, <2>4 DEF OS!Leg, OS!Accepted
<1>10. ASSUME NEW t \in Tasks, NEW o \in SlotOrders, NEW e \in OS!Row, o = task[t].o,
              task[t].pc \in {"link", "undo"}, OS!Store(o, e), OS!Done(t), UNCHANGED transfer,
              e.flow \in OS!Flows, OS!IndexKey(e) = OS!IndexKey(order[o]),
              o \in transfer => e.linked /\ e.status # "pending_review"
       PROVE  Slots'
  <2>1. /\ AtSlot(t)
        /\ \A u \in Tasks \ {t} : task[u].pc = "idle"
    BY <1>1, <1>3, <1>10 DEF Slots
  <2>2. Apart'
    BY <1>1, <1>10, SlotsApart
  <2>3. OS!IndexAllows(o, e)
    BY <1>10, <2>1 DEF AtSlot, SlotIsFree, OS!IndexAllows, SameSlot
  <2>4. /\ \A q \in SlotOrders \ {o} : order'[q] = order[q]
        /\ order'[o] = e /\ refused' = refused
    BY <1>1, <1>10, <2>3, SlotStored
  <2>5. \A u \in Tasks : task'[u].pc = "idle"
    BY <1>2, <1>10, <2>1
  <2>6. \A q \in transfer \ {o} : order[q].linked
    BY <1>1, <1>10, <2>1 DEF Slots
  <2> QED
    BY <1>1, <1>10, <2>1, <2>2, <2>4, <2>5, <2>6 DEF Slots, AtSlot, Apart
<1>11. ASSUME NEW t \in Tasks, OS!Link(t) PROVE Slots'
  <2> DEFINE o == task[t].o
  <2>1. PICK e : e = Rewritten(order[o], OS!CourseOf(order[o].flow).next, o)
    OBVIOUS
  <2>2. OS!Store(o, e) /\ OS!Done(t) /\ UNCHANGED transfer /\ task[t].pc = "link"
    BY <1>11, <2>1 DEF OS!Link, Rewritten, OS!At
  <2>3. o \in SlotOrders /\ order[o] \in OS!Row /\ order[o].flow \in OS!Flows
    BY <1>1, <1>2, <2>2, FamilyFlows DEF SlotTask, Flowing, Open, OS!TypeOK
  <2>4. OS!CourseOf(order[o].flow).next \in OS!Statuses \ {"pending_review"}
    BY <2>3, Courses DEF OS!Statuses
  <2>5. e \in OS!Row /\ e.flow = order[o].flow
    BY <2>1, <2>3, <2>4, RowChanges
  <2>6. /\ e.status # "pending_review" /\ (e.linked <=> o \in transfer)
        /\ OS!IndexKey(e) = OS!IndexKey(order[o])
    BY <2>1, <2>3, <2>4, RewrittenFields
  <2> QED
    BY <1>10, <2>2, <2>3, <2>5, <2>6
<1>12. ASSUME NEW t \in Tasks, OS!Undo(t) PROVE Slots'
  <2> DEFINE o == task[t].o
  <2>1. PICK e : e = [order[o] EXCEPT !.status = IF task[t].skip THEN "closed" ELSE "pending_review"]
    OBVIOUS
  <2>2. /\ OS!Store(o, e) /\ OS!Done(t) /\ UNCHANGED transfer /\ task[t].pc = "undo"
        /\ o \notin transfer
    BY <1>1, <1>12, <2>1 DEF OS!Undo, OS!At, Slots, AtSlot
  <2>3. o \in SlotOrders /\ order[o] \in OS!Row /\ order[o].flow \in OS!Flows
    BY <1>1, <1>2, <2>2, FamilyFlows DEF SlotTask, Flowing, Open, OS!TypeOK
  <2>4. e \in OS!Row /\ e.flow = order[o].flow /\ OS!IndexKey(e) = OS!IndexKey(order[o])
    BY <2>1, <2>3, SlotKept DEF OS!Row, OS!Statuses
  <2> QED
    BY <1>10, <2>2, <2>3, <2>4
<1>13. ASSUME NEW o \in SlotOrders, OS!Advance(o) PROVE Slots'
  <2>1. PICK s \in OS!Statuses : Moves(order[o], s) /\ OS!Store(o, [order[o] EXCEPT !.status = s])
    BY <1>13 DEF OS!Advance, Moves
  <2>2. PICK e : e = [order[o] EXCEPT !.status = s]
    OBVIOUS
  <2>3. /\ order[o] \in OS!Row /\ order[o].flow \in family /\ order[o].flow \in OS!Flows
        /\ family \in OS!Families /\ s # "pending_review"
    BY <1>1, <2>1, FamilyFlows DEF OS!TypeOK, Flowing, Open, Moves
  <2>4. /\ e \in OS!Row /\ e.flow \in OS!Flows /\ e.status = s /\ e.linked = order[o].linked
        /\ OS!IndexKey(e) = OS!IndexKey(order[o])
    BY <2>2, <2>3, SlotKept DEF OS!Row
  <2>5. Apart'
    BY <1>1, <2>1, <2>2, <2>4, SlotsApart
  <2>6. /\ OS!Indexed(e) => OS!Indexed(order[o])
        /\ \A new \in OS!Row : new.flow \in family /\ OS!Conflicting(e, new) =>
             OS!Conflicting(order[o], new)
    BY <2>1, <2>2, <2>3, MovesTakeNoSlot
  <2>7. OS!IndexAllows(o, e)
    BY <1>1, <2>4, <2>6 DEF OS!IndexAllows, Apart, SameSlot
  <2>8. /\ \A q \in SlotOrders \ {o} : order'[q] = order[q]
        /\ order'[o] = e /\ refused' = refused
    BY <1>1, <2>1, <2>2, <2>4, <2>7, SlotStored
  <2>9. UNCHANGED <<transfer, task>> /\ \A t \in Tasks : task[t].pc = "idle" \/ task[t].o # o
    BY <1>13 DEF OS!Advance, OS!At
  <2>10. ASSUME NEW t \in Tasks PROVE AtSlot(t)'
    <3>1. AtSlot(t) /\ task[t] \in SlotTask /\ task'[t] = task[t] /\ task[t].o \in SlotOrders
      BY <1>1, <1>2, <2>9 DEF Slots, SlotTask
    <3>2. CASE task[t].pc = "idle"
      BY <3>1, <3>2 DEF AtSlot
    <3>3. CASE task[t].pc # "idle"
      <4>0. PICK p \in SlotOrders : p = task[t].o
        BY <3>1
      <4>1. order'[p] = order[p]
        BY <2>8, <2>9, <3>3, <4>0
      <4>2. SlotIsFree(p) => SlotIsFree(p)'
        BY <2>4, <2>6, <2>8, <4>1 DEF SlotIsFree, SameSlot
      <4>3. ASSUME task[t].pc \in {"post", "insert"}, NEW q \in SlotOrders
            PROVE  ~OS!Conflicting(order'[q], task[t].new)
        <5>1. ~OS!Conflicting(order[q], task[t].new) /\ task[t].new \in OS!Row
              /\ task[t].new.flow \in family
          BY <3>1, <4>3 DEF AtSlot, SlotTask
        <5> QED
          BY <2>6, <2>8, <5>1
      <4>4. UNCHANGED family
        BY <1>13 DEF OS!Advance
      <4> QED
        BY <2>9, <3>1, <4>0, <4>1, <4>2, <4>3, <4>4 DEF AtSlot
    <3> QED
      BY <3>2, <3>3
  <2> QED
    BY <1>1, <2>3, <2>4, <2>5, <2>8, <2>9, <2>10 DEF Slots, Apart
<1>14. CASE OS!Crash
  BY <1>14 DEF OS!Crash
<1> QED
  BY <1>5, <1>6, <1>7, <1>8, <1>9, <1>11, <1>12, <1>13, <1>14 DEF OS!Next

LEMMA SlotStep == SlotInv /\ OS!Next => SlotInv'
<1> SUFFICES ASSUME SlotInv, OS!Next PROVE SlotInv'
  OBVIOUS
<1>1. OS!TypeOK' /\ Flowing'
  BY SlotTypes, SlotFlowing
<1>2. UNCHANGED faults
  BY DEF OS!Next, OS!Check, OS!Post, OS!Insert, OS!Approve, OS!Leg, OS!Link, OS!Undo,
    OS!Advance, OS!Crash
<1> QED
  BY <1>1, <1>2, SlotsStep DEF SlotInv, Flowing

LEMMA SlotHolds == SlotInv => OS!ChecksCoverIndexes
BY DEF SlotInv, Slots, OS!ChecksCoverIndexes, OS!At

LEMMA SlotInvariant == Spec => [](part = "slots" => SlotInv)
<1>1. Init => (part = "slots" => SlotInv)
  BY SlotInit DEF Init
<1>2. (part = "slots" => SlotInv) /\ [Next]_vars => (part = "slots" => SlotInv)'
  <2> SUFFICES ASSUME part = "slots" => SlotInv, [Next]_vars, part' = "slots"
               PROVE  SlotInv'
    OBVIOUS
  <2>1. CASE Next
    BY <2>1, SlotStep DEF Next
  <2>2. CASE UNCHANGED vars
    BY <2>2 DEF vars, slotsOwn, SlotInv, Slots, AtSlot, SlotIsFree, SameSlot, Open,
      OS!TypeOK
  <2> QED
    BY <2>1, <2>2
<1> QED
  BY <1>1, <1>2, PTL DEF Spec

\* While calls do not overlap, the assertNoConflicting check of a flow refuses
\* whatever a unique index of payment_orders would refuse after Bridge was called;
\* world_to_bolivia alone has an index that its check does not cover.
THEOREM ChecksCoverTheIndexes == Spec => []ChecksCoverIndexes
<1>1. (part = "slots" => SlotInv) => ChecksCoverIndexes
  BY SlotHolds DEF ChecksCoverIndexes
<1> QED
  BY <1>1, SlotInvariant, PTL

(***************************************************************************)
(* Accounts.                                                               *)
(***************************************************************************)
OfOne == {"insert", "put", "write", "revert", "delete", "close"}
Creating == {"conflict", "fee", "post", "insert"}
AimedAt(t) ==
  /\ task[t].pc \in OfOne =>
       /\ task[t].o \in Accounts
       /\ task[t].pc # "insert" => entry[task[t].o].status # "absent"
  /\ task[t].pc \in Creating => task[t].want.to \in BA!Places
  /\ task[t].pc \in {"revert", "delete", "close"} => form = "va"
AimedRow(o) ==
  /\ entry[o].status # "absent" => entry[o].to # Nil
  /\ form # "va" => entry[o].status # "inactive"
Aimed == (\A t \in Tasks : AimedAt(t)) /\ (\A o \in Accounts : AimedRow(o))

\* The calls at work on an account that is not there yet.
Late == IF "overlap" \in faults THEN Cardinality(Tasks) - 1 ELSE 0
Coming == {t \in Tasks : task[t].pc \in Creating}
ComingOwn == {t \in Tasks : task[t].pc \in Creating \ {"conflict"} /\ task[t].want.to = Own}
InOwn == BA!Active \ BA!Sweeps
Limited ==
  /\ "overlap" \notin faults =>
       \A t, u \in Tasks : task[t].pc # "idle" /\ task[u].pc # "idle" => t = u
  /\ IsFiniteSet(BA!Active)
  /\ form = "va" =>
       /\ Cardinality(BA!Active) + Cardinality(Coming) <= MaxTotal + Late
       /\ Cardinality(InOwn) + Cardinality(ComingOwn) <= 1 + Late

\* An object that no call has changed in one place only.
Exact == form = "va" \/ "dbError" \notin faults
Agrees(o) ==
  /\ Exact /\ entry[o].status = "active" => there[o] = BA!InRow(o)
  /\ "dbError" \notin faults => (there[o] # BA!Gone <=> entry[o].status = "active")
Between(t) ==
  LET o == task[t].o
      want == task[t].want IN
  /\ task[t].pc = "insert" => there[o] = want /\ entry[o].status = "absent"
  /\ task[t].pc \in {"put", "write", "revert"} =>
       /\ entry[o].status = "active"
       /\ task[t].read = BA!InRow(o)
  /\ task[t].pc \in {"write", "revert"} /\ Exact => there[o] = BA!Merged(BA!InRow(o), want)
  /\ task[t].pc = "close" => there[o] = BA!Gone
Mirrored ==
  /\ \A t \in Tasks : Between(t)
  /\ \A o \in Accounts :
       (\A t \in Tasks : task[t].pc \in {"insert", "write", "revert", "close"} => task[t].o # o)
         => Agrees(o)
MirrorInv ==
  /\ BA!TypeOK /\ Aimed /\ Limited
  /\ faults \subseteq {"dbError", "fees"} => Mirrored

LEMMA MirrorConstants ==
  /\ MaxTotal \in Nat /\ MaxExternal \in Nat
  /\ IsFiniteSet(Tasks) /\ Tasks # {}
  /\ Own \notin Others /\ Nil \notin Accounts /\ Nil \notin Fees /\ Nil \notin BA!Places
<1>1. \A S : BA!IsFiniteSet(S) <=> IsFiniteSet(S)
  BY DEF BA!IsFiniteSet, IsFiniteSet
<1> QED
  BY <1>1, InstancesAssumption DEF BA!AccountsAssumption, BA!Places

AccountTask == [pc : BA!Pcs, o : Accounts \cup {Nil}, want : BA!Terms, read : BA!Terms]
AccountRow == [status : {"absent", "active", "inactive"}, sweep : BOOLEAN,
               to : BA!Places \cup {Nil}, fee : Fees \cup {Nil}]
LEMMA AccountTypes ==
  /\ BA!Gone \in BA!Terms /\ BA!Blank \in AccountRow /\ BA!Idle \in AccountTask
  /\ BA!Idle.pc = "idle" /\ BA!Gone.to = Nil
  /\ \A old, want \in BA!Terms : BA!Merged(old, want) \in BA!Terms
BY DEF BA!Gone, BA!Terms, BA!Blank, AccountRow, BA!Idle, AccountTask, BA!Pcs, BA!Merged

\* A call goes on at pc, or is over.
Led(t, pc, o, want, read) ==
  /\ task' \in [Tasks -> AccountTask]
  /\ \A u \in Tasks \ {t} : task'[u] = task[u]
  /\ task'[t].pc = pc /\ task'[t].o = o /\ task'[t].want = want /\ task'[t].read = read
Rested(t) ==
  /\ task' \in [Tasks -> AccountTask]
  /\ \A u \in Tasks \ {t} : task'[u] = task[u]
  /\ task'[t].pc = "idle"
LEMMA BecomeLeads ==
  ASSUME task \in [Tasks -> AccountTask], NEW t \in Tasks, NEW pc \in BA!Pcs,
         NEW o \in Accounts \cup {Nil}, NEW want \in BA!Terms, NEW read \in BA!Terms,
         BA!Become(t, pc, o, want, read)
  PROVE  Led(t, pc, o, want, read)
BY DEF BA!Become, AccountTask, Led

LEMMA GotoLeads ==
  ASSUME task \in [Tasks -> AccountTask], NEW t \in Tasks, NEW pc \in BA!Pcs, BA!Goto(t, pc)
  PROVE  Led(t, pc, task[t].o, task[t].want, task[t].read)
BY BecomeLeads DEF BA!Goto, AccountTask

LEMMA DoneRests ==
  ASSUME task \in [Tasks -> AccountTask], NEW t \in Tasks, BA!Done(t)
  PROVE  Rested(t)
BY AccountTypes DEF BA!Done, Rested

\* What WriteRow makes of a row.
Changed(e, n, want) ==
  [e EXCEPT !.to = n.to, !.fee = n.fee, !.sweep = @ \/ (form = "va" /\ want.to # Nil)]
LEMMA ChangedFields ==
  ASSUME NEW e \in AccountRow, NEW n \in BA!Terms, NEW want
  PROVE  /\ Changed(e, n, want) \in AccountRow
         /\ Changed(e, n, want).status = e.status
         /\ Changed(e, n, want).to = n.to /\ Changed(e, n, want).fee = n.fee
         /\ e.sweep => Changed(e, n, want).sweep
<1>1. CASE e.sweep \/ (form = "va" /\ want.to # Nil)
  <2>1. Changed(e, n, want) = [e EXCEPT !.to = n.to, !.fee = n.fee, !.sweep = TRUE]
    <3>1. (e.sweep \/ (form = "va" /\ want.to # Nil)) = TRUE
      BY <1>1
    <3> QED
      BY <3>1, Zenon DEF Changed
  <2> QED
    BY <2>1 DEF AccountRow, BA!Terms
<1>2. CASE ~(e.sweep \/ (form = "va" /\ want.to # Nil))
  <2>1. Changed(e, n, want) = [e EXCEPT !.to = n.to, !.fee = n.fee, !.sweep = FALSE]
    <3>1. (e.sweep \/ (form = "va" /\ want.to # Nil)) = FALSE
      BY <1>2
    <3> QED
      BY <3>1, Zenon DEF Changed
  <2> QED
    BY <1>2, <2>1 DEF AccountRow, BA!Terms
<1> QED
  BY <1>1, <1>2

\* The types, and what a call works on.
TypedMirror ==
  /\ form \in {"va", "la", "ea"} /\ faults \in AccountWorlds
  /\ there \in [Accounts -> BA!Terms]
  /\ entry \in [Accounts -> AccountRow]
  /\ standard \in [BOOLEAN -> Fees] /\ special \in [BOOLEAN -> Fees \cup {Nil}]
  /\ task \in [Tasks -> AccountTask]
LEMMA TypedMirrorDef == BA!TypeOK <=> TypedMirror
BY DEF BA!TypeOK, TypedMirror, AccountRow, AccountTask

LEMMA WriteRowEffect ==
  ASSUME NEW t \in Tasks, BA!WriteRow(t)
  PROVE  \/ entry' = [entry EXCEPT ![task[t].o] =
               Changed(entry[task[t].o], BA!Merged(BA!InRow(task[t].o), task[t].want), task[t].want)]
         \/ UNCHANGED entry
BY Zenon DEF BA!WriteRow, Changed

LEMMA AimedKept ==
  ASSUME TypedMirror, Aimed, UNCHANGED form, NEW t \in Tasks,
         \A u \in Tasks \ {t} : task'[u] = task[u],
         \A o \in Accounts : entry[o].status # "absent" => entry'[o].status # "absent",
         \A o \in Accounts : AimedRow(o)',
         task'[t].pc \in OfOne =>
           /\ task'[t].o \in Accounts
           /\ task'[t].pc # "insert" => entry'[task'[t].o].status # "absent",
         task'[t].pc \in Creating => task'[t].want.to \in BA!Places,
         task'[t].pc \in {"revert", "delete", "close"} => form = "va"
  PROVE  Aimed'
<1>1. AimedAt(t)'
  BY DEF AimedAt
<1>2. ASSUME NEW u \in Tasks \ {t} PROVE AimedAt(u)'
  <2>1. AimedAt(u) /\ task'[u] = task[u]
    BY DEF Aimed
  <2> QED
    BY <2>1 DEF AimedAt
<1> QED
  BY <1>1, <1>2 DEF Aimed

LEMMA MirrorTypes == BA!TypeOK /\ Aimed /\ BA!Next => (BA!TypeOK /\ Aimed)'
<1> SUFFICES ASSUME TypedMirror, Aimed, BA!Next PROVE (TypedMirror /\ Aimed)'
  BY TypedMirrorDef, PTL
<1> USE DEF TypedMirror, Aimed, AimedAt, AimedRow, OfOne, Creating, BA!At
<1> USE AccountTypes, MirrorConstants
<1>1. ASSUME NEW t \in Tasks
      PROVE  /\ task[t] \in AccountTask
             /\ task[t].want \in BA!Terms /\ task[t].read \in BA!Terms
             /\ task[t].o \in Accounts \cup {Nil}
  BY DEF AccountTask
<1>2. ASSUME NEW t \in Tasks, BA!Compare(t) PROVE (TypedMirror /\ Aimed)'
  <2>1. CASE BA!Done(t)
    BY <1>2, <2>1, DoneRests DEF BA!Compare, BA!Reads, Rested
  <2>2. CASE BA!Goto(t, "fee")
    <3>1. Led(t, "fee", task[t].o, task[t].want, task[t].read)
      BY <2>2, GotoLeads DEF BA!Pcs
    <3> QED
      BY <1>2, <3>1 DEF BA!Compare, BA!Reads, Led
  <2> QED
    BY <1>2, <2>1, <2>2 DEF BA!Compare
<1>3. ASSUME NEW t \in Tasks, BA!ResolveVaFee(t) PROVE (TypedMirror /\ Aimed)'
  <2>1. PICK want : want = [to |-> task[t].want.to, fee |-> BA!VaFee(task[t].want.to # Own)]
    OBVIOUS
  <2>2. BA!VaFee(TRUE) \in Fees /\ BA!VaFee(FALSE) \in Fees
    BY DEF BA!VaFee
  <2>3. BA!VaFee(task[t].want.to # Own) \in Fees
    <3>1. CASE task[t].want.to # Own
      <4>1. (task[t].want.to # Own) = TRUE
        BY <3>1
      <4> QED
        BY <2>2, <4>1
    <3>2. CASE task[t].want.to = Own
      <4>1. (task[t].want.to # Own) = FALSE
        BY <3>2
      <4> QED
        BY <2>2, <4>1
    <3> QED
      BY <3>1, <3>2
  <2>4. want \in BA!Terms /\ want.to \in BA!Places
    BY <1>3, <2>1, <2>3 DEF BA!ResolveVaFee, BA!Terms
  <2>5. BA!Become(t, "post", Nil, want, BA!Gone)
    BY <1>3, <2>1 DEF BA!ResolveVaFee
  <2>6. Led(t, "post", Nil, want, BA!Gone)
    BY <2>4, <2>5, BecomeLeads DEF BA!Pcs
  <2> QED
    BY <1>3, <2>4, <2>6 DEF BA!ResolveVaFee, BA!Reads, Led
<1>4. ASSUME NEW t \in Tasks, NEW o \in Accounts, BA!Post(t, o) PROVE (TypedMirror /\ Aimed)'
  <2>1. there' \in [Accounts -> BA!Terms] /\ UNCHANGED <<form, entry, standard, special, faults>>
    BY <1>1, <1>4 DEF BA!Post, BA!OnlyThere
  <2>2. task[t].want \in BA!Terms /\ task[t].want.to \in BA!Places
    BY <1>1, <1>4 DEF BA!Post
  <2>3. CASE BA!Done(t)
    BY <2>1, <2>3, DoneRests DEF Rested
  <2>4. CASE BA!Become(t, "insert", o, task[t].want, BA!Gone)
    <3>1. Led(t, "insert", o, task[t].want, BA!Gone)
      BY <2>2, <2>4, BecomeLeads DEF BA!Pcs
    <3> QED
      BY <2>1, <2>2, <3>1 DEF Led
  <2> QED
    BY <1>4, <2>3, <2>4 DEF BA!Post
<1>5. ASSUME NEW t \in Tasks, BA!Insert(t) PROVE (TypedMirror /\ Aimed)'
  <2>1. PICK o \in Accounts, w \in BA!Terms : o = task[t].o /\ w = task[t].want
    BY <1>1, <1>5 DEF BA!Insert
  <2>2. w.to \in BA!Places
    BY <1>5, <2>1 DEF BA!Insert
  <2>3. \/ entry' = [entry EXCEPT ![o] =
             [status |-> "active", sweep |-> w.to # Own, to |-> w.to, fee |-> w.fee]]
        \/ UNCHANGED entry
    BY <1>5, <2>1 DEF BA!Insert
  <2>4. \A b \in BOOLEAN : [status |-> "active", sweep |-> b, to |-> w.to, fee |-> w.fee]
          \in AccountRow
    BY <2>1, <2>2 DEF AccountRow, BA!Terms
  <2>5. [status |-> "active", sweep |-> w.to # Own, to |-> w.to, fee |-> w.fee] \in AccountRow
    <3>1. CASE w.to = Own
      <4>1. (w.to # Own) = FALSE
        BY <3>1
      <4> QED
        BY <2>4, <4>1
    <3>2. CASE w.to # Own
      <4>1. (w.to # Own) = TRUE
        BY <3>2
      <4> QED
        BY <2>4, <4>1
    <3> QED
      BY <3>1, <3>2
  <2>6. entry' \in [Accounts -> AccountRow]
        /\ \A p \in Accounts : entry'[p] = entry[p]
             \/ (p = o /\ entry'[p].status = "active" /\ entry'[p].to = w.to)
    BY <2>1, <2>3, <2>5
  <2>7. BA!Done(t) /\ UNCHANGED <<form, there, standard, special, faults>>
    BY <1>5 DEF BA!Insert, BA!OnlyEntry
  <2> QED
    BY <2>2, <2>6, <2>7, DoneRests DEF Rested
<1>6. ASSUME NEW t \in Tasks, BA!Put(t) PROVE (TypedMirror /\ Aimed)'
  <2>1. PICK o \in Accounts : o = task[t].o
    BY <1>6 DEF BA!Put
  <2>2. PICK n \in BA!Terms : n = BA!Merged(there[o], task[t].want)
    BY <1>1
  <2>3. there' \in {there, [there EXCEPT ![o] = n]}
    BY <1>6, <2>1, <2>2 DEF BA!Put
  <2>4. UNCHANGED <<form, entry, standard, special, faults>>
    BY <1>6 DEF BA!Put, BA!OnlyThere
  <2>5. CASE BA!Done(t)
    BY <2>3, <2>4, <2>5, DoneRests DEF Rested
  <2>6. ASSUME NEW w \in BA!Terms, BA!Become(t, "write", o, w, task[t].read)
        PROVE (TypedMirror /\ Aimed)'
    <3>1. Led(t, "write", o, w, task[t].read)
      BY <1>1, <2>6, BecomeLeads DEF BA!Pcs
    <3>2. entry[o].status # "absent" /\ UNCHANGED form
      BY <1>6, <2>1, <2>4 DEF BA!Put
    <3>3. Aimed'
      BY <2>4, <3>1, <3>2, AimedKept DEF Led
    <3> QED
      BY <2>3, <2>4, <3>1, <3>3 DEF Led
  <2>7. \/ BA!Done(t)
        \/ BA!Become(t, "write", o, task[t].want, task[t].read)
        \/ BA!Become(t, "write", o, n, task[t].read)
    BY <1>6, <2>1, <2>2 DEF BA!Put
  <2> QED
    BY <1>1, <2>5, <2>6, <2>7
<1>7. ASSUME NEW t \in Tasks, BA!WriteRow(t) PROVE (TypedMirror /\ Aimed)'
  <2>1. PICK o \in Accounts, w \in BA!Terms : o = task[t].o /\ w = task[t].want
    BY <1>1, <1>7 DEF BA!WriteRow
  <2>2. PICK n \in BA!Terms : n = BA!Merged(BA!InRow(o), w)
    BY DEF BA!InRow, AccountRow, BA!Terms
  <2>3. n.to = Nil => entry[o].to = Nil
    BY <2>2 DEF BA!Merged, BA!InRow
  <2>4. entry' = [entry EXCEPT ![o] = Changed(entry[o], n, w)] \/ UNCHANGED entry
    <3>1. \/ entry' = [entry EXCEPT ![task[t].o] =
               Changed(entry[task[t].o], BA!Merged(BA!InRow(task[t].o), task[t].want), task[t].want)]
          \/ UNCHANGED entry
      BY <1>7, WriteRowEffect
    <3> QED
      BY <2>1, <2>2, <3>1
  <2>5. /\ Changed(entry[o], n, w) \in AccountRow
        /\ Changed(entry[o], n, w).status = entry[o].status
        /\ Changed(entry[o], n, w).to = n.to
    BY ChangedFields
  <2>6. entry' \in [Accounts -> AccountRow]
        /\ \A p \in Accounts : entry'[p] = entry[p]
             \/ (p = o /\ entry'[p].status = entry[p].status /\ entry'[p].to = n.to)
    BY <2>4, <2>5
  <2>7. UNCHANGED <<form, there, standard, special, faults>>
    BY <1>7 DEF BA!WriteRow, BA!OnlyEntry
  <2>8. CASE BA!Done(t)
    BY <2>3, <2>6, <2>7, <2>8, DoneRests DEF Rested
  <2>9. CASE BA!Goto(t, "revert") /\ form = "va"
    <3>1. Led(t, "revert", o, w, task[t].read)
      BY <2>1, <2>9, GotoLeads DEF BA!Pcs
    <3>2. entry[o].status # "absent" /\ UNCHANGED form
      BY <1>7, <2>1, <2>7 DEF BA!WriteRow
    <3>3. \A p \in Accounts : AimedRow(p)'
      BY <2>3, <2>6, <2>7
    <3>4. Aimed'
      BY <2>6, <2>9, <3>1, <3>2, <3>3, AimedKept DEF Led
    <3> QED
      BY <2>6, <2>7, <3>1, <3>4 DEF Led
  <2> QED
    BY <1>7, <2>8, <2>9 DEF BA!WriteRow
<1>8. ASSUME NEW t \in Tasks, BA!Revert(t) PROVE (TypedMirror /\ Aimed)'
  <2>1. PICK o \in Accounts, w \in BA!Terms, r \in BA!Terms :
          o = task[t].o /\ w = task[t].want /\ r = task[t].read
    BY <1>1, <1>8 DEF BA!Revert
  <2>2. there[o] \in BA!Terms
    OBVIOUS
  <2>3. there' \in [Accounts -> BA!Terms]
    BY <1>8, <2>1, <2>2 DEF BA!Revert, BA!Terms
  <2>4. BA!Done(t) /\ UNCHANGED <<form, entry, standard, special, faults>>
    BY <1>8 DEF BA!Revert, BA!OnlyThere
  <2> QED
    BY <2>3, <2>4, DoneRests DEF Rested
<1>9. ASSUME NEW t \in Tasks, BA!Delete(t) PROVE (TypedMirror /\ Aimed)'
  <2>1. Led(t, "close", task[t].o, task[t].want, task[t].read)
    BY <1>9, GotoLeads DEF BA!Delete, BA!Pcs
  <2> QED
    BY <1>9, <2>1 DEF BA!Delete, BA!OnlyThere, Led
<1>10. ASSUME NEW t \in Tasks, BA!Close(t) PROVE (TypedMirror /\ Aimed)'
  <2>1. PICK o \in Accounts : o = task[t].o /\ form = "va"
    BY <1>10 DEF BA!Close
  <2>2. entry' = [entry EXCEPT ![o].status = "inactive"]
    BY <1>10, <2>1 DEF BA!Close
  <2>3. /\ entry' \in [Accounts -> AccountRow]
        /\ entry'[o].to = entry[o].to
        /\ \A p \in Accounts \ {o} : entry'[p] = entry[p]
    BY <2>2 DEF AccountRow
  <2>4. entry[o].status # "absent" => entry[o].to # Nil
    OBVIOUS
  <2>5. BA!Done(t) /\ UNCHANGED <<form, there, standard, special, faults>>
    BY <1>10 DEF BA!Close, BA!OnlyEntry
  <2>6. entry[o].to # Nil
    BY <1>10, <2>1, <2>4 DEF BA!Close
  <2>7. \A p \in Accounts : AimedRow(p)' /\ (entry[p].status # "absent" => entry'[p].status # "absent")
    <3>1. entry'[o].status = "inactive"
      BY <2>2 DEF AccountRow
    <3> QED
      BY <2>1, <2>3, <2>5, <2>6, <3>1
  <2>8. Rested(t) /\ UNCHANGED form
    BY <2>5, DoneRests
  <2>9. Aimed'
    BY <2>7, <2>8, AimedKept DEF Rested
  <2> QED
    BY <2>3, <2>5, <2>8, <2>9 DEF Rested
<1>11. ASSUME NEW t \in Tasks, NEW o \in Accounts, BA!Deactivate(t, o)
       PROVE (TypedMirror /\ Aimed)'
  <2>1. Led(t, "delete", o, BA!Gone, BA!Gone)
    BY <1>11, BecomeLeads DEF BA!Deactivate, BA!Pcs
  <2> QED
    BY <1>11, <2>1 DEF BA!Deactivate, BA!Reads, Led
<1>12. ASSUME NEW t \in Tasks, NEW to \in BA!Places, BA!CountActive(t, to)
       PROVE (TypedMirror /\ Aimed)'
  <2>1. PICK want \in BA!Terms : want = [BA!Gone EXCEPT !.to = to] /\ want.to = to
    <3>1. [BA!Gone EXCEPT !.to = to] \in BA!Terms /\ [BA!Gone EXCEPT !.to = to].to = to
      BY DEF BA!Gone, BA!Terms
    <3> QED
      BY <3>1
  <2>2. Led(t, "conflict", Nil, want, BA!Gone)
    BY <1>12, <2>1, BecomeLeads DEF BA!CountActive, BA!Pcs
  <2> QED
    <3>1. UNCHANGED <<form, there, entry, standard, special, faults>>
      BY <1>12 DEF BA!CountActive, BA!Reads
    <3>2. /\ \A u \in Tasks \ {t} : task'[u] = task[u]
          /\ task'[t].pc = "conflict" /\ task'[t].want.to \in BA!Places
      BY <2>1, <2>2 DEF Led
    <3>3. \A p \in Accounts : AimedRow(p)'
                           /\ (entry[p].status # "absent" => entry'[p].status # "absent")
      BY <3>1
    <3>4. Aimed'
      BY <3>1, <3>2, <3>3, AimedKept
    <3> QED
      BY <2>2, <3>1, <3>4 DEF Led
<1>13. ASSUME NEW t \in Tasks, NEW to \in BA!Places, NEW fee \in Fees, BA!Begin(t, to, fee)
       PROVE (TypedMirror /\ Aimed)'
  <2>1. PICK want : want = [to |-> to, fee |-> IF form = "la" THEN fee ELSE Nil]
    OBVIOUS
  <2>2. want \in BA!Terms /\ want.to = to
    BY <2>1 DEF BA!Terms
  <2>3. BA!Become(t, "post", Nil, want, BA!Gone)
    BY <1>13, <2>1 DEF BA!Begin
  <2>4. Led(t, "post", Nil, want, BA!Gone)
    BY <2>2, <2>3, BecomeLeads DEF BA!Pcs
  <2> QED
    BY <1>13, <2>2, <2>4 DEF BA!Begin, BA!Reads, Led
<1>14. ASSUME NEW t \in Tasks, NEW o \in Accounts, NEW want \in BA!Wants, BA!Update(t, o, want)
       PROVE (TypedMirror /\ Aimed)'
  <2>1. want \in BA!Terms /\ BA!InRow(o) \in BA!Terms
    BY DEF BA!Wants, BA!Terms, BA!InRow, AccountRow, BA!Places
  <2>2. Led(t, "put", o, want, BA!InRow(o))
    BY <1>14, <2>1, BecomeLeads DEF BA!Update, BA!Pcs
  <2> QED
    BY <1>14, <2>2 DEF BA!Update, BA!Reads, Led
<1>15. ASSUME NEW s \in BOOLEAN, NEW fee \in Fees,
              BA!UpdateVaFeeDefault(s, fee) \/ BA!SetVaFeeOverride(s, fee)
       PROVE (TypedMirror /\ Aimed)'
  BY <1>15 DEF BA!UpdateVaFeeDefault, BA!SetVaFeeOverride
<1>16. ASSUME NEW s \in BOOLEAN, BA!ClearVaFeeOverride(s) PROVE (TypedMirror /\ Aimed)'
  BY <1>16 DEF BA!ClearVaFeeOverride
<1>17. CASE BA!Crash
  BY <1>17 DEF BA!Crash, BA!Reads
<1> QED
  BY <1>2, <1>3, <1>4, <1>5, <1>6, <1>7, <1>8, <1>9, <1>10, <1>11, <1>12, <1>13, <1>14,
    <1>15, <1>16, <1>17 DEF BA!Next

InTurns ==
  "overlap" \notin faults =>
    \A t, u \in Tasks : task[t].pc # "idle" /\ task[u].pc # "idle" => t = u
LEMMA TurnKept ==
  ASSUME InTurns, UNCHANGED faults, NEW t \in Tasks, BA!Free(t) \/ task[t].pc # "idle",
         \A u \in Tasks \ {t} : task'[u] = task[u]
  PROVE  InTurns'
BY DEF InTurns, BA!Free, BA!At

LEMMA ComingFinite ==
  ASSUME NEW S \in SUBSET Tasks
  PROVE  /\ IsFiniteSet(S) /\ Cardinality(S) \in Nat /\ Cardinality(S) =< Cardinality(Tasks)
         /\ Cardinality(Tasks) \in Nat \ {0}
<1>1. IsFiniteSet(S) /\ Cardinality(S) =< Cardinality(Tasks)
  BY MirrorConstants, FS_Subset
<1>2. Cardinality(S) \in Nat /\ Cardinality(Tasks) \in Nat
  BY <1>1, MirrorConstants, FS_CardinalityType
<1>3. Cardinality(Tasks) # 0
  BY MirrorConstants, FS_EmptySet
<1> QED
  BY <1>1, <1>2, <1>3

\* A step that adds nothing.
LEMMA LimitedKept ==
  ASSUME Limited, UNCHANGED <<form, faults>>, InTurns', BA!Active' \subseteq BA!Active,
         form = "va" => /\ InOwn' \subseteq InOwn /\ Coming' \subseteq Coming
                        /\ ComingOwn' \subseteq ComingOwn
  PROVE  Limited'
<1>1. IsFiniteSet(BA!Active') /\ Cardinality(BA!Active') =< Cardinality(BA!Active)
  BY FS_Subset DEF Limited
<1>2. InOwn \subseteq BA!Active /\ InOwn' \subseteq BA!Active'
  BY DEF InOwn
<1>3. IsFiniteSet(InOwn) /\ IsFiniteSet(InOwn')
  BY <1>1, <1>2, FS_Subset DEF Limited
<1>4. Coming \subseteq Tasks /\ ComingOwn \subseteq Tasks
  BY DEF Coming, ComingOwn
<1>5. ASSUME form = "va"
      PROVE /\ Cardinality(InOwn') =< Cardinality(InOwn)
            /\ Cardinality(Coming') =< Cardinality(Coming)
            /\ Cardinality(ComingOwn') =< Cardinality(ComingOwn)
  <2>1. IsFiniteSet(Coming) /\ IsFiniteSet(ComingOwn)
    BY <1>4, ComingFinite
  <2> QED
    BY <1>3, <1>5, <2>1, FS_Subset
<1>6. /\ Cardinality(BA!Active) \in Nat /\ Cardinality(BA!Active') \in Nat
      /\ Cardinality(InOwn) \in Nat /\ Cardinality(InOwn') \in Nat
  BY <1>1, <1>3, FS_CardinalityType DEF Limited
<1>7. /\ Cardinality(Coming) \in Nat /\ Cardinality(ComingOwn) \in Nat
      /\ Cardinality(Coming') \in Nat /\ Cardinality(ComingOwn') \in Nat
      /\ Cardinality(Tasks) \in Nat
  <2>1. Coming' \subseteq Tasks /\ ComingOwn' \subseteq Tasks
    BY DEF Coming, ComingOwn
  <2> QED
    BY <1>4, <2>1, ComingFinite
<1>8. Late' = Late /\ Late \in Int
  BY <1>7 DEF Late
<1>9. (form = "va")' =>
        /\ Cardinality(BA!Active') + Cardinality(Coming') <= MaxTotal + Late
        /\ Cardinality(InOwn') + Cardinality(ComingOwn') <= 1 + Late
  BY <1>1, <1>5, <1>6, <1>7, <1>8, MirrorConstants DEF Limited
<1> QED
  BY <1>1, <1>8, <1>9 DEF Limited, InTurns

LEMMA LimitedStep == MirrorInv /\ BA!Next => Limited'
<1> SUFFICES ASSUME MirrorInv, BA!Next PROVE Limited'
  OBVIOUS
<1>1. TypedMirror /\ Aimed /\ Limited /\ InTurns
  BY TypedMirrorDef DEF MirrorInv, Limited, InTurns
<1>2. UNCHANGED <<form, faults>>
  BY DEF BA!Next, BA!Compare, BA!ResolveVaFee, BA!Insert, BA!Put, BA!WriteRow,
    BA!Revert, BA!Delete, BA!Close, BA!Post, BA!Deactivate, BA!CountActive, BA!Begin,
    BA!Update, BA!UpdateVaFeeDefault, BA!SetVaFeeOverride, BA!ClearVaFeeOverride,
    BA!Crash, BA!Reads, BA!OnlyThere, BA!OnlyEntry
\* A call goes on or ends, and creates nothing more.
<1>3. ASSUME NEW t \in Tasks, BA!Free(t) \/ task[t].pc # "idle",
             \A u \in Tasks \ {t} : task'[u] = task[u],
             BA!Active' \subseteq BA!Active, InOwn' \subseteq InOwn,
             form = "va" /\ task'[t].pc \in Creating => task[t].pc \in Creating,
             form = "va" /\ task'[t].pc \in Creating \ {"conflict"} /\ task'[t].want.to = Own =>
               task[t].pc \in Creating \ {"conflict"} /\ task[t].want.to = Own
      PROVE  Limited'
  <2>1. InTurns'
    BY <1>1, <1>2, <1>3, TurnKept
  <2>2. form = "va" => Coming' \subseteq Coming /\ ComingOwn' \subseteq ComingOwn
    BY <1>3 DEF Coming, ComingOwn
  <2> QED
    BY <1>1, <1>2, <1>3, <2>1, <2>2, LimitedKept
<1>4. entry' = entry => BA!Active' = BA!Active /\ InOwn' = InOwn
  BY DEF BA!Active, BA!Sweeps, InOwn
<1>5. ASSUME NEW t \in Tasks, BA!Compare(t) PROVE Limited'
  <2>1. /\ task[t].pc = "conflict" /\ UNCHANGED entry
        /\ BA!Conflicts(task[t].want.to) => Rested(t)
        /\ ~BA!Conflicts(task[t].want.to) => Led(t, "fee", task[t].o, task[t].want, task[t].read)
    BY <1>1, <1>5, GotoLeads, DoneRests DEF BA!Compare, BA!At, BA!Reads, BA!Pcs,
      TypedMirror
  <2>2. CASE Rested(t)
    BY <1>3, <1>4, <2>1, <2>2 DEF Rested, Creating
  <2>3. CASE ~BA!Conflicts(task[t].want.to) /\ task[t].want.to # Own
    BY <1>3, <1>4, <2>1, <2>3 DEF Led, Creating
  <2>4. CASE ~BA!Conflicts(task[t].want.to) /\ task[t].want.to = Own
    <3>1. InTurns'
      BY <1>1, <1>2, <2>1, <2>4, TurnKept DEF Led
    <3>2. BA!Active' = BA!Active /\ InOwn' = InOwn /\ InOwn = {}
      BY <1>4, <2>1, <2>4 DEF BA!Conflicts, InOwn
    <3>3. Coming' = Coming
      BY <2>1, <2>4 DEF Led, Coming, Creating
    <3>4. ComingOwn' \subseteq Tasks /\ Cardinality(ComingOwn') \in Nat
          /\ Cardinality(ComingOwn') =< Cardinality(Tasks)
          /\ Cardinality(Tasks) \in Nat
      <4>1. ComingOwn' \subseteq Tasks
        BY DEF ComingOwn
      <4> QED
        BY <4>1, ComingFinite
    <3>5. "overlap" \notin faults => Cardinality(ComingOwn') =< 1
      <4>1. ASSUME "overlap" \notin faults PROVE \A u, v \in ComingOwn' : u = v
        BY <1>2, <3>1, <4>1 DEF InTurns, ComingOwn, Creating
      <4> QED
        BY <4>1, AtMostOne
    <3>6. Cardinality(InOwn') = 0
      BY <3>2, FS_EmptySet
    <3>7. Late' = Late /\ Cardinality(ComingOwn') =< 1 + Late
      BY <1>2, <3>4, <3>5 DEF Late
    <3> QED
      BY <1>1, <1>2, <3>1, <3>2, <3>3, <3>4, <3>6, <3>7 DEF Limited, InTurns, Late
  <2> QED
    BY <2>1, <2>2, <2>3, <2>4
<1>6. ASSUME NEW t \in Tasks, BA!ResolveVaFee(t) PROVE Limited'
  <2>1. /\ task[t].pc = "fee" /\ UNCHANGED entry
        /\ \A u \in Tasks \ {t} : task'[u] = task[u]
        /\ task'[t].pc = "post" /\ task'[t].want.to = task[t].want.to
    BY <1>1, <1>6 DEF BA!ResolveVaFee, BA!At, BA!Reads, BA!Become, TypedMirror
  <2> QED
    BY <1>3, <1>4, <2>1 DEF Creating
<1>7. ASSUME NEW t \in Tasks, NEW o \in Accounts, BA!Post(t, o) PROVE Limited'
  <2>1. /\ task[t].pc = "post" /\ UNCHANGED entry
        /\ \A u \in Tasks \ {t} : task'[u] = task[u]
        /\ task'[t].pc = "idle" \/ task'[t].want = task[t].want
    BY <1>1, <1>7, AccountTypes DEF BA!Post, BA!At, BA!OnlyThere, BA!Become, BA!Done,
      TypedMirror
  <2>2. task'[t].pc \in {"idle", "insert"}
    BY <1>1, <1>7, AccountTypes DEF BA!Post, BA!Become, BA!Done, TypedMirror
  <2> QED
    BY <1>3, <1>4, <2>1, <2>2 DEF Creating
<1>8. ASSUME NEW t \in Tasks, BA!Insert(t) PROVE Limited'
  <2>1. /\ task[t].pc = "insert" /\ Rested(t)
        /\ task[t].o \in Accounts /\ task[t].want \in BA!Terms
    BY <1>1, <1>8, DoneRests DEF BA!Insert, BA!At, TypedMirror, Aimed, AimedAt, OfOne,
      AccountTask
  <2>2. CASE UNCHANGED entry
    BY <1>3, <1>4, <2>1, <2>2 DEF Rested, Creating
  <2>3. CASE ~UNCHANGED entry
    <3>1. PICK o \in Accounts, w \in BA!Terms : o = task[t].o /\ w = task[t].want
      BY <2>1
    <3>2. entry' = [entry EXCEPT ![o] =
             [status |-> "active", sweep |-> w.to # Own, to |-> w.to, fee |-> w.fee]]
      BY <1>8, <2>3, <3>1 DEF BA!Insert
    <3>3. \A p \in Accounts \ {o} : entry'[p] = entry[p]
      BY <1>1, <3>2 DEF TypedMirror
    <3>4. w.to # Own => entry'[o].sweep
      BY <1>1, <3>2 DEF TypedMirror
    <3>5. BA!Active' \subseteq BA!Active \cup {o} /\ InOwn' \subseteq InOwn \cup {o}
      BY <3>3 DEF BA!Active, BA!Sweeps, InOwn
    <3>6. w.to # Own => InOwn' \subseteq InOwn
      BY <3>3, <3>4 DEF BA!Active, BA!Sweeps, InOwn
    <3>7. Coming' = Coming \ {t} /\ t \in Coming
      BY <2>1 DEF Rested, Coming, Creating
    <3>8. ComingOwn' = ComingOwn \ {t} /\ (w.to = Own => t \in ComingOwn)
      BY <2>1, <3>1 DEF Rested, ComingOwn, Creating
    <3>9. /\ IsFiniteSet(BA!Active) /\ IsFiniteSet(InOwn)
          /\ IsFiniteSet(BA!Active') /\ IsFiniteSet(InOwn')
          /\ Cardinality(BA!Active) \in Nat /\ Cardinality(InOwn) \in Nat
          /\ Cardinality(BA!Active') \in Nat /\ Cardinality(InOwn') \in Nat
          /\ Cardinality(BA!Active') =< Cardinality(BA!Active) + 1
          /\ Cardinality(InOwn') =< Cardinality(InOwn) + 1
          /\ w.to # Own => Cardinality(InOwn') =< Cardinality(InOwn)
      <4>1. IsFiniteSet(BA!Active) /\ IsFiniteSet(InOwn)
        BY <1>1, FS_Subset DEF Limited, InOwn
      <4>2. /\ IsFiniteSet(BA!Active \cup {o}) /\ IsFiniteSet(InOwn \cup {o})
            /\ Cardinality(BA!Active \cup {o}) =< Cardinality(BA!Active) + 1
            /\ Cardinality(InOwn \cup {o}) =< Cardinality(InOwn) + 1
        BY <4>1, OneMore
      <4>3. IsFiniteSet(BA!Active') /\ IsFiniteSet(InOwn')
        BY <3>5, <4>2, FS_Subset
      <4>4. /\ Cardinality(BA!Active') =< Cardinality(BA!Active \cup {o})
            /\ Cardinality(InOwn') =< Cardinality(InOwn \cup {o})
            /\ w.to # Own => Cardinality(InOwn') =< Cardinality(InOwn)
        BY <3>5, <3>6, <4>1, <4>2, FS_Subset
      <4>5. /\ Cardinality(BA!Active) \in Nat /\ Cardinality(InOwn) \in Nat
            /\ Cardinality(BA!Active') \in Nat /\ Cardinality(InOwn') \in Nat
            /\ Cardinality(BA!Active \cup {o}) \in Nat /\ Cardinality(InOwn \cup {o}) \in Nat
        BY <4>1, <4>2, <4>3, FS_CardinalityType
      <4> QED
        BY <4>1, <4>2, <4>3, <4>4, <4>5
    <3>10. /\ Cardinality(Coming') = Cardinality(Coming) - 1
           /\ Cardinality(Coming) \in Nat /\ Cardinality(Coming') \in Nat
      <4>1. IsFiniteSet(Coming)
        BY ComingFinite DEF Coming
      <4> QED
        BY <3>7, <4>1, FS_RemoveElement, FS_CardinalityType
    <3>11. /\ w.to = Own => Cardinality(ComingOwn') = Cardinality(ComingOwn) - 1
           /\ Cardinality(ComingOwn') =< Cardinality(ComingOwn)
           /\ Cardinality(ComingOwn) \in Nat /\ Cardinality(ComingOwn') \in Nat
      <4>1. IsFiniteSet(ComingOwn) /\ ComingOwn' \subseteq ComingOwn
        BY <3>8, ComingFinite DEF ComingOwn
      <4>2. IsFiniteSet(ComingOwn') /\ Cardinality(ComingOwn') =< Cardinality(ComingOwn)
        BY <4>1, FS_Subset
      <4>3. w.to = Own => Cardinality(ComingOwn') = Cardinality(ComingOwn) - 1
        BY <3>8, <4>1, FS_RemoveElement
      <4> QED
        BY <4>1, <4>2, <4>3, FS_CardinalityType
    <3>12. InTurns'
      BY <1>1, <1>2, <2>1, TurnKept DEF Rested
    <3>13. Late' = Late /\ Late \in Int
      BY <1>2, ComingFinite DEF Late
    <3>14. (form = "va")' =>
             /\ Cardinality(BA!Active') + Cardinality(Coming') <= MaxTotal + Late
             /\ Cardinality(InOwn') + Cardinality(ComingOwn') <= 1 + Late
      <4>1. form = "va" =>
             /\ Cardinality(BA!Active) + Cardinality(Coming) <= MaxTotal + Late
             /\ Cardinality(InOwn) + Cardinality(ComingOwn) <= 1 + Late
        BY <1>1 DEF Limited
      <4> QED
        BY <1>2, <3>9, <3>10, <3>11, <3>13, <4>1, MirrorConstants
    <3> QED
      BY <3>9, <3>12, <3>13, <3>14 DEF Limited, InTurns
  <2> QED
    BY <2>2, <2>3
<1>9. ASSUME NEW t \in Tasks, BA!Put(t) PROVE Limited'
  <2>1. /\ task[t].pc = "put" /\ UNCHANGED entry
        /\ \A u \in Tasks \ {t} : task'[u] = task[u]
        /\ task'[t].pc \in {"idle", "write"}
    BY <1>1, <1>9, AccountTypes DEF BA!Put, BA!At, BA!OnlyThere, BA!Become, BA!Done,
      TypedMirror
  <2> QED
    BY <1>3, <1>4, <2>1 DEF Creating
<1>10. ASSUME NEW t \in Tasks, BA!WriteRow(t) PROVE Limited'
  <2>1. /\ task[t].pc = "write" /\ task[t].o \in Accounts /\ task[t].want \in BA!Terms
        /\ \A u \in Tasks \ {t} : task'[u] = task[u]
        /\ task'[t].pc \in {"idle", "revert"}
    <3>1. Rested(t) \/ Led(t, "revert", task[t].o, task[t].want, task[t].read)
      BY <1>1, <1>10, GotoLeads, DoneRests DEF BA!WriteRow, BA!Pcs, TypedMirror
    <3> QED
      BY <1>1, <1>10, <3>1 DEF BA!WriteRow, BA!At, TypedMirror, Aimed, AimedAt, OfOne,
        AccountTask, Rested, Led
  <2>2. PICK o \in Accounts, w \in BA!Terms : o = task[t].o /\ w = task[t].want
    BY <2>1
  <2>3. PICK n \in BA!Terms : n = BA!Merged(BA!InRow(o), w)
    BY <1>1, AccountTypes DEF BA!InRow, AccountRow, BA!Terms, TypedMirror
  <2>4. entry' = [entry EXCEPT ![o] = Changed(entry[o], n, w)] \/ UNCHANGED entry
    BY <1>10, <2>2, <2>3, WriteRowEffect
  <2>5. entry[o] \in AccountRow
    BY <1>1 DEF TypedMirror
  <2>6. /\ Changed(entry[o], n, w).status = entry[o].status
        /\ entry[o].sweep => Changed(entry[o], n, w).sweep
    BY <2>5, ChangedFields
  <2>7. BA!Active' \subseteq BA!Active /\ InOwn' \subseteq InOwn
    BY <1>1, <2>4, <2>6 DEF BA!Active, BA!Sweeps, InOwn, TypedMirror
  <2> QED
    BY <1>3, <2>1, <2>7 DEF Creating
<1>11. ASSUME NEW t \in Tasks, BA!Revert(t) \/ BA!Delete(t) PROVE Limited'
  <2>1. /\ task[t].pc \in {"revert", "delete"} /\ UNCHANGED entry
        /\ \A u \in Tasks \ {t} : task'[u] = task[u]
        /\ task'[t].pc \in {"idle", "close"}
    BY <1>1, <1>11, AccountTypes DEF BA!Revert, BA!Delete, BA!At, BA!OnlyThere, BA!Goto,
      BA!Become, BA!Done, TypedMirror
  <2> QED
    BY <1>3, <1>4, <2>1 DEF Creating
<1>12. ASSUME NEW t \in Tasks, BA!Close(t) PROVE Limited'
  <2>1. task[t].pc = "close" /\ task[t].o \in Accounts /\ Rested(t)
    BY <1>1, <1>12, DoneRests
      DEF BA!Close, BA!At, TypedMirror, Aimed, AimedAt, OfOne
  <2>2. PICK o \in Accounts : o = task[t].o
    BY <2>1
  <2>3. entry' = [entry EXCEPT ![o].status = "inactive"]
    BY <1>12, <2>2 DEF BA!Close
  <2>4. /\ entry'[o].status = "inactive" /\ \A p \in Accounts \ {o} : entry'[p] = entry[p]
    BY <1>1, <2>3 DEF TypedMirror, AccountRow
  <2>5. BA!Active' \subseteq BA!Active /\ InOwn' \subseteq InOwn
    BY <2>4 DEF BA!Active, BA!Sweeps, InOwn
  <2> QED
    BY <1>3, <2>1, <2>5 DEF Rested, Creating
<1>13. ASSUME NEW t \in Tasks, NEW o \in Accounts, BA!Deactivate(t, o) PROVE Limited'
  <2>1. /\ BA!Free(t) /\ UNCHANGED entry
        /\ \A u \in Tasks \ {t} : task'[u] = task[u]
        /\ task'[t].pc = "delete"
    BY <1>1, <1>13 DEF BA!Deactivate, BA!Reads, BA!Become, TypedMirror
  <2> QED
    BY <1>3, <1>4, <2>1 DEF Creating
<1>14. ASSUME NEW t \in Tasks, NEW to \in BA!Places, BA!CountActive(t, to) PROVE Limited'
  <2>1. /\ BA!Free(t) /\ form = "va" /\ UNCHANGED entry
        /\ BA!Cardinality(BA!Active) < MaxTotal
        /\ \A u \in Tasks \ {t} : task'[u] = task[u]
        /\ task'[t].pc = "conflict"
    BY <1>1, <1>14 DEF BA!CountActive, BA!Reads, BA!Become, TypedMirror
  <2>2. BA!Cardinality(BA!Active) = Cardinality(BA!Active)
    BY DEF BA!Cardinality, Cardinality
  <2>3. InTurns'
    BY <1>1, <1>2, <2>1, TurnKept
  <2>4. Cardinality(BA!Active) \in Nat /\ Cardinality(InOwn) \in Nat
    <3>1. IsFiniteSet(BA!Active) /\ IsFiniteSet(InOwn)
      BY <1>1, FS_Subset DEF Limited, InOwn
    <3> QED
      BY <3>1, FS_CardinalityType
  <2>5. /\ Cardinality(Coming') \in Nat /\ Cardinality(Coming') =< Cardinality(Tasks)
        /\ Cardinality(Tasks) \in Nat
    <3>1. Coming' \subseteq Tasks
      BY DEF Coming
    <3> QED
      BY <3>1, ComingFinite
  <2>6. "overlap" \notin faults => Cardinality(Coming') =< 1
    <3>1. ASSUME "overlap" \notin faults PROVE \A u, v \in Coming' : u = v
      BY <1>2, <2>3, <3>1 DEF InTurns, Coming, Creating
    <3> QED
      BY <3>1, AtMostOne
  <2>7. ComingOwn' \subseteq ComingOwn
    BY <2>1 DEF ComingOwn, Creating
  <2>8. /\ Cardinality(ComingOwn') \in Nat /\ Cardinality(ComingOwn) \in Nat
        /\ Cardinality(ComingOwn') =< Cardinality(ComingOwn)
    <3>1. IsFiniteSet(ComingOwn) /\ IsFiniteSet(ComingOwn')
      BY <2>7, ComingFinite, FS_Subset DEF ComingOwn
    <3> QED
      BY <2>7, <3>1, FS_Subset, FS_CardinalityType
  <2>9. Late' = Late /\ Late \in Int /\ Cardinality(Coming') =< 1 + Late
    BY <1>2, <2>5, <2>6 DEF Late
  <2>10. Cardinality(BA!Active) + 1 =< MaxTotal
    BY <2>1, <2>2, <2>4, MirrorConstants
  <2>11. /\ Cardinality(BA!Active) + Cardinality(Coming') <= MaxTotal + Late
         /\ Cardinality(InOwn) + Cardinality(ComingOwn') <= 1 + Late
    BY <1>1, <2>1, <2>4, <2>5, <2>8, <2>9, <2>10, MirrorConstants DEF Limited
  <2> QED
    BY <1>1, <1>4, <2>1, <2>3, <2>9, <2>11 DEF Limited, InTurns
<1>15. ASSUME NEW t \in Tasks, NEW to \in BA!Places, NEW fee \in Fees, BA!Begin(t, to, fee)
       PROVE Limited'
  <2>1. /\ BA!Free(t) /\ form # "va" /\ UNCHANGED entry
        /\ \A u \in Tasks \ {t} : task'[u] = task[u]
    BY <1>1, <1>15 DEF BA!Begin, BA!Reads, BA!Become, TypedMirror
  <2> QED
    BY <1>3, <1>4, <2>1
<1>16. ASSUME NEW t \in Tasks, NEW o \in Accounts, NEW want \in BA!Wants, BA!Update(t, o, want)
       PROVE Limited'
  <2>1. /\ BA!Free(t) /\ UNCHANGED entry
        /\ \A u \in Tasks \ {t} : task'[u] = task[u]
        /\ task'[t].pc = "put"
    BY <1>1, <1>16 DEF BA!Update, BA!Reads, BA!Become, TypedMirror
  <2> QED
    BY <1>3, <1>4, <2>1 DEF Creating
<1>17. ASSUME UNCHANGED <<task, entry>> PROVE Limited'
  <2>1. InTurns' /\ Coming' = Coming /\ ComingOwn' = ComingOwn
    BY <1>1, <1>2, <1>17 DEF InTurns, Coming, ComingOwn
  <2> QED
    BY <1>1, <1>2, <1>4, <1>17, <2>1, LimitedKept
<1>18. CASE BA!Crash
  <2>1. UNCHANGED entry /\ \A t \in Tasks : task'[t].pc = "idle"
    BY <1>18, AccountTypes DEF BA!Crash, BA!Reads
  <2>2. InTurns' /\ Coming' = {} /\ ComingOwn' = {}
    BY <2>1 DEF InTurns, Coming, ComingOwn, Creating
  <2> QED
    BY <1>1, <1>2, <1>4, <2>1, <2>2, LimitedKept
<1>19. ASSUME NEW s \in BOOLEAN, NEW fee \in Fees,
              \/ BA!UpdateVaFeeDefault(s, fee) \/ BA!SetVaFeeOverride(s, fee)
              \/ BA!ClearVaFeeOverride(s)
       PROVE  UNCHANGED <<task, entry>>
  BY <1>19 DEF BA!UpdateVaFeeDefault, BA!SetVaFeeOverride, BA!ClearVaFeeOverride
<1>20. ASSUME NEW s \in BOOLEAN, BA!ClearVaFeeOverride(s) PROVE UNCHANGED <<task, entry>>
  BY <1>20 DEF BA!ClearVaFeeOverride
<1> QED
  BY <1>5, <1>6, <1>7, <1>8, <1>9, <1>10, <1>11, <1>12, <1>13, <1>14, <1>15, <1>16,
    <1>17, <1>18, <1>19, <1>20 DEF BA!Next

Half == {"insert", "write", "revert", "close"}
\* Without overlap one call alone counts.
LEMMA MirroredAlone ==
  ASSUME NEW t \in Tasks, \A u \in Tasks \ {t} : task[u].pc = "idle",
         Mirrored, NEW o \in Accounts, task[t].pc \in Half => task[t].o # o
  PROVE  Agrees(o)
BY DEF Mirrored, Half

LEMMA MirroredFrom ==
  ASSUME NEW t \in Tasks, \A u \in Tasks \ {t} : task'[u].pc = "idle",
         Between(t)',
         \A o \in Accounts : (task'[t].pc \in Half => task'[t].o # o) => Agrees(o)'
  PROVE  Mirrored'
<1>1. \A u \in Tasks \ {t} : Between(u)'
  BY DEF Between
<1>2. ASSUME NEW o \in Accounts, \A u \in Tasks : task'[u].pc \in Half => task'[u].o # o
      PROVE  Agrees(o)'
  BY <1>2
<1> QED
  BY <1>1, <1>2 DEF Mirrored, Half

LEMMA AgreesKept ==
  ASSUME NEW o \in Accounts, Agrees(o), UNCHANGED <<form, faults>>,
         there'[o] = there[o], entry'[o] = entry[o]
  PROVE  Agrees(o)'
BY DEF Agrees, Exact, BA!InRow

LEMMA MirroredStep ==
  ASSUME MirrorInv, faults \subseteq {"dbError", "fees"}, BA!Next
  PROVE  Mirrored'
<1>1. TypedMirror /\ Aimed /\ InTurns /\ Mirrored
  BY TypedMirrorDef DEF MirrorInv, Limited, InTurns
<1>2. UNCHANGED <<form, faults>>
  BY DEF BA!Next, BA!Compare, BA!ResolveVaFee, BA!Insert, BA!Put, BA!WriteRow,
    BA!Revert, BA!Delete, BA!Close, BA!Post, BA!Deactivate, BA!CountActive, BA!Begin,
    BA!Update, BA!UpdateVaFeeDefault, BA!SetVaFeeOverride, BA!ClearVaFeeOverride,
    BA!Crash, BA!Reads, BA!OnlyThere, BA!OnlyEntry
<1>3. {"overlap", "lost", "refuse", "crash"} \cap faults = {}
  OBVIOUS
\* The call t alone is at work, before and after.
<1>4. ASSUME NEW t \in Tasks, BA!Free(t) \/ task[t].pc # "idle",
             \A u \in Tasks \ {t} : task'[u] = task[u]
      PROVE  \A u \in Tasks \ {t} : task[u].pc = "idle" /\ task'[u].pc = "idle"
  BY <1>1, <1>3, <1>4 DEF InTurns, BA!Free, BA!At
<1>5. ASSUME NEW t \in Tasks, BA!Free(t) \/ task[t].pc # "idle", task[t].pc \notin Half,
             \A u \in Tasks \ {t} : task'[u] = task[u],
             UNCHANGED <<there, entry>>,
             task'[t].pc \notin Half \cup {"put"}
      PROVE  Mirrored'
  <2>1. \A u \in Tasks \ {t} : task[u].pc = "idle" /\ task'[u].pc = "idle"
    BY <1>4, <1>5
  <2>2. \A o \in Accounts : Agrees(o)'
    BY <1>1, <1>2, <1>5, <2>1, MirroredAlone, AgreesKept
  <2>3. Between(t)'
    BY <1>5 DEF Between, Half
  <2> QED
    BY <2>1, <2>2, <2>3, MirroredFrom
<1>6. ASSUME NEW t \in Tasks, BA!Compare(t) PROVE Mirrored'
  <2>1. task[t].pc = "conflict" /\ UNCHANGED <<there, entry>>
    BY <1>6 DEF BA!Compare, BA!At, BA!Reads
  <2>2. Rested(t) \/ Led(t, "fee", task[t].o, task[t].want, task[t].read)
    BY <1>1, <1>6, GotoLeads, DoneRests DEF BA!Compare, BA!Pcs, TypedMirror
  <2> QED
    BY <1>5, <2>1, <2>2 DEF Rested, Led, Half
<1>7. ASSUME NEW t \in Tasks, BA!ResolveVaFee(t) PROVE Mirrored'
  <2>1. /\ task[t].pc = "fee" /\ UNCHANGED <<there, entry>>
        /\ \A u \in Tasks \ {t} : task'[u] = task[u]
        /\ task'[t].pc = "post"
    BY <1>1, <1>7 DEF BA!ResolveVaFee, BA!At, BA!Reads, BA!Become, TypedMirror
  <2> QED
    BY <1>5, <2>1 DEF Half
<1>8. ASSUME NEW t \in Tasks, NEW o \in Accounts, BA!Post(t, o) PROVE Mirrored'
  <2>1. PICK w \in BA!Terms : w = task[t].want
    BY <1>1 DEF TypedMirror, AccountTask
  <2>2. /\ task[t].pc = "post" /\ entry[o] = BA!Blank /\ UNCHANGED entry
        /\ there' = [there EXCEPT ![o] = w] /\ BA!Become(t, "insert", o, w, BA!Gone)
    BY <1>3, <1>8, <2>1 DEF BA!Post, BA!At, BA!OnlyThere
  <2>3. Led(t, "insert", o, w, BA!Gone)
    BY <1>1, <2>2, BecomeLeads, AccountTypes DEF BA!Pcs, TypedMirror
  <2>4. \A u \in Tasks \ {t} : task[u].pc = "idle" /\ task'[u].pc = "idle"
    BY <1>4, <2>2, <2>3 DEF Led
  <2>5. there'[o] = w /\ \A p \in Accounts \ {o} : there'[p] = there[p]
    BY <1>1, <2>2 DEF TypedMirror
  <2>6. Between(t)'
    BY <2>2, <2>3, <2>5 DEF Between, Led, BA!Blank
  <2>7. \A p \in Accounts \ {o} : Agrees(p)'
    BY <1>1, <1>2, <2>2, <2>4, <2>5, MirroredAlone, AgreesKept DEF Half
  <2> QED
    BY <2>3, <2>4, <2>6, <2>7, MirroredFrom DEF Led, Half
<1>9. ASSUME NEW t \in Tasks, BA!Insert(t) PROVE Mirrored'
  <2>1. task[t].pc = "insert" /\ UNCHANGED there /\ Rested(t)
    BY <1>1, <1>9, DoneRests DEF BA!Insert, BA!At, BA!OnlyEntry, TypedMirror
  <2>2. PICK o \in Accounts, w \in BA!Terms : o = task[t].o /\ w = task[t].want
    BY <1>1, <2>1 DEF TypedMirror, AccountTask, Aimed, AimedAt, OfOne
  <2>3. w.to # Nil /\ there[o] = w /\ entry[o].status = "absent"
    BY <1>1, <2>1, <2>2, MirrorConstants DEF Aimed, AimedAt, Creating, Mirrored, Between
  <2>4. \/ entry' = [entry EXCEPT ![o] =
             [status |-> "active", sweep |-> w.to # Own, to |-> w.to, fee |-> w.fee]]
        \/ "dbError" \in faults /\ UNCHANGED entry
    BY <1>9, <2>2 DEF BA!Insert
  <2>5. \A u \in Tasks \ {t} : task[u].pc = "idle" /\ task'[u].pc = "idle"
    BY <1>4, <2>1 DEF Rested
  <2>6. \A p \in Accounts \ {o} : entry'[p] = entry[p]
    BY <1>1, <2>4 DEF TypedMirror
  <2>7. \A p \in Accounts \ {o} : Agrees(p)'
    BY <1>1, <1>2, <2>1, <2>2, <2>5, <2>6, MirroredAlone, AgreesKept
  <2>8. Agrees(o)'
    <3>1. CASE "dbError" \in faults /\ UNCHANGED entry
      BY <1>2, <2>3, <3>1 DEF Agrees
    <3>2. CASE ~("dbError" \in faults /\ UNCHANGED entry)
      <4>1. entry'[o].status = "active" /\ entry'[o].to = w.to /\ entry'[o].fee = w.fee
        BY <1>1, <2>4, <3>2 DEF TypedMirror
      <4>2. BA!InRow(o)' = w
        BY <4>1 DEF BA!InRow, BA!Terms
      <4> QED
        BY <1>2, <2>1, <2>3, <4>1, <4>2 DEF Agrees, BA!Gone
    <3> QED
      BY <3>1, <3>2
  <2>9. Between(t)'
    BY <2>1 DEF Rested, Between
  <2> QED
    BY <2>5, <2>7, <2>8, <2>9, MirroredFrom
<1>10. ASSUME NEW t \in Tasks, BA!Put(t) PROVE Mirrored'
  <2>1. task[t].pc = "put" /\ UNCHANGED entry
    BY <1>10 DEF BA!Put, BA!At, BA!OnlyThere
  <2>2. PICK o \in Accounts, w \in BA!Terms : o = task[t].o /\ w = task[t].want
    BY <1>1, <2>1 DEF TypedMirror, AccountTask, Aimed, AimedAt, OfOne
  <2>3. PICK n \in BA!Terms : n = BA!Merged(there[o], w)
    BY <1>1, AccountTypes DEF TypedMirror
  <2>4. \/ /\ there' = [there EXCEPT ![o] = n]
           /\ BA!Become(t, "write", o, IF form = "va" THEN w ELSE n, task[t].read)
        \/ BA!Done(t) /\ UNCHANGED there
    BY <1>3, <1>10, <2>2, <2>3 DEF BA!Put
  <2>5. CASE BA!Done(t) /\ UNCHANGED there
    <3>1. Rested(t)
      BY <1>1, <2>5, DoneRests DEF TypedMirror
    <3> QED
      BY <1>5, <2>1, <2>5, <3>1 DEF Rested, Half
  <2>6. ASSUME there' = [there EXCEPT ![o] = n], NEW v \in BA!Terms,
               v = IF form = "va" THEN w ELSE n,
               BA!Become(t, "write", o, v, task[t].read)
        PROVE  Mirrored'
    <3>1. Led(t, "write", o, v, task[t].read)
      BY <1>1, <2>6, BecomeLeads DEF BA!Pcs, TypedMirror, AccountTask
    <3>2. \A u \in Tasks \ {t} : task[u].pc = "idle" /\ task'[u].pc = "idle"
      BY <1>4, <2>1, <3>1 DEF Led
    <3>3. there'[o] = n /\ \A p \in Accounts \ {o} : there'[p] = there[p]
      BY <1>1, <2>6 DEF TypedMirror
    <3>4. entry[o].status = "active" /\ task[t].read = BA!InRow(o)
      BY <1>1, <2>1, <2>2 DEF Mirrored, Between
    <3>5. Exact => there[o] = BA!InRow(o)
      BY <1>1, <2>1, <3>2, <3>4, MirroredAlone DEF Agrees, Half
    <3>6. Exact => n = BA!Merged(BA!InRow(o), v)
      BY <2>3, <2>6, <3>5 DEF BA!Merged
    <3>7. BA!InRow(o)' = BA!InRow(o) /\ (Exact' <=> Exact)
      BY <1>2, <2>1 DEF BA!InRow, Exact
    <3>8. Between(t)'
      BY <2>1, <3>1, <3>3, <3>4, <3>6, <3>7 DEF Between, Led
    <3>9. \A p \in Accounts \ {o} : Agrees(p)'
      BY <1>1, <1>2, <2>1, <3>2, <3>3, MirroredAlone, AgreesKept DEF Half
    <3> QED
      BY <3>1, <3>2, <3>8, <3>9, MirroredFrom DEF Led, Half
  <2> QED
    BY <2>4, <2>5, <2>6
<1>11. ASSUME NEW t \in Tasks, BA!WriteRow(t) PROVE Mirrored'
  <2>1. task[t].pc = "write" /\ UNCHANGED there
    BY <1>11 DEF BA!WriteRow, BA!At, BA!OnlyEntry
  <2>2. PICK o \in Accounts, w \in BA!Terms : o = task[t].o /\ w = task[t].want
    BY <1>1, <2>1 DEF TypedMirror, AccountTask, Aimed, AimedAt, OfOne
  <2>3. PICK n \in BA!Terms : n = BA!Merged(BA!InRow(o), w)
    BY <1>1, AccountTypes DEF BA!InRow, AccountRow, BA!Terms, TypedMirror
  <2>4. /\ entry[o].status = "active" /\ entry[o].to # Nil /\ task[t].read = BA!InRow(o)
        /\ Exact => there[o] = n
    BY <1>1, <2>1, <2>2, <2>3 DEF Mirrored, Between, Aimed, AimedRow
  <2>5. n.to # Nil
    BY <2>3, <2>4 DEF BA!Merged, BA!InRow
  <2>6. Rested(t) \/ (Led(t, "revert", o, w, task[t].read) /\ UNCHANGED entry)
    BY <1>1, <1>11, <2>2, GotoLeads, DoneRests DEF BA!WriteRow, BA!Pcs, TypedMirror
  <2>7. \A u \in Tasks \ {t} : task[u].pc = "idle" /\ task'[u].pc = "idle"
    BY <1>4, <2>1, <2>6 DEF Rested, Led
  <2>8. \/ entry' = [entry EXCEPT ![o] = Changed(entry[o], n, w)]
        \/ UNCHANGED entry
    BY <1>11, <2>2, <2>3, WriteRowEffect
  <2>9. \A p \in Accounts \ {o} : entry'[p] = entry[p]
    BY <1>1, <2>8 DEF TypedMirror
  <2>10. \A p \in Accounts \ {o} : Agrees(p)'
    BY <1>1, <1>2, <2>1, <2>2, <2>7, <2>9, MirroredAlone, AgreesKept
  <2>11. CASE Led(t, "revert", o, w, task[t].read) /\ UNCHANGED entry
    <3>1. BA!InRow(o)' = BA!InRow(o) /\ (Exact' <=> Exact)
      BY <1>2, <2>11 DEF BA!InRow, Exact
    <3>2. Between(t)'
      BY <2>1, <2>3, <2>4, <2>11, <3>1 DEF Between, Led
    <3> QED
      BY <2>7, <2>10, <2>11, <3>2, MirroredFrom DEF Led, Half
  <2>12. CASE Rested(t) /\ entry' = [entry EXCEPT ![o] = Changed(entry[o], n, w)]
    <3>1. entry'[o].status = "active" /\ entry'[o].to = n.to /\ entry'[o].fee = n.fee
      BY <1>1, <2>4, <2>12, ChangedFields DEF TypedMirror
    <3>2. BA!InRow(o)' = n
      BY <3>1 DEF BA!InRow, BA!Terms
    <3>3. Agrees(o)'
      BY <1>2, <2>1, <2>4, <2>5, <3>1, <3>2 DEF Agrees, Exact, BA!Gone
    <3>4. Between(t)'
      BY <2>12 DEF Rested, Between
    <3> QED
      BY <2>7, <2>10, <3>3, <3>4, MirroredFrom
  <2>13. CASE Rested(t) /\ "dbError" \in faults /\ form # "va"
    <3>1. Agrees(o)'
      BY <1>2, <2>13 DEF Agrees, Exact
    <3>2. Between(t)'
      BY <2>13 DEF Rested, Between
    <3> QED
      BY <2>7, <2>10, <3>1, <3>2, MirroredFrom
  <2>14. \/ BA!Done(t) /\ entry' = [entry EXCEPT ![o] = Changed(entry[o], n, w)]
         \/ BA!Done(t) /\ "dbError" \in faults /\ form # "va"
         \/ BA!Goto(t, "revert") /\ UNCHANGED entry
    <3>1. \/ /\ entry' = [entry EXCEPT ![task[t].o] =
                  Changed(entry[task[t].o], BA!Merged(BA!InRow(task[t].o), task[t].want),
                    task[t].want)]
             /\ BA!Done(t)
          \/ BA!Done(t) /\ "dbError" \in faults /\ form # "va"
          \/ BA!Goto(t, "revert") /\ UNCHANGED entry
      BY <1>11, Zenon DEF BA!WriteRow, Changed
    <3> QED
      BY <2>2, <2>3, <3>1
  <2>15. BA!Done(t) => Rested(t)
    BY <1>1, DoneRests DEF TypedMirror
  <2>16. BA!Goto(t, "revert") => Led(t, "revert", o, w, task[t].read)
    BY <1>1, <2>2, GotoLeads DEF BA!Pcs, TypedMirror
  <2> QED
    BY <2>11, <2>12, <2>13, <2>14, <2>15, <2>16
<1>12. ASSUME NEW t \in Tasks, BA!Revert(t) PROVE Mirrored'
  <2>1. task[t].pc = "revert" /\ UNCHANGED entry /\ Rested(t) /\ Exact
    BY <1>1, <1>12, DoneRests
      DEF BA!Revert, BA!At, BA!OnlyThere, TypedMirror, Aimed, AimedAt, Exact
  <2>2. PICK o \in Accounts, w \in BA!Terms : o = task[t].o /\ w = task[t].want
    BY <1>1, <2>1 DEF TypedMirror, AccountTask, Aimed, AimedAt, OfOne
  <2>3. /\ entry[o].status = "active" /\ entry[o].to # Nil /\ task[t].read = BA!InRow(o)
        /\ there[o] = BA!Merged(BA!InRow(o), w)
    BY <1>1, <2>1, <2>2 DEF Mirrored, Between, Aimed, AimedRow
  <2>4. there[o] # BA!Gone /\ BA!InRow(o) # BA!Gone
    BY <2>3 DEF BA!Gone, BA!Merged, BA!InRow
  <2>5. there' = [there EXCEPT ![o] =
          [to |-> IF w.to # Nil THEN BA!InRow(o).to ELSE there[o].to,
           fee |-> IF w.fee # Nil THEN BA!InRow(o).fee ELSE there[o].fee]]
    BY <1>1, <1>3, <1>12, <2>2, <2>3, <2>4 DEF BA!Revert, TypedMirror
  <2>6. there'[o] = BA!InRow(o) /\ \A p \in Accounts \ {o} : there'[p] = there[p]
    BY <1>1, <2>3, <2>5 DEF TypedMirror, BA!InRow, BA!Merged
  <2>7. \A u \in Tasks \ {t} : task[u].pc = "idle" /\ task'[u].pc = "idle"
    BY <1>4, <2>1 DEF Rested
  <2>8. \A p \in Accounts \ {o} : Agrees(p)'
    BY <1>1, <1>2, <2>1, <2>2, <2>6, <2>7, MirroredAlone, AgreesKept
  <2>9. Agrees(o)'
    BY <2>1, <2>3, <2>4, <2>6 DEF Agrees, BA!InRow
  <2>10. Between(t)'
    BY <2>1 DEF Rested, Between
  <2> QED
    BY <2>7, <2>8, <2>9, <2>10, MirroredFrom
<1>13. ASSUME NEW t \in Tasks, BA!Delete(t) PROVE Mirrored'
  <2>1. task[t].pc = "delete" /\ UNCHANGED entry
    BY <1>13 DEF BA!Delete, BA!At, BA!OnlyThere
  <2>2. PICK o \in Accounts : o = task[t].o
    BY <1>1, <2>1 DEF Aimed, AimedAt, OfOne
  <2>3. Led(t, "close", o, task[t].want, task[t].read)
    BY <1>1, <1>13, <2>2, GotoLeads DEF BA!Delete, BA!Pcs, TypedMirror
  <2>4. there' = [there EXCEPT ![o] = BA!Gone]
    BY <1>3, <1>13, <2>2 DEF BA!Delete
  <2>5. there'[o] = BA!Gone /\ \A p \in Accounts \ {o} : there'[p] = there[p]
    BY <1>1, <2>4 DEF TypedMirror
  <2>6. \A u \in Tasks \ {t} : task[u].pc = "idle" /\ task'[u].pc = "idle"
    BY <1>4, <2>1, <2>3 DEF Led
  <2>7. \A p \in Accounts \ {o} : Agrees(p)'
    BY <1>1, <1>2, <2>1, <2>5, <2>6, MirroredAlone, AgreesKept DEF Half
  <2>8. Between(t)'
    BY <2>3, <2>5 DEF Led, Between
  <2> QED
    BY <2>3, <2>6, <2>7, <2>8, MirroredFrom DEF Led, Half
<1>14. ASSUME NEW t \in Tasks, BA!Close(t) PROVE Mirrored'
  <2>1. task[t].pc = "close" /\ UNCHANGED there /\ Rested(t)
    BY <1>1, <1>14, DoneRests DEF BA!Close, BA!At, BA!OnlyEntry, TypedMirror
  <2>2. PICK o \in Accounts : o = task[t].o
    BY <1>1, <2>1 DEF Aimed, AimedAt, OfOne
  <2>3. entry' = [entry EXCEPT ![o].status = "inactive"]
    BY <1>14, <2>2 DEF BA!Close
  <2>4. /\ entry'[o].status = "inactive" /\ \A p \in Accounts \ {o} : entry'[p] = entry[p]
    BY <1>1, <2>3 DEF TypedMirror, AccountRow
  <2>5. there[o] = BA!Gone
    BY <1>1, <2>1, <2>2 DEF Mirrored, Between
  <2>6. \A u \in Tasks \ {t} : task[u].pc = "idle" /\ task'[u].pc = "idle"
    BY <1>4, <2>1 DEF Rested
  <2>7. \A p \in Accounts \ {o} : Agrees(p)'
    BY <1>1, <1>2, <2>1, <2>2, <2>4, <2>6, MirroredAlone, AgreesKept
  <2>8. Agrees(o)'
    BY <2>1, <2>4, <2>5 DEF Agrees, BA!Gone
  <2>9. Between(t)'
    BY <2>1 DEF Rested, Between
  <2> QED
    BY <2>6, <2>7, <2>8, <2>9, MirroredFrom
<1>15. ASSUME NEW t \in Tasks, NEW o \in Accounts, BA!Deactivate(t, o) PROVE Mirrored'
  <2>1. /\ BA!Free(t) /\ UNCHANGED <<there, entry>>
        /\ \A u \in Tasks \ {t} : task'[u] = task[u]
        /\ task'[t].pc = "delete"
    BY <1>1, <1>15 DEF BA!Deactivate, BA!Reads, BA!Become, TypedMirror
  <2> QED
    BY <1>5, <2>1 DEF Half, BA!Free, BA!At
<1>16. ASSUME NEW t \in Tasks, NEW to \in BA!Places, BA!CountActive(t, to) PROVE Mirrored'
  <2>1. /\ BA!Free(t) /\ UNCHANGED <<there, entry>>
        /\ \A u \in Tasks \ {t} : task'[u] = task[u]
        /\ task'[t].pc = "conflict"
    BY <1>1, <1>16 DEF BA!CountActive, BA!Reads, BA!Become, TypedMirror
  <2> QED
    BY <1>5, <2>1 DEF Half, BA!Free, BA!At
<1>17. ASSUME NEW t \in Tasks, NEW to \in BA!Places, NEW fee \in Fees, BA!Begin(t, to, fee)
       PROVE  Mirrored'
  <2>1. /\ BA!Free(t) /\ UNCHANGED <<there, entry>>
        /\ \A u \in Tasks \ {t} : task'[u] = task[u]
        /\ task'[t].pc = "post"
    BY <1>1, <1>17 DEF BA!Begin, BA!Reads, BA!Become, TypedMirror
  <2> QED
    BY <1>5, <2>1 DEF Half, BA!Free, BA!At
<1>18. ASSUME NEW t \in Tasks, NEW o \in Accounts, NEW want \in BA!Wants, BA!Update(t, o, want)
       PROVE  Mirrored'
  <2>1. want \in BA!Terms /\ BA!InRow(o) \in BA!Terms
    BY <1>1 DEF BA!Wants, BA!Terms, BA!InRow, AccountRow, BA!Places, TypedMirror
  <2>2. /\ BA!Free(t) /\ UNCHANGED <<there, entry>>
        /\ Led(t, "put", o, want, BA!InRow(o))
    BY <1>1, <1>18, <2>1, BecomeLeads DEF BA!Update, BA!Reads, BA!Pcs, TypedMirror
  <2>3. entry[o].status = "active"
    BY <1>1, <1>18 DEF BA!Update, TypedMirror, AccountRow, Aimed, AimedRow
  <2>4. \A u \in Tasks \ {t} : task[u].pc = "idle" /\ task'[u].pc = "idle"
    BY <1>4, <2>2 DEF Led
  <2>5. \A p \in Accounts : Agrees(p)'
    BY <1>1, <1>2, <2>2, <2>4, MirroredAlone, AgreesKept DEF Half, BA!Free, BA!At
  <2>6. Between(t)'
    BY <2>2, <2>3 DEF Led, Between, BA!InRow
  <2> QED
    BY <2>4, <2>5, <2>6, MirroredFrom
<1>19. ASSUME UNCHANGED <<task, entry, there>> PROVE Mirrored'
  BY <1>1, <1>2, <1>19 DEF Mirrored, Between, Agrees, Exact, BA!InRow
<1>20. ASSUME NEW s \in BOOLEAN, NEW fee \in Fees,
              BA!UpdateVaFeeDefault(s, fee) \/ BA!SetVaFeeOverride(s, fee)
       PROVE  Mirrored'
  BY <1>19, <1>20 DEF BA!UpdateVaFeeDefault, BA!SetVaFeeOverride
<1>21. ASSUME NEW s \in BOOLEAN, BA!ClearVaFeeOverride(s) PROVE Mirrored'
  BY <1>19, <1>21 DEF BA!ClearVaFeeOverride
<1>22. ~BA!Crash
  BY <1>3 DEF BA!Crash
<1> QED
  BY <1>6, <1>7, <1>8, <1>9, <1>10, <1>11, <1>12, <1>13, <1>14, <1>15, <1>16, <1>17,
    <1>18, <1>20, <1>21, <1>22 DEF BA!Next

LEMMA MirrorInit == BA!Init => MirrorInv
<1> SUFFICES ASSUME BA!Init PROVE MirrorInv
  OBVIOUS
<1>1. TypedMirror
  BY AccountTypes, MirrorConstants DEF BA!Init, TypedMirror
<1>2. /\ \A t \in Tasks : task[t].pc = "idle"
      /\ \A o \in Accounts : entry[o] = BA!Blank /\ there[o] = BA!Gone
  BY AccountTypes DEF BA!Init
<1>3. Aimed
  BY <1>2 DEF Aimed, AimedAt, AimedRow, OfOne, Creating, BA!Blank,
    BA!Init
<1>4. BA!Active = {} /\ InOwn = {} /\ Coming = {} /\ ComingOwn = {}
  BY <1>2 DEF BA!Active, BA!Blank, InOwn, Coming, ComingOwn, Creating
<1>5. Limited
  <2>1. Late \in Nat
    <3>1. Cardinality(Tasks) \in Nat \ {0}
      BY ComingFinite
    <3> QED
      BY <3>1 DEF Late
  <2> QED
    BY <1>2, <1>4, <2>1, FS_EmptySet, MirrorConstants DEF Limited
<1>6. Mirrored
  BY <1>2 DEF Mirrored, Between, Agrees, BA!Blank
<1> QED
  BY <1>1, <1>3, <1>5, <1>6, TypedMirrorDef DEF MirrorInv

LEMMA MirrorStep == MirrorInv /\ BA!Next => MirrorInv'
<1> SUFFICES ASSUME MirrorInv, BA!Next PROVE MirrorInv'
  OBVIOUS
<1>1. (BA!TypeOK /\ Aimed)'
  BY MirrorTypes DEF MirrorInv
<1>2. Limited'
  BY LimitedStep
<1>3. UNCHANGED faults
  BY DEF BA!Next, BA!Compare, BA!ResolveVaFee, BA!Insert, BA!Put, BA!WriteRow,
    BA!Revert, BA!Delete, BA!Close, BA!Post, BA!Deactivate, BA!CountActive, BA!Begin,
    BA!Update, BA!UpdateVaFeeDefault, BA!SetVaFeeOverride, BA!ClearVaFeeOverride,
    BA!Crash, BA!Reads, BA!OnlyThere, BA!OnlyEntry
<1>4. (faults \subseteq {"dbError", "fees"})' => Mirrored'
  BY <1>3, MirroredStep
<1> QED
  BY <1>1, <1>2, <1>4 DEF MirrorInv

LEMMA MirrorHolds == MirrorInv => BA!RowsMatchBridge /\ BA!AccountsWithinLimits
<1> SUFFICES ASSUME MirrorInv PROVE BA!RowsMatchBridge /\ BA!AccountsWithinLimits
  OBVIOUS
<1>1. BA!RowsMatchBridge
  BY DEF MirrorInv, Mirrored, Agrees, Exact, BA!RowsMatchBridge, BA!At, BA!Active
<1>2. ASSUME form = "va"
      PROVE  /\ Cardinality(BA!Active) =< MaxTotal + Late
             /\ Cardinality(InOwn) =< 1 + Late
  <2>1. /\ IsFiniteSet(BA!Active) /\ IsFiniteSet(InOwn)
        /\ Cardinality(BA!Active) + Cardinality(Coming) <= MaxTotal + Late
        /\ Cardinality(InOwn) + Cardinality(ComingOwn) <= 1 + Late
    BY <1>2, FS_Subset DEF MirrorInv, Limited, InOwn
  <2>2. /\ Cardinality(BA!Active) \in Nat /\ Cardinality(InOwn) \in Nat
    BY <2>1, FS_CardinalityType
  <2>3. Cardinality(Coming) \in Nat /\ Cardinality(ComingOwn) \in Nat
        /\ Cardinality(Tasks) \in Nat
    BY ComingFinite DEF Coming, ComingOwn
  <2>4. Late \in Int /\ MaxTotal \in Nat
    BY <2>3, MirrorConstants DEF Late
  <2> QED
    BY <2>1, <2>2, <2>3, <2>4
<1>3. \A S : BA!Cardinality(S) = Cardinality(S)
  BY DEF BA!Cardinality, Cardinality
<1> QED
  BY <1>1, <1>2, <1>3 DEF BA!AccountsWithinLimits, Late, InOwn

LEMMA MirrorInvariant == Spec => [](part = "mirror" => MirrorInv)
<1>1. Init => (part = "mirror" => MirrorInv)
  BY MirrorInit DEF Init
<1>2. (part = "mirror" => MirrorInv) /\ [Next]_vars => (part = "mirror" => MirrorInv)'
  <2> SUFFICES ASSUME part = "mirror" => MirrorInv, [Next]_vars, part' = "mirror"
               PROVE  MirrorInv'
    OBVIOUS
  <2>1. CASE Next
    BY <2>1, MirrorStep DEF Next
  <2>2. CASE UNCHANGED vars
    <3>1. UNCHANGED <<form, there, entry, standard, special, faults, task>>
      BY <2>2 DEF vars, mirrorOwn
    <3>2. MirrorInv
      BY <2>2 DEF vars
    <3>3. (BA!TypeOK /\ Aimed)'
      BY <3>1, <3>2 DEF MirrorInv, BA!TypeOK, Aimed, AimedAt, AimedRow, OfOne, Creating
    <3>4. Limited'
      BY <3>1, <3>2 DEF MirrorInv, Limited, BA!Active, BA!Sweeps, InOwn, Coming,
        ComingOwn, Late
    <3>5. faults \subseteq {"dbError", "fees"} => Mirrored'
      BY <3>1, <3>2 DEF MirrorInv, Mirrored, Between, Agrees, Exact, BA!InRow
    <3> QED
      BY <3>1, <3>3, <3>4, <3>5 DEF MirrorInv
  <2> QED
    BY <2>1, <2>2
<1> QED
  BY <1>1, <1>2, PTL DEF Spec

\* Without overlap, crash or a lost or refused call, a row that can be used says what
\* Bridge has (updateVirtualAccount puts Bridge back when its row cannot follow), and
\* no client has more accounts than createVirtualAccount lets him have; calls at
\* once add one account each.
THEOREM RowsFollowBridge == Spec => []RowsMatchBridge
<1>1. (part = "mirror" => MirrorInv) => RowsMatchBridge
  BY MirrorHolds DEF RowsMatchBridge
<1> QED
  BY <1>1, MirrorInvariant, PTL

(***************************************************************************)
(* Together.                                                               *)
(***************************************************************************)
\* A deposit to a virtual account is credited once and the balance is what was
\* credited (handleVaPaymentProcessed); a drain pays one order and an order is paid
\* by one drain (handleDrain).
THEOREM ArrivalsArePaidOnce == Spec => []ArrivalsPaidOnce
<1>1. /\ part = "deposits" => ArrivalInv
      /\ part = "drains" => DrainInv
      => ArrivalsPaidOnce
  BY ArrivalHolds, DrainHolds DEF ArrivalsPaidOnce
<1> QED
  BY <1>1, ArrivalInvariant, DrainInvariant, PTL

\* Every variable of each part has its type.
THEOREM ServicesTypeOK == Spec => []TypeOK
<1>1. /\ part = "deposits" => ArrivalInv
      /\ part = "drains" => DrainInv
      /\ part = "admission" => ReviewInv
      /\ part = "limits" => RL!TypeOK
      /\ part = "slots" => SlotInv
      /\ part = "mirror" => MirrorInv
      /\ part = "keys" => KeyInv
      => TypeOK
  BY DEF TypeOK, ArrivalInv, DrainInv, ReviewInv, SlotInv, MirrorInv, KeyInv
<1> QED
  BY <1>1, ArrivalInvariant, DrainInvariant, ReviewInvariant, LimitInvariant,
    SlotInvariant, MirrorInvariant, KeyInvariant, PTL
=============================================================================
