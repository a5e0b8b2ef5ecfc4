------------------------------- MODULE Drains -------------------------------
(***************************************************************************)
(* Drains: what Bridge pays out of a liquidation address.  The webhooks    *)
(* link each drain to the order it pays (bridge_drain_id) and close the    *)
(* order when the drain ends.  Nothing in a drain names its order: the     *)
(* oldest open order without a drain is taken that has its liquidation     *)
(* address or, failing that, its destination and about its amount.  The    *)
(* events that only tell the client or the staff are left out.             *)
(*                                                                         *)
(* A task is one webhook in flight and an action is one call of the        *)
(* database.  The failures of a behaviour are chosen in its first state:   *)
(* "repeat" (an event is handled twice, as after a crash), "reorder",      *)
(* "overlap" (two webhooks at once), "crash", "close" (staff close orders  *)
(* meanwhile).                                                             *)
(***************************************************************************)
EXTENDS Naturals, FiniteSets

CONSTANTS
  Orders,  \* the orders in 'processing', numbered by created_at
  Drains,
  SameAddress,  \* the orders with the liquidation address of a drain
  SameAmount,   \* those with its account or wallet and nearly its amount
  Tasks,
  Worlds   \* the sets of failures a behaviour may have

OrdersAssumption == Orders \subseteq Nat /\ 0 \notin Orders
None == "none"  \* the NULL of bridge_drain_id
DrainsAssumption == Drains # {} /\ None \notin Drains
FitsAssumption ==
  SameAddress \in [Drains -> SUBSET Orders] /\ SameAmount \in [Drains -> SUBSET Orders]

VARIABLES
  status,  \* payment_orders.status
  drain,   \* payment_orders.bridge_drain_id
  noted,   \* failure_reason says that the drain was refunded
  bridge,  \* the drain in Bridge
  paid,    \* history: the drains that Bridge paid out
  inbox,   \* deliveries left of each event
  paidBy,  \* history: the orders each drain completed
  faults,  \* the failures of this behaviour
  task

orderVars == <<status, drain, noted>>
bridgeVars == <<bridge, paid, inbox>>
vars == <<orderVars, bridgeVars, paidBy, faults, task>>

\* "broken" stands for undeliverable, returned, canceled, error and
\* missing_return_policy, whose handlers differ in what they say.
Kinds == {"created", "processed", "broken", "refunded"}
Terminal == {"completed", "failed", "cancelled"}
Pcs == {"idle", "link", "late", "complete", "fail", "note"}

Idle == [pc |-> "idle", d |-> CHOOSE d \in Drains : TRUE, o |-> 0]

Init ==
  /\ faults \in Worlds
  /\ status = [o \in Orders |-> "processing"]
  /\ drain = [o \in Orders |-> None]
  /\ noted = [o \in Orders |-> FALSE]
  /\ bridge = [d \in Drains |-> None]
  /\ paid = {}
  /\ inbox = [e \in Drains \X Kinds |-> 0]
  /\ paidBy = [d \in Drains |-> {}]
  /\ task = [t \in Tasks |-> Idle]

At(t, pc) == task[t].pc = pc
Start(t, pc, d, o) ==
  task' = [task EXCEPT ![t] =
             IF pc = "idle" THEN Idle ELSE [pc |-> pc, d |-> d, o |-> o]]
Done(t) == task' = [task EXCEPT ![t] = Idle]
Free(t) == At(t, "idle") /\ ("overlap" \in faults \/ \A u \in Tasks : At(u, "idle"))

Rank == [created |-> 0, processed |-> 1, broken |-> 2, refunded |-> 3]
\* A webhook of the drain is taken from the queue and goes on with order o.
Take(t, d, kind, pc, o) ==
  /\ Free(t)
  /\ inbox[<<d, kind>>] > 0
  /\ \/ "reorder" \in faults
     \/ \A k \in Kinds : Rank[k] < Rank[kind] => inbox[<<d, k>>] = 0
  /\ inbox' = [inbox EXCEPT ![<<d, kind>>] = @ - 1]
  /\ Start(t, pc, d, o)
  /\ UNCHANGED <<bridge, paid, faults>>

\* The order that a drain is taken to pay: the address goes before the
\* amount, and the oldest before the others.
Oldest(S) == CHOOSE o \in S : \A p \in S : o =< p
Open == {o \in Orders : status[o] = "processing" /\ drain[o] = None}
Match(d) ==
  CASE SameAddress[d] \cap Open # {} -> Oldest(SameAddress[d] \cap Open)
    [] SameAddress[d] \cap Open = {} /\ SameAmount[d] \cap Open # {}
         -> Oldest(SameAmount[d] \cap Open)
    [] OTHER -> 0
Linked(d) == {o \in Orders : drain[o] = d}
\* maybeSingle: two rows are an error, and read as none.
Single(S) == IF Cardinality(S) = 1 THEN Oldest(S) ELSE 0

(***************************************************************************)
(* drain.created: the link is written by the id of the order alone.  The   *)
(* handler does not look whether the drain has an order already.           *)
(***************************************************************************)
DrainCreated(t, d) ==
  /\ Take(t, d, "created", IF Match(d) = 0 THEN "idle" ELSE "link", Match(d))
  /\ UNCHANGED <<orderVars, paidBy>>
Link(t) ==
  /\ At(t, "link")
  /\ drain' = [drain EXCEPT ![task[t].o] = task[t].d]
  /\ Done(t)
  /\ UNCHANGED <<status, noted, bridgeVars, paidBy, faults>>

(***************************************************************************)
(* payment_processed: the order of the drain that is in 'processing', or,  *)
(* if there is none, one that fits.                                        *)
(***************************************************************************)
DrainProcessed(t, d) ==
  LET o == Single({p \in Linked(d) : status[p] = "processing"}) IN
  /\ Take(t, d, "processed", IF o = 0 THEN "late" ELSE "complete", o)
  /\ UNCHANGED <<orderVars, paidBy>>
LateMatch(t) ==
  /\ At(t, "late")
  /\ LET d == task[t].d IN
     IF Match(d) = 0 THEN Done(t) ELSE Start(t, "complete", d, Match(d))
  /\ UNCHANGED <<orderVars, bridgeVars, paidBy, faults>>
CompleteDrainOrder(t) ==
  LET o == task[t].o  d == task[t].d IN
  /\ At(t, "complete")
  /\ status' = [status EXCEPT ![o] = "completed"]
  /\ drain' = [drain EXCEPT ![o] = d]
  /\ paidBy' = [paidBy EXCEPT ![d] = @ \cup {o}]
  /\ Done(t)
  /\ UNCHANGED <<noted, bridgeVars, faults>>

(***************************************************************************)
(* A drain that ends badly fails its order unless that is closed; a refund *)
(* notes it, closed or not.                                                *)
(***************************************************************************)
DrainBroken(t, d) ==
  LET o == Single(Linked(d)) IN
  /\ Take(t, d, "broken",
          IF o = 0 THEN "idle" ELSE IF status[o] \in Terminal THEN "idle" ELSE "fail", o)
  /\ UNCHANGED <<orderVars, paidBy>>
FailDrainOrder(t) ==
  /\ At(t, "fail")
  /\ status' = [status EXCEPT ![task[t].o] = "failed"]
  /\ drain' = [drain EXCEPT ![task[t].o] = task[t].d]
  /\ Done(t)
  /\ UNCHANGED <<noted, bridgeVars, paidBy, faults>>
DrainRefunded(t, d) ==
  LET o == Single(Linked(d)) IN
  /\ Take(t, d, "refunded", IF o = 0 THEN "idle" ELSE "note", o)
  /\ UNCHANGED <<orderVars, paidBy>>
Note(t) ==
  /\ At(t, "note")
  /\ noted' = [noted EXCEPT ![task[t].o] = TRUE]
  /\ Done(t)
  /\ UNCHANGED <<status, drain, bridgeVars, paidBy, faults>>

(***************************************************************************)
(* Outside: Bridge, staff, the death of the process.                       *)
(***************************************************************************)
BridgeMoves(d) ==
  \E to \in Kinds :
    /\ <<bridge[d], to>> \in {<<None, "created">>, <<"created", "processed">>,
                             <<"created", "broken">>, <<"processed", "broken">>,
                             <<"broken", "refunded">>}
    /\ bridge' = [bridge EXCEPT ![d] = to]
    /\ paid' = IF to = "processed" THEN paid \cup {d} ELSE paid
    /\ inbox' = [inbox EXCEPT ![<<d, to>>] = IF "repeat" \in faults THEN 2 ELSE 1]
    /\ UNCHANGED <<orderVars, paidBy, faults, task>>
\* Staff complete, fail or cancel the order (OffRampOrders, DepositOrders).
StaffCloses(o) ==
  /\ "close" \in faults
  /\ status[o] = "processing"
  /\ \E s \in Terminal : status' = [status EXCEPT ![o] = s]
  /\ UNCHANGED <<drain, noted, bridgeVars, paidBy, faults, task>>
Crash ==
  /\ "crash" \in faults
  /\ \E t \in Tasks : ~At(t, "idle")
  /\ task' = [t \in Tasks |-> Idle]
  /\ UNCHANGED <<orderVars, bridgeVars, paidBy, faults>>

Webhook(t, d) ==
  \/ DrainCreated(t, d) \/ DrainProcessed(t, d)
  \/ DrainBroken(t, d) \/ DrainRefunded(t, d)
Step(t) ==
  \/ Link(t) \/ LateMatch(t) \/ CompleteDrainOrder(t) \/ FailDrainOrder(t) \/ Note(t)

Next ==
  \/ \E t \in Tasks : Step(t)
  \/ \E t \in Tasks, d \in Drains : Webhook(t, d)
  \/ \E d \in Drains : BridgeMoves(d)
  \/ \E o \in Orders : StaffCloses(o)
  \/ Crash

Spec == Init /\ [][Next]_vars

(***************************************************************************)
(* Properties.                                                             *)
(***************************************************************************)
TypeOK ==
  /\ faults \in Worlds
  /\ status \in [Orders -> {"processing"} \cup Terminal]
  /\ drain \in [Orders -> Drains \cup {None}]
  /\ noted \in [Orders -> BOOLEAN]
  /\ bridge \in [Drains -> Kinds \cup {None}]
  /\ paid \subseteq Drains
  /\ inbox \in [Drains \X Kinds -> Nat]
  /\ paidBy \in [Drains -> SUBSET Orders]
  /\ task \in [Tasks -> [pc : Pcs, d : Drains, o : Orders \cup {0}]]

\* Whatever is repeated, reordered or lost, an order is completed only by a
\* drain that Bridge paid out (completeDrainOrder).  When the events of a
\* drain come once and one at a time, in whatever order, it completes at most
\* one order, and no other drain completes that one; in order, it has no
\* second order linked either.
DrainPaysOnce ==
  /\ \A d \in Drains : paidBy[d] # {} => d \in paid
  /\ faults \subseteq {"reorder", "crash"} =>
       /\ \A d \in Drains : Cardinality(paidBy[d]) =< 1
       /\ \A d, e \in Drains : paidBy[d] \cap paidBy[e] # {} => d = e
       /\ "reorder" \notin faults =>
            \A d \in Drains : Cardinality(Linked(d)) =< 1 /\ paidBy[d] \subseteq Linked(d)
=============================================================================
