----------------------------- MODULE OrderSlots -----------------------------
(***************************************************************************)
(* A client has one open order in each slot: for a destination currency, a *)
(* rail by which he pays in, or a currency and a beneficiary.  The         *)
(* creation of every flow first reads whether its slot is free; a unique   *)
(* index of payment_orders, over the orders in some statuses, decides      *)
(* again at each INSERT and UPDATE.  Some flows post their transfer to     *)
(* Bridge before the INSERT, most after it.  Here are the ten flows and    *)
(* their Bridge legs as far as slots go; the money and what happens to an  *)
(* order afterwards are in OffRampOrders and DepositOrders.                *)
(*                                                                         *)
(* A task is one creation or approval, an action one call.  Flows of       *)
(* different indexes share nothing: a behaviour has those of one.  The     *)
(* failures of a behaviour are chosen in its first state: "refuse" (Bridge *)
(* refuses), "lost" (its answer, or the address in it, is missing),        *)
(* "overlap" (several calls at once), "crash".                             *)
(***************************************************************************)
EXTENDS Naturals

CONSTANTS
  Orders,      \* ids for rows
  Sources,     \* currencies paid in
  Targets,     \* destination currencies, networks or beneficiaries
  Tasks,
  Worlds       \* the sets of failures a behaviour may have

SlotsAssumption == Orders # {}

VARIABLES
  order,     \* payment_orders: flow, slot columns, status, transfer linked
  transfer,  \* the orders whose transfer Bridge has
  refused,   \* history: the flows in which an index refused an order
  family,    \* the flows of this behaviour
  faults,    \* its failures
  task

vars == <<order, transfer, refused, family, faults, task>>

Instructed == {"bolivia_to_world", "bolivia_to_wallet", "world_to_bolivia"}
OnRamps == {"fiat_bo_to_bridge_wallet", "crypto_to_bridge_wallet"}
Rail == OnRamps \cup {"wallet_to_wallet"}
OffRamps == {"bridge_wallet_to_fiat_bo", "bridge_wallet_to_crypto", "bridge_wallet_to_fiat_us"}
Flows == Instructed \cup Rail \cup OffRamps \cup {"wallet_to_world"}
Families == {Rail} \cup {{f} : f \in Flows \ Rail}
Statuses == {"absent", "created", "pending_review", "waiting_deposit", "deposit_received",
             "processing", "closed"}
Blank == [flow |-> "none", from |-> 0, to |-> 0, status |-> "absent", linked |-> FALSE]
Idle == [pc |-> "idle", o |-> CHOOSE o \in Orders : TRUE, new |-> Blank, skip |-> FALSE]

Init ==
  /\ faults \in Worlds
  /\ family \in Families
  /\ order = [o \in Orders |-> Blank]
  /\ transfer = {}
  /\ refused = {}
  /\ task = [t \in Tasks |-> Idle]

At(t, pc) == task[t].pc = pc
Become(t, pc, o, new, skip) ==
  task' = [task EXCEPT ![t] = [pc |-> pc, o |-> o, new |-> new, skip |-> skip]]
Goto(t, pc) == Become(t, pc, task[t].o, task[t].new, task[t].skip)
Done(t) == task' = [task EXCEPT ![t] = Idle]
Free(t) == At(t, "idle") /\ ("overlap" \in faults \/ \A u \in Tasks : At(u, "idle"))

(***************************************************************************)
(* The slots.  A row e in one of these statuses takes one.                 *)
(***************************************************************************)
\* The unique indexes of the migrations.
Pays(e) == e.status = "waiting_deposit" /\ e.linked
Indexed(e) ==
  \/ e.status = "pending_review"
  \/ e.flow \in Rail /\ Pays(e)
  \/ e.flow \in Instructed
     /\ e.status \in {"waiting_deposit", "deposit_received", "processing"}
  \/ e.flow \in OffRamps /\ e.status \in {"created", "processing"}
  \/ e.flow = "wallet_to_world" /\ e.status \in {"created", "waiting_deposit", "processing"}
IndexKey(e) ==
  CASE e.flow \in {"bolivia_to_world", "bolivia_to_wallet"} -> <<e.to>>
    [] e.flow = "world_to_bolivia" -> <<"BOB">>
    [] e.flow = "bridge_wallet_to_fiat_bo" -> <<e.from>>
    [] OTHER -> <<e.from, e.to>>
IndexAllows(o, e) ==
  Indexed(e) =>
    \A q \in Orders \ {o} : ~(Indexed(order[q]) /\ IndexKey(order[q]) = IndexKey(e))

\* The checks of the creations, one of each flow.
ConflictingBoliviaToWorld(q, e) ==
  /\ q.to = e.to
  /\ q.status \in {"pending_review", "waiting_deposit", "deposit_received", "processing"}
\* Mutant: an order in review does not stand in the way.
ConflictingDepositInReview(q, e) ==
  /\ q.from = e.from /\ q.to = e.to
  /\ Pays(q)
ConflictingBridgeDeposit(q, e) ==
  /\ q.from = e.from /\ q.to = e.to
  /\ q.status = "pending_review" \/ Pays(q)
ConflictingPsav(q, e) == ConflictingBoliviaToWorld(q, e)
ConflictingWorldToBolivia(q, e) ==
  /\ q.from = e.from
  /\ q.status \in {"pending_review", "waiting_deposit", "deposit_received", "processing"}
ConflictingOffRamp(q, e) ==
  /\ q.from = e.from
  /\ q.status \in {"created", "pending_review", "processing"}
ConflictingCryptoOffRamp(q, e) ==
  /\ q.from = e.from /\ q.to = e.to
  /\ q.status \in {"created", "pending_review", "processing"}
ConflictingFiatUsOffRamp(q, e) == ConflictingCryptoOffRamp(q, e)
ConflictingWalletToWorld(q, e) ==
  /\ q.from = e.from /\ q.to = e.to
  /\ q.status \in {"created", "pending_review", "waiting_deposit", "processing"}
Conflicting(q, e) ==
  CASE e.flow = "bolivia_to_world" -> ConflictingBoliviaToWorld(q, e)
    [] e.flow = "bolivia_to_wallet" -> ConflictingPsav(q, e)
    [] e.flow = "world_to_bolivia" -> ConflictingWorldToBolivia(q, e)
    [] e.flow = "bridge_wallet_to_fiat_bo" -> ConflictingOffRamp(q, e)
    [] e.flow = "bridge_wallet_to_crypto" -> ConflictingCryptoOffRamp(q, e)
    [] e.flow = "bridge_wallet_to_fiat_us" -> ConflictingFiatUsOffRamp(q, e)
    [] e.flow = "wallet_to_world" -> ConflictingWalletToWorld(q, e)
    [] OTHER -> ConflictingBridgeDeposit(q, e)

(***************************************************************************)
(* What each creation does: the status its order begins with when the      *)
(* review gate is off, whether its transfer is posted before the INSERT,   *)
(* after it or by staff later, and the status of an order that waits for   *)
(* what was posted.                                                        *)
(***************************************************************************)
Course(first, posts, next) == [first |-> first, posts |-> posts, next |-> next]
BoliviaToWorld == Course("waiting_deposit", "later", "waiting_deposit")
BoliviaToWallet == Course("waiting_deposit", "later", "waiting_deposit")
WorldToBolivia == Course("waiting_deposit", "later", "waiting_deposit")
WalletToWallet == Course("created", "after", "waiting_deposit")
FiatBoToBridgeWallet == Course("waiting_deposit", "before", "waiting_deposit")
CryptoToBridgeWallet == Course("waiting_deposit", "before", "waiting_deposit")
BridgeWalletToFiatBo == Course("created", "after", "processing")
BridgeWalletToCrypto == Course("created", "after", "processing")
BridgeWalletToFiatUs == Course("created", "after", "processing")
WalletToWorld == Course("waiting_deposit", "before", "waiting_deposit")
CourseOf(f) ==
  CASE f = "bolivia_to_world" -> BoliviaToWorld
    [] f = "bolivia_to_wallet" -> BoliviaToWallet
    [] f = "world_to_bolivia" -> WorldToBolivia
    [] f = "wallet_to_wallet" -> WalletToWallet
    [] f = "fiat_bo_to_bridge_wallet" -> FiatBoToBridgeWallet
    [] f = "crypto_to_bridge_wallet" -> CryptoToBridgeWallet
    [] f = "bridge_wallet_to_fiat_bo" -> BridgeWalletToFiatBo
    [] f = "bridge_wallet_to_crypto" -> BridgeWalletToCrypto
    [] f = "bridge_wallet_to_fiat_us" -> BridgeWalletToFiatUs
    [] f = "wallet_to_world" -> WalletToWorld

(***************************************************************************)
(* A creation: the check, then for some flows the transfer, the INSERT and *)
(* for others the leg.  skip says that the review gate is off.             *)
(***************************************************************************)
Check(t, o, new, skip) ==
  /\ Free(t)
  /\ order[o] = Blank /\ o \notin transfer
  /\ \A u \in Tasks : At(u, "idle") \/ task[u].o # o
  /\ \A q \in Orders : ~Conflicting(order[q], new)
  /\ Become(t, IF skip /\ CourseOf(new.flow).posts = "before" THEN "post" ELSE "insert", o, new, skip)
  /\ UNCHANGED <<order, transfer, refused, family, faults>>

Accepted(t) == transfer' = transfer \cup {task[t].o}
Post(t) ==
  /\ At(t, "post")
  /\ \/ Accepted(t) /\ Goto(t, "insert")
     \/ "refuse" \in faults /\ Done(t) /\ UNCHANGED transfer
     \/ "lost" \in faults /\ Done(t) /\ Accepted(t)
  /\ UNCHANGED <<order, refused, family, faults>>

\* A write of row o that its index may refuse, and what else follows it.
Store(o, e) ==
  IF IndexAllows(o, e) THEN order' = [order EXCEPT ![o] = e] /\ UNCHANGED refused
  ELSE refused' = refused \cup {e.flow} /\ UNCHANGED order
FirstStatus(f, skip) == IF skip THEN CourseOf(f).first ELSE "pending_review"
Insert(t) ==
  /\ At(t, "insert")
  /\ LET o == task[t].o
         f == task[t].new.flow
         row == [task[t].new EXCEPT !.status = FirstStatus(f, task[t].skip),
                                    !.linked = o \in transfer]
     IN /\ Store(o, row)
        /\ IF IndexAllows(o, row) /\ task[t].skip /\ CourseOf(f).posts = "after"
           THEN Goto(t, "leg") ELSE Done(t)
  /\ UNCHANGED <<transfer, family, faults>>

\* approveOrderReviewStep, then the leg.
Approve(t, o) ==
  /\ Free(t)
  /\ order[o].status = "pending_review"
  /\ Store(o, [order[o] EXCEPT !.status = "processing"])
  /\ Become(t, "leg", o, order[o], FALSE)
  /\ UNCHANGED <<transfer, family, faults>>
\* executePsavDepositLeg posts nothing.
Leg(t) ==
  /\ At(t, "leg")
  /\ LET posts == CourseOf(task[t].new.flow).posts # "later" IN
     \/ /\ IF posts THEN Accepted(t) ELSE UNCHANGED transfer
        /\ Goto(t, "link")
     \/ "refuse" \in faults /\ Goto(t, "undo") /\ UNCHANGED transfer
     \/ posts /\ "lost" \in faults /\ Goto(t, "undo") /\ Accepted(t)
  /\ UNCHANGED <<order, refused, family, faults>>
\* The error of this UPDATE is not looked at.
Link(t) ==
  /\ At(t, "link")
  /\ LET o == task[t].o IN
     Store(o, [order[o] EXCEPT !.status = CourseOf(order[o].flow).next,
                               !.linked = o \in transfer])
  /\ Done(t)
  /\ UNCHANGED <<transfer, family, faults>>
\* handleBridgeLegFailure
Undo(t) ==
  /\ At(t, "undo")
  /\ LET o == task[t].o IN
     Store(o, [order[o] EXCEPT !.status = IF task[t].skip THEN "closed" ELSE "pending_review"])
  /\ Done(t)
  /\ UNCHANGED <<transfer, family, faults>>

\* Everything else that moves an order, once its creation is over: a deposit is
\* confirmed or reported, staff approve that of a PSAV (and what they send may
\* fail), it completes, fails, expires or is cancelled.
Advance(o) ==
  /\ \A t \in Tasks : At(t, "idle") \/ task[t].o # o
  /\ \E s \in Statuses :
       /\ \/ order[o].status = "waiting_deposit" /\ s = "deposit_received"
          \/ order[o].status = "deposit_received" /\ s = "processing"
             /\ order[o].flow \in Instructed \cup {"fiat_bo_to_bridge_wallet"}
          \/ order[o].status = "processing" /\ s = "deposit_received"
             /\ order[o].flow = "bolivia_to_world"
          \/ order[o].status \notin {"absent", "closed"} /\ s = "closed"
       /\ Store(o, [order[o] EXCEPT !.status = s])
  /\ UNCHANGED <<transfer, family, faults, task>>
Crash ==
  /\ "crash" \in faults
  /\ \E t \in Tasks : ~At(t, "idle")
  /\ task' = [t \in Tasks |-> Idle]
  /\ UNCHANGED <<order, transfer, refused, family, faults>>

New == [flow : family, from : Sources, to : Targets, status : {"absent"}, linked : {FALSE}]
Next ==
  \/ \E t \in Tasks, o \in Orders, new \in New, skip \in BOOLEAN : Check(t, o, new, skip)
  \/ \E t \in Tasks : Post(t) \/ Insert(t) \/ Leg(t) \/ Link(t) \/ Undo(t)
  \/ \E t \in Tasks, o \in Orders : Approve(t, o)
  \/ \E o \in Orders : Advance(o)
  \/ Crash

Spec == Init /\ [][Next]_vars

(***************************************************************************)
(* Properties.                                                             *)
(***************************************************************************)
Row == [flow : Flows \cup {"none"}, from : Sources \cup {0}, to : Targets \cup {0},
        status : Statuses, linked : BOOLEAN]
TypeOK ==
  /\ faults \in Worlds /\ family \in Families
  /\ order \in [Orders -> Row]
  /\ transfer \subseteq Orders /\ refused \subseteq Flows
  /\ task \in [Tasks -> [pc : {"idle", "post", "insert", "leg", "link", "undo"}, o : Orders,
                         new : Row, skip : BOOLEAN]]

\* When calls do not overlap, no index refuses what the check of its flow let
\* through (its list of statuses is a copy of the index's: "la lista de estados
\* debe coincidir"), so that unless an answer is lost no transfer is without the
\* order it was posted for.  The exception is world_to_bolivia, checked by the
\* currency paid in and indexed by the one paid out, which is always BOB.
ChecksCoverIndexes ==
  faults \subseteq {"refuse"} =>
    /\ refused \subseteq {"world_to_bolivia"}
    /\ (\A t \in Tasks : At(t, "idle")) => \A o \in transfer : order[o].linked
=============================================================================
