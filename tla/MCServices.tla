----------------------------- MODULE MCServices -----------------------------
(***************************************************************************)
(* The parts that meet the others only through the client and Bridge.  A   *)
(* behaviour is one of the part chosen in its first state; the variables   *)
(* of the other parts, some of them of the same name, keep the value 0.    *)
(* The configuration gives the constants small values.                     *)
(***************************************************************************)
EXTENDS Naturals, TLC

CONSTANTS
  Tasks, Nil,
  Deposits, Net, DepositWorlds,
  Drains, DrainOrders, SameAddress, SameAmount, DrainWorlds,
  Reviews, Overrides, Amounts, MaxAmount, Hourly, MaxMade, AdmissionWorlds,
  Buckets, MaxAttempts, Window, Block, Horizon, LimitWorlds,
  SlotOrders, Sources, Targets, SlotWorlds,
  Accounts, Own, Others, Fees, MaxTotal, MaxExternal, AccountWorlds,
  Keyed, KeyWorlds,
  first, second  \* the drains of MCSameAddress and MCSameAmount

VARIABLES part, faults, task, status, bridge, inbox,
          route, step, credits, debits, bal, delivered,
          drain, noted, paid, paidBy,
          approved, limit, flow, review, linked, made, recent,
          limiter, bucket, now, admitted,
          order, transfer, refused, family,
          form, there, entry, standard, special,
          key, call, created

MCSymmetry == Permutations(Tasks) \cup Permutations(Accounts)

\* Deposits to virtual accounts
VA == INSTANCE VirtualAccounts WITH Worlds <- DepositWorlds
vaOwn == <<route, step, credits, debits, bal, delivered>>
vaOff == route = 0 /\ step = 0 /\ credits = 0 /\ debits = 0 /\ bal = 0 /\ delivered = 0

\* Drains: the two of the run both fit the first order
DR == INSTANCE Drains WITH Orders <- DrainOrders, Worlds <- DrainWorlds
MCSameAddress == (first :> {1, 2}) @@ (second :> {2})
MCSameAmount == (first :> {}) @@ (second :> {1})
drainOwn == <<drain, noted, paid, paidBy>>
drainOff == drain = 0 /\ noted = 0 /\ paid = 0 /\ paidBy = 0

\* Letting orders in: requests above the limit, overrides of each kind
OA == INSTANCE OrderAdmission WITH
        Requests <- Reviews, Rows <- Overrides, Max <- MaxAmount, Worlds <- AdmissionWorlds
admissionOwn == <<approved, limit, flow, review, linked, made, recent>>
admissionOff ==
  approved = 0 /\ limit = 0 /\ flow = 0 /\ review = 0 /\ linked = 0 /\ made = 0 /\ recent = 0

\* One bucket of attempts
RL == INSTANCE RateLimits WITH Ids <- Buckets, Worlds <- LimitWorlds
limitsOwn == <<limiter, bucket, now, admitted>>
limitsOff == limiter = 0 /\ bucket = 0 /\ now = 0 /\ admitted = 0

\* The slots of the flows
OS == INSTANCE OrderSlots WITH Orders <- SlotOrders, Worlds <- SlotWorlds
slotsOwn == <<order, transfer, refused, family>>
slotsOff == order = 0 /\ transfer = 0 /\ refused = 0 /\ family = 0

\* What a client keeps at Bridge
BA == INSTANCE BridgeAccounts WITH
        Ids <- Accounts, None <- Nil, Outside <- Others, Worlds <- AccountWorlds
mirrorOwn == <<form, there, entry, standard, special>>
mirrorOff == form = 0 /\ there = 0 /\ entry = 0 /\ standard = 0 /\ special = 0

\* The key of a creation
ID == INSTANCE Idempotency WITH Requests <- Keyed, None <- Nil, Worlds <- KeyWorlds
keysOwn == <<key, call, created>>
keysOff == key = 0 /\ call = 0 /\ created = 0

ASSUME InstancesAssumption ==
  /\ VA!DepositsAssumption /\ VA!NetAssumption
  /\ DR!OrdersAssumption /\ DR!DrainsAssumption /\ DR!FitsAssumption
  /\ OA!AmountsAssumption /\ OA!RequestsAssumption
  /\ RL!LimitsAssumption /\ OS!SlotsAssumption /\ BA!AccountsAssumption

Parts == {"deposits", "drains", "admission", "limits", "slots", "mirror", "keys"}
bridgeVars == <<status, bridge, inbox>>
bridgeOff == status = 0 /\ bridge = 0 /\ inbox = 0

Init ==
  /\ part \in Parts
  /\ IF part = "deposits" THEN VA!Init ELSE vaOff
  /\ IF part = "drains" THEN DR!Init ELSE drainOff
  /\ IF part = "admission" THEN OA!Init ELSE admissionOff
  /\ IF part = "limits" THEN RL!Init ELSE limitsOff
  /\ IF part = "slots" THEN OS!Init ELSE slotsOff
  /\ IF part = "mirror" THEN BA!Init ELSE mirrorOff
  /\ IF part = "keys" THEN ID!Init /\ task = 0 ELSE keysOff
  /\ part \in {"deposits", "drains"} \/ bridgeOff

Next ==
  /\ UNCHANGED part
  /\ IF part = "deposits" THEN VA!Next ELSE UNCHANGED vaOwn
  /\ IF part = "drains" THEN DR!Next ELSE UNCHANGED drainOwn
  /\ IF part = "admission" THEN OA!Next ELSE UNCHANGED admissionOwn
  /\ IF part = "limits" THEN RL!Next ELSE UNCHANGED limitsOwn
  /\ IF part = "slots" THEN OS!Next ELSE UNCHANGED slotsOwn
  /\ IF part = "mirror" THEN BA!Next ELSE UNCHANGED mirrorOwn
  /\ IF part = "keys" THEN ID!Next /\ UNCHANGED task ELSE UNCHANGED keysOwn
  /\ IF part \in {"deposits", "drains"} THEN TRUE ELSE UNCHANGED bridgeVars

vars == <<part, faults, task, bridgeVars, vaOwn, drainOwn, admissionOwn, limitsOwn,
          slotsOwn, mirrorOwn, keysOwn>>
Spec == Init /\ [][Next]_vars

\* Every variable has its type (see the module of each part).
TypeOK ==
  /\ part = "deposits" => VA!TypeOK
  /\ part = "drains" => DR!TypeOK
  /\ part = "admission" => OA!TypeOK
  /\ part = "limits" => RL!TypeOK
  /\ part = "slots" => OS!TypeOK
  /\ part = "mirror" => BA!TypeOK
  /\ part = "keys" => ID!TypeOK

\* What arrives is paid once: a deposit is credited once and the balance is the sum of
\* its credits (handleVaPaymentProcessed), a drain pays the order it was matched to and
\* no other, and an order is paid by one drain (handleDrain).
ArrivalsPaidOnce ==
  /\ part = "deposits" => VA!DepositsCreditedOnce /\ VA!DepositsAddUp
  /\ part = "drains" => DR!DrainPaysOnce

\* A request of review has one order alive at most, and none while it waits for
\* staff; at rest it is approved exactly if it has one (createOrderFromReview and
\* the rollback of its approval).
OneOrderPerReview == part = "admission" => OA!OneOrderPerReview /\ OA!ReviewsMatchOrders

\* No window lets more attempts in than its limit, unless two count at once
\* (RateLimitService).
AdmittedWithinMax == part = "limits" => RL!AdmittedWithinMax

\* An order that the checks before it let through is not refused by an index of the
\* table (the assertNoConflicting checks of the flows).
ChecksCoverIndexes == part = "slots" => OS!ChecksCoverIndexes

\* The rows of virtual accounts and fees are what Bridge has, or what staff are told to
\* put right, and a client has no more accounts than he may (updateVirtualAccount and
\* what it reverts, createVirtualAccount).
RowsMatchBridge == part = "mirror" => BA!RowsMatchBridge /\ BA!AccountsWithinLimits

\* One order at most of those made with a key is alive, the one that every answer names,
\* unless the INSERT of the key or the UPDATE of a failed order failed
\* (IdempotencyInterceptor, handleBridgeLegFailure).
KeyMakesOneOrder == part = "keys" => ID!KeyMakesOneOrder
=============================================================================
