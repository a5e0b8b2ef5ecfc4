---------------------------- MODULE OrderCharge ----------------------------
(***************************************************************************)
(* What the back office promises the owner of an account about each of     *)
(* his orders, however requests, webhooks and failures interleave: the     *)
(* order is charged at most once and only after its transfer has left, the *)
(* charge becomes final only when Bridge has paid the transfer, and a      *)
(* charge that was closed is never reopened.                               *)
(***************************************************************************)
CONSTANT Orders

VARIABLES
  charge,    \* the debit of each order
  transfer   \* what Bridge did with it

Init ==
  /\ charge = [o \in Orders |-> "none"]
  /\ transfer = [o \in Orders |-> "none"]

\* Bridge accepts the transfer, then pays it or gives it up.
Send(o) ==
  /\ transfer[o] = "none"
  /\ transfer' = [transfer EXCEPT ![o] = "sent"]
  /\ UNCHANGED charge
Conclude(o, outcome) ==
  /\ transfer[o] = "sent"
  /\ transfer' = [transfer EXCEPT ![o] = outcome]
  /\ UNCHANGED charge

Charge(o) ==
  /\ charge[o] = "none"
  /\ transfer[o] # "none"
  /\ charge' = [charge EXCEPT ![o] = "pending"]
  /\ UNCHANGED transfer
Settle(o) ==
  /\ charge[o] = "pending"
  /\ transfer[o] = "paid"
  /\ charge' = [charge EXCEPT ![o] = "settled"]
  /\ UNCHANGED transfer
Void(o, reason) ==
  /\ charge[o] = "pending"
  /\ charge' = [charge EXCEPT ![o] = reason]
  /\ UNCHANGED transfer

Next ==
  \E o \in Orders :
    \/ Send(o) \/ Charge(o) \/ Settle(o)
    \/ \E outcome \in {"paid", "lost"} : Conclude(o, outcome)
    \/ \E reason \in {"failed", "reversed"} : Void(o, reason)

Spec == Init /\ [][Next]_<<charge, transfer>>
=============================================================================
