--------------------------- MODULE Beneficiaries ----------------------------
(***************************************************************************)
(* A beneficiary with a crypto wallet, after he was registered: the client *)
(* changes his wallet and creates orders to him, a cron and the staff have *)
(* the wallet screened again, the staff block and clear him.  The wallet   *)
(* and the last verdict on it are one JSON column that every writer writes *)
(* whole, from what it read before.                                        *)
(*                                                                         *)
(* A task is one call and an action is one call of the database or of      *)
(* Didit.  The failures of a behaviour are chosen in its first state:      *)
(* "overlap" (several calls at once), "crash", "silent" (Didit fails, and  *)
(* what was to be screened passes), "dbError" (a verdict is not saved),    *)
(* "byHand" (the staff have a blocked wallet screened again).              *)
(***************************************************************************)
EXTENDS Naturals, Sequences

CONSTANTS
  Addresses,
  First,      \* the wallet he was registered with
  MaxOrders,  \* a bound
  Tasks,
  Worlds      \* the sets of failures a behaviour may have

FirstAssumption == First \in Addresses
MaxOrdersAssumption == MaxOrders \in Nat

VARIABLES
  wallet,      \* bank_details: the address, the one of the verdict, the claim
  compliance,  \* compliance_status
  decider,     \* history: who wrote it last
  payable,     \* is_active of his liquidation address
  active,      \* is_active
  orders,      \* the addresses that the orders in flight pay
  told,        \* history: how many of them the staff were told of
  accepted,    \* history: the addresses that were screened and let through
  faults,
  task

rowVars == <<wallet, compliance, decider, payable, active>>
orderVars == <<orders, told>>
vars == <<rowVars, orderVars, accepted, faults, task>>

None == "none"
\* What Didit says of an address; it may say another thing the next time.
Risks == {"clean", "critical", "sanctioned"}
Pcs == {"idle", "screen", "persist", "cut", "tell", "restore", "suspend", "check", "save",
        "order", "remove"}
Idle == [pc |-> "idle", was |-> [address |-> First, judged |-> None, claimed |-> FALSE],
         want |-> First, found |-> "clean"]

Init ==
  /\ faults \in Worlds
  /\ wallet \in [address : {First}, judged : {First, None}, claimed : {FALSE}]
  /\ compliance = None /\ decider = None
  /\ payable = TRUE /\ active = TRUE
  /\ orders = <<>> /\ told = 0
  /\ accepted = {First}
  /\ task = [t \in Tasks |-> Idle]

At(t, pc) == task[t].pc = pc
Become(t, pc, was, want, found) ==
  task' = [task EXCEPT ![t] = [pc |-> pc, was |-> was, want |-> want, found |-> found]]
Goto(t, pc) == task' = [task EXCEPT ![t] = [Idle EXCEPT !.pc = pc]]
Done(t) == Goto(t, "idle")
Free(t) == At(t, "idle") /\ ("overlap" \in faults \/ \A u \in Tasks : At(u, "idle"))

(***************************************************************************)
(* The hourly cron: a claim, then the screening, then one UPDATE.  A wallet *)
(* is due at any time, as with an interval of zero days.                   *)
(***************************************************************************)
\* claim_suppliers_for_rescreening
Claim(t) ==
  /\ Free(t)
  /\ active /\ compliance = None /\ ~wallet.claimed
  /\ wallet' = [wallet EXCEPT !.claimed = TRUE]
  /\ Become(t, "screen", wallet', First, "clean")
  /\ UNCHANGED <<compliance, decider, payable, active, orderVars, accepted, faults>>
\* The staff's endpoint does not look at the compliance_status.
RescreenById(t) ==
  /\ Free(t)
  /\ compliance = "blocked" => "byHand" \in faults
  /\ Become(t, "screen", wallet, First, "clean")
  /\ UNCHANGED <<rowVars, orderVars, accepted, faults>>
Screen(t) ==
  /\ At(t, "screen")
  /\ \E found \in Risks \cup (IF "silent" \in faults THEN {None} ELSE {}) :
       Become(t, "persist", task[t].was, First, found)
  /\ UNCHANGED <<rowVars, orderVars, accepted, faults>>

\* decideComplianceStatus
Verdict(found) == CASE found = "sanctioned" -> "blocked"
                    [] found = "critical"   -> "pending_review"
                    [] OTHER -> compliance
Follow(t, found) ==
  /\ compliance' = Verdict(found)
  /\ decider' = IF found \in {"sanctioned", "critical"} THEN "cron" ELSE decider
  /\ Goto(t, CASE found = "sanctioned" -> "cut"
               [] found = "critical"   -> "tell"
               [] OTHER -> "idle")
\* Mutant: the verdict is put beside the address that the row has now.
PersistVerdictOnly(t) ==
  /\ At(t, "persist")
  /\ wallet' = [address |-> wallet.address, judged |-> task[t].was.address, claimed |-> FALSE]
  /\ Follow(t, task[t].found)
  /\ UNCHANGED <<payable, active, orderVars, accepted, faults>>
\* persistVerdict: the column is written from what was claimed, the status
\* only when something was found.  When the UPDATE fails, the claim stays.
Persist(t) ==
  /\ At(t, "persist")
  /\ \/ /\ wallet' = [task[t].was EXCEPT !.judged = task[t].was.address, !.claimed = FALSE]
        /\ Follow(t, task[t].found)
     \/ "dbError" \in faults /\ Done(t) /\ UNCHANGED <<wallet, compliance, decider>>
  /\ UNCHANGED <<payable, active, orderVars, accepted, faults>>
\* onBlocked
Cut(t) ==
  /\ At(t, "cut")
  /\ payable' = FALSE
  /\ Goto(t, "tell")
  /\ UNCHANGED <<wallet, compliance, decider, active, orderVars, accepted, faults>>
\* findInFlightOrders, for the notification of the staff.
Tell(t) ==
  /\ At(t, "tell")
  /\ told' = Len(orders)
  /\ Done(t)
  /\ UNCHANGED <<rowVars, orders, accepted, faults>>

(***************************************************************************)
(* setComplianceStatus                                                     *)
(***************************************************************************)
SetStatus(t) ==
  /\ Free(t)
  /\ \E s \in {"blocked", None} :
       /\ compliance' = s
       /\ Goto(t, IF s = None THEN "restore" ELSE "suspend")
  /\ decider' = "staff"
  /\ UNCHANGED <<wallet, payable, active, orderVars, accepted, faults>>
SetPayable(t) ==
  /\ At(t, "restore") \/ At(t, "suspend")
  /\ payable' = At(t, "restore")
  /\ Done(t)
  /\ UNCHANGED <<wallet, compliance, decider, active, orderVars, accepted, faults>>

(***************************************************************************)
(* The client changes the wallet.  A new address is screened first; any    *)
(* other field of the column is saved with the address that was read.      *)
(***************************************************************************)
Update(t, a) ==
  /\ Free(t)
  /\ Become(t, IF a = wallet.address THEN "save" ELSE "check", wallet, a, "clean")
  /\ UNCHANGED <<rowVars, orderVars, accepted, faults>>
CheckAddress(t) ==
  LET a == task[t].want IN
  /\ At(t, "check")
  /\ \/ accepted' = accepted \cup {a} /\ Become(t, "save", task[t].was, a, "clean")
     \/ Done(t) /\ UNCHANGED accepted
  /\ UNCHANGED <<rowVars, orderVars, faults>>
Save(t) ==
  LET a == task[t].want  was == task[t].was IN
  /\ At(t, "save")
  /\ wallet' = IF a = was.address THEN was
               ELSE [address |-> a, judged |-> a, claimed |-> FALSE]
  /\ Done(t)
  /\ UNCHANGED <<compliance, decider, payable, active, orderVars, accepted, faults>>

(***************************************************************************)
(* The client creates an order: assertUsableForPayment, then the INSERT.   *)
(* It pays to the address of the row that was read, or to the liquidation  *)
(* address, which forwards to the first one whatever the row has become.   *)
(***************************************************************************)
CheckUsable(t) ==
  /\ Free(t)
  /\ Len(orders) < MaxOrders
  /\ compliance # "blocked"
  /\ \E a \in {wallet.address, First} : Become(t, "order", Idle.was, a, "clean")
  /\ UNCHANGED <<rowVars, orderVars, accepted, faults>>
InsertOrder(t) ==
  /\ At(t, "order")
  /\ orders' = Append(orders, task[t].want)
  /\ Done(t)
  /\ UNCHANGED <<rowVars, told, accepted, faults>>
\* remove: only without orders, which are looked for first.
CheckRemovable(t) ==
  /\ Free(t)
  /\ active /\ orders = <<>>
  /\ Goto(t, "remove")
  /\ UNCHANGED <<rowVars, orderVars, accepted, faults>>
Remove(t) ==
  /\ At(t, "remove")
  /\ active' = FALSE
  /\ Done(t)
  /\ UNCHANGED <<wallet, compliance, decider, payable, orderVars, accepted, faults>>

(***************************************************************************)
(* Outside: an hour passes, the death of the process.                      *)
(***************************************************************************)
Hour ==
  /\ wallet.claimed
  /\ wallet' = [wallet EXCEPT !.claimed = FALSE]
  /\ UNCHANGED <<compliance, decider, payable, active, orderVars, accepted, faults, task>>
Crash ==
  /\ "crash" \in faults
  /\ \E t \in Tasks : ~At(t, "idle")
  /\ task' = [t \in Tasks |-> Idle]
  /\ UNCHANGED <<rowVars, orderVars, accepted, faults>>

Step(t) ==
  \/ Claim(t) \/ RescreenById(t) \/ Screen(t) \/ Persist(t) \/ Cut(t) \/ Tell(t)
  \/ SetStatus(t) \/ SetPayable(t)
  \/ CheckAddress(t) \/ Save(t) \/ \E a \in Addresses : Update(t, a)
  \/ CheckUsable(t) \/ InsertOrder(t) \/ CheckRemovable(t) \/ Remove(t)

Next ==
  \/ \E t \in Tasks : Step(t)
  \/ Hour
  \/ Crash

Spec == Init /\ [][Next]_vars

(***************************************************************************)
(* Properties.                                                             *)
(***************************************************************************)
Wallet == [address : Addresses, judged : Addresses \cup {None}, claimed : BOOLEAN]
TypeOK ==
  /\ faults \in Worlds
  /\ wallet \in Wallet
  /\ compliance \in {None, "blocked", "pending_review"}
  /\ decider \in {None, "cron", "staff"}
  /\ payable \in BOOLEAN /\ active \in BOOLEAN
  /\ orders \in Seq(Addresses) /\ told \in Nat
  /\ accepted \subseteq Addresses
  /\ task \in [Tasks -> [pc : Pcs, was : Wallet, want : Addresses,
                         found : Risks \cup {None}]]

\* However the client's changes, the cron and the staff cross, the verdict in
\* the row is about the address in the row (persistVerdict, update: both are
\* written together or not at all).
VerdictIsOfAddress == wallet.judged \in {wallet.address, None}

\* No order pays an address that was never screened, whatever it was that
\* the client put in the row since (update: "se screenea la nueva AHORA").
OrdersPayScreened == \A i \in DOMAIN orders : orders[i] \in accepted

\* When nothing overlapped or was interrupted, a block has been carried out:
\* the liquidation address is inactive, and is active again after a clearing;
\* the staff know every order that was in flight when the cron blocked.
BlockIsCarriedOut ==
  faults \cap {"overlap", "crash", "byHand"} = {} /\ (\A t \in Tasks : At(t, "idle")) =>
    /\ payable <=> compliance # "blocked"
    /\ compliance = "blocked" /\ decider = "cron" => told = Len(orders)
=============================================================================
