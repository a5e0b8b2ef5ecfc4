--------------------------- MODULE BridgeAccounts ---------------------------
(***************************************************************************)
(* What a client keeps at Bridge and the tables mirror: his virtual        *)
(* accounts (rows of bridge_virtual_accounts), liquidation addresses and   *)
(* external accounts.  Every one is created and changed at Bridge first,   *)
(* then in its row; only a virtual account is put back at Bridge when its  *)
(* row cannot follow.  A virtual account pays into the client's own wallet *)
(* or to an address outside (a sweep), and takes the fee that an override  *)
(* of his or the default sets for that.                                    *)
(*                                                                         *)
(* A task is one call, an action one call of the database or of Bridge.    *)
(* The three forms share nothing: a behaviour has the objects of one, in   *)
(* one currency.  The bank data of an external account is its address      *)
(* here, and a removed fee one of Fees.  The failures of a behaviour are   *)
(* chosen in its first state: "refuse" (Bridge refuses), "lost" (it obeys  *)
(* and its answer is lost), "dbError", "overlap" (several calls at once),  *)
(* "crash" and "fees" (staff change fees).                                 *)
(***************************************************************************)
EXTENDS Naturals, FiniteSets

CONSTANTS
  Ids,          \* of the objects, here and at Bridge
  Own, None,
  Outside,      \* the addresses outside
  Fees,
  MaxTotal,     \* VA_MAX_TOTAL_ACTIVE_PER_USER
  MaxExternal,  \* VA_MAX_EXTERNAL_PER_CURRENCY
  Tasks,
  Worlds        \* the sets of failures a behaviour may have

AccountsAssumption ==
  /\ MaxTotal \in Nat /\ MaxExternal \in Nat
  /\ IsFiniteSet(Tasks) /\ Tasks # {}
  /\ Own \notin Outside /\ None \notin Ids \cup Outside \cup {Own} \cup Fees

VARIABLES
  form,      \* "va", "la" or "ea"
  there,     \* what Bridge has: destination and fee
  entry,     \* the rows: status, is_external_sweep, destination, fee
  standard,  \* va_fee_defaults, by is_external_sweep
  special,   \* va_fee_overrides, likewise
  faults,    \* the failures of this behaviour
  task

vars == <<form, there, entry, standard, special, faults, task>>

Places == Outside \cup {Own}
Gone == [to |-> None, fee |-> None]
Blank == [status |-> "absent", sweep |-> FALSE, to |-> None, fee |-> None]
Idle == [pc |-> "idle", o |-> None, want |-> Gone, read |-> Gone]
Pcs == {"idle", "conflict", "fee", "post", "insert", "put", "write", "revert", "delete",
        "close"}

Init ==
  /\ form \in {"va", "la", "ea"}
  /\ faults \in Worlds
  /\ there = [o \in Ids |-> Gone]
  /\ entry = [o \in Ids |-> Blank]
  /\ \E fee \in Fees : standard = [s \in BOOLEAN |-> fee]
  /\ special = [s \in BOOLEAN |-> None]
  /\ task = [t \in Tasks |-> Idle]

At(t, pc) == task[t].pc = pc
Become(t, pc, o, want, read) ==
  task' = [task EXCEPT ![t] = [pc |-> pc, o |-> o, want |-> want, read |-> read]]
Goto(t, pc) == Become(t, pc, task[t].o, task[t].want, task[t].read)
Done(t) == task' = [task EXCEPT ![t] = Idle]
Free(t) == At(t, "idle") /\ ("overlap" \in faults \/ \A u \in Tasks : At(u, "idle"))
Reads == UNCHANGED <<form, there, entry, standard, special, faults>>
OnlyThere == UNCHANGED <<form, entry, standard, special, faults>>
OnlyEntry == UNCHANGED <<form, there, standard, special, faults>>

Active == {o \in Ids : entry[o].status = "active"}
Sweeps == {o \in Active : entry[o].sweep}

(***************************************************************************)
(* Creating.                                                               *)
(***************************************************************************)
CountActive(t, to) ==
  /\ Free(t) /\ form = "va"
  /\ Cardinality(Active) < MaxTotal
  /\ Become(t, "conflict", None, [Gone EXCEPT !.to = to], Gone)
  /\ Reads
Conflicts(to) ==
  \/ to # Own /\ (Cardinality(Sweeps) >= MaxExternal \/ \E o \in Sweeps : entry[o].to = to)
  \/ to = Own /\ Active # Sweeps
Compare(t) ==
  /\ At(t, "conflict")
  /\ IF Conflicts(task[t].want.to) THEN Done(t) ELSE Goto(t, "fee")
  /\ Reads
\* createLiquidationAddress, createExternalAccount
Begin(t, to, fee) ==
  /\ Free(t) /\ form # "va"
  /\ Become(t, "post", None, [to |-> to, fee |-> IF form = "la" THEN fee ELSE None], Gone)
  /\ Reads
VaFee(sweep) == IF special[sweep] # None THEN special[sweep] ELSE standard[sweep]
ResolveVaFee(t) ==
  /\ At(t, "fee")
  /\ LET to == task[t].want.to IN
     Become(t, "post", None, [to |-> to, fee |-> VaFee(to # Own)], Gone)
  /\ Reads
Post(t, o) ==
  /\ At(t, "post")
  /\ there[o] = Gone /\ entry[o] = Blank
  /\ \/ /\ there' = [there EXCEPT ![o] = task[t].want]
        /\ \/ Become(t, "insert", o, task[t].want, Gone)
           \/ "lost" \in faults /\ Done(t)
     \/ "refuse" \in faults /\ Done(t) /\ UNCHANGED there
  /\ OnlyThere
Insert(t) ==
  /\ At(t, "insert")
  /\ LET want == task[t].want IN
     \/ entry' = [entry EXCEPT ![task[t].o] =
          [status |-> "active", sweep |-> want.to # Own, to |-> want.to, fee |-> want.fee]]
     \/ "dbError" \in faults /\ UNCHANGED entry
  /\ Done(t)
  /\ OnlyEntry

(***************************************************************************)
(* Changing: what is not None is changed.                                  *)
(***************************************************************************)
Merged(old, want) ==
  [to |-> IF want.to # None THEN want.to ELSE old.to,
   fee |-> IF want.fee # None THEN want.fee ELSE old.fee]
InRow(o) == [to |-> entry[o].to, fee |-> entry[o].fee]
Update(t, o, want) ==
  /\ Free(t)
  /\ want # Gone
  /\ entry[o].status # "absent" /\ (form = "va" => entry[o].status = "active")
  /\ form = "ea" \/ "fees" \notin faults => want.fee = None
  /\ Become(t, "put", o, want, InRow(o))
  /\ Reads
\* The row of a virtual account gets what was asked for, the others what Bridge
\* answers.
Put(t) ==
  /\ At(t, "put")
  /\ LET o == task[t].o
         now == Merged(there[o], task[t].want) IN
     \/ /\ there[o] # Gone
        /\ there' = [there EXCEPT ![o] = now]
        /\ \/ Become(t, "write", o, IF form = "va" THEN task[t].want ELSE now, task[t].read)
           \/ "lost" \in faults /\ Done(t)
     \/ /\ there[o] = Gone \/ "refuse" \in faults
        /\ Done(t) /\ UNCHANGED there
  /\ OnlyThere
WriteRow(t) ==
  /\ At(t, "write")
  /\ LET o == task[t].o
         now == Merged(InRow(o), task[t].want) IN
     \/ /\ entry' = [entry EXCEPT ![o] =
             [entry[o] EXCEPT !.to = now.to, !.fee = now.fee,
                              !.sweep = @ \/ (form = "va" /\ task[t].want.to # None)]]
        /\ Done(t)
     \/ /\ "dbError" \in faults
        /\ IF form = "va" THEN Goto(t, "revert") ELSE Done(t)
        /\ UNCHANGED entry
  /\ OnlyEntry
\* Mutant: what was changed stays as it is at Bridge.
RevertNothing(t) ==
  /\ At(t, "revert")
  /\ Done(t)
  /\ UNCHANGED there /\ OnlyThere
Revert(t) ==
  /\ At(t, "revert")
  /\ LET o == task[t].o
         want == task[t].want
         old == task[t].read IN
     \/ there' = [there EXCEPT ![o] =
          IF @ = Gone THEN @ ELSE [to |-> IF want.to # None THEN old.to ELSE @.to,
                                   fee |-> IF want.fee # None THEN old.fee ELSE @.fee]]
     \/ "refuse" \in faults /\ UNCHANGED there
  /\ Done(t)
  /\ OnlyThere

Deactivate(t, o) ==
  /\ Free(t)
  /\ form = "va" /\ entry[o].status # "absent"
  /\ Become(t, "delete", o, Gone, Gone)
  /\ Reads
\* Its failure is not looked at.
Delete(t) ==
  /\ At(t, "delete")
  /\ \/ there' = [there EXCEPT ![task[t].o] = Gone]
     \/ "refuse" \in faults /\ UNCHANGED there
  /\ Goto(t, "close")
  /\ OnlyThere
Close(t) ==
  /\ At(t, "close")
  /\ entry' = [entry EXCEPT ![task[t].o].status = "inactive"]
  /\ Done(t)
  /\ OnlyEntry

(***************************************************************************)
(* Staff set the fees of virtual accounts to come; each table has one row  *)
(* for each destination.                                                   *)
(***************************************************************************)
UpdateVaFeeDefault(sweep, fee) ==
  /\ "fees" \in faults /\ form = "va"
  /\ standard' = [standard EXCEPT ![sweep] = fee]
  /\ UNCHANGED <<form, there, entry, special, faults, task>>
SetVaFeeOverride(sweep, fee) ==
  /\ "fees" \in faults /\ form = "va"
  /\ special' = [special EXCEPT ![sweep] = fee]
  /\ UNCHANGED <<form, there, entry, standard, faults, task>>
ClearVaFeeOverride(sweep) ==
  /\ special[sweep] # None
  /\ special' = [special EXCEPT ![sweep] = None]
  /\ UNCHANGED <<form, there, entry, standard, faults, task>>
Crash ==
  /\ "crash" \in faults
  /\ \E t \in Tasks : ~At(t, "idle")
  /\ task' = [t \in Tasks |-> Idle]
  /\ Reads

Wants == [to : Outside \cup {None}, fee : Fees \cup {None}]
Next ==
  \/ \E t \in Tasks :
       Compare(t) \/ ResolveVaFee(t) \/ Insert(t) \/ Put(t) \/ WriteRow(t) \/ Revert(t)
       \/ Delete(t) \/ Close(t)
  \/ \E t \in Tasks, o \in Ids : Post(t, o) \/ Deactivate(t, o)
  \/ \E t \in Tasks, to \in Places : CountActive(t, to)
  \/ \E t \in Tasks, to \in Places, fee \in Fees : Begin(t, to, fee)
  \/ \E t \in Tasks, o \in Ids, want \in Wants : Update(t, o, want)
  \/ \E sweep \in BOOLEAN, fee \in Fees :
       UpdateVaFeeDefault(sweep, fee) \/ SetVaFeeOverride(sweep, fee)
  \/ \E sweep \in BOOLEAN : ClearVaFeeOverride(sweep)
  \/ Crash

Spec == Init /\ [][Next]_vars

(***************************************************************************)
(* Properties.                                                             *)
(***************************************************************************)
Terms == [to : Places \cup {None}, fee : Fees \cup {None}]
TypeOK ==
  /\ form \in {"va", "la", "ea"} /\ faults \in Worlds
  /\ there \in [Ids -> Terms]
  /\ entry \in [Ids -> [status : {"absent", "active", "inactive"}, sweep : BOOLEAN,
                        to : Places \cup {None}, fee : Fees \cup {None}]]
  /\ standard \in [BOOLEAN -> Fees] /\ special \in [BOOLEAN -> Fees \cup {None}]
  /\ task \in [Tasks -> [pc : Pcs, o : Ids \cup {None}, want : Terms, read : Terms]]

\* When calls do not overlap, a client has no more virtual accounts than may be
\* active and one that pays into his wallet (createVirtualAccount), however they
\* are turned into sweeps and closed meanwhile; calls at once add one each.
AccountsWithinLimits ==
  LET late == IF "overlap" \in faults THEN Cardinality(Tasks) - 1 ELSE 0 IN
  form = "va" =>
    /\ Cardinality(Active) =< MaxTotal + late
    /\ Cardinality(Active \ Sweeps) =< 1 + late

\* When calls do not overlap and Bridge answers, each row that can be used says
\* what Bridge has, and nothing else is there; for virtual accounts the former
\* even if the database refuses a write (updateVirtualAccount: "Intentando
\* revertir").
RowsMatchBridge ==
  /\ \A t \in Tasks : At(t, "idle")
  /\ faults \subseteq {"dbError", "fees"}
  => /\ form = "va" \/ "dbError" \notin faults => \A o \in Active : there[o] = InRow(o)
     /\ "dbError" \notin faults => {o \in Ids : there[o] # Gone} = Active
=============================================================================
