-------------------------- MODULE SupplierAccounts --------------------------
(***************************************************************************)
(* How a client registers a beneficiary: an account at Bridge, an address  *)
(* that Bridge forwards from (one for each rail), then the INSERT of the   *)
(* suppliers row, and what is undone when a later call fails.  Bridge can  *)
(* delete an account but not an address.                                   *)
(*                                                                         *)
(* A request is one call of create, all for one contact.  The failures of  *)
(* a behaviour are chosen in its first state: "refuse" (Bridge refuses),   *)
(* "lost" (it accepts and its answer is lost), "rowFails" (the INSERT of   *)
(* an account or an address fails), "insertFails" (that of the supplier),  *)
(* "lostInsert" (it succeeds and its answer is lost), "undoFails",         *)
(* "overlap" (requests at once), "crash".                                  *)
(***************************************************************************)
EXTENDS FiniteSets

CONSTANTS
  Requests,
  Worlds     \* the sets of failures a behaviour may have

VARIABLES
  kind,       \* what each request registers
  pc,
  account,    \* the requests whose account Bridge has
  accountRow, \* those whose row of bridge_external_accounts is active
  address,    \* the <<request, rail>> whose address Bridge has
  addressRow, \* those whose row of bridge_liquidation_addresses is active
  rows,       \* those whose row of suppliers is active
  faults

bridgeVars == <<account, address>>
vars == <<kind, pc, account, accountRow, address, addressRow, rows, faults>>

Rails == [bank |-> {"ach"}, pair |-> {"ach", "wire"}, crypto |-> {"solana"},
          manual |-> {"bank_pe"}]
Banked == {"bank", "pair"}
Pcs == {"idle", "account", "accountRow", "address", "addressRow", "insert",
        "undoAccount", "undoAddresses", "created", "failed"}
AtRest == {"idle", "created", "failed"}

Init ==
  /\ faults \in Worlds
  /\ kind \in [Requests -> DOMAIN Rails]
  /\ pc = [r \in Requests |-> "idle"]
  /\ account = {} /\ accountRow = {}
  /\ address = {} /\ addressRow = {}
  /\ rows = {}

Goto(r, p) == pc' = [pc EXCEPT ![r] = p]
Mine(r) == {r} \X Rails[kind[r]]
\* The active rows of suppliers on these rails.
Rows(rails) == {e \in rows : e[2] \in rails}
\* A pair first has an address for ach and then one for wire.
NextRail(r) == IF <<r, "ach">> \in addressRow THEN <<r, "wire">>
               ELSE CHOOSE e \in Mine(r) : kind[r] = "pair" => e[2] = "ach"

(***************************************************************************)
(* The check for a duplicate is not atomic with the INSERT.  That of a     *)
(* pair uses maybeSingle on two rails: it reads two rows as none.          *)
(***************************************************************************)
Check(r) ==
  LET found == Rows(Rails[kind[r]]) IN
  /\ pc[r] = "idle"
  /\ "overlap" \in faults \/ \A q \in Requests : pc[q] \in AtRest
  /\ CASE found # {} /\ (kind[r] = "pair" => Cardinality(found) = 1) -> Goto(r, "failed")
       [] OTHER -> Goto(r, CASE kind[r] \in Banked  -> "account"
                             [] kind[r] = "crypto"  -> "address"
                             [] kind[r] = "manual"  -> "insert")
  /\ UNCHANGED <<kind, bridgeVars, accountRow, addressRow, rows, faults>>

(***************************************************************************)
(* createExternalAccount: when its INSERT fails the account stays.         *)
(***************************************************************************)
PostAccount(r) ==
  /\ pc[r] = "account"
  /\ \/ account' = account \cup {r} /\ Goto(r, "accountRow")
     \/ "lost" \in faults /\ account' = account \cup {r} /\ Goto(r, "failed")
     \/ "refuse" \in faults /\ Goto(r, "failed") /\ UNCHANGED account
  /\ UNCHANGED <<kind, accountRow, address, addressRow, rows, faults>>
InsertAccount(r) ==
  /\ pc[r] = "accountRow"
  /\ \/ accountRow' = accountRow \cup {r} /\ Goto(r, "address")
     \/ "rowFails" \in faults /\ Goto(r, "failed") /\ UNCHANGED accountRow
  /\ UNCHANGED <<kind, bridgeVars, addressRow, rows, faults>>

(***************************************************************************)
(* createLiquidationAddress.  When it fails, the account is deleted, after *)
(* the first address of a pair was set inactive.                           *)
(***************************************************************************)
Undo(r) ==
  Goto(r, CASE kind[r] = "crypto" -> "failed"
            [] kind[r] = "pair" /\ Mine(r) \cap addressRow # {} -> "undoAddresses"
            [] OTHER -> "undoAccount")
PostAddress(r) ==
  /\ pc[r] = "address"
  /\ \/ address' = address \cup {NextRail(r)} /\ Goto(r, "addressRow")
     \/ "lost" \in faults /\ address' = address \cup {NextRail(r)} /\ Undo(r)
     \/ "refuse" \in faults /\ Undo(r) /\ UNCHANGED address
  /\ UNCHANGED <<kind, account, accountRow, addressRow, rows, faults>>
InsertAddress(r) ==
  /\ pc[r] = "addressRow"
  /\ \/ /\ addressRow' = addressRow \cup {NextRail(r)}
        /\ Goto(r, IF Mine(r) \subseteq addressRow' THEN "insert" ELSE "address")
     \/ "rowFails" \in faults /\ Undo(r) /\ UNCHANGED addressRow
  /\ UNCHANGED <<kind, bridgeVars, accountRow, rows, faults>>

(***************************************************************************)
(* The INSERT.  The unique indexes refuse a second active row of a rail;   *)
(* for a single row this error is answered before anything is undone.      *)
(***************************************************************************)
UndoAll(r) ==
  Goto(r, CASE kind[r] = "manual" -> "failed"
            [] kind[r] = "bank"   -> "undoAccount"
            [] OTHER -> "undoAddresses")
Insert(r) ==
  /\ pc[r] = "insert"
  /\ \/ Rows(Rails[kind[r]]) = {} /\ rows' = rows \cup Mine(r) /\ Goto(r, "created")
     \/ /\ Rows(Rails[kind[r]]) # {}
        /\ IF kind[r] = "pair" THEN UndoAll(r) ELSE Goto(r, "failed")
        /\ UNCHANGED rows
     \/ "insertFails" \in faults /\ UndoAll(r) /\ UNCHANGED rows
     \/ /\ "lostInsert" \in faults
        /\ Rows(Rails[kind[r]]) = {} /\ rows' = rows \cup Mine(r) /\ UndoAll(r)
  /\ UNCHANGED <<kind, bridgeVars, accountRow, addressRow, faults>>

(***************************************************************************)
(* Undoing.  An error of the DELETE at Bridge is logged and the row set    *)
(* inactive all the same.                                                  *)
(***************************************************************************)
UndoAccount(r) ==
  /\ pc[r] = "undoAccount"
  /\ \/ account' = account \ {r}
     \/ "undoFails" \in faults /\ UNCHANGED account
  /\ accountRow' = accountRow \ {r}
  /\ Goto(r, IF kind[r] = "bank" /\ Mine(r) \cap addressRow # {}
             THEN "undoAddresses" ELSE "failed")
  /\ UNCHANGED <<kind, address, addressRow, rows, faults>>
\* Mutant: every address of the client is set inactive.
UndoEveryAddress(r) ==
  /\ pc[r] = "undoAddresses"
  /\ addressRow' = {}
  /\ Goto(r, IF kind[r] = "pair" THEN "undoAccount" ELSE "failed")
  /\ UNCHANGED <<kind, bridgeVars, accountRow, rows, faults>>
UndoAddresses(r) ==
  /\ pc[r] = "undoAddresses"
  /\ \/ addressRow' = addressRow \ Mine(r)
     \/ "undoFails" \in faults /\ UNCHANGED addressRow
  /\ Goto(r, IF kind[r] = "pair" THEN "undoAccount" ELSE "failed")
  /\ UNCHANGED <<kind, bridgeVars, accountRow, rows, faults>>

\* The process dies: the requests under way end where they are.
Crash ==
  /\ "crash" \in faults
  /\ \E r \in Requests : pc[r] \notin AtRest
  /\ pc' = [r \in Requests |-> IF pc[r] \in AtRest THEN pc[r] ELSE "failed"]
  /\ UNCHANGED <<kind, bridgeVars, accountRow, addressRow, rows, faults>>

Next ==
  \/ \E r \in Requests :
       \/ Check(r) \/ PostAccount(r) \/ InsertAccount(r) \/ PostAddress(r)
       \/ InsertAddress(r) \/ Insert(r) \/ UndoAccount(r) \/ UndoAddresses(r)
  \/ Crash

Spec == Init /\ [][Next]_vars

(***************************************************************************)
(* Properties.                                                             *)
(***************************************************************************)
TypeOK ==
  /\ faults \in Worlds
  /\ kind \in [Requests -> DOMAIN Rails]
  /\ pc \in [Requests -> Pcs]
  /\ account \subseteq Requests /\ accountRow \subseteq Requests
  /\ \A s \in {address, addressRow, rows} : s \subseteq UNION {Mine(r) : r \in Requests}

\* What the client can pay to has its account and its address, at Bridge and
\* as active rows, whatever fails and whichever requests meet; but for a lost
\* answer to the INSERT, after which they are undone (create).
RowsAreBacked ==
  "lostInsert" \notin faults =>
    \A e \in rows :
      /\ kind[e[1]] \in Banked => e[1] \in account \cap accountRow
      /\ kind[e[1]] # "manual" => e \in address \cap addressRow

\* A request that failed leaves no account at Bridge and no active row, when
\* Bridge answers and the undoing succeeds; a pair even if another request
\* came between its check and its INSERT (createAchWireSupplierPair).
FailedLeavesNothing ==
  \A r \in Requests :
    /\ pc[r] = "failed"
    /\ faults \subseteq {"refuse", "insertFails"} \cup (IF kind[r] = "pair" THEN {"overlap"} ELSE {})
    => r \notin account \cup accountRow /\ Mine(r) \cap (addressRow \cup rows) = {}
=============================================================================
