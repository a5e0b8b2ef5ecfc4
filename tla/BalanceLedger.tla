--------------------------- MODULE BalanceLedger ---------------------------
(***************************************************************************)
(* The row of public.balances of one user in one currency, and what the    *)
(* database does to it: the trigger update_balance_on_ledger_entry, fired  *)
(* by every write of ledger_entries, and the two RPCs that move money      *)
(* between its available and its reserved part.                            *)
(*                                                                         *)
(* Amounts are integers (cents).  The CHECK constraints of the table keep  *)
(* available and reserved from going below zero: a statement that would    *)
(* break one is rolled back, which is what Postable says.                  *)
(***************************************************************************)
EXTENDS Integers

Balance == [amount : Int, available : Nat, reserved : Nat]

AtLeast(a, b) == IF a >= b THEN a ELSE b
AtMost(a, b) == IF a =< b THEN a ELSE b

\* Mutant: the trigger takes every entry for a debit.
SignedDebit(type, amt) == -amt
Signed(type, amt) == IF type = "credit" THEN amt ELSE -amt

\* What a write of an entry adds to the balance: only entering or leaving
\* "settled" counts.  An INSERT is an update from "none".
EntryDiff(type, old, new, amt) ==
  IF new = "settled" /\ old # "settled" THEN Signed(type, amt)
  ELSE IF old = "settled" /\ new # "settled" THEN -Signed(type, amt)
  ELSE 0

\* Mutant: a credit does not reach the available part.
PostedAmountOnly(b, diff) ==
  [b EXCEPT !.amount = @ + diff,
            !.reserved = IF diff < 0 THEN AtLeast(0, @ + diff) ELSE @]
\* The ON CONFLICT DO UPDATE of the trigger: a debit consumes the reserve
\* first and takes from the available part only what the reserve lacks.
Posted(b, diff) ==
  [amount    |-> b.amount + diff,
   available |-> IF diff < 0 THEN b.available + AtMost(0, diff + b.reserved)
                             ELSE b.available + diff,
   reserved  |-> IF diff < 0 THEN AtLeast(0, b.reserved + diff)
                             ELSE b.reserved]

\* CHECK (available_amount >= 0): the statement is rolled back otherwise.
Postable(b, diff) == Posted(b, diff).available >= 0

(***************************************************************************)
(* reserve_balance and release_reserved_balance live in the database and   *)
(* their text is not in the repository.  They are what their callers say:  *)
(* a reserve moves money from available to reserved and fails when there   *)
(* is not enough; a release raises available without looking at what is    *)
(* reserved.  When less is reserved than is released, the reserve is       *)
(* clamped at zero or the CHECK constraint rejects the statement: both are *)
(* outcomes.                                                               *)
(***************************************************************************)
Freed(b, amt) == [amount |-> b.amount, available |-> b.available + amt,
                  reserved |-> b.reserved - amt]

Reserved(b, amt) == IF b.available >= amt THEN Freed(b, -amt) ELSE b

Releases(b, amt) ==
  IF b.reserved >= amt
  THEN {Freed(b, amt)}
  ELSE {b, [amount |-> b.amount, available |-> b.available + amt, reserved |-> 0]}

\* Every cent of the row is either free or held.
Split(b) == b.amount = b.available + b.reserved
=============================================================================
