---------------------------- MODULE BankAccounts ----------------------------
(***************************************************************************)
(* The bank account a client withdraws to (client_bank_accounts).  The     *)
(* first is approved as he gives it; after that he asks for changes, one   *)
(* in a calendar month, which wait in the row (pending_changes) until the  *)
(* staff approve or reject them.  Withdrawals read the account only while  *)
(* no change is waiting.                                                   *)
(*                                                                         *)
(* The client is approved.  A number stands for the data of an account and *)
(* no two changes propose the same.  A task is one request, an action one  *)
(* call of the database: every one reads the row and then writes it, and   *)
(* no write has a condition on what was read.                              *)
(*                                                                         *)
(* The failures of a behaviour are chosen in its first state: "client"     *)
(* (requests of the client overlap), "staff" (those of the staff do; what  *)
(* one of each does may always overlap), "dbError", "crash".               *)
(***************************************************************************)
EXTENDS Naturals, FiniteSets

CONSTANTS
  Ids,        \* rows of client_bank_accounts
  None, Tasks,
  MaxNumbers, \* data proposed: a bound
  MaxMonths,  \* months: a bound
  Worlds      \* the sets of failures a behaviour may have

VARIABLES
  bank,       \* each account, or None: its data, the change that waits, and the month
              \* of the last request
  numbers,    \* numbers used so far
  month,
  asked,      \* history: the changes asked for, each with its month
  answers,    \* history: <<change, answer>> for each answer of the staff
  withdrawn,  \* history: data that orders were given
  faults,
  task

accountVars == <<bank, numbers, month>>
history == <<asked, answers, withdrawn>>
vars == <<accountVars, history, faults, task>>

\* An account: its data, the change that waits (0 if none), the month it was asked in.
Account == [data : 1..MaxNumbers, change : 0..MaxNumbers, month : 0..MaxMonths]
BoundsAssumption ==
  MaxNumbers \in Nat \ {0} /\ MaxMonths \in Nat \ {0} /\ None \notin Account

Idle == [pc |-> "idle", id |-> None, change |-> 0]
Stored == {i \in Ids : bank[i] # None}
Pending(i) == bank[i].change # 0

Init ==
  /\ faults \in Worlds
  /\ bank = [i \in Ids |-> None]
  /\ numbers = 0 /\ month = 1
  /\ asked = {} /\ answers = {} /\ withdrawn = {}
  /\ task = [t \in Tasks |-> Idle]

At(t, pc) == task[t].pc = pc
Goto(t, pc) == task' = [task EXCEPT ![t].pc = pc]
Begin(t, pc, id, change) ==
  task' = [task EXCEPT ![t] = [pc |-> pc, id |-> id, change |-> change]]
Done(t) == task' = [task EXCEPT ![t] = Idle]
Fails == "dbError" \in faults

OfClient == {"insert", "request"}
OfStaff == {"approve", "reject"}
\* One of these requests may begin.
May(t, pcs, overlap) ==
  /\ At(t, "idle")
  /\ overlap \in faults \/ \A u \in Tasks : task[u].pc \notin pcs

(***************************************************************************)
(* The client                                                              *)
(***************************************************************************)
\* An error of the read, or two rows where it expects one, reads as none.
Create(t) ==
  /\ May(t, OfClient, "client")
  /\ Cardinality(Stored) # 1 \/ Fails
  /\ Begin(t, "insert", None, 0)
  /\ UNCHANGED <<accountVars, history, faults>>
InsertAccount(t) ==
  /\ At(t, "insert")
  /\ \/ /\ numbers < MaxNumbers /\ numbers' = numbers + 1
        /\ \E i \in Ids \ Stored :
             bank' = [bank EXCEPT ![i] = [data |-> numbers + 1, change |-> 0, month |-> 0]]
     \/ Fails /\ UNCHANGED <<bank, numbers>>
  /\ Done(t)
  /\ UNCHANGED <<month, history, faults>>

MayChange(i) == ~Pending(i) /\ bank[i].month # month
\* Mutant: a change that waits is no obstacle to the next.
RequestBesidePending(t, i) ==
  /\ May(t, OfClient, "client")
  /\ i \in Stored /\ bank[i].month # month
  /\ Begin(t, "request", i, 0)
  /\ UNCHANGED <<accountVars, history, faults>>
RequestUpdate(t, i) ==
  /\ May(t, OfClient, "client")
  /\ i \in Stored /\ MayChange(i)
  /\ Begin(t, "request", i, 0)
  /\ UNCHANGED <<accountVars, history, faults>>
\* The month is that of the write, the one of the check may be over.
WriteRequest(t) ==
  /\ At(t, "request")
  /\ \/ /\ numbers < MaxNumbers /\ numbers' = numbers + 1
        /\ bank' = [bank EXCEPT ![task[t].id].change = numbers + 1,
                              ![task[t].id].month = month]
        /\ asked' = asked \cup {<<numbers + 1, month>>}
     \/ Fails /\ UNCHANGED <<bank, numbers, asked>>
  /\ Done(t)
  /\ UNCHANGED <<month, answers, withdrawn, faults>>

\* getApprovedAccountForWithdrawal: the one row that is approved; none if there are two.
Withdraw ==
  /\ \E i \in Stored :
       /\ {j \in Stored : ~Pending(j)} = {i}
       /\ withdrawn' = withdrawn \cup {bank[i].data}
  /\ UNCHANGED <<accountVars, asked, answers, faults, task>>

(***************************************************************************)
(* The staff.  Both write status, pending_changes and what they read.      *)
(***************************************************************************)
ReadChange(t, i) ==
  /\ May(t, OfStaff, "staff")
  /\ i \in Stored /\ Pending(i)
  /\ \E pc \in OfStaff : Begin(t, pc, i, bank[i].change)
  /\ UNCHANGED <<accountVars, history, faults>>
ApproveChange(t) ==
  /\ At(t, "approve")
  /\ LET c == task[t].change  i == task[t].id IN
     \/ /\ bank' = [bank EXCEPT ![i].data = c, ![i].change = 0]
        /\ answers' = answers \cup {<<c, "approved">>}
     \/ Fails /\ UNCHANGED <<bank, answers>>
  /\ Done(t)
  /\ UNCHANGED <<numbers, month, asked, withdrawn, faults>>
RejectChange(t) ==
  /\ At(t, "reject")
  /\ \/ /\ bank' = [bank EXCEPT ![task[t].id].change = 0]
        /\ answers' = answers \cup {<<task[t].change, "rejected">>}
     \/ Fails /\ UNCHANGED <<bank, answers>>
  /\ Done(t)
  /\ UNCHANGED <<numbers, month, asked, withdrawn, faults>>

NextMonth ==
  /\ month < MaxMonths
  /\ month' = month + 1
  /\ UNCHANGED <<bank, numbers, history, faults, task>>
Crash(t) ==
  /\ "crash" \in faults /\ ~At(t, "idle")
  /\ Done(t)
  /\ UNCHANGED <<accountVars, history, faults>>

Next ==
  \/ \E t \in Tasks :
       \/ Create(t) \/ InsertAccount(t) \/ WriteRequest(t)
       \/ ApproveChange(t) \/ RejectChange(t) \/ Crash(t)
       \/ \E i \in Ids : RequestUpdate(t, i) \/ ReadChange(t, i)
  \/ Withdraw \/ NextMonth

Spec == Init /\ [][Next]_vars

(***************************************************************************)
(* Properties                                                              *)
(***************************************************************************)
\* Every variable has its type.
TypeOK ==
  /\ bank \in [Ids -> Account \cup {None}]
  /\ numbers \in 0..MaxNumbers /\ month \in 1..MaxMonths
  /\ asked \subseteq (1..MaxNumbers) \X (1..MaxMonths)
  /\ answers \subseteq (1..MaxNumbers) \X {"approved", "rejected"}
  /\ withdrawn \subseteq 1..MaxNumbers
  /\ faults \in Worlds
  /\ \A t \in Tasks : task[t].pc \in {"idle"} \cup OfClient \cup OfStaff

Changes == {a[1] : a \in asked}
Answers(c) == {a \in answers : a[1] = c}

\* Money goes to no data that the staff rejected or have not looked at (approveChange
\* applies what it read).  If neither the client's requests nor those of the staff
\* overlap, a change waits or has its one answer, and he asks for one in a month and
\* has one account (create, requestUpdate).
ChangesAreReviewed ==
  /\ \A c \in withdrawn \cap Changes : <<c, "approved">> \in answers
  /\ faults \cap {"client", "staff", "dbError"} = {} =>
       /\ \A c \in Changes :
            Cardinality(Answers(c)) + Cardinality({i \in Stored : bank[i].change = c}) = 1
       /\ \A a, b \in asked : a[2] = b[2] => a = b
       /\ Cardinality(Stored) <= 1
=============================================================================
