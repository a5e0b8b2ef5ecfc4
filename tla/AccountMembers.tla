--------------------------- MODULE AccountMembers ---------------------------
(***************************************************************************)
(* The team of a client: he invites people by e-mail to act on his account *)
(* and withdraws what he gave; who is invited accepts with the link of the *)
(* mail.  A row of account_members goes from pending to active, expired or *)
(* revoked, and back to pending when the owner reopens it.                 *)
(*                                                                         *)
(* A task is one call, an action one call of the database.  A link of      *)
(* which no row has the hash finds nothing, so accepting begins with the   *)
(* row whose link is held; anybody may hold it.  The account of the owner  *)
(* is approved and the throttle (RateLimits) lets the call through, or it  *)
(* has no effect.  The failures of a behaviour are chosen in its first     *)
(* state: "overlap" (several calls at once), "crash", "freeze" (staff      *)
(* freeze accounts) and "countError" (the query that counts the seats      *)
(* fails).                                                                 *)
(***************************************************************************)
EXTENDS Naturals, FiniteSets

CONSTANTS
  Rows,       \* ids for rows of account_members
  People,     \* who is invited, each with an e-mail
  Owner, None,
  Grants,     \* the sets of capabilities an owner may choose
  MaxMembers, \* MAX_ACTIVE_MEMBERS
  Tasks,
  Worlds      \* the sets of failures a behaviour may have

MembersAssumption == MaxMembers \in Nat \ {0} /\ Owner \notin People /\ None \notin People \cup Rows

VARIABLES
  row,       \* account_members: status, invited_email, member_id, capabilities,
             \* and whether expires_at has passed
  frozen,    \* the profiles frozen or inactive
  offered,   \* history: the rows offered since they were last revoked
  served,    \* history: who acted on the owner's account
  faults,    \* the failures of this behaviour
  task

vars == <<row, frozen, offered, served, faults, task>>

Statuses == {"absent", "pending", "active", "expired", "revoked"}
Live == {"pending", "active"}
Pcs == {"idle", "stale", "count", "insert", "capabilities", "revoke", "others", "reopen",
        "expire", "existing", "accept", "membership", "owner"}
Blank == [status |-> "absent", email |-> None, member |-> None,
          caps |-> None, due |-> FALSE]
Idle == [pc |-> "idle", r |-> None, who |-> None, caps |-> None]

Init ==
  /\ faults \in Worlds
  /\ row = [r \in Rows |-> Blank]
  /\ frozen = {}
  /\ offered = {} /\ served = {}
  /\ task = [t \in Tasks |-> Idle]

At(t, pc) == task[t].pc = pc
Become(t, pc, r, who, caps) ==
  task' = [task EXCEPT ![t] = [pc |-> pc, r |-> r, who |-> who, caps |-> caps]]
Goto(t, pc) == Become(t, pc, task[t].r, task[t].who, task[t].caps)
Done(t) == task' = [task EXCEPT ![t] = Idle]
Free(t) == At(t, "idle") /\ ("overlap" \in faults \/ \A u \in Tasks : At(u, "idle"))
Known(r) == row[r].status # "absent"
Status(r, s) == row' = [row EXCEPT ![r].status = s]
LiveRows == {r \in Rows : row[r].status \in Live}
\* account_members_unique_live
Conflicts(r, email) == \E q \in LiveRows \ {r} : row[q].email = email
Reads == UNCHANGED <<row, frozen, offered, served, faults>>

(***************************************************************************)
(* The owner.  Every call begins with a read, and writes by the id alone.  *)
(***************************************************************************)
List(t) ==
  /\ Free(t)
  /\ Become(t, "stale", None, None, None)
  /\ Reads
Invite(t, email, caps) ==
  /\ Free(t)
  /\ Become(t, "stale", None, email, caps)
  /\ Reads
ExpireStale(t) ==
  /\ At(t, "stale")
  /\ row' = [r \in Rows |-> IF row[r].status = "pending" /\ row[r].due
                            THEN [row[r] EXCEPT !.status = "expired"] ELSE row[r]]
  /\ IF task[t].who = None THEN Done(t) ELSE Goto(t, "count")
  /\ UNCHANGED <<frozen, offered, served, faults>>
\* An error of the count is not looked at: no count reads as none.
HasSeat(others) == Cardinality(others) < MaxMembers \/ "countError" \in faults
CountLive(t) ==
  /\ At(t, "count")
  /\ \/ HasSeat(LiveRows) /\ Goto(t, "insert")
     \/ Cardinality(LiveRows) >= MaxMembers /\ Done(t)
  /\ Reads
InsertInvitation(t, r) ==
  /\ At(t, "insert")
  /\ ~Known(r)
  /\ IF Conflicts(r, task[t].who) THEN UNCHANGED <<row, offered>>
     ELSE /\ row' = [row EXCEPT ![r] = [status |-> "pending", email |-> task[t].who,
                                        member |-> None, caps |-> task[t].caps,
                                        due |-> FALSE]]
          /\ offered' = offered \cup {r}
  /\ Done(t)
  /\ UNCHANGED <<frozen, served, faults>>

UpdateCapabilities(t, r, caps) ==
  /\ Free(t)
  /\ Known(r) /\ row[r].status # "revoked"
  /\ Become(t, "capabilities", r, None, caps)
  /\ Reads
WriteCapabilities(t) ==
  /\ At(t, "capabilities")
  /\ row' = [row EXCEPT ![task[t].r].caps = task[t].caps]
  /\ Done(t)
  /\ UNCHANGED <<frozen, offered, served, faults>>

Revoke(t, r) ==
  /\ Free(t)
  /\ Known(r) /\ row[r].status # "revoked"
  /\ Become(t, "revoke", r, None, None)
  /\ Reads
WriteRevoked(t) ==
  /\ At(t, "revoke")
  /\ Status(task[t].r, "revoked")
  /\ offered' = offered \ {task[t].r}
  /\ Done(t)
  /\ UNCHANGED <<frozen, served, faults>>

\* Without new capabilities those read here are written again.
Reopen(t, r, caps) ==
  /\ Free(t)
  /\ Known(r) /\ row[r].status # "active"
  /\ caps \in Grants
  /\ Become(t, "others", r, row[r].email, caps)
  /\ Reads
CountOthers(t) ==
  /\ At(t, "others")
  /\ LET others == LiveRows \ {task[t].r} IN
     \/ HasSeat(others) /\ Goto(t, "reopen")
     \/ Cardinality(others) >= MaxMembers /\ Done(t)
  /\ Reads
\* member_id stays.
WriteReopened(t) ==
  /\ At(t, "reopen")
  /\ LET r == task[t].r IN
     IF Conflicts(r, row[r].email) THEN UNCHANGED <<row, offered>>
     ELSE /\ row' = [row EXCEPT ![r].status = "pending", ![r].caps = task[t].caps,
                                ![r].due = FALSE]
          /\ offered' = offered \cup {r}
  /\ Done(t)
  /\ UNCHANGED <<frozen, served, faults>>

(***************************************************************************)
(* Who is invited.  A row past its time is marked by its id alone; the     *)
(* acceptance is a compare-and-set on the status.                          *)
(***************************************************************************)
AcceptLookup(t, r, who) ==
  /\ Free(t)
  /\ row[r].status = "pending"
  /\ \/ row[r].due /\ Become(t, "expire", r, who, None)
     \/ ~row[r].due /\ row[r].email = who /\ Become(t, "existing", r, who, None)
  /\ Reads
MarkExpired(t) ==
  /\ At(t, "expire")
  /\ Status(task[t].r, "expired")
  /\ Done(t)
  /\ UNCHANGED <<frozen, offered, served, faults>>
AcceptExisting(t) ==
  /\ At(t, "existing")
  /\ IF \E r \in Rows : row[r].status = "active" /\ row[r].member = task[t].who
     THEN Done(t) ELSE Goto(t, "accept")
  /\ Reads
\* Mutant: the UPDATE of the acceptance goes by the id alone.
AcceptById(t) ==
  /\ At(t, "accept")
  /\ row' = [row EXCEPT ![task[t].r].status = "active", ![task[t].r].member = task[t].who]
  /\ Done(t)
  /\ UNCHANGED <<frozen, offered, served, faults>>
\* account_members_unique_active_member cannot refuse it: the index of the live
\* rows leaves one for the e-mail.
Accept(t) ==
  /\ At(t, "accept")
  /\ \/ /\ row[task[t].r].status = "pending"
        /\ row' = [row EXCEPT ![task[t].r].status = "active",
                              ![task[t].r].member = task[t].who]
     \/ row[task[t].r].status # "pending" /\ UNCHANGED row
  /\ Done(t)
  /\ UNCHANGED <<frozen, offered, served, faults>>

(***************************************************************************)
(* A request on the account of the owner: the guard reads the profile of   *)
(* who asks, his membership and the profile of the owner.                  *)
(***************************************************************************)
CanActivate(t, who) ==
  /\ Free(t)
  /\ who \notin frozen
  /\ Become(t, "membership", None, who, None)
  /\ Reads
ResolveMembership(t) ==
  /\ At(t, "membership")
  /\ \/ \E r \in Rows :
          /\ row[r].status = "active" /\ row[r].member = task[t].who
          /\ Become(t, "owner", r, task[t].who, row[r].caps)
     \/ /\ \A r \in Rows : row[r].status = "active" => row[r].member # task[t].who
        /\ Done(t)
  /\ Reads
ResolveOwner(t) ==
  /\ At(t, "owner")
  /\ served' = IF Owner \in frozen THEN served ELSE served \cup {task[t].who}
  /\ Done(t)
  /\ UNCHANGED <<row, frozen, offered, faults>>

\* Outside: seven days pass, staff freeze an account, the process dies.
Lapse(r) ==
  /\ Known(r) /\ ~row[r].due
  /\ row' = [row EXCEPT ![r].due = TRUE]
  /\ UNCHANGED <<frozen, offered, served, faults, task>>
Freeze(who) ==
  /\ "freeze" \in faults
  /\ frozen' = IF who \in frozen THEN frozen \ {who} ELSE frozen \cup {who}
  /\ UNCHANGED <<row, offered, served, faults, task>>
Crash ==
  /\ "crash" \in faults
  /\ \E t \in Tasks : ~At(t, "idle")
  /\ task' = [t \in Tasks |-> Idle]
  /\ Reads

Step(t) ==
  \/ ExpireStale(t) \/ CountLive(t) \/ WriteCapabilities(t) \/ WriteRevoked(t)
  \/ CountOthers(t) \/ WriteReopened(t) \/ MarkExpired(t) \/ AcceptExisting(t) \/ Accept(t)
  \/ ResolveMembership(t) \/ ResolveOwner(t)

Next ==
  \/ \E t \in Tasks : List(t) \/ Step(t)
  \/ \E t \in Tasks, r \in Rows : InsertInvitation(t, r) \/ Revoke(t, r)
  \/ \E t \in Tasks, r \in Rows, caps \in Grants :
       UpdateCapabilities(t, r, caps) \/ Reopen(t, r, caps)
  \/ \E t \in Tasks, who \in People, caps \in Grants : Invite(t, who, caps)
  \/ \E t \in Tasks, r \in Rows, who \in People : AcceptLookup(t, r, who)
  \/ \E t \in Tasks, who \in People : CanActivate(t, who)
  \/ \E r \in Rows : Lapse(r)
  \/ \E who \in People \cup {Owner} : Freeze(who)
  \/ Crash

Spec == Init /\ [][Next]_vars

(***************************************************************************)
(* Properties.                                                             *)
(***************************************************************************)
TypeOK ==
  /\ faults \in Worlds
  /\ row \in [Rows -> [status : Statuses, email : People \cup {None},
                       member : People \cup {None}, caps : Grants \cup {None}, due : BOOLEAN]]
  /\ frozen \subseteq People \cup {Owner}
  /\ offered \subseteq Rows /\ served \subseteq People
  /\ task \in [Tasks -> [pc : Pcs, r : Rows \cup {None}, who : People \cup {None}, caps : Grants \cup {None}]]

\* However acceptances, revocations and reopenings of a row cross, an access
\* that is open was offered after it was last revoked, and is held by the one
\* whose e-mail was invited (accept: "evita la carrera", the e-mails compared).
OpenAccessIsOffered ==
  \A r \in Rows :
    row[r].status = "active" => r \in offered /\ row[r].member = row[r].email

\* When calls do not overlap and no count of them fails, the team has no more than
\* MAX_ACTIVE_MEMBERS seats taken, whether by new invitations or by old ones reopened.
TeamWithinLimit ==
  faults \cap {"overlap", "countError"} = {} => Cardinality(LiveRows) =< MaxMembers
=============================================================================
