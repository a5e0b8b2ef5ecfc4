-------------------------- MODULE Clients_proofs --------------------------

(***************************************************************************)
(* Proofs about the nine parts that MCClients puts side by side, for any   *)
(* values of its constants: the team of a client, the wallet of a          *)
(* beneficiary, the accounts of suppliers, what Bridge wants of a client,  *)
(* his documents, his bank account, the people of a company at Bridge,     *)
(* what Didit says of it, and its dossier. For each part: its inductive    *)
(* invariant, that its first state has it and that each step of it keeps   *)
(* it, and what follows from it. An invariant says under which failures a  *)
(* conjunct of it is not claimed.                                          *)
(***************************************************************************)
EXTENDS MCClients, FiniteSetTheorems, SequenceTheorems, TLAPS

(***************************************************************************)
(* Small sets.                                                             *)
(***************************************************************************)
LEMMA OneMore ==
  ASSUME NEW S, IsFiniteSet(S), NEW x
  PROVE  IsFiniteSet(S \cup {x}) /\ Cardinality(S \cup {x}) =< Cardinality(S) + 1
<1>1. Cardinality(S) \in Nat
  BY FS_CardinalityType
<1>2. /\ IsFiniteSet(S \cup {x})
      /\ Cardinality(S \cup {x}) = IF x \in S THEN Cardinality(S) ELSE Cardinality(S) + 1
  BY FS_AddElement
<1> QED
  BY <1>1, <1>2

(***************************************************************************)
(* The team.  A call that holds a row knows it, and the e-mail of a row    *)
(* never changes.                                                          *)
(***************************************************************************)
\* The work of a request on the team: a row it found, somebody and capabilities.
Call == [pc : AM!Pcs, r : Seats \cup {Nil}, who : Invited \cup {Nil}, caps : Grants \cup {Nil}]
\* A row of account_members.
Seat == [status : AM!Statuses, email : Invited \cup {Nil}, member : Invited \cup {Nil},
         caps : Grants \cup {Nil}, due : BOOLEAN]
\* The places where a call holds the row it found.
Holds == {"capabilities", "revoke", "others", "reopen", "expire", "existing", "accept"}
\* A call that holds a row knows one that is there, and the e-mail of it.
Held ==
  \A t \in Tasks : task[t].pc \in Holds =>
    /\ task[t].r \in Seats /\ row[task[t].r].status # "absent"
    /\ task[t].pc \in {"existing", "accept"} => row[task[t].r].email = task[t].who
\* A call about a membership has somebody in mind.
Named == \A t \in Tasks : task[t].pc \in {"membership", "owner"} => task[t].who \in Invited
\* When requests do not overlap and every count is answered, one is under way and the
\* seats it counted are free.
InOrder ==
  /\ \A t, u \in Tasks : task[t].pc # "idle" /\ task[u].pc # "idle" => t = u
  /\ IsFiniteSet(AM!LiveRows) /\ Cardinality(AM!LiveRows) =< MaxMembers
  /\ \A t \in Tasks :
       /\ task[t].pc = "insert" => Cardinality(AM!LiveRows) < MaxMembers
       /\ task[t].pc = "reopen" => Cardinality(AM!LiveRows \ {task[t].r}) < MaxMembers
\* Who has a row that is open was offered it, and an active one is his.
Offered ==
  \A r \in Seats :
    /\ row[r].status \in AM!Live => r \in offered
    /\ row[r].status = "active" => row[r].member = row[r].email
\* The inductive invariant of the team.
TeamInv ==
  /\ AM!TypeOK /\ Held /\ Named /\ Offered
  /\ faults \cap {"overlap", "countError"} = {} => InOrder

\* What the constants of the team are.
LEMMA TeamConstants ==
  /\ MaxMembers \in Nat \ {0} /\ Owner \notin Invited /\ Nil \notin Invited /\ Nil \notin Seats
  /\ AM!Idle \in Call /\ AM!Idle.pc = "idle"
BY InstancesAssumption DEF AM!MembersAssumption, AM!Idle, Call, AM!Pcs

\* The cardinality of the instance is that of the library.
LEMMA TeamCardinality == \A S : AM!Cardinality(S) = Cardinality(S)
BY DEF AM!Cardinality, Cardinality

\* No row and no call.
LEMMA TeamInit == AM!Init => TeamInv
<1> SUFFICES ASSUME AM!Init PROVE TeamInv
  OBVIOUS
<1>1. AM!TypeOK
  BY TeamConstants DEF AM!Init, AM!TypeOK, AM!Blank, AM!Statuses, Call
<1>2. AM!LiveRows = {}
  BY DEF AM!Init, AM!LiveRows, AM!Blank, AM!Live
<1>3. IsFiniteSet({}) /\ Cardinality({}) = 0
  BY FS_EmptySet
<1> QED
  BY <1>1, <1>2, <1>3, TeamConstants
  DEF TeamInv, Held, Named, Offered, InOrder, AM!Init, AM!Blank, AM!Idle, AM!Live, Holds

\* The columns that accept and reopen write.
LEMMA SeatWritten ==
  ASSUME NEW e \in Seat, NEW whom \in Invited \cup {Nil}, NEW caps \in Grants \cup {Nil}
  PROVE  /\ [e EXCEPT !.status = "active", !.member = whom] \in Seat
         /\ [e EXCEPT !.status = "pending", !.caps = caps, !.due = FALSE] \in Seat
BY DEF Seat, AM!Statuses

\* What a call is next.
LEMMA TeamTask ==
  ASSUME AM!TypeOK, NEW t \in Tasks, NEW at \in AM!Pcs, NEW r \in Seats \cup {Nil},
         NEW whom \in Invited \cup {Nil}, NEW caps \in Grants \cup {Nil},
         AM!Become(t, at, r, whom, caps)
  PROVE  /\ task' \in [Tasks -> Call]
         /\ task'[t] = [pc |-> at, r |-> r, who |-> whom, caps |-> caps]
         /\ \A u \in Tasks : u # t => task'[u] = task[u]
BY DEF AM!Become, AM!TypeOK, Call

\* What a call that goes on has, and the others.
LEMMA TeamGoes ==
  ASSUME AM!TypeOK, NEW t \in Tasks, NEW at \in AM!Pcs, AM!Goto(t, at)
  PROVE  /\ task' \in [Tasks -> Call] /\ task'[t].pc = at
         /\ task'[t].r = task[t].r /\ task'[t].who = task[t].who
         /\ \A u \in Tasks : u # t => task'[u] = task[u]
BY DEF AM!Goto, AM!Become, AM!TypeOK, Call

\* What a call that ends leaves, and the others.
LEMMA TeamEnds ==
  ASSUME AM!TypeOK, NEW t \in Tasks, AM!Done(t)
  PROVE  /\ task' \in [Tasks -> Call] /\ task'[t].pc = "idle"
         /\ \A u \in Tasks : u # t => task'[u] = task[u]
BY TeamConstants DEF AM!Done, AM!TypeOK, Call

\* No row disappears or changes its e-mail.
Rows1 ==
  /\ row' \in [Seats -> Seat] /\ offered' \subseteq Seats
  /\ \A r \in Seats : row[r].status # "absent" =>
       row'[r].status # "absent" /\ row'[r].email = row[r].email
\* What a call must have where it stands.
Ready(t) ==
  /\ task[t].pc \in Holds =>
       /\ task[t].r \in Seats /\ row[task[t].r].status # "absent"
       /\ task[t].pc \in {"existing", "accept"} => row[task[t].r].email = task[t].who
  /\ task[t].pc \in {"membership", "owner"} => task[t].who \in Invited
  /\ faults \cap {"overlap", "countError"} = {} =>
       /\ task[t].pc = "insert" => Cardinality(AM!LiveRows) < MaxMembers
       /\ task[t].pc = "reopen" => Cardinality(AM!LiveRows \ {task[t].r}) < MaxMembers

\* A step of a call: what it keeps of the rows and what it must show.
LEMMA TeamMoves ==
  ASSUME TeamInv, NEW t \in Tasks, task' \in [Tasks -> Call],
         \A u \in Tasks : u # t => task'[u] = task[u],
         UNCHANGED faults, frozen' = frozen, served' \subseteq Invited,
         Rows1, Offered', Ready(t)',
         faults \cap {"overlap", "countError"} = {} =>
           /\ task[t].pc # "idle" \/ \A u \in Tasks : task[u].pc = "idle"
           /\ IsFiniteSet(AM!LiveRows') /\ Cardinality(AM!LiveRows') =< MaxMembers
  PROVE  TeamInv'
<1>1. AM!TypeOK'
  BY DEF TeamInv, AM!TypeOK, Rows1, Seat, Call
<1>2. Held' /\ Named'
  BY DEF TeamInv, Held, Named, Ready, Rows1, Holds
<1>3. ASSUME faults \cap {"overlap", "countError"} = {} PROVE InOrder'
  <2>1. \A u \in Tasks : u # t => task[u].pc = "idle" /\ task'[u].pc = "idle"
    BY <1>3 DEF TeamInv, InOrder
  <2> QED
    BY <1>3, <2>1 DEF Ready, InOrder
<1> QED
  BY <1>1, <1>2, <1>3 DEF TeamInv

\* A step that leaves the rows alone.
LEMMA TeamLooks ==
  ASSUME TeamInv, NEW t \in Tasks, task' \in [Tasks -> Call],
         \A u \in Tasks : u # t => task'[u] = task[u],
         UNCHANGED <<row, frozen, offered, faults>>, served' \subseteq Invited,
         faults \cap {"overlap", "countError"} = {} =>
           task[t].pc # "idle" \/ \A u \in Tasks : task[u].pc = "idle",
         Ready(t)'
  PROVE  TeamInv'
<1>1. Rows1 /\ Offered'
  BY DEF Rows1, TeamInv, Offered, AM!TypeOK, Seat
<1>2. AM!LiveRows' = AM!LiveRows
  BY DEF AM!LiveRows
<1> QED
  BY <1>1, <1>2, TeamMoves DEF TeamInv, InOrder

\* A step that ends a call, or goes to the count, and takes no seat.
LEMMA TeamWrites ==
  ASSUME TeamInv, NEW t \in Tasks, task[t].pc # "idle", task'[t].pc \in {"idle", "count"},
         task' \in [Tasks -> Call], \A u \in Tasks : u # t => task'[u] = task[u],
         UNCHANGED <<frozen, served, faults>>, Rows1, Offered',
         \A r \in Seats : row'[r].status \in AM!Live => row[r].status \in AM!Live
  PROVE  TeamInv'
<1>1. AM!LiveRows' \subseteq AM!LiveRows
  BY DEF AM!LiveRows
<1>2. faults \cap {"overlap", "countError"} = {} =>
        IsFiniteSet(AM!LiveRows') /\ Cardinality(AM!LiveRows') =< MaxMembers
  <2>1. ASSUME faults \cap {"overlap", "countError"} = {}
        PROVE  IsFiniteSet(AM!LiveRows') /\ Cardinality(AM!LiveRows') =< Cardinality(AM!LiveRows)
    BY <1>1, <2>1, FS_Subset DEF TeamInv, InOrder
  <2>2. ASSUME faults \cap {"overlap", "countError"} = {}
        PROVE  /\ Cardinality(AM!LiveRows) =< MaxMembers
               /\ Cardinality(AM!LiveRows) \in Nat /\ Cardinality(AM!LiveRows') \in Nat
    BY <2>1, <2>2, FS_CardinalityType DEF TeamInv, InOrder
  <2> QED
    BY <2>1, <2>2, TeamConstants
<1>3. Ready(t)' /\ served' \subseteq Invited
  BY DEF Ready, Holds, TeamInv, AM!TypeOK
<1> QED
  BY <1>2, <1>3, TeamMoves

\* A call that starts finds the others idle, unless they overlap.
LEMMA TeamStarts ==
  ASSUME TeamInv, NEW t \in Tasks, AM!Free(t)
  PROVE  faults \cap {"overlap", "countError"} = {} =>
           task[t].pc # "idle" \/ \A u \in Tasks : task[u].pc = "idle"
BY DEF AM!Free, AM!At

\* The first lookups of the routes of the team.
LEMMA TeamOwner ==
  ASSUME TeamInv, NEW t \in Tasks
  PROVE  /\ AM!List(t) => TeamInv'
         /\ \A email \in Invited, caps \in Grants : AM!Invite(t, email, caps) => TeamInv'
         /\ \A r \in Seats, caps \in Grants : AM!UpdateCapabilities(t, r, caps) => TeamInv'
         /\ \A r \in Seats : AM!Revoke(t, r) => TeamInv'
         /\ \A r \in Seats, caps \in Grants : AM!Reopen(t, r, caps) => TeamInv'
         /\ \A r \in Seats, whom \in Invited : AM!AcceptLookup(t, r, whom) => TeamInv'
         /\ \A whom \in Invited : AM!CanActivate(t, whom) => TeamInv'
<1>0. AM!TypeOK /\ served \subseteq Invited
      /\ {"stale", "capabilities", "revoke", "others", "expire", "existing", "membership"}
           \subseteq AM!Pcs
  BY DEF TeamInv, AM!TypeOK, AM!Pcs
<1>1. ASSUME NEW at \in {"stale", "capabilities", "revoke", "others", "expire", "existing",
                         "membership"},
             NEW r \in Seats \cup {Nil}, NEW whom \in Invited \cup {Nil},
             NEW caps \in Grants \cup {Nil}, AM!Free(t), AM!Reads, AM!Become(t, at, r, whom, caps),
             at \in Holds => r \in Seats /\ row[r].status # "absent",
             at = "existing" => row[r].email = whom,
             at = "membership" => whom \in Invited
      PROVE  TeamInv'
  <2>1. /\ task' \in [Tasks -> Call]
        /\ task'[t] = [pc |-> at, r |-> r, who |-> whom, caps |-> caps]
        /\ \A u \in Tasks : u # t => task'[u] = task[u]
    BY <1>0, <1>1, TeamTask
  <2>2. Ready(t)'
    BY <1>1, <2>1 DEF Ready, AM!Reads, Holds
  <2> QED
    BY <1>0, <1>1, <2>1, <2>2, TeamStarts, TeamLooks DEF AM!Reads
<1>2. AM!List(t) => TeamInv'
  BY <1>1 DEF AM!List, Holds
<1>3. ASSUME NEW email \in Invited, NEW caps \in Grants, AM!Invite(t, email, caps) PROVE TeamInv'
  BY <1>1, <1>3 DEF AM!Invite, Holds
<1>4. ASSUME NEW r \in Seats, NEW caps \in Grants, AM!UpdateCapabilities(t, r, caps)
      PROVE  TeamInv'
  BY <1>1, <1>4 DEF AM!UpdateCapabilities, AM!Known
<1>5. ASSUME NEW r \in Seats, AM!Revoke(t, r) PROVE TeamInv'
  BY <1>1, <1>5 DEF AM!Revoke, AM!Known
<1>6. ASSUME NEW r \in Seats, NEW caps \in Grants, AM!Reopen(t, r, caps) PROVE TeamInv'
  <2>1. row[r].email \in Invited \cup {Nil}
    BY <1>0 DEF AM!TypeOK
  <2> QED
    BY <1>1, <1>6, <2>1 DEF AM!Reopen, AM!Known
<1>7. ASSUME NEW r \in Seats, NEW whom \in Invited, AM!AcceptLookup(t, r, whom) PROVE TeamInv'
  <2>1. row[r].status # "absent"
    BY <1>7 DEF AM!AcceptLookup
  <2> QED
    BY <1>1, <1>7, <2>1 DEF AM!AcceptLookup
<1>8. ASSUME NEW whom \in Invited, AM!CanActivate(t, whom) PROVE TeamInv'
  BY <1>1, <1>8 DEF AM!CanActivate, Holds
<1> QED
  BY <1>2, <1>3, <1>4, <1>5, <1>6, <1>7, <1>8

\* The rows that are open but one.
LEMMA TeamLive ==
  ASSUME TeamInv
  PROVE  /\ faults \cap {"overlap", "countError"} = {} =>
              /\ IsFiniteSet(AM!LiveRows) /\ Cardinality(AM!LiveRows) \in Nat
              /\ \A r : IsFiniteSet(AM!LiveRows \ {r}) /\ Cardinality(AM!LiveRows \ {r}) \in Nat
         /\ \A S : AM!Cardinality(S) = Cardinality(S)
<1>1. ASSUME NEW r, IsFiniteSet(AM!LiveRows)
      PROVE  /\ IsFiniteSet(AM!LiveRows \ {r}) /\ Cardinality(AM!LiveRows \ {r}) \in Nat
             /\ Cardinality(AM!LiveRows) \in Nat
  BY <1>1, FS_Subset, FS_CardinalityType
<1> QED
  BY <1>1, TeamCardinality DEF TeamInv, InOrder

\* The seat of an invitation, new or reopened, was free when it was looked for.
LEMMA TeamSeated ==
  ASSUME TeamInv, NEW t \in Tasks, task[t].pc # "idle",
         task' \in [Tasks -> Call], task'[t].pc = "idle",
         \A u \in Tasks : u # t => task'[u] = task[u],
         UNCHANGED <<frozen, served, faults>>, Rows1, Offered',
         NEW r, AM!LiveRows' \subseteq AM!LiveRows \cup {r},
         faults \cap {"overlap", "countError"} = {} => Cardinality(AM!LiveRows \ {r}) < MaxMembers
  PROVE  TeamInv'
<1>1. ASSUME faults \cap {"overlap", "countError"} = {}
      PROVE  IsFiniteSet(AM!LiveRows') /\ Cardinality(AM!LiveRows') =< MaxMembers
  <2>1. DEFINE S == AM!LiveRows \ {r}
  <2>2. IsFiniteSet(S) /\ Cardinality(S) \in Nat /\ Cardinality(S) < MaxMembers
    BY <1>1, TeamLive
  <2>3. IsFiniteSet(S \cup {r}) /\ Cardinality(S \cup {r}) =< Cardinality(S) + 1
    BY <2>2, OneMore
  <2>4. AM!LiveRows' \subseteq S \cup {r}
    OBVIOUS
  <2>5. IsFiniteSet(AM!LiveRows') /\ Cardinality(AM!LiveRows') =< Cardinality(S \cup {r})
    BY <2>3, <2>4, FS_Subset
  <2>6. Cardinality(S \cup {r}) \in Nat /\ Cardinality(AM!LiveRows') \in Nat
    BY <2>3, <2>5, FS_CardinalityType
  <2> QED
    BY <2>2, <2>3, <2>5, <2>6, TeamConstants
<1>2. Ready(t)' /\ served' \subseteq Invited
  BY DEF Ready, Holds, TeamInv, AM!TypeOK
<1> QED
  BY <1>1, <1>2, TeamMoves

\* The later steps of the routes.
LEMMA TeamStep ==
  ASSUME TeamInv, NEW t \in Tasks, AM!Step(t)
  PROVE  TeamInv'
<1>0. /\ AM!TypeOK /\ Held /\ Named /\ Offered /\ served \subseteq Invited
      /\ {"idle", "stale", "count", "insert", "reopen", "accept", "owner"} \subseteq AM!Pcs
  BY DEF TeamInv, AM!TypeOK, AM!Pcs
<1>1. ASSUME AM!ExpireStale(t) PROVE TeamInv'
  <2>1. /\ task' \in [Tasks -> Call] /\ task'[t].pc \in {"idle", "count"}
        /\ \A u \in Tasks : u # t => task'[u] = task[u]
    BY <1>0, <1>1, TeamEnds, TeamGoes DEF AM!ExpireStale
  <2>2. \A r \in Seats : [row[r] EXCEPT !.status = "expired"] \in Seat
    BY <1>0 DEF AM!TypeOK, Seat, AM!Statuses
  <2>3. Rows1 /\ Offered' /\ \A r \in Seats : row'[r].status \in AM!Live => row[r].status \in AM!Live
    BY <1>0, <1>1, <2>2
    DEF AM!ExpireStale, Rows1, Offered, Seat, AM!TypeOK, AM!Statuses, AM!Live
  <2> QED
    BY <1>1, <2>1, <2>3, TeamWrites DEF AM!ExpireStale, AM!At
<1>2. ASSUME AM!CountLive(t) PROVE TeamInv'
  <2>1. /\ task' \in [Tasks -> Call] /\ task'[t].pc \in {"idle", "insert"}
        /\ \A u \in Tasks : u # t => task'[u] = task[u]
        /\ faults \cap {"overlap", "countError"} = {} /\ task'[t].pc = "insert" =>
             Cardinality(AM!LiveRows) < MaxMembers
    BY <1>0, <1>2, TeamEnds, TeamGoes, TeamLive DEF AM!CountLive, AM!HasSeat
  <2>2. AM!LiveRows' = AM!LiveRows /\ faults' = faults
    BY <1>2 DEF AM!CountLive, AM!Reads, AM!LiveRows
  <2>3. Ready(t)'
    BY <2>1, <2>2 DEF Ready, Holds
  <2> QED
    BY <1>0, <1>2, <2>1, <2>3, TeamLooks DEF AM!CountLive, AM!Reads, AM!At
<1>3. ASSUME AM!WriteCapabilities(t) PROVE TeamInv'
  <2>1. task[t].r \in Seats /\ task[t].caps \in Grants \cup {Nil}
    BY <1>0, <1>3 DEF AM!WriteCapabilities, AM!At, Held, Holds, AM!TypeOK
  <2>2. [row[task[t].r] EXCEPT !.caps = task[t].caps] \in Seat
    BY <1>0, <2>1 DEF AM!TypeOK, Seat
  <2>3. /\ task' \in [Tasks -> Call] /\ task'[t].pc = "idle"
        /\ \A u \in Tasks : u # t => task'[u] = task[u]
    BY <1>0, <1>3, TeamEnds DEF AM!WriteCapabilities
  <2>4. Rows1 /\ Offered' /\ \A r \in Seats : row'[r].status \in AM!Live => row[r].status \in AM!Live
    BY <1>0, <1>3, <2>1, <2>2 DEF AM!WriteCapabilities, Rows1, Offered, AM!TypeOK, Seat
  <2> QED
    BY <1>3, <2>3, <2>4, TeamWrites DEF AM!WriteCapabilities, AM!At
<1>4. ASSUME AM!WriteRevoked(t) PROVE TeamInv'
  <2>1. task[t].r \in Seats
    BY <1>0, <1>4 DEF AM!WriteRevoked, AM!At, Held, Holds
  <2>2. [row[task[t].r] EXCEPT !.status = "revoked"] \in Seat
    BY <1>0, <2>1 DEF AM!TypeOK, Seat, AM!Statuses
  <2>3. /\ task' \in [Tasks -> Call] /\ task'[t].pc = "idle"
        /\ \A u \in Tasks : u # t => task'[u] = task[u]
    BY <1>0, <1>4, TeamEnds DEF AM!WriteRevoked
  <2>4. Rows1 /\ Offered' /\ \A r \in Seats : row'[r].status \in AM!Live => row[r].status \in AM!Live
    BY <1>0, <1>4, <2>1, <2>2
    DEF AM!WriteRevoked, AM!Status, Rows1, Offered, AM!TypeOK, Seat, AM!Live
  <2> QED
    BY <1>4, <2>3, <2>4, TeamWrites DEF AM!WriteRevoked, AM!At
<1>5. ASSUME AM!CountOthers(t) PROVE TeamInv'
  <2>1. /\ task' \in [Tasks -> Call] /\ task'[t].pc \in {"idle", "reopen"}
        /\ \A u \in Tasks : u # t => task'[u] = task[u]
        /\ task'[t].pc = "reopen" => task'[t].r = task[t].r
        /\ faults \cap {"overlap", "countError"} = {} /\ task'[t].pc = "reopen" =>
             Cardinality(AM!LiveRows \ {task[t].r}) < MaxMembers
    BY <1>0, <1>5, TeamEnds, TeamGoes, TeamLive DEF AM!CountOthers, AM!HasSeat
  <2>2. AM!LiveRows' = AM!LiveRows /\ row' = row /\ faults' = faults
    BY <1>5 DEF AM!CountOthers, AM!Reads, AM!LiveRows
  <2>3. task[t].r \in Seats /\ row[task[t].r].status # "absent"
    BY <1>0, <1>5 DEF AM!CountOthers, AM!At, Held, Holds
  <2>4. Ready(t)'
    BY <2>1, <2>2, <2>3 DEF Ready, Holds
  <2> QED
    BY <1>0, <1>5, <2>1, <2>4, TeamLooks DEF AM!CountOthers, AM!Reads, AM!At
<1>6. ASSUME AM!WriteReopened(t) PROVE TeamInv'
  <2>1. PICK r \in Seats, caps \in Grants \cup {Nil} : r = task[t].r /\ caps = task[t].caps
    BY <1>0, <1>6 DEF AM!WriteReopened, AM!At, Held, Holds, AM!TypeOK
  <2>2. [row[r] EXCEPT !.status = "pending", !.caps = caps, !.due = FALSE] \in Seat
    BY <1>0, SeatWritten DEF AM!TypeOK, Seat
  <2>3. /\ task' \in [Tasks -> Call] /\ task'[t].pc = "idle"
        /\ \A u \in Tasks : u # t => task'[u] = task[u]
    BY <1>0, <1>6, TeamEnds DEF AM!WriteReopened
  <2>4. faults \cap {"overlap", "countError"} = {} => Cardinality(AM!LiveRows \ {r}) < MaxMembers
    BY <1>6, <2>1 DEF AM!WriteReopened, AM!At, TeamInv, InOrder
  <2>5. row[r].status # "absent"
    BY <1>0, <1>6, <2>1 DEF AM!WriteReopened, AM!At, Held, Holds
  <2>6. \/ UNCHANGED <<row, offered>>
        \/ /\ row' = [row EXCEPT ![r] = [row[r] EXCEPT !.status = "pending", !.caps = caps,
                                                       !.due = FALSE]]
           /\ offered' = offered \cup {r}
    BY <1>0, <1>6, <2>1 DEF AM!WriteReopened, AM!TypeOK
  <2>7. Rows1 /\ Offered'
    <3>1. PICK e \in Seat : e = [row[r] EXCEPT !.status = "pending", !.caps = caps, !.due = FALSE]
      BY <2>2
    <3>2. e.status = "pending" /\ e.email = row[r].email
      BY <1>0, <3>1 DEF AM!TypeOK
    <3>3. UNCHANGED <<row, offered>> \/ (row' = [row EXCEPT ![r] = e] /\ offered' = offered \cup {r})
      BY <2>6, <3>1
    <3> QED
      BY <1>0, <2>5, <3>2, <3>3 DEF Rows1, Offered, AM!TypeOK, Seat, AM!Live
  <2>8. AM!LiveRows' \subseteq AM!LiveRows \cup {r}
    BY <1>0, <2>6 DEF AM!TypeOK, AM!LiveRows
  <2> QED
    BY <1>6, <2>3, <2>4, <2>7, <2>8, TeamSeated DEF AM!WriteReopened, AM!At
<1>7. ASSUME AM!MarkExpired(t) PROVE TeamInv'
  <2>1. task[t].r \in Seats
    BY <1>0, <1>7 DEF AM!MarkExpired, AM!At, Held, Holds
  <2>2. [row[task[t].r] EXCEPT !.status = "expired"] \in Seat
    BY <1>0, <2>1 DEF AM!TypeOK, Seat, AM!Statuses
  <2>3. /\ task' \in [Tasks -> Call] /\ task'[t].pc = "idle"
        /\ \A u \in Tasks : u # t => task'[u] = task[u]
    BY <1>0, <1>7, TeamEnds DEF AM!MarkExpired
  <2>4. Rows1 /\ Offered' /\ \A r \in Seats : row'[r].status \in AM!Live => row[r].status \in AM!Live
    BY <1>0, <1>7, <2>1, <2>2
    DEF AM!MarkExpired, AM!Status, Rows1, Offered, AM!TypeOK, Seat, AM!Live
  <2> QED
    BY <1>7, <2>3, <2>4, TeamWrites DEF AM!MarkExpired, AM!At
<1>8. ASSUME AM!AcceptExisting(t) PROVE TeamInv'
  <2>1. /\ task' \in [Tasks -> Call] /\ task'[t].pc \in {"idle", "accept"}
        /\ \A u \in Tasks : u # t => task'[u] = task[u]
        /\ task'[t].pc = "accept" => task'[t].r = task[t].r /\ task'[t].who = task[t].who
    BY <1>0, <1>8, TeamEnds, TeamGoes DEF AM!AcceptExisting
  <2>2. task[t].r \in Seats /\ row[task[t].r].status # "absent" /\ row[task[t].r].email = task[t].who
    BY <1>0, <1>8 DEF AM!AcceptExisting, AM!At, Held, Holds
  <2>3. Ready(t)'
    BY <1>8, <2>1, <2>2 DEF AM!AcceptExisting, AM!Reads, Ready, Holds
  <2> QED
    BY <1>0, <1>8, <2>1, <2>3, TeamLooks DEF AM!AcceptExisting, AM!Reads, AM!At
<1>9. ASSUME AM!Accept(t) PROVE TeamInv'
  <2>1. PICK r \in Seats, whom \in Invited \cup {Nil} :
          r = task[t].r /\ whom = task[t].who /\ row[r].email = whom
    BY <1>0, <1>9 DEF AM!Accept, AM!At, Held, Holds, AM!TypeOK
  <2>2. [row[r] EXCEPT !.status = "active", !.member = whom] \in Seat
    BY <1>0, SeatWritten DEF AM!TypeOK, Seat
  <2>3. /\ task' \in [Tasks -> Call] /\ task'[t].pc = "idle"
        /\ \A u \in Tasks : u # t => task'[u] = task[u]
    BY <1>0, <1>9, TeamEnds DEF AM!Accept
  <2>4. \/ UNCHANGED row
        \/ /\ row[r].status = "pending"
           /\ row' = [row EXCEPT ![r] = [row[r] EXCEPT !.status = "active", !.member = whom]]
    BY <1>0, <1>9, <2>1 DEF AM!Accept, AM!TypeOK
  <2>5. PICK e \in Seat : /\ e = [row[r] EXCEPT !.status = "active", !.member = whom]
                          /\ e.status = "active" /\ e.member = whom /\ e.email = row[r].email
    BY <1>0, <2>2 DEF AM!TypeOK, Seat
  <2>6. Rows1
    BY <1>0, <1>9, <2>1, <2>4, <2>5 DEF AM!Accept, Rows1, AM!TypeOK, Seat
  <2>7. Offered' /\ \A q \in Seats : row'[q].status \in AM!Live => row[q].status \in AM!Live
    <3>1. CASE UNCHANGED row
      BY <1>0, <1>9, <3>1 DEF AM!Accept, Offered
    <3>2. CASE row[r].status = "pending" /\ row' = [row EXCEPT ![r] = e]
      <4>1. \A q \in Seats : row'[q] = IF q = r THEN e ELSE row[q]
        BY <1>0, <2>1, <3>2 DEF AM!TypeOK
      <4>2. offered' = offered
        BY <1>9 DEF AM!Accept
      <4> QED
        BY <1>0, <2>1, <2>5, <3>2, <4>1, <4>2 DEF Offered, AM!Live
    <3> QED
      BY <2>4, <2>5, <3>1, <3>2
  <2> QED
    BY <1>9, <2>3, <2>6, <2>7, TeamWrites DEF AM!Accept, AM!At
<1>10. ASSUME AM!ResolveMembership(t) PROVE TeamInv'
  <2>1. /\ task' \in [Tasks -> Call] /\ task'[t].pc \in {"idle", "owner"}
        /\ task'[t].pc = "owner" => task'[t].who \in Invited
        /\ \A u \in Tasks : u # t => task'[u] = task[u]
    <3>1. task[t].who \in Invited /\ \A r \in Seats : row[r].caps \in Grants \cup {Nil}
      BY <1>0, <1>10 DEF AM!TypeOK, Named, AM!ResolveMembership, AM!At
    <3>2. CASE AM!Done(t)
      BY <1>0, <3>2, TeamEnds
    <3>3. ASSUME NEW r \in Seats, AM!Become(t, "owner", r, task[t].who, row[r].caps)
          PROVE  /\ task' \in [Tasks -> Call] /\ task'[t].pc = "owner"
                 /\ task'[t].who = task[t].who
                 /\ \A u \in Tasks : u # t => task'[u] = task[u]
      <4>1. PICK caps \in Grants \cup {Nil} : caps = row[r].caps
        BY <3>1
      <4>2. AM!Become(t, "owner", r, task[t].who, caps) /\ task[t].who \in Invited \cup {Nil}
        BY <3>1, <3>3, <4>1
      <4>3. /\ task' \in [Tasks -> Call]
            /\ task'[t] = [pc |-> "owner", r |-> r, who |-> task[t].who, caps |-> caps]
            /\ \A u \in Tasks : u # t => task'[u] = task[u]
        BY <1>0, <4>2, TeamTask
      <4> QED
        BY <4>3
    <3> QED
      BY <1>10, <3>1, <3>2, <3>3 DEF AM!ResolveMembership
  <2>2. Ready(t)'
    BY <2>1 DEF Ready, Holds
  <2> QED
    BY <1>0, <1>10, <2>1, <2>2, TeamLooks DEF AM!ResolveMembership, AM!Reads, AM!At
<1>11. ASSUME AM!ResolveOwner(t) PROVE TeamInv'
  <2>1. /\ task' \in [Tasks -> Call] /\ task'[t].pc = "idle"
        /\ \A u \in Tasks : u # t => task'[u] = task[u]
    BY <1>0, <1>11, TeamEnds DEF AM!ResolveOwner
  <2>2. Ready(t)'
    BY <2>1 DEF Ready, Holds
  <2>3. served' \subseteq Invited
    BY <1>0, <1>11 DEF AM!ResolveOwner, AM!At, Named
  <2> QED
    BY <1>0, <1>11, <2>1, <2>2, <2>3, TeamLooks DEF AM!ResolveOwner, AM!At
<1> QED
  BY <1>1, <1>2, <1>3, <1>4, <1>5, <1>6, <1>7, <1>8, <1>9, <1>10, <1>11 DEF AM!Step

\* The INSERT of an invitation.
LEMMA TeamInserts ==
  ASSUME TeamInv, NEW t \in Tasks, NEW r \in Seats, AM!InsertInvitation(t, r)
  PROVE  TeamInv'
<1>0. AM!TypeOK /\ Offered
  BY DEF TeamInv
<1>1. task[t].pc = "insert" /\ row[r].status = "absent"
  BY DEF AM!InsertInvitation, AM!At, AM!Known
<1>2. /\ task' \in [Tasks -> Call] /\ task'[t].pc = "idle"
      /\ \A u \in Tasks : u # t => task'[u] = task[u]
  BY <1>0, TeamEnds DEF AM!InsertInvitation
<1>3. PICK e \in Seat : e = [status |-> "pending", email |-> task[t].who, member |-> Nil,
                             caps |-> task[t].caps, due |-> FALSE]
  BY <1>0 DEF AM!TypeOK, Seat, AM!Statuses
<1>4. e.status = "pending" /\ e.status # "active"
  BY <1>3
<1>5. \/ UNCHANGED <<row, offered>>
      \/ row' = [row EXCEPT ![r] = e] /\ offered' = offered \cup {r}
  BY <1>3 DEF AM!InsertInvitation
<1>6. Rows1 /\ Offered'
  BY <1>0, <1>1, <1>4, <1>5 DEF Rows1, Offered, AM!TypeOK, Seat, AM!Live
<1>7. AM!LiveRows' \subseteq AM!LiveRows \cup {r} /\ r \notin AM!LiveRows
  BY <1>0, <1>1, <1>5 DEF AM!TypeOK, AM!LiveRows, AM!Live
<1>8. faults \cap {"overlap", "countError"} = {} => Cardinality(AM!LiveRows \ {r}) < MaxMembers
  <2>1. AM!LiveRows \ {r} = AM!LiveRows
    BY <1>7
  <2> QED
    BY <1>1, <2>1 DEF TeamInv, InOrder
<1> QED
  BY <1>1, <1>2, <1>6, <1>7, <1>8, TeamSeated DEF AM!InsertInvitation

\* Time, staff and the death of the process.
LEMMA TeamOutside ==
  ASSUME TeamInv
  PROVE  /\ \A r \in Seats : AM!Lapse(r) => TeamInv'
         /\ \A whom \in Invited \cup {Owner} : AM!Freeze(whom) => TeamInv'
         /\ AM!Crash => TeamInv'
<1>1. ASSUME NEW r \in Seats, AM!Lapse(r) PROVE TeamInv'
  <2>1. PICK e \in Seat : e = [row[r] EXCEPT !.due = TRUE]
    BY DEF TeamInv, AM!TypeOK, Seat
  <2>2. row' = [row EXCEPT ![r] = e] /\ row \in [Seats -> Seat]
    BY <1>1, <2>1 DEF AM!Lapse, TeamInv, AM!TypeOK, Seat
  <2>3. \A q \in Seats : /\ row'[q].status = row[q].status /\ row'[q].email = row[q].email
                         /\ row'[q].member = row[q].member
    BY <2>1, <2>2 DEF Seat
  <2>4. AM!LiveRows' = AM!LiveRows /\ row' \in [Seats -> Seat]
    BY <2>2, <2>3 DEF AM!LiveRows
  <2>5. AM!TypeOK' /\ Held' /\ Named' /\ Offered'
    BY <1>1, <2>3, <2>4 DEF AM!Lapse, TeamInv, AM!TypeOK, Held, Named, Offered, Holds, Seat
  <2> QED
    BY <1>1, <2>4, <2>5 DEF AM!Lapse, TeamInv, InOrder
<1>2. ASSUME NEW whom \in Invited \cup {Owner}, AM!Freeze(whom) PROVE TeamInv'
  BY <1>2 DEF AM!Freeze, TeamInv, AM!TypeOK, Held, Named, Offered, InOrder, AM!LiveRows
<1>3. ASSUME AM!Crash PROVE TeamInv'
  <2>1. task' \in [Tasks -> Call] /\ \A t \in Tasks : task'[t].pc = "idle"
    BY <1>3, TeamConstants DEF AM!Crash
  <2>2. AM!LiveRows' = AM!LiveRows
    BY <1>3 DEF AM!Crash, AM!Reads, AM!LiveRows
  <2>3. UNCHANGED <<row, frozen, offered, served, faults>>
    BY <1>3 DEF AM!Crash, AM!Reads
  <2> QED
    BY <2>1, <2>2, <2>3
    DEF TeamInv, AM!TypeOK, Held, Named, Offered, InOrder, Holds, Call
<1> QED
  BY <1>1, <1>2, <1>3

\* Every step keeps it.
LEMMA TeamNext == TeamInv /\ AM!Next => TeamInv'
BY TeamOwner, TeamStep, TeamInserts, TeamOutside DEF AM!Next

\* The parts of AccessIsOffered follow.
LEMMA TeamHolds == TeamInv => AM!OpenAccessIsOffered /\ AM!TeamWithinLimit
BY TeamCardinality DEF TeamInv, Offered, InOrder, AM!OpenAccessIsOffered, AM!TeamWithinLimit,
   AM!Live

\* The invariant of the team holds when the part is the team.
LEMMA TeamInvariant == Spec => [](part = "team" => TeamInv)
<1>1. Init => (part = "team" => TeamInv)
  BY TeamInit DEF Init
<1>2. (part = "team" => TeamInv) /\ [Next]_vars => (part = "team" => TeamInv)'
  <2> SUFFICES ASSUME part = "team" => TeamInv, [Next]_vars, part' = "team"
               PROVE  TeamInv'
    OBVIOUS
  <2>1. CASE Next
    BY <2>1, TeamNext DEF Next
  <2>2. CASE UNCHANGED vars
    BY <2>2 DEF vars, teamOwn, TeamInv, AM!TypeOK, Held, Named, Offered, InOrder, AM!LiveRows
  <2> QED
    BY <2>1, <2>2
<1> QED
  BY <1>1, <1>2, PTL DEF Spec

\* An open access was offered after it was last revoked, to the one who holds it, and,
\* unless requests overlap or the count of the seats fails, a team has no more of them
\* than it may (accept, invite and reopen of account-members.service.ts).
THEOREM AccessesAreOffered == Spec => []AccessIsOffered
<1>1. (part = "team" => TeamInv) => AccessIsOffered
  BY TeamHolds DEF AccessIsOffered
<1> QED
  BY <1>1, TeamInvariant, PTL

(***************************************************************************)
(* The wallet of a beneficiary. Every address in it was accepted by a      *)
(* screening, so is the one an order pays, and the verdict is about the    *)
(* address or there is none. When nothing is overlapped or interrupted,    *)
(* where a call stands says what the columns of the verdict, of who decided*)
(* it and of the payable flag say to each other.                           *)
(***************************************************************************)
\* The work of a call on a wallet: the row it read, the address it wants and what the
\* screening found.
Errand == [pc : BE!Pcs, was : BE!Wallet, want : Wallets, found : BE!Risks \cup {BE!None}]
\* The verdict of a row is about its address, and the address was accepted.
Judged(w) == w.judged \in {w.address, BE!None} /\ w.address \in accepted
\* What a call remembers is judged, and the address it saves or pays was accepted.
Cleared(call) ==
  /\ Judged(call.was)
  /\ call.pc \in {"save", "order"} => call.want \in accepted
\* What the columns say to each other when a call stands there and nobody else moves.
SettledAt(at) ==
  /\ at = "cut" => compliance = "blocked" /\ decider = "cron"
  /\ at = "restore" => compliance = BE!None
  /\ at = "suspend" => compliance = "blocked" /\ decider = "staff"
  /\ at \in {"screen", "persist", "order"} => compliance # "blocked"
  /\ at \notin {"cut", "restore", "suspend"} => (payable <=> compliance # "blocked")
  /\ at \notin {"cut", "tell"} =>
       (compliance = "blocked" /\ decider = "cron" => told = Len(orders))
\* The one call under way stands where the columns say, or nobody does anything.
Settled ==
  /\ \A t, u \in Tasks : task[t].pc # "idle" /\ task[u].pc # "idle" => t = u
  /\ \A t \in Tasks : task[t].pc # "idle" => SettledAt(task[t].pc)
  /\ (\A t \in Tasks : task[t].pc = "idle") => SettledAt("idle")
\* The inductive invariant of the wallet.
WalletInv ==
  /\ BE!TypeOK
  /\ Judged(wallet) /\ First \in accepted
  /\ \A t \in Tasks : Cleared(task[t])
  /\ \A i \in DOMAIN orders : orders[i] \in accepted
  /\ faults \cap {"overlap", "crash", "byHand"} = {} => Settled

\* What the constants of the wallet are.
LEMMA WalletConstants ==
  /\ First \in Wallets /\ MaxOrders \in Nat
  /\ BE!Idle \in Errand /\ BE!Idle.pc = "idle" /\ BE!Idle.want = First
  /\ BE!Idle.was.address = First /\ BE!Idle.was.judged = BE!None /\ BE!Idle.was \in BE!Wallet
BY InstancesAssumption
DEF BE!FirstAssumption, BE!MaxOrdersAssumption, BE!Idle, BE!Pcs, BE!Wallet, BE!Risks, Errand

\* The first address, accepted and not judged.
LEMMA WalletInit == BE!Init => WalletInv
<1> SUFFICES ASSUME BE!Init PROVE WalletInv
  OBVIOUS
<1>1. BE!TypeOK
  <2>1. wallet \in BE!Wallet
    BY WalletConstants DEF BE!Init, BE!Wallet
  <2>2. task \in [Tasks -> Errand]
    BY WalletConstants DEF BE!Init
  <2>3. orders \in Seq(Wallets) /\ told \in Nat
    BY DEF BE!Init
  <2> QED
    BY <2>1, <2>2, <2>3, WalletConstants DEF BE!Init, BE!TypeOK, Errand
<1> QED
  BY <1>1, WalletConstants DEF BE!Init, WalletInv, Judged, Cleared, Settled, SettledAt, BE!None

\* What a call becomes, and the others.
LEMMA WalletTask ==
  ASSUME BE!TypeOK, NEW t \in Tasks, NEW at \in BE!Pcs, NEW was \in BE!Wallet,
         NEW want \in Wallets, NEW found \in BE!Risks \cup {BE!None},
         BE!Become(t, at, was, want, found)
  PROVE  /\ task' \in [Tasks -> Errand]
         /\ task'[t] = [pc |-> at, was |-> was, want |-> want, found |-> found]
         /\ \A u \in Tasks : u # t => task'[u] = task[u]
BY DEF BE!Become, BE!TypeOK, Errand

\* What a call that goes on has, and the others.
LEMMA WalletGoes ==
  ASSUME BE!TypeOK, NEW t \in Tasks, NEW at \in BE!Pcs, First \in accepted, BE!Goto(t, at)
  PROVE  /\ task' \in [Tasks -> Errand] /\ task'[t].pc = at
         /\ at # "save" => task'[t].want = First /\ Judged(task'[t].was)
         /\ \A u \in Tasks : u # t => task'[u] = task[u]
BY WalletConstants DEF BE!Goto, BE!TypeOK, Errand, Judged

\* A step of a call, as far as addresses go.
LEMMA WalletMoves ==
  ASSUME WalletInv, NEW t \in Tasks, task' \in [Tasks -> Errand],
         \A u \in Tasks : u # t => task'[u] = task[u],
         UNCHANGED faults, accepted \subseteq accepted', accepted' \subseteq Wallets,
         wallet' \in BE!Wallet, Judged(wallet)', Cleared(task[t])',
         compliance' \in {BE!None, "blocked", "pending_review"},
         decider' \in {BE!None, "cron", "staff"}, payable' \in BOOLEAN, active' \in BOOLEAN,
         orders' \in Seq(Wallets), told' \in Nat,
         \A i \in DOMAIN orders' : orders'[i] \in accepted',
         faults \cap {"overlap", "crash", "byHand"} = {} => Settled'
  PROVE  WalletInv'
<1>1. BE!TypeOK'
  BY DEF WalletInv, BE!TypeOK, Errand
<1>2. \A u \in Tasks : Cleared(task[u])'
  BY DEF WalletInv, Cleared, Judged
<1> QED
  BY <1>1, <1>2 DEF WalletInv

\* The types, and what every call remembers.
LEMMA WalletTypes ==
  ASSUME WalletInv
  PROVE  /\ BE!TypeOK /\ Judged(wallet) /\ First \in accepted /\ accepted \subseteq Wallets
         /\ wallet \in BE!Wallet /\ compliance \in {BE!None, "blocked", "pending_review"}
         /\ decider \in {BE!None, "cron", "staff"} /\ payable \in BOOLEAN /\ active \in BOOLEAN
         /\ orders \in Seq(Wallets) /\ told \in Nat
         /\ \A i \in DOMAIN orders : orders[i] \in accepted
         /\ \A t \in Tasks : task[t] \in Errand /\ Cleared(task[t])
BY DEF WalletInv, BE!TypeOK, Errand

\* The one call that moves stands where the columns say.
LEMMA WalletAt ==
  ASSUME Settled, NEW t \in Tasks, task[t].pc # "idle" \/ \A u \in Tasks : task[u].pc = "idle"
  PROVE  SettledAt(task[t].pc) /\ \A u \in Tasks : u # t => task[u].pc = "idle"
BY DEF Settled

\* When nothing is overlapped or interrupted, a step is judged by where it leaves its call.
LEMMA WalletSettles ==
  ASSUME Settled, NEW t \in Tasks, task[t].pc # "idle" \/ \A u \in Tasks : task[u].pc = "idle",
         \A u \in Tasks : u # t => task'[u] = task[u],
         NEW at, task'[t].pc = at, SettledAt(at)'
  PROVE  Settled'
<1>1. \A u \in Tasks : u # t => task'[u].pc = "idle"
  BY WalletAt
<1> QED
  BY <1>1 DEF Settled

\* A step that writes nothing but its call.
LEMMA WalletLooks ==
  ASSUME WalletInv, NEW t \in Tasks, NEW at \in BE!Pcs, NEW was \in BE!Wallet,
         NEW want \in Wallets, NEW found \in BE!Risks \cup {BE!None},
         BE!Become(t, at, was, want, found),
         UNCHANGED <<wallet, compliance, decider, payable, active, orders, told, faults>>,
         accepted \subseteq accepted', accepted' \subseteq Wallets, Judged(was)',
         at \in {"save", "order"} => want \in accepted',
         faults \cap {"overlap", "crash", "byHand"} = {} =>
           /\ task[t].pc # "idle" \/ \A u \in Tasks : task[u].pc = "idle"
           /\ SettledAt(at)'
  PROVE  WalletInv'
<1>1. /\ task' \in [Tasks -> Errand]
      /\ task'[t] = [pc |-> at, was |-> was, want |-> want, found |-> found]
      /\ \A u \in Tasks : u # t => task'[u] = task[u]
  BY WalletTypes, WalletTask
<1>2. Judged(wallet)' /\ Cleared(task[t])' /\ \A i \in DOMAIN orders' : orders'[i] \in accepted'
  BY <1>1, WalletTypes DEF Judged, Cleared
<1>3. faults \cap {"overlap", "crash", "byHand"} = {} => Settled'
  BY <1>1, WalletSettles DEF WalletInv
<1> QED
  BY <1>1, <1>2, <1>3, WalletTypes, WalletMoves

\* A step that writes the row, or an order, and forgets what it read.
LEMMA WalletWrites ==
  ASSUME WalletInv, NEW t \in Tasks, NEW at \in BE!Pcs \ {"save", "order"}, BE!Goto(t, at),
         UNCHANGED <<accepted, faults>>, wallet' \in BE!Wallet, Judged(wallet)',
         compliance' \in {BE!None, "blocked", "pending_review"},
         decider' \in {BE!None, "cron", "staff"}, payable' \in BOOLEAN, active' \in BOOLEAN,
         orders' \in Seq(Wallets), told' \in Nat,
         \A i \in DOMAIN orders' : orders'[i] \in accepted,
         faults \cap {"overlap", "crash", "byHand"} = {} =>
           /\ task[t].pc # "idle" \/ \A u \in Tasks : task[u].pc = "idle"
           /\ SettledAt(at)'
  PROVE  WalletInv'
<1>1. /\ task' \in [Tasks -> Errand] /\ task'[t].pc = at
      /\ Judged(task'[t].was)
      /\ \A u \in Tasks : u # t => task'[u] = task[u]
  BY WalletTypes, WalletGoes
<1>2. Cleared(task[t])'
  BY <1>1 DEF Judged, Cleared
<1>3. faults \cap {"overlap", "crash", "byHand"} = {} => Settled'
  BY <1>1, WalletSettles DEF WalletInv
<1> QED
  BY <1>1, <1>2, <1>3, WalletTypes, WalletMoves

\* What a call may count on when nothing is overlapped or interrupted.
Quiet == faults \cap {"overlap", "crash", "byHand"} = {}

LEMMA WalletQuiet ==
  ASSUME WalletInv, Quiet, NEW t \in Tasks, task[t].pc # "idle" \/ BE!Free(t)
  PROVE  /\ task[t].pc # "idle" \/ \A u \in Tasks : task[u].pc = "idle"
         /\ SettledAt(task[t].pc)
<1>1. task[t].pc # "idle" \/ \A u \in Tasks : task[u].pc = "idle"
  BY DEF Quiet, BE!Free, BE!At
<1> QED
  BY <1>1, WalletAt DEF WalletInv, Quiet

\* A route that starts, the sweep and the decision of the staff.
LEMMA WalletStarts ==
  ASSUME WalletInv, NEW t \in Tasks
  PROVE  /\ BE!Claim(t) => WalletInv'
         /\ BE!RescreenById(t) => WalletInv'
         /\ \A a \in Wallets : BE!Update(t, a) => WalletInv'
         /\ BE!CheckUsable(t) => WalletInv'
         /\ BE!CheckRemovable(t) => WalletInv'
         /\ BE!SetStatus(t) => WalletInv'
<1>0. /\ wallet \in BE!Wallet /\ Judged(wallet) /\ First \in accepted /\ accepted \subseteq Wallets
      /\ {"screen", "save", "check", "order", "remove", "restore", "suspend"} \subseteq BE!Pcs
      /\ "clean" \in BE!Risks /\ First \in Wallets /\ wallet.address \in accepted
  BY WalletTypes, WalletConstants DEF BE!Pcs, BE!Risks, Judged
<1>1. ASSUME BE!Claim(t) PROVE WalletInv'
  <2>1. PICK w \in BE!Wallet : w = [wallet EXCEPT !.claimed = TRUE]
    BY <1>0 DEF BE!Wallet
  <2>2. w.address = wallet.address /\ w.judged = wallet.judged
    BY <1>0, <2>1 DEF BE!Wallet
  <2>3. wallet' = w /\ BE!Become(t, "screen", w, First, "clean")
        /\ UNCHANGED <<compliance, decider, payable, active, orders, told, accepted, faults>>
        /\ BE!Free(t) /\ compliance = BE!None
    BY <1>1, <2>1 DEF BE!Claim, BE!orderVars
  <2>4. /\ task' \in [Tasks -> Errand]
        /\ task'[t] = [pc |-> "screen", was |-> w, want |-> First, found |-> "clean"]
        /\ \A u \in Tasks : u # t => task'[u] = task[u]
    BY <1>0, <2>3, WalletTypes, WalletTask
  <2>5. Judged(wallet)' /\ Cleared(task[t])'
    BY <1>0, <2>2, <2>3, <2>4 DEF Judged, Cleared
  <2>6. Quiet => Settled'
    <3>1. ASSUME Quiet PROVE SettledAt("screen")'
      BY <2>3, <3>1, WalletQuiet DEF SettledAt, BE!Free, BE!At, BE!None
    <3> QED
      BY <2>3, <2>4, <3>1, WalletQuiet, WalletSettles DEF WalletInv, Quiet
  <2> QED
    BY <2>3, <2>4, <2>5, <2>6, WalletTypes, WalletMoves DEF Quiet
<1>2. ASSUME BE!RescreenById(t) PROVE WalletInv'
  <2>1. Judged(wallet)'
    BY <1>0, <1>2 DEF BE!RescreenById, BE!rowVars, Judged
  <2>2. Quiet => SettledAt("screen")'
    BY <1>2, WalletQuiet
    DEF Quiet, BE!RescreenById, BE!rowVars, BE!orderVars, SettledAt, BE!Free, BE!At
  <2>3. BE!Free(t) /\ wallet' = wallet
    BY <1>2 DEF BE!RescreenById, BE!rowVars
  <2> QED
    BY <1>0, <1>2, <2>1, <2>2, <2>3, WalletQuiet, WalletLooks
    DEF BE!RescreenById, BE!rowVars, BE!orderVars, Quiet, Judged
<1>3. ASSUME NEW a \in Wallets, BE!Update(t, a) PROVE WalletInv'
  <2>1. PICK at \in {"save", "check"} : BE!Become(t, at, wallet, a, "clean")
                                       /\ (at = "save" => a = wallet.address)
    BY <1>3 DEF BE!Update
  <2>2. Quiet => SettledAt(at)'
    BY <1>3, WalletQuiet
    DEF Quiet, BE!Update, BE!rowVars, BE!orderVars, SettledAt, BE!Free, BE!At
  <2>3. BE!Free(t) /\ wallet' = wallet /\ accepted' = accepted
    BY <1>3 DEF BE!Update, BE!rowVars
  <2> QED
    BY <1>0, <1>3, <2>1, <2>2, <2>3, WalletQuiet, WalletLooks
    DEF BE!Update, BE!rowVars, BE!orderVars, Quiet, Judged
<1>4. ASSUME BE!CheckUsable(t) PROVE WalletInv'
  <2>1. PICK a \in {wallet.address, First} : BE!Become(t, "order", BE!Idle.was, a, "clean")
    BY <1>4 DEF BE!CheckUsable
  <2>2. Quiet => SettledAt("order")'
    BY <1>4, WalletQuiet
    DEF Quiet, BE!CheckUsable, BE!rowVars, BE!orderVars, SettledAt, BE!Free, BE!At
  <2>3. BE!Free(t) /\ accepted' = accepted /\ a \in Wallets /\ a \in accepted
    BY <1>0, <1>4, <2>1 DEF BE!CheckUsable
  <2>4. Judged(BE!Idle.was)' /\ BE!Idle.was \in BE!Wallet
    BY <1>0, <2>3, WalletConstants DEF Judged
  <2> QED
    BY <1>0, <1>4, <2>1, <2>2, <2>3, <2>4, WalletQuiet, WalletLooks
    DEF BE!CheckUsable, BE!rowVars, BE!orderVars, Quiet
<1>5. ASSUME BE!CheckRemovable(t) PROVE WalletInv'
  <2>1. Quiet => SettledAt("remove")'
    BY <1>5, WalletQuiet
    DEF Quiet, BE!CheckRemovable, BE!rowVars, BE!orderVars, SettledAt, BE!Free, BE!At
  <2>2. BE!Free(t) /\ UNCHANGED <<wallet, compliance, decider, payable, active, orders, told,
                                  accepted, faults>>
        /\ BE!Goto(t, "remove")
    BY <1>5 DEF BE!CheckRemovable, BE!rowVars, BE!orderVars
  <2>3. Judged(wallet)'
    BY <1>0, <2>2 DEF Judged
  <2> QED
    BY <1>0, <2>1, <2>2, <2>3, WalletTypes, WalletQuiet, WalletWrites DEF Quiet
<1>6. ASSUME BE!SetStatus(t) PROVE WalletInv'
  <2>1. PICK s \in {"blocked", BE!None} :
          /\ compliance' = s
          /\ BE!Goto(t, IF s = BE!None THEN "restore" ELSE "suspend")
    BY <1>6 DEF BE!SetStatus
  <2>2. PICK at \in {"restore", "suspend"} :
          /\ BE!Goto(t, at)
          /\ at = "restore" => s = BE!None
          /\ at = "suspend" => s = "blocked"
    BY <2>1
  <2>3. BE!Free(t) /\ UNCHANGED <<wallet, payable, active, orders, told, accepted, faults>>
        /\ decider' = "staff"
    BY <1>6 DEF BE!SetStatus, BE!orderVars
  <2>4. Judged(wallet)'
    BY <1>0, <2>3 DEF Judged
  <2>5. SettledAt(at)'
    BY <2>1, <2>2, <2>3 DEF SettledAt
  <2> QED
    BY <1>0, <2>1, <2>2, <2>3, <2>4, <2>5, WalletTypes, WalletQuiet, WalletWrites DEF Quiet
<1> QED
  BY <1>1, <1>2, <1>3, <1>4, <1>5, <1>6

\* The later steps of the routes and of the sweep.
LEMMA WalletSteps ==
  ASSUME WalletInv, NEW t \in Tasks
  PROVE  /\ BE!Screen(t) => WalletInv'
         /\ BE!Persist(t) => WalletInv'
         /\ BE!Cut(t) => WalletInv'
         /\ BE!Tell(t) => WalletInv'
         /\ BE!SetPayable(t) => WalletInv'
         /\ BE!CheckAddress(t) => WalletInv'
         /\ BE!Save(t) => WalletInv'
         /\ BE!InsertOrder(t) => WalletInv'
         /\ BE!Remove(t) => WalletInv'
<1>0. /\ wallet \in BE!Wallet /\ Judged(wallet) /\ First \in accepted /\ accepted \subseteq Wallets
      /\ {"idle", "persist", "cut", "tell", "save"} \subseteq BE!Pcs
      /\ "clean" \in BE!Risks /\ First \in Wallets
      /\ orders \in Seq(Wallets) /\ told \in Nat
      /\ \A i \in DOMAIN orders : orders[i] \in accepted
  BY WalletTypes, WalletConstants DEF BE!Pcs, BE!Risks
<1>1. PICK was \in BE!Wallet, want \in Wallets, found \in BE!Risks \cup {BE!None} :
        /\ was = task[t].was /\ want = task[t].want /\ found = task[t].found
        /\ Judged(was) /\ (task[t].pc \in {"save", "order"} => want \in accepted)
  BY WalletTypes DEF Errand, Cleared
<1>2. ASSUME BE!Screen(t) PROVE WalletInv'
  <2>1. PICK risk \in BE!Risks \cup {BE!None} : BE!Become(t, "persist", was, First, risk)
    BY <1>1, <1>2 DEF BE!Screen
  <2>2. task[t].pc = "screen" /\ UNCHANGED <<wallet, compliance, decider, payable, active, orders,
                                             told, accepted, faults>>
    BY <1>2 DEF BE!Screen, BE!rowVars, BE!orderVars, BE!At
  <2>3. Quiet => SettledAt("persist")'
    BY <2>2, WalletQuiet DEF SettledAt
  <2>4. Judged(was)'
    BY <1>1, <2>2 DEF Judged
  <2> QED
    BY <1>0, <1>1, <2>1, <2>2, <2>3, <2>4, WalletLooks DEF Quiet
<1>3. ASSUME BE!Persist(t) PROVE WalletInv'
  <2>1. task[t].pc = "persist" /\ UNCHANGED <<payable, active, orders, told, accepted, faults>>
    BY <1>3 DEF BE!Persist, BE!At, BE!orderVars
  <2>2. CASE /\ wallet' = [was EXCEPT !.judged = was.address, !.claimed = FALSE]
             /\ BE!Follow(t, found)
    <3>1. wallet' \in BE!Wallet /\ wallet'.address = was.address /\ wallet'.judged = was.address
      BY <1>1, <2>2 DEF BE!Wallet
    <3>2. Judged(wallet)'
      BY <1>1, <2>1, <3>1 DEF Judged
    <3>3. PICK at \in {"cut", "tell", "idle"} :
            /\ BE!Goto(t, at)
            /\ at = "cut" => compliance' = "blocked" /\ decider' = "cron"
            /\ at = "tell" => compliance' = "pending_review" /\ decider' = "cron"
            /\ at = "idle" => UNCHANGED <<compliance, decider>>
      BY <2>2 DEF BE!Follow, BE!Verdict
    <3>4. Quiet => SettledAt(at)'
      BY <2>1, <3>3, WalletQuiet DEF SettledAt
    <3> QED
      BY <1>0, <2>1, <3>1, <3>2, <3>3, <3>4, WalletTypes, WalletWrites DEF Quiet
  <2>3. CASE BE!Done(t) /\ UNCHANGED <<wallet, compliance, decider>>
    <3>1. BE!Goto(t, "idle") /\ Judged(wallet)'
      BY <1>0, <2>1, <2>3 DEF BE!Done, Judged
    <3>2. Quiet => SettledAt("idle")'
      BY <2>1, <2>3, WalletQuiet DEF SettledAt
    <3> QED
      BY <1>0, <2>1, <2>3, <3>1, <3>2, WalletTypes, WalletWrites DEF Quiet
  <2> QED
    BY <1>1, <1>3, <2>2, <2>3 DEF BE!Persist
<1>4. ASSUME BE!Cut(t) PROVE WalletInv'
  <2>1. /\ task[t].pc = "cut" /\ payable' = FALSE /\ BE!Goto(t, "tell")
        /\ UNCHANGED <<wallet, compliance, decider, active, orders, told, accepted, faults>>
    BY <1>4 DEF BE!Cut, BE!At, BE!orderVars
  <2>2. Judged(wallet)' /\ (Quiet => SettledAt("tell")')
    BY <1>0, <2>1, WalletQuiet DEF SettledAt, Judged
  <2> QED
    BY <1>0, <2>1, <2>2, WalletTypes, WalletWrites DEF Quiet
<1>5. ASSUME BE!Tell(t) PROVE WalletInv'
  <2>1. /\ task[t].pc = "tell" /\ told' = Len(orders) /\ BE!Goto(t, "idle")
        /\ UNCHANGED <<wallet, compliance, decider, payable, active, orders, accepted, faults>>
    BY <1>5 DEF BE!Tell, BE!At, BE!rowVars, BE!Done
  <2>2. Judged(wallet)' /\ (Quiet => SettledAt("idle")') /\ told' \in Nat
    BY <1>0, <2>1, WalletQuiet DEF SettledAt, Judged
  <2> QED
    BY <1>0, <2>1, <2>2, WalletTypes, WalletWrites DEF Quiet
<1>6. ASSUME BE!SetPayable(t) PROVE WalletInv'
  <2>1. /\ task[t].pc \in {"restore", "suspend"} /\ BE!Goto(t, "idle")
        /\ payable' = (task[t].pc = "restore") /\ payable' \in BOOLEAN
        /\ UNCHANGED <<wallet, compliance, decider, active, orders, told, accepted, faults>>
    BY <1>6 DEF BE!SetPayable, BE!At, BE!orderVars, BE!Done
  <2>2. Quiet => SettledAt("idle")'
    BY <2>1, WalletQuiet DEF SettledAt, BE!None
  <2>3. Judged(wallet)'
    BY <1>0, <2>1 DEF Judged
  <2> QED
    BY <1>0, <2>1, <2>2, <2>3, WalletTypes, WalletWrites DEF Quiet
<1>7. ASSUME BE!CheckAddress(t) PROVE WalletInv'
  <2>1. /\ task[t].pc = "check"
        /\ UNCHANGED <<wallet, compliance, decider, payable, active, orders, told, faults>>
    BY <1>7 DEF BE!CheckAddress, BE!At, BE!rowVars, BE!orderVars
  <2>2. CASE accepted' = accepted \cup {want} /\ BE!Become(t, "save", was, want, "clean")
    <3>1. Quiet => SettledAt("save")'
      BY <2>1, WalletQuiet DEF SettledAt
    <3>2. Judged(was)' /\ accepted \subseteq accepted' /\ accepted' \subseteq Wallets
      BY <1>0, <1>1, <2>2 DEF Judged
    <3> QED
      BY <1>0, <1>1, <2>1, <2>2, <3>1, <3>2, WalletLooks DEF Quiet
  <2>3. CASE BE!Done(t) /\ UNCHANGED accepted
    <3>1. Quiet => SettledAt("idle")'
      BY <2>1, WalletQuiet DEF SettledAt
    <3>2. BE!Goto(t, "idle") /\ Judged(wallet)'
      BY <1>0, <2>1, <2>3 DEF BE!Done, Judged
    <3> QED
      BY <1>0, <2>1, <2>3, <3>1, <3>2, WalletTypes, WalletWrites DEF Quiet
  <2> QED
    BY <1>1, <1>7, <2>2, <2>3 DEF BE!CheckAddress
<1>8. ASSUME BE!Save(t) PROVE WalletInv'
  <2>1. /\ task[t].pc = "save" /\ BE!Goto(t, "idle")
        /\ UNCHANGED <<compliance, decider, payable, active, orders, told, accepted, faults>>
        /\ wallet' = IF want = was.address THEN was
                     ELSE [address |-> want, judged |-> want, claimed |-> FALSE]
    BY <1>1, <1>8 DEF BE!Save, BE!At, BE!orderVars, BE!Done
  <2>2. wallet' \in BE!Wallet /\ Judged(wallet)'
    <3>1. CASE want = was.address
      BY <1>1, <2>1, <3>1 DEF Judged
    <3>2. CASE want # was.address
      BY <1>1, <2>1, <3>2 DEF Judged, BE!Wallet
    <3> QED
      BY <3>1, <3>2
  <2>3. Quiet => SettledAt("idle")'
    BY <2>1, WalletQuiet DEF SettledAt
  <2> QED
    BY <1>0, <2>1, <2>2, <2>3, WalletTypes, WalletWrites DEF Quiet
<1>9. ASSUME BE!InsertOrder(t) PROVE WalletInv'
  <2>1. /\ task[t].pc = "order" /\ BE!Goto(t, "idle") /\ orders' = Append(orders, want)
        /\ UNCHANGED <<wallet, compliance, decider, payable, active, told, accepted, faults>>
    BY <1>1, <1>9 DEF BE!InsertOrder, BE!At, BE!rowVars, BE!Done
  <2>2. orders' \in Seq(Wallets) /\ \A i \in DOMAIN orders' : orders'[i] \in accepted
    BY <1>0, <1>1, <2>1
  <2>3. Judged(wallet)' /\ (Quiet => SettledAt("idle")')
    BY <1>0, <2>1, WalletQuiet DEF SettledAt, Judged
  <2> QED
    BY <1>0, <2>1, <2>2, <2>3, WalletTypes, WalletWrites DEF Quiet
<1>10. ASSUME BE!Remove(t) PROVE WalletInv'
  <2>1. /\ task[t].pc = "remove" /\ BE!Goto(t, "idle") /\ active' = FALSE
        /\ UNCHANGED <<wallet, compliance, decider, payable, orders, told, accepted, faults>>
    BY <1>10 DEF BE!Remove, BE!At, BE!orderVars, BE!Done
  <2>2. Judged(wallet)' /\ (Quiet => SettledAt("idle")')
    BY <1>0, <2>1, WalletQuiet DEF SettledAt, Judged
  <2> QED
    BY <1>0, <2>1, <2>2, WalletTypes, WalletWrites DEF Quiet
<1> QED
  BY <1>2, <1>3, <1>4, <1>5, <1>6, <1>7, <1>8, <1>9, <1>10

\* Time and the death of the process.
LEMMA WalletOutside == WalletInv /\ (BE!Hour \/ BE!Crash) => WalletInv'
<1>1. ASSUME WalletInv, BE!Hour PROVE WalletInv'
  <2>1. PICK w \in BE!Wallet : w = [wallet EXCEPT !.claimed = FALSE]
    BY <1>1, WalletTypes DEF BE!Wallet
  <2>2. w.address = wallet.address /\ w.judged = wallet.judged
    BY <1>1, <2>1, WalletTypes DEF BE!Wallet
  <2>3. wallet' = w /\ UNCHANGED <<compliance, decider, payable, active, orders, told, accepted,
                                   faults, task>>
    BY <1>1, <2>1 DEF BE!Hour, BE!orderVars
  <2>4. BE!TypeOK' /\ Judged(wallet)'
    BY <1>1, <2>1, <2>2, <2>3 DEF WalletInv, BE!TypeOK, Judged
  <2> QED
    BY <1>1, <2>3, <2>4 DEF WalletInv, Cleared, Judged, Settled, SettledAt
<1>2. ASSUME WalletInv, BE!Crash PROVE WalletInv'
  <2>1. task' = [t \in Tasks |-> BE!Idle] /\ "crash" \in faults
        /\ UNCHANGED <<wallet, compliance, decider, payable, active, orders, told, accepted, faults>>
    BY <1>2 DEF BE!Crash, BE!rowVars, BE!orderVars
  <2>2. BE!TypeOK'
    BY <1>2, <2>1, WalletConstants DEF WalletInv, BE!TypeOK, Errand
  <2> QED
    BY <1>2, <2>1, <2>2, WalletConstants DEF WalletInv, Cleared, Judged
<1> QED
  BY <1>1, <1>2

\* Every step keeps it.
LEMMA WalletNext == WalletInv /\ BE!Next => WalletInv'
BY WalletStarts, WalletSteps, WalletOutside DEF BE!Next, BE!Step

\* The parts of VerdictIsOfAddress follow.
LEMMA WalletHolds ==
  WalletInv => BE!VerdictIsOfAddress /\ BE!OrdersPayScreened /\ BE!BlockIsCarriedOut
BY DEF WalletInv, Judged, Settled, SettledAt, BE!VerdictIsOfAddress, BE!OrdersPayScreened,
   BE!BlockIsCarriedOut, BE!At

\* The invariant of the wallet holds when the part is the wallet.
LEMMA WalletInvariant == Spec => [](part = "wallet" => WalletInv)
<1>1. Init => (part = "wallet" => WalletInv)
  BY WalletInit DEF Init
<1>2. (part = "wallet" => WalletInv) /\ [Next]_vars => (part = "wallet" => WalletInv)'
  <2> SUFFICES ASSUME part = "wallet" => WalletInv, [Next]_vars, part' = "wallet"
               PROVE  WalletInv'
    OBVIOUS
  <2>1. CASE Next
    BY <2>1, WalletNext DEF Next
  <2>2. CASE UNCHANGED vars
    BY <2>2 DEF vars, walletOwn, WalletInv, BE!TypeOK, Judged, Cleared, Settled, SettledAt
  <2> QED
    BY <2>1, <2>2
<1> QED
  BY <1>1, <1>2, PTL DEF Spec

\* The verdict kept for a wallet is one about its current address, no order pays an
\* address that was never cleared, and, when nothing is overlapped or interrupted, what a
\* rescreening blocks stops being payable (updateSupplier, the screening gate,
\* onBlocked).
THEOREM VerdictsAreOfTheAddress == Spec => []VerdictIsOfAddress
<1>1. (part = "wallet" => WalletInv) => VerdictIsOfAddress
  BY WalletHolds DEF VerdictIsOfAddress
<1> QED
  BY <1>1, WalletInvariant, PTL

(***************************************************************************)
(* Suppliers. A row of an address has an address at Bridge; a request knows*)
(* how far it came, and what it wrote that far is there. When only Bridge  *)
(* refuses, or the INSERT fails, a request that has undone what it did left*)
(* nothing.                                                                *)
(***************************************************************************)
\* Nothing of the request is left at Bridge's account or in the rows that mirror it.
Bare(r) == r \notin account \cup accountRow /\ SA!Mine(r) \cap addressRow = {}
\* What the row of a request needs is there.
Backed(r) ==
  /\ kind[r] \in SA!Banked => r \in account \cap accountRow
  /\ kind[r] # "manual" => SA!Mine(r) \subseteq address \cap addressRow
\* Types, and that a row of an address has the address.
AccountTypes ==
  /\ faults \in ContactWorlds
  /\ kind \in [Contacts -> DOMAIN SA!Rails] /\ pc \in [Contacts -> SA!Pcs]
  /\ account \subseteq Contacts /\ accountRow \subseteq Contacts
  /\ addressRow \subseteq address
  /\ \A e \in addressRow \cup rows : e[1] \in Contacts /\ e \in SA!Mine(e[1])
\* What a request at its call has.
Stage(r) ==
  /\ kind[r] \notin SA!Banked =>
       /\ r \notin account \cup accountRow
       /\ pc[r] \notin {"account", "accountRow", "undoAccount"}
  /\ kind[r] = "manual" =>
       /\ SA!Mine(r) \cap addressRow = {}
       /\ pc[r] \notin {"address", "addressRow", "undoAddresses"}
  /\ pc[r] \in {"idle", "account", "accountRow"} => SA!Mine(r) \cap addressRow = {}
  /\ pc[r] \in {"accountRow", "address", "addressRow"} /\ kind[r] \in SA!Banked => r \in account
  /\ pc[r] \in {"address", "addressRow"} =>
       /\ kind[r] \in SA!Banked => r \in accountRow
       /\ ~(SA!Mine(r) \subseteq addressRow)
  /\ pc[r] = "addressRow" => SA!NextRail(r) \in address
  /\ pc[r] \in {"insert", "created"} => Backed(r)
  /\ pc[r] # "created" /\ "lostInsert" \notin faults => SA!Mine(r) \cap rows = {}
\* The failures that the undoing of a request copes with.
Gentle(r) ==
  faults \subseteq {"refuse", "insertFails"} \cup (IF kind[r] = "pair" THEN {"overlap"} ELSE {})
\* What is left of a request when the undoing succeeds.
Leaves(r) ==
  /\ pc[r] \in {"idle", "account", "failed"} => Bare(r)
  /\ pc[r] = "accountRow" => r \notin accountRow
  /\ pc[r] = "undoAccount" /\ kind[r] = "pair" => SA!Mine(r) \cap addressRow = {}
  /\ pc[r] = "undoAddresses" /\ kind[r] # "pair" => r \notin account \cup accountRow
  /\ kind[r] # "pair" /\ pc[r] \notin SA!AtRest => SA!Rows(SA!Rails[kind[r]]) = {}
\* One request at a time.
Alone == \A r, q \in Contacts : pc[r] \notin SA!AtRest /\ pc[q] \notin SA!AtRest => r = q
\* The inductive invariant of the suppliers.
AccountInv ==
  /\ AccountTypes
  /\ \A r \in Contacts : Stage(r)
  /\ \A r \in Contacts : Gentle(r) => Leaves(r)
  /\ "overlap" \notin faults => Alone

\* The kinds of account and their rails.
LEMMA AccountKinds ==
  /\ DOMAIN SA!Rails = {"bank", "pair", "crypto", "manual"}
  /\ SA!Rails["bank"] = {"ach"} /\ SA!Rails["pair"] = {"ach", "wire"}
  /\ SA!Rails["crypto"] = {"solana"} /\ SA!Rails["manual"] = {"bank_pe"}
  /\ SA!Banked = {"bank", "pair"}
BY DEF SA!Rails, SA!Banked

\* No request has begun.
LEMMA AccountInit == SA!Init => AccountInv
<1> SUFFICES ASSUME SA!Init PROVE AccountInv
  OBVIOUS
<1>1. AccountTypes
  BY DEF SA!Init, AccountTypes, SA!Pcs
<1> QED
  BY <1>1 DEF SA!Init, AccountInv, Stage, Leaves, Bare, Alone, SA!AtRest, SA!Rows

\* The rails of a request are its own.
LEMMA MineIs ==
  ASSUME AccountTypes, NEW r \in Contacts
  PROVE  /\ SA!Mine(r) = {<<r, x>> : x \in SA!Rails[kind[r]]}
         /\ \A q \in Contacts : q # r => SA!Mine(q) \cap SA!Mine(r) = {}
         /\ kind[r] \in {"bank", "pair", "crypto", "manual"}
         /\ kind[r] = "bank" => SA!Mine(r) = {<<r, "ach">>}
         /\ kind[r] = "pair" => SA!Mine(r) = {<<r, "ach">>, <<r, "wire">>}
         /\ kind[r] = "crypto" => SA!Mine(r) = {<<r, "solana">>}
         /\ kind[r] = "manual" => SA!Mine(r) = {<<r, "bank_pe">>}
<1>1. \A q : SA!Mine(q) = {q} \X SA!Rails[kind[q]]
  BY DEF SA!Mine
<1>2. kind[r] \in {"bank", "pair", "crypto", "manual"}
  BY AccountKinds DEF AccountTypes
<1>3. \A S : {r} \X S = {<<r, x>> : x \in S}
  OBVIOUS
<1> QED
  BY <1>1, <1>2, <1>3, AccountKinds

\* The next rail of a request is one of its own that has no row.
LEMMA NextIs ==
  ASSUME AccountTypes, NEW r \in Contacts, kind[r] # "manual",
         ~(SA!Mine(r) \subseteq addressRow)
  PROVE  /\ SA!NextRail(r) \in SA!Mine(r)
         /\ SA!NextRail(r) \notin addressRow
         /\ kind[r] # "pair" => SA!Mine(r) \cap addressRow = {}
<1>1. CASE kind[r] = "pair"
  <2>1. CASE <<r, "ach">> \in addressRow
    BY <1>1, <2>1, MineIs DEF SA!NextRail
  <2>2. CASE <<r, "ach">> \notin addressRow
    <3>1. SA!NextRail(r) = CHOOSE e \in SA!Mine(r) : kind[r] = "pair" => e[2] = "ach"
      BY <2>2 DEF SA!NextRail
    <3>2. \E e \in SA!Mine(r) : kind[r] = "pair" => e[2] = "ach"
      <4>1. <<r, "ach">> \in SA!Mine(r) /\ <<r, "ach">>[2] = "ach"
        BY <1>1, MineIs
      <4> QED
        BY <4>1
    <3>3. SA!NextRail(r) \in SA!Mine(r) /\ SA!NextRail(r)[2] = "ach"
      BY <1>1, <3>1, <3>2
    <3> QED
      BY <1>1, <2>2, <3>3, MineIs
  <2> QED
    BY <2>1, <2>2
<1>2. CASE kind[r] \in {"bank", "crypto"}
  <2>1. PICK e : SA!Mine(r) = {e} /\ e \notin addressRow
    BY <1>2, MineIs
  <2>2. <<r, "ach">> \notin addressRow
    <3>1. <<r, "ach">> \in addressRow => <<r, "ach">>[1] = r /\ <<r, "ach">> \in SA!Mine(<<r, "ach">>[1])
      BY DEF AccountTypes
    <3> QED
      BY <2>1, <3>1
  <2> QED
    BY <1>2, <2>1, <2>2 DEF SA!NextRail
<1> QED
  BY <1>1, <1>2, MineIs

\* What the others have is left alone.
LEMMA AccountMoves ==
  ASSUME AccountInv, NEW r \in Contacts, pc[r] \notin {"created", "failed"},
         UNCHANGED <<kind, faults>>, AccountTypes',
         \A q \in Contacts \ {r} :
           /\ pc'[q] = pc[q]
           /\ q \in account' <=> q \in account
           /\ q \in accountRow' <=> q \in accountRow
           /\ SA!Mine(q) \cap addressRow' = SA!Mine(q) \cap addressRow
           /\ SA!Mine(q) \cap address \subseteq address'
           /\ SA!Mine(q) \cap rows' = SA!Mine(q) \cap rows,
         Stage(r)',
         Gentle(r) => Leaves(r)',
         "overlap" \notin faults => \A q \in Contacts \ {r} : pc[q] \in SA!AtRest
  PROVE  AccountInv'
<1>1. ASSUME NEW q \in Contacts \ {r} PROVE Stage(q)'
  <2>1. Stage(q) /\ kind[q] \in {"bank", "pair", "crypto", "manual"}
    BY <1>1, MineIs DEF AccountInv
  <2>2. SA!Mine(q)' = SA!Mine(q)
    BY DEF SA!Mine
  <2>3. Backed(q) => Backed(q)'
    BY <2>2 DEF Backed
  <2>4. pc[q] = "addressRow" => SA!NextRail(q)' \in address'
    <3>1. SUFFICES ASSUME pc[q] = "addressRow" PROVE SA!NextRail(q)' \in address'
      OBVIOUS
    <3>2. SA!NextRail(q) \in SA!Mine(q) /\ SA!NextRail(q) \in address
      BY <2>1, <3>1, NextIs DEF Stage, AccountInv
    <3>3. <<q, "ach">> \in addressRow' <=> <<q, "ach">> \in addressRow
      <4>1. CASE <<q, "ach">> \in SA!Mine(q)
        BY <4>1
      <4>2. CASE <<q, "ach">> \notin SA!Mine(q)
        <5>1. <<q, "ach">>[1] = q
          OBVIOUS
        <5>2. <<q, "ach">> \notin addressRow
          BY <4>2, <5>1 DEF AccountInv, AccountTypes
        <5>3. <<q, "ach">> \notin addressRow'
          BY <2>2, <4>2, <5>1 DEF AccountTypes
        <5> QED
          BY <5>2, <5>3
      <4> QED
        BY <4>1, <4>2
    <3>4. SA!NextRail(q)' = SA!NextRail(q)
      BY <2>2, <3>3 DEF SA!NextRail
    <3> QED
      BY <3>2, <3>4
  <2> QED
    BY <2>1, <2>2, <2>3, <2>4 DEF Stage
<1>2. ASSUME NEW q \in Contacts \ {r}, Gentle(q) PROVE Leaves(q)'
  <2>1. Leaves(q) /\ kind[q] \in {"bank", "pair", "crypto", "manual"}
    BY <1>2, MineIs DEF AccountInv
  <2>2. SA!Mine(q)' = SA!Mine(q)
    BY DEF SA!Mine
  <2>3. kind[q] # "pair" => pc'[q] \in SA!AtRest
    BY <1>2 DEF Gentle
  <2> QED
    BY <2>1, <2>2, <2>3 DEF Leaves, Bare
<1>3. "overlap" \notin faults => Alone'
  BY DEF Alone
<1> QED
  BY <1>1, <1>2, <1>3 DEF AccountInv, Gentle, Alone, SA!AtRest

\* A request goes on and the others stay.
LEMMA AccountGoes ==
  ASSUME AccountTypes, NEW r \in Contacts, NEW p \in SA!Pcs, SA!Goto(r, p)
  PROVE  pc' \in [Contacts -> SA!Pcs] /\ pc'[r] = p /\ \A q \in Contacts \ {r} : pc'[q] = pc[q]
BY DEF SA!Goto, AccountTypes

\* What is known of a request that moves.
LEMMA AccountAt ==
  ASSUME AccountInv, NEW r \in Contacts
  PROVE  /\ AccountTypes /\ kind[r] \in {"bank", "pair", "crypto", "manual"}
         /\ Stage(r)
         /\ Gentle(r) => Leaves(r)
         /\ Gentle(r) => "lostInsert" \notin faults
         /\ Gentle(r) => faults \cap {"lost", "rowFails", "undoFails", "crash"} = {}
         /\ Gentle(r) /\ kind[r] # "pair" => "overlap" \notin faults
         /\ "overlap" \notin faults /\ pc[r] \notin SA!AtRest =>
              \A q \in Contacts \ {r} : pc[q] \in SA!AtRest
BY MineIs DEF AccountInv, Gentle, Alone

\* The first checks.
LEMMA AccountChecks == ASSUME AccountInv, NEW r \in Contacts, SA!Check(r) PROVE AccountInv'
<1>0. /\ AccountTypes /\ kind[r] \in {"bank", "pair", "crypto", "manual"}
      /\ Stage(r)
      /\ Gentle(r) => Leaves(r)
      /\ Gentle(r) /\ kind[r] # "pair" => "overlap" \notin faults
  BY AccountAt
<1>1. /\ pc[r] = "idle" /\ UNCHANGED <<kind, account, accountRow, address, addressRow, rows, faults>>
      /\ "overlap" \notin faults => \A q \in Contacts : pc[q] \in SA!AtRest
  BY DEF SA!Check, SA!bridgeVars
<1>2. PICK p \in {"failed", "account", "address", "insert"} :
        /\ SA!Goto(r, p)
        /\ p = "failed" \/ (SA!Rows(SA!Rails[kind[r]]) = {} \/ kind[r] = "pair")
        /\ p = "account" <=> p # "failed" /\ kind[r] \in SA!Banked
        /\ p = "address" <=> p # "failed" /\ kind[r] = "crypto"
        /\ p = "insert" <=> p # "failed" /\ kind[r] = "manual"
  <2>1. CASE SA!Rows(SA!Rails[kind[r]]) # {}
             /\ (kind[r] = "pair" => SA!Cardinality(SA!Rows(SA!Rails[kind[r]])) = 1)
    <3>1. SA!Goto(r, "failed")
      BY <2>1 DEF SA!Check
    <3> QED
      BY <3>1
  <2>2. CASE ~(SA!Rows(SA!Rails[kind[r]]) # {}
             /\ (kind[r] = "pair" => SA!Cardinality(SA!Rows(SA!Rails[kind[r]])) = 1))
    <3>1. SA!Goto(r, CASE kind[r] \in SA!Banked -> "account"
                       [] kind[r] = "crypto" -> "address"
                       [] kind[r] = "manual" -> "insert")
      BY <2>2 DEF SA!Check
    <3>2. CASE kind[r] \in SA!Banked
      <4>1. (CASE kind[r] \in SA!Banked -> "account"
               [] kind[r] = "crypto" -> "address"
               [] kind[r] = "manual" -> "insert") = "account"
        BY <3>2, AccountKinds
      <4> QED
        BY <2>2, <3>1, <3>2, <4>1, AccountKinds
    <3>3. CASE kind[r] = "crypto"
      <4>1. (CASE kind[r] \in SA!Banked -> "account"
               [] kind[r] = "crypto" -> "address"
               [] kind[r] = "manual" -> "insert") = "address"
        BY <3>3, AccountKinds
      <4> QED
        BY <2>2, <3>1, <3>3, <4>1, AccountKinds
    <3>4. CASE kind[r] = "manual"
      <4>1. (CASE kind[r] \in SA!Banked -> "account"
               [] kind[r] = "crypto" -> "address"
               [] kind[r] = "manual" -> "insert") = "insert"
        BY <3>4, AccountKinds
      <4> QED
        BY <2>2, <3>1, <3>4, <4>1, AccountKinds
    <3> QED
      BY <1>0, <3>2, <3>3, <3>4, AccountKinds
  <2> QED
    BY <2>1, <2>2
<1>3. pc' \in [Contacts -> SA!Pcs] /\ pc'[r] = p /\ \A q \in Contacts \ {r} : pc'[q] = pc[q]
  BY <1>0, <1>2, AccountGoes DEF SA!Pcs
<1>4. AccountTypes' /\ SA!Mine(r)' = SA!Mine(r)
  BY <1>0, <1>1, <1>3 DEF AccountTypes, SA!Mine
<1>5. Stage(r)'
  <2>1. Stage(r)
    BY <1>0
  <2>2. p = "address" => ~(SA!Mine(r) \subseteq addressRow)
    <3>1. ASSUME p = "address", SA!Mine(r) \subseteq addressRow PROVE FALSE
      <4>1. kind[r] = "crypto"
        BY <1>2, <3>1
      <4>2. SA!Mine(r) = {<<r, "solana">>}
        BY <1>0, <4>1, MineIs
      <4> QED
        BY <1>1, <2>1, <3>1, <4>2 DEF Stage
    <3> QED
      BY <3>1
  <2>3. p = "insert" => Backed(r)'
    BY <1>1, <1>2, AccountKinds DEF Backed
  <2> QED
    BY <1>1, <1>2, <1>3, <1>4, <2>1, <2>2, <2>3, AccountKinds DEF Stage
<1>6. ASSUME Gentle(r) PROVE Leaves(r)'
  <2>1. Bare(r) /\ Bare(r)'
    BY <1>0, <1>1, <1>4, <1>6 DEF Leaves, Bare
  <2>2. SA!Rows(SA!Rails[kind[r]])' = SA!Rows(SA!Rails[kind[r]])
    BY <1>1 DEF SA!Rows
  <2> QED
    BY <1>1, <1>2, <1>3, <2>1, <2>2 DEF Leaves, SA!AtRest, SA!Rows
<1> QED
  BY <1>1, <1>3, <1>4, <1>5, <1>6, AccountMoves

\* The account at Bridge and its row.
LEMMA AccountPosts ==
  ASSUME AccountInv, NEW r \in Contacts, SA!PostAccount(r) \/ SA!InsertAccount(r)
  PROVE  AccountInv'
<1>0. /\ AccountTypes /\ kind[r] \in {"bank", "pair", "crypto", "manual"}
      /\ Stage(r)
      /\ Gentle(r) => Leaves(r)
      /\ Gentle(r) => faults \cap {"lost", "rowFails", "undoFails", "crash"} = {}
      /\ Gentle(r) /\ kind[r] # "pair" => "overlap" \notin faults
      /\ "overlap" \notin faults /\ pc[r] \notin SA!AtRest =>
           \A q \in Contacts \ {r} : pc[q] \in SA!AtRest
  BY AccountAt
<1>1. /\ pc[r] \in {"account", "accountRow"} /\ pc[r] \notin SA!AtRest
      /\ UNCHANGED <<kind, address, addressRow, rows, faults>>
  BY DEF SA!PostAccount, SA!InsertAccount, SA!AtRest, SA!bridgeVars
<1>2. PICK p \in {"failed", "accountRow", "address"} :
        /\ SA!Goto(r, p)
        /\ p = "accountRow" => /\ pc[r] = "account" /\ account' = account \cup {r}
                               /\ UNCHANGED accountRow
        /\ p = "address" => /\ pc[r] = "accountRow" /\ accountRow' = accountRow \cup {r}
                            /\ UNCHANGED account
        /\ p = "failed" => /\ accountRow' = accountRow
                           /\ \/ pc[r] = "account" /\ UNCHANGED account /\ "refuse" \in faults
                              \/ account' = account \cup {r} /\ "lost" \in faults
                                 /\ pc[r] = "account"
                              \/ UNCHANGED account /\ "rowFails" \in faults
                                 /\ pc[r] = "accountRow"
  BY DEF SA!PostAccount, SA!InsertAccount, SA!bridgeVars
<1>3. pc' \in [Contacts -> SA!Pcs] /\ pc'[r] = p /\ \A q \in Contacts \ {r} : pc'[q] = pc[q]
  BY <1>0, <1>2, AccountGoes DEF SA!Pcs
<1>4. /\ account' \in {account, account \cup {r}} /\ accountRow' \in {accountRow, accountRow \cup {r}}
  BY <1>2
<1>5. AccountTypes' /\ SA!Mine(r)' = SA!Mine(r)
  BY <1>0, <1>1, <1>3, <1>4 DEF AccountTypes, SA!Mine
<1>6. Stage(r)'
  <2>1. Stage(r) /\ kind[r] \in SA!Banked
    BY <1>0, <1>1 DEF Stage
  <2>2. SA!Mine(r) \cap addressRow = {} /\ ~(SA!Mine(r) \subseteq addressRow)
    <3>1. <<r, "ach">> \in SA!Mine(r)
      BY <1>0, <2>1, AccountKinds, MineIs
    <3> QED
      BY <1>1, <2>1, <3>1 DEF Stage
  <2> QED
    BY <1>1, <1>2, <1>3, <1>5, <2>1, <2>2, AccountKinds DEF Stage
<1>7. ASSUME Gentle(r) PROVE Leaves(r)'
  <2>1. Leaves(r)
    BY <1>0, <1>7
  <2>2. SA!Rows(SA!Rails[kind[r]])' = SA!Rows(SA!Rails[kind[r]])
    BY <1>1 DEF SA!Rows
  <2>3. p = "failed" => Bare(r)'
    BY <1>0, <1>1, <1>2, <1>5, <1>7, <2>1 DEF Leaves, Bare
  <2>4. p = "accountRow" => r \notin accountRow'
    BY <1>2, <2>1 DEF Leaves, Bare
  <2> QED
    BY <1>0, <1>1, <1>2, <1>3, <1>7, <2>1, <2>2, <2>3, <2>4 DEF Leaves, SA!AtRest, SA!Rows
<1>8. \A q \in Contacts \ {r} :
        /\ q \in account' <=> q \in account
        /\ q \in accountRow' <=> q \in accountRow
  BY <1>4
<1> QED
  BY <1>0, <1>1, <1>3, <1>5, <1>6, <1>7, <1>8, AccountMoves

\* Where the undoing of an address begins.
LEMMA UndoIs ==
  ASSUME AccountTypes, NEW r \in Contacts, SA!Undo(r)
  PROVE  \E p \in {"failed", "undoAddresses", "undoAccount"} :
           /\ SA!Goto(r, p)
           /\ p = "failed" <=> kind[r] = "crypto"
           /\ p = "undoAddresses" <=> kind[r] = "pair" /\ SA!Mine(r) \cap addressRow # {}
<1> DEFINE w == CASE kind[r] = "crypto" -> "failed"
                  [] kind[r] = "pair" /\ SA!Mine(r) \cap addressRow # {} -> "undoAddresses"
                  [] OTHER -> "undoAccount"
<1>1. SA!Goto(r, w)
  BY DEF SA!Undo
<1>2. CASE kind[r] = "crypto"
  <2>1. w = "failed"
    BY <1>2
  <2> QED
    BY <1>1, <1>2, <2>1
<1>3. CASE kind[r] = "pair" /\ SA!Mine(r) \cap addressRow # {}
  <2>1. w = "undoAddresses"
    BY <1>3
  <2> QED
    BY <1>1, <1>3, <2>1
<1>4. CASE kind[r] # "crypto" /\ ~(kind[r] = "pair" /\ SA!Mine(r) \cap addressRow # {})
  <2>1. w = "undoAccount"
    BY <1>4
  <2> QED
    BY <1>1, <1>4, <2>1
<1> QED
  BY <1>2, <1>3, <1>4

\* Where the undoing of everything begins.
LEMMA UndoAllIs ==
  ASSUME AccountTypes, NEW r \in Contacts, SA!UndoAll(r)
  PROVE  \E p \in {"failed", "undoAddresses", "undoAccount"} :
           /\ SA!Goto(r, p)
           /\ p = "failed" <=> kind[r] = "manual"
           /\ p = "undoAccount" <=> kind[r] = "bank"
<1> DEFINE w == CASE kind[r] = "manual" -> "failed"
                  [] kind[r] = "bank" -> "undoAccount"
                  [] OTHER -> "undoAddresses"
<1>1. SA!Goto(r, w)
  BY DEF SA!UndoAll
<1>2. CASE kind[r] = "manual"
  <2>1. w = "failed"
    BY <1>2
  <2> QED
    BY <1>1, <1>2, <2>1
<1>3. CASE kind[r] = "bank"
  <2>1. w = "undoAccount"
    BY <1>3
  <2> QED
    BY <1>1, <1>3, <2>1
<1>4. CASE kind[r] \notin {"manual", "bank"}
  <2>1. w = "undoAddresses"
    BY <1>4
  <2> QED
    BY <1>1, <1>4, <2>1
<1> QED
  BY <1>2, <1>3, <1>4

\* A request that undoes what it did after its address failed.
LEMMA AccountUndoes ==
  ASSUME AccountInv, NEW r \in Contacts, pc[r] \in {"address", "addressRow"}, SA!Undo(r),
         UNCHANGED <<kind, account, accountRow, addressRow, rows, faults>>,
         address \subseteq address'
  PROVE  AccountInv'
<1>0. /\ AccountTypes /\ kind[r] \in {"bank", "pair", "crypto", "manual"}
      /\ Stage(r)
      /\ Gentle(r) => Leaves(r)
      /\ Gentle(r) => "lostInsert" \notin faults
      /\ "overlap" \notin faults /\ pc[r] \notin SA!AtRest =>
           \A q \in Contacts \ {r} : pc[q] \in SA!AtRest
  BY AccountAt
<1>1. PICK p \in {"failed", "undoAddresses", "undoAccount"} :
        /\ SA!Goto(r, p)
        /\ p = "failed" <=> kind[r] = "crypto"
        /\ p = "undoAddresses" <=> kind[r] = "pair" /\ SA!Mine(r) \cap addressRow # {}
  BY <1>0, UndoIs
<1>2. pc' \in [Contacts -> SA!Pcs] /\ pc'[r] = p /\ \A q \in Contacts \ {r} : pc'[q] = pc[q]
  BY <1>0, <1>1, AccountGoes DEF SA!Pcs
<1>3. AccountTypes' /\ SA!Mine(r)' = SA!Mine(r)
  BY <1>0, <1>2 DEF AccountTypes, SA!Mine
<1>4. Stage(r)'
  BY <1>0, <1>1, <1>2, <1>3, AccountKinds DEF Stage
<1>5. ASSUME Gentle(r) PROVE Leaves(r)'
  <2>1. Leaves(r) /\ Stage(r)
    BY <1>0, <1>5
  <2>2. SA!Rows(SA!Rails[kind[r]])' = SA!Rows(SA!Rails[kind[r]])
    BY DEF SA!Rows
  <2>3. p = "failed" => Bare(r)'
    <3>1. ASSUME kind[r] = "crypto" PROVE Bare(r)
      <4>1. ~(SA!Mine(r) \subseteq addressRow)
        BY <2>1 DEF Stage
      <4>2. SA!Mine(r) \cap addressRow = {}
        BY <1>0, <3>1, <4>1, NextIs
      <4> QED
        BY <2>1, <3>1, <4>2, AccountKinds DEF Stage, Bare
    <3> QED
      BY <1>1, <1>3, <3>1 DEF Bare
  <2> QED
    BY <1>1, <1>2, <1>3, <2>1, <2>2, <2>3 DEF Leaves, SA!AtRest, SA!Rows
<1> QED
  BY <1>0, <1>2, <1>3, <1>4, <1>5, AccountMoves DEF SA!AtRest

\* The addresses at Bridge and their rows.
LEMMA AccountAddresses ==
  ASSUME AccountInv, NEW r \in Contacts, SA!PostAddress(r) \/ SA!InsertAddress(r)
  PROVE  AccountInv'
<1>0. /\ AccountTypes /\ kind[r] \in {"bank", "pair", "crypto", "manual"}
      /\ Stage(r)
      /\ Gentle(r) => Leaves(r)
      /\ Gentle(r) => "lostInsert" \notin faults
      /\ "overlap" \notin faults /\ pc[r] \notin SA!AtRest =>
           \A q \in Contacts \ {r} : pc[q] \in SA!AtRest
  BY AccountAt
<1>1. CASE SA!Undo(r)
  <2>1. /\ pc[r] \in {"address", "addressRow"}
        /\ UNCHANGED <<kind, account, accountRow, rows, faults>>
    BY DEF SA!PostAddress, SA!InsertAddress, SA!bridgeVars
  <2>2. PICK p \in {"failed", "undoAddresses", "undoAccount"} : SA!Goto(r, p)
    BY <1>0, <1>1, UndoIs
  <2>3. pc'[r] = p
    BY <1>0, <2>2, AccountGoes DEF SA!Pcs
  <2>4. ~SA!Goto(r, "insert") /\ ~SA!Goto(r, "address") /\ ~SA!Goto(r, "addressRow")
    BY <1>0, <2>3 DEF SA!Goto, AccountTypes
  <2>5. UNCHANGED addressRow /\ address \subseteq address'
    BY <2>4 DEF SA!PostAddress, SA!InsertAddress, SA!bridgeVars
  <2> QED
    BY <1>1, <2>1, <2>5, AccountUndoes
<1>2. ASSUME SA!PostAddress(r), ~SA!Undo(r) PROVE AccountInv'
  <2>1. /\ pc[r] = "address" /\ address' = address \cup {SA!NextRail(r)}
        /\ SA!Goto(r, "addressRow")
        /\ UNCHANGED <<kind, account, accountRow, addressRow, rows, faults>>
    BY <1>2 DEF SA!PostAddress
  <2>2. pc' \in [Contacts -> SA!Pcs] /\ pc'[r] = "addressRow"
        /\ \A q \in Contacts \ {r} : pc'[q] = pc[q]
    BY <1>0, <2>1, AccountGoes DEF SA!Pcs
  <2>3. AccountTypes' /\ SA!Mine(r)' = SA!Mine(r)
    BY <1>0, <2>1, <2>2 DEF AccountTypes, SA!Mine
  <2>4. Stage(r)'
    <3>1. SA!NextRail(r)' = SA!NextRail(r)
      BY <2>1, <2>3 DEF SA!NextRail
    <3> QED
      BY <1>0, <2>1, <2>2, <2>3, <3>1 DEF Stage
  <2>5. ASSUME Gentle(r) PROVE Leaves(r)'
    <3>1. SA!Rows(SA!Rails[kind[r]])' = SA!Rows(SA!Rails[kind[r]])
      BY <2>1 DEF SA!Rows
    <3> QED
      BY <1>0, <2>1, <2>2, <2>3, <2>5, <3>1 DEF Leaves, SA!AtRest, SA!Rows
  <2> QED
    BY <1>0, <2>1, <2>2, <2>3, <2>4, <2>5, AccountMoves DEF SA!AtRest
<1>3. ASSUME SA!InsertAddress(r), ~SA!Undo(r) PROVE AccountInv'
  <2>1. /\ pc[r] = "addressRow" /\ addressRow' = addressRow \cup {SA!NextRail(r)}
        /\ UNCHANGED <<kind, account, accountRow, address, rows, faults>>
    BY <1>3 DEF SA!InsertAddress, SA!bridgeVars
  <2>2. PICK p \in {"insert", "address"} :
          SA!Goto(r, p) /\ (p = "insert" <=> SA!Mine(r) \subseteq addressRow')
    BY <1>3 DEF SA!InsertAddress
  <2>3. pc' \in [Contacts -> SA!Pcs] /\ pc'[r] = p
        /\ \A q \in Contacts \ {r} : pc'[q] = pc[q]
    BY <1>0, <2>2, AccountGoes DEF SA!Pcs
  <2>4. SA!Mine(r)' = SA!Mine(r)
    BY <2>1 DEF SA!Mine
  <2>5. PICK e \in SA!Mine(r) :
          e = SA!NextRail(r) /\ e \in address /\ e \notin addressRow /\ e[1] = r
          /\ kind[r] # "manual" /\ ~(SA!Mine(r) \subseteq addressRow)
    <3>1. kind[r] # "manual" /\ ~(SA!Mine(r) \subseteq addressRow)
          /\ SA!NextRail(r) \in address
      BY <1>0, <2>1 DEF Stage
    <3>2. SA!NextRail(r) \in SA!Mine(r) /\ SA!NextRail(r) \notin addressRow
      BY <1>0, <3>1, NextIs
    <3>3. \A e \in SA!Mine(r) : e[1] = r
      BY <1>0, MineIs
    <3> QED
      BY <3>1, <3>2, <3>3
  <2>6. AccountTypes'
    BY <1>0, <2>1, <2>3, <2>4, <2>5 DEF AccountTypes, SA!Mine
  <2>7. Stage(r)'
    <3>1. SA!Mine(r) \subseteq addressRow' => SA!Mine(r) \subseteq address
      BY <1>0, <2>1, <2>5 DEF AccountTypes
    <3>2. kind[r] \in SA!Banked => r \in account \cap accountRow
      BY <1>0, <2>1 DEF Stage
    <3>3. p = "insert" => Backed(r)'
      BY <2>1, <2>2, <2>4, <3>1, <3>2 DEF Backed
    <3> QED
      BY <1>0, <2>1, <2>2, <2>3, <2>4, <2>5, <3>2, <3>3 DEF Stage
  <2>8. ASSUME Gentle(r) PROVE Leaves(r)'
    <3>1. SA!Rows(SA!Rails[kind[r]])' = SA!Rows(SA!Rails[kind[r]])
      BY <2>1 DEF SA!Rows
    <3> QED
      BY <1>0, <2>1, <2>2, <2>3, <2>4, <2>8, <3>1 DEF Leaves, SA!AtRest, SA!Rows
  <2>9. ASSUME NEW q \in Contacts \ {r}
        PROVE  SA!Mine(q) \cap addressRow' = SA!Mine(q) \cap addressRow
    <3>1. SA!Mine(q) \cap SA!Mine(r) = {}
      BY <1>0, MineIs
    <3> QED
      BY <2>1, <2>5, <3>1
  <2> QED
    BY <1>0, <2>1, <2>3, <2>6, <2>7, <2>8, <2>9, AccountMoves DEF SA!AtRest
<1> QED
  BY <1>1, <1>2, <1>3

\* A request whose INSERT fails, or seems to.
LEMMA AccountFails ==
  ASSUME AccountInv, NEW r \in Contacts, pc[r] = "insert",
         NEW p \in {"failed", "undoAddresses", "undoAccount"}, SA!Goto(r, p),
         UNCHANGED <<kind, account, accountRow, address, addressRow, faults>>,
         rows' = rows \/ ("lostInsert" \in faults /\ rows' = rows \cup SA!Mine(r)),
         p = "undoAccount" => kind[r] = "bank",
         p = "undoAddresses" => kind[r] \in {"pair", "crypto"},
         Gentle(r) /\ p = "failed" => kind[r] = "manual"
  PROVE  AccountInv'
<1>0. /\ AccountTypes /\ kind[r] \in {"bank", "pair", "crypto", "manual"}
      /\ Stage(r)
      /\ Gentle(r) => Leaves(r)
      /\ Gentle(r) => "lostInsert" \notin faults
      /\ "overlap" \notin faults /\ pc[r] \notin SA!AtRest =>
           \A q \in Contacts \ {r} : pc[q] \in SA!AtRest
  BY AccountAt
<1>1. pc' \in [Contacts -> SA!Pcs] /\ pc'[r] = p /\ \A q \in Contacts \ {r} : pc'[q] = pc[q]
  BY <1>0, AccountGoes DEF SA!Pcs
<1>2. SA!Mine(r)' = SA!Mine(r) /\ \A e \in SA!Mine(r) : e[1] = r
  BY <1>0, MineIs DEF SA!Mine
<1>3. AccountTypes'
  BY <1>0, <1>1, <1>2 DEF AccountTypes, SA!Mine
<1>4. Stage(r)'
  BY <1>0, <1>1, <1>2, AccountKinds DEF Stage
<1>5. ASSUME Gentle(r) PROVE Leaves(r)'
  <2>1. Leaves(r) /\ rows' = rows
    BY <1>0, <1>5
  <2>2. SA!Rows(SA!Rails[kind[r]])' = SA!Rows(SA!Rails[kind[r]])
    BY <2>1 DEF SA!Rows
  <2>3. kind[r] = "manual" => Bare(r)'
    BY <1>0, <1>2, AccountKinds DEF Stage, Bare
  <2>4. kind[r] = "crypto" => r \notin account \cup accountRow
    BY <1>0, AccountKinds DEF Stage
  <2> QED
    BY <1>0, <1>1, <1>2, <1>5, <2>1, <2>2, <2>3, <2>4 DEF Leaves, SA!AtRest, SA!Rows
<1>6. ASSUME NEW q \in Contacts \ {r} PROVE SA!Mine(q) \cap rows' = SA!Mine(q) \cap rows
  <2>1. SA!Mine(q) \cap SA!Mine(r) = {}
    BY <1>0, MineIs
  <2> QED
    BY <2>1
<1> QED
  BY <1>0, <1>1, <1>3, <1>4, <1>5, <1>6, AccountMoves DEF SA!AtRest

\* The INSERT of the supplier.
LEMMA AccountInserts == ASSUME AccountInv, NEW r \in Contacts, SA!Insert(r) PROVE AccountInv'
<1>0. /\ AccountTypes /\ kind[r] \in {"bank", "pair", "crypto", "manual"}
      /\ Stage(r)
      /\ Gentle(r) => Leaves(r)
      /\ Gentle(r) => "lostInsert" \notin faults
      /\ Gentle(r) /\ kind[r] # "pair" => "overlap" \notin faults
      /\ "overlap" \notin faults /\ pc[r] \notin SA!AtRest =>
           \A q \in Contacts \ {r} : pc[q] \in SA!AtRest
  BY AccountAt
<1>1. pc[r] = "insert" /\ UNCHANGED <<kind, account, accountRow, address, addressRow, faults>>
  BY DEF SA!Insert, SA!bridgeVars
<1>2. SA!Mine(r)' = SA!Mine(r) /\ \A e \in SA!Mine(r) : e[1] = r
  BY <1>0, <1>1, MineIs DEF SA!Mine
<1>3. CASE SA!Rows(SA!Rails[kind[r]]) = {} /\ rows' = rows \cup SA!Mine(r) /\ SA!Goto(r, "created")
  <2>1. pc' \in [Contacts -> SA!Pcs] /\ pc'[r] = "created"
        /\ \A q \in Contacts \ {r} : pc'[q] = pc[q]
    BY <1>0, <1>3, AccountGoes DEF SA!Pcs
  <2>2. AccountTypes'
    BY <1>0, <1>1, <1>2, <1>3, <2>1 DEF AccountTypes, SA!Mine
  <2>3. Stage(r)'
    BY <1>0, <1>1, <1>2, <2>1, AccountKinds DEF Stage, Backed
  <2>4. Leaves(r)'
    BY <2>1 DEF Leaves, SA!AtRest
  <2>5. ASSUME NEW q \in Contacts \ {r} PROVE SA!Mine(q) \cap rows' = SA!Mine(q) \cap rows
    <3>1. SA!Mine(q) \cap SA!Mine(r) = {}
      BY <1>0, MineIs
    <3> QED
      BY <1>3, <3>1
  <2> QED
    BY <1>0, <1>1, <2>1, <2>2, <2>3, <2>4, <2>5, AccountMoves DEF SA!AtRest
<1>4. CASE SA!Rows(SA!Rails[kind[r]]) # {} /\ UNCHANGED rows
           /\ IF kind[r] = "pair" THEN SA!UndoAll(r) ELSE SA!Goto(r, "failed")
  <2>1. CASE kind[r] = "pair"
    <3>1. PICK p \in {"failed", "undoAddresses", "undoAccount"} :
            /\ SA!Goto(r, p)
            /\ p = "failed" <=> kind[r] = "manual"
            /\ p = "undoAccount" <=> kind[r] = "bank"
      BY <1>0, <1>4, <2>1, UndoAllIs
    <3> QED
      BY <1>1, <1>4, <2>1, <3>1, AccountFails
  <2>2. CASE kind[r] # "pair"
    <3>1. ~Gentle(r)
      BY <1>0, <1>1, <1>4, <2>2 DEF Leaves, SA!AtRest
    <3> QED
      BY <1>1, <1>4, <2>2, <3>1, AccountFails
  <2> QED
    BY <2>1, <2>2
<1>5. CASE SA!UndoAll(r)
           /\ (UNCHANGED rows \/ ("lostInsert" \in faults /\ rows' = rows \cup SA!Mine(r)))
  <2>1. PICK p \in {"failed", "undoAddresses", "undoAccount"} :
          /\ SA!Goto(r, p)
          /\ p = "failed" <=> kind[r] = "manual"
          /\ p = "undoAccount" <=> kind[r] = "bank"
    BY <1>0, <1>5, UndoAllIs
  <2>2. p = "undoAddresses" => kind[r] \in {"pair", "crypto"}
    BY <1>0, <2>1
  <2> QED
    BY <1>1, <1>5, <2>1, <2>2, AccountFails
<1> QED
  BY <1>3, <1>4, <1>5 DEF SA!Insert

\* The undoing of addresses and of the account.
LEMMA AccountUndoing ==
  ASSUME AccountInv, NEW r \in Contacts, SA!UndoAccount(r) \/ SA!UndoAddresses(r)
  PROVE  AccountInv'
<1>0. /\ AccountTypes /\ kind[r] \in {"bank", "pair", "crypto", "manual"}
      /\ Stage(r)
      /\ Gentle(r) => Leaves(r)
      /\ Gentle(r) => faults \cap {"lost", "rowFails", "undoFails", "crash"} = {}
      /\ "overlap" \notin faults /\ pc[r] \notin SA!AtRest =>
           \A q \in Contacts \ {r} : pc[q] \in SA!AtRest
  BY AccountAt
<1>1. /\ pc[r] \in {"undoAccount", "undoAddresses"}
      /\ UNCHANGED <<kind, address, rows, faults>>
  BY DEF SA!UndoAccount, SA!UndoAddresses, SA!bridgeVars
<1>2. SA!Mine(r)' = SA!Mine(r)
  BY <1>1 DEF SA!Mine
<1>3. SA!Rows(SA!Rails[kind[r]])' = SA!Rows(SA!Rails[kind[r]])
  BY <1>1 DEF SA!Rows
<1>4. ASSUME SA!UndoAccount(r) PROVE AccountInv'
  <2>1. PICK p \in {"undoAddresses", "failed"} :
          /\ SA!Goto(r, p)
          /\ p = "undoAddresses" <=> kind[r] = "bank" /\ SA!Mine(r) \cap addressRow # {}
    BY <1>4 DEF SA!UndoAccount
  <2>2. /\ pc[r] = "undoAccount" /\ accountRow' = accountRow \ {r} /\ UNCHANGED addressRow
        /\ account' = account \ {r} \/ ("undoFails" \in faults /\ UNCHANGED account)
    BY <1>4 DEF SA!UndoAccount
  <2>3. pc' \in [Contacts -> SA!Pcs] /\ pc'[r] = p /\ \A q \in Contacts \ {r} : pc'[q] = pc[q]
    BY <1>0, <2>1, AccountGoes DEF SA!Pcs
  <2>4. AccountTypes'
    BY <1>0, <1>1, <1>2, <2>2, <2>3 DEF AccountTypes, SA!Mine
  <2>5. Stage(r)'
    BY <1>0, <1>1, <1>2, <2>1, <2>2, <2>3, AccountKinds DEF Stage
  <2>6. ASSUME Gentle(r) PROVE Leaves(r)'
    <3>1. Leaves(r) /\ account' = account \ {r} /\ kind[r] \in SA!Banked
      BY <1>0, <2>2, <2>6 DEF Stage
    <3>2. p = "failed" => Bare(r)'
      BY <1>0, <1>2, <2>1, <2>2, <3>1, AccountKinds DEF Leaves, Bare
    <3> QED
      BY <1>0, <1>1, <1>2, <1>3, <2>1, <2>2, <2>3, <2>6, <3>1, <3>2 DEF Leaves, SA!AtRest, SA!Rows
  <2> QED
    BY <1>0, <1>1, <2>2, <2>3, <2>4, <2>5, <2>6, AccountMoves DEF SA!AtRest
<1>5. ASSUME SA!UndoAddresses(r) PROVE AccountInv'
  <2>1. PICK p \in {"undoAccount", "failed"} :
          SA!Goto(r, p) /\ (p = "undoAccount" <=> kind[r] = "pair")
    BY <1>5 DEF SA!UndoAddresses
  <2>2. /\ pc[r] = "undoAddresses" /\ UNCHANGED <<account, accountRow>>
        /\ addressRow' = addressRow \ SA!Mine(r) \/ ("undoFails" \in faults /\ UNCHANGED addressRow)
    BY <1>5 DEF SA!UndoAddresses, SA!bridgeVars
  <2>3. pc' \in [Contacts -> SA!Pcs] /\ pc'[r] = p /\ \A q \in Contacts \ {r} : pc'[q] = pc[q]
    BY <1>0, <2>1, AccountGoes DEF SA!Pcs
  <2>4. AccountTypes'
    BY <1>0, <1>1, <1>2, <2>2, <2>3 DEF AccountTypes, SA!Mine
  <2>5. Stage(r)'
    BY <1>0, <1>1, <1>2, <2>1, <2>2, <2>3, AccountKinds DEF Stage
  <2>6. ASSUME Gentle(r) PROVE Leaves(r)'
    <3>1. Leaves(r) /\ SA!Mine(r) \cap addressRow' = {}
      BY <1>0, <2>2, <2>6
    <3> QED
      BY <1>1, <1>2, <2>1, <2>2, <2>3, <2>6, <3>1, <1>3 DEF Leaves, Bare, SA!AtRest, SA!Rows
  <2>7. ASSUME NEW q \in Contacts \ {r}
        PROVE  SA!Mine(q) \cap addressRow' = SA!Mine(q) \cap addressRow
    <3>1. SA!Mine(q) \cap SA!Mine(r) = {}
      BY <1>0, MineIs
    <3> QED
      BY <2>2, <3>1
  <2> QED
    BY <1>0, <1>1, <2>2, <2>3, <2>4, <2>5, <2>6, <2>7, AccountMoves DEF SA!AtRest
<1> QED
  BY <1>4, <1>5

\* The process dies.
LEMMA AccountCrash == ASSUME AccountInv, SA!Crash PROVE AccountInv'
<1>0. AccountTypes
  BY DEF AccountInv
<1>1. /\ "crash" \in faults
      /\ pc' = [r \in Contacts |-> IF pc[r] \in SA!AtRest THEN pc[r] ELSE "failed"]
      /\ UNCHANGED <<kind, account, accountRow, address, addressRow, rows, faults>>
  BY DEF SA!Crash, SA!bridgeVars
<1>2. \A r \in Contacts : SA!Mine(r)' = SA!Mine(r)
  BY <1>1 DEF SA!Mine
<1>3. AccountTypes'
  BY <1>0, <1>1 DEF AccountTypes, SA!Pcs, SA!AtRest, SA!Mine
<1>4. ASSUME NEW r \in Contacts PROVE Stage(r)'
  <2>1. Stage(r) /\ pc'[r] \in SA!AtRest /\ pc'[r] \in {pc[r], "failed"}
        /\ (pc'[r] = "created" <=> pc[r] = "created")
    BY <1>1 DEF AccountInv, SA!AtRest
  <2> QED
    BY <1>1, <1>2, <2>1, AccountKinds DEF Stage, Backed, SA!AtRest
<1>5. \A r \in Contacts : ~Gentle(r)' /\ pc'[r] \in SA!AtRest
  BY <1>1 DEF Gentle, SA!AtRest
<1> QED
  BY <1>3, <1>4, <1>5 DEF AccountInv, Alone, SA!AtRest

\* Every step keeps it.
LEMMA AccountNext == AccountInv /\ SA!Next => AccountInv'
BY AccountChecks, AccountPosts, AccountAddresses, AccountInserts, AccountUndoing, AccountCrash
DEF SA!Next

\* The parts of RowsAreBacked follow.
LEMMA AccountHolds == AccountInv => SA!RowsAreBacked /\ SA!FailedLeavesNothing
<1> SUFFICES ASSUME AccountInv PROVE SA!RowsAreBacked /\ SA!FailedLeavesNothing
  OBVIOUS
<1>1. ASSUME "lostInsert" \notin faults, NEW e \in rows
      PROVE  /\ kind[e[1]] \in SA!Banked => e[1] \in account \cap accountRow
             /\ kind[e[1]] # "manual" => e \in address \cap addressRow
  <2>1. PICK r \in Contacts : r = e[1] /\ e \in SA!Mine(r) /\ Stage(r)
    BY DEF AccountInv, AccountTypes
  <2>2. Backed(r)
    BY <1>1, <2>1 DEF Stage
  <2> QED
    BY <2>1, <2>2 DEF Backed
<1>2. ASSUME NEW r \in Contacts, pc[r] = "failed", Gentle(r)
      PROVE  r \notin account \cup accountRow /\ SA!Mine(r) \cap (addressRow \cup rows) = {}
  <2>1. "lostInsert" \notin faults
    BY <1>2 DEF Gentle
  <2> QED
    BY <1>2, <2>1 DEF AccountInv, Stage, Leaves, Bare
<1> QED
  BY <1>1, <1>2 DEF SA!RowsAreBacked, SA!FailedLeavesNothing, Gentle

\* The invariant of the suppliers holds when the part is theirs.
LEMMA AccountInvariant == Spec => [](part = "accounts" => AccountInv)
<1>1. Init => (part = "accounts" => AccountInv)
  BY AccountInit DEF Init
<1>2. (part = "accounts" => AccountInv) /\ [Next]_vars => (part = "accounts" => AccountInv)'
  <2> SUFFICES ASSUME part = "accounts" => AccountInv, [Next]_vars, part' = "accounts" PROVE AccountInv'
    OBVIOUS
  <2>1. CASE UNCHANGED vars
    <3>1. AccountInv /\ UNCHANGED <<kind, pc, account, accountRow, address, addressRow, rows, faults>>
      BY <2>1 DEF vars, accountsOwn
    <3>2. \A r : SA!Mine(r)' = SA!Mine(r)
      BY <3>1 DEF SA!Mine
    <3>3. ASSUME NEW r \in Contacts PROVE SA!NextRail(r)' = SA!NextRail(r)
      <4>1. SA!Mine(r)' = SA!Mine(r)
        BY <3>2
      <4> QED
        BY <3>1, <4>1 DEF SA!NextRail
    <3>4. \A S : SA!Rows(S)' = SA!Rows(S)
      BY <3>1 DEF SA!Rows
    <3>5. AccountTypes'
      BY <3>1, <3>2 DEF AccountInv, AccountTypes
    <3>6. ASSUME NEW r \in Contacts PROVE Stage(r)'
      <4>1. Stage(r) /\ (Backed(r) => Backed(r)')
        BY <3>1, <3>2 DEF AccountInv, Backed
      <4> QED
        BY <3>1, <3>2, <3>3, <4>1 DEF Stage
    <3>7. ASSUME NEW r \in Contacts, Gentle(r)' PROVE Leaves(r)'
      <4>1. Leaves(r) /\ (Bare(r) => Bare(r)')
        BY <3>1, <3>2, <3>7 DEF AccountInv, Gentle, Bare
      <4> QED
        BY <3>1, <3>2, <3>4, <4>1 DEF Leaves
    <3>8. "overlap" \notin faults' => Alone'
      BY <3>1 DEF AccountInv, Alone
    <3> QED
      BY <3>5, <3>6, <3>7, <3>8 DEF AccountInv
  <2>2. CASE Next
    BY <2>2, AccountNext DEF Next
  <2> QED
    BY <2>1, <2>2
<1> QED
  BY <1>1, <1>2, PTL DEF Spec

\* Every row of a supplier's account or address has its counterpart at Bridge or by its
\* review, unless an answer of the INSERT is lost, and a request that failed leaves none
\* behind when its undoing can succeed (suppliers.service.ts).
THEOREM SupplierRowsAreBacked == Spec => []RowsAreBacked
<1>1. (part = "accounts" => AccountInv) => RowsAreBacked
  BY AccountHolds DEF RowsAreBacked
<1> QED
  BY <1>1, AccountInvariant, PTL

(***************************************************************************)
(* What Bridge wants. Whoever compares, marks or tells holds a list with   *)
(* something in it; while the staff know nothing, either nothing is wanted *)
(* or its event is in the queue or a handler is telling. When events come  *)
(* one at a time and in their order, the one being handled is the last, and*)
(* at rest they were told the last.                                        *)
(***************************************************************************)
\* The work of a webhook's handler: an event and what it blocks.
Handler == [pc : {"idle", "compare", "mark", "tell", "resolve"},
            event : BI!Lists \cup {Nil}, found : SUBSET Codes]
\* Types; the queue is a sequence of what Bridge sent.
IssueTypes ==
  /\ faults \in IssueWorlds
  /\ wanted \in BI!Lists /\ inbox \in Seq(BI!Lists)
  /\ shown \in {"pending_bridge", "kyc_issues", "started"}
  /\ told \in {Nil} \cup SUBSET Codes
  /\ task \in [Tasks -> Handler]
\* The places of a handler that tells the staff.
Telling == {"compare", "mark", "tell"}
\* What a list blocks: its issues, and what is missing and not internal.
Blocks(lists) == lists.issues \cup (lists.missing \ Internal)
\* A handler has an event, and one that tells has something to tell.
Works(t) ==
  /\ task[t].pc # "idle" => task[t].event \in BI!Lists
  /\ task[t].pc \in Telling => task[t].found = Blocks(task[t].event) /\ task[t].found # {}
\* While the staff were told nothing, somebody is about to tell them.
Announced ==
  shown = "kyc_issues" /\ told = Nil =>
    \/ \E t \in Tasks : task[t].pc \in Telling
    \/ \E k \in 1..Len(inbox) : Blocks(inbox[k]) # {}
\* Events come one at a time and in their order.
Calm == faults \cap {"overlap", "reorder"} = {}
\* What the staff know and the state that is shown agree with the last event.
Stands ==
  /\ Blocks(last) # {} => told = Blocks(last)
  /\ shown = "kyc_issues" => Blocks(last) # {}
\* When events come one at a time, the one in hand is the last; at rest what stands
\* agrees, or the last event comes again.
Steady ==
  /\ \A t, u \in Tasks : task[t].pc # "idle" /\ task[u].pc # "idle" => t = u
  /\ \A t \in Tasks : task[t].pc # "idle" =>
       /\ task[t].event = last /\ shown # "started"
       /\ task[t].pc = "resolve" => Blocks(last) = {}
  /\ shown = "started" => last = Nil
  /\ BI!AllIdle /\ last # Nil => Stands \/ (inbox # <<>> /\ inbox[1] = last)
\* The inductive invariant of what Bridge wants.
IssueInv == IssueTypes /\ (\A t \in Tasks : Works(t)) /\ Announced /\ (Calm => Steady)

\* What the constants are.
LEMMA IssueConstants ==
  /\ \A S \in SUBSET Codes : S # Nil
  /\ BI!Idle \in Handler /\ BI!Idle.pc = "idle"
BY InstancesAssumption DEF BI!CodesAssumption, BI!Idle, Handler

\* Blocking of the component, with the constants of the instance.
LEMMA BlockingIs == \A l \in BI!Lists : BI!Blocking(l) = Blocks(l) /\ Blocks(l) \in SUBSET Codes
BY DEF BI!Blocking, BI!IsInternal, Blocks, BI!Lists

\* Nothing wanted, nothing told.
LEMMA IssueInit == BI!Init => IssueInv
<1> SUFFICES ASSUME BI!Init PROVE IssueInv
  OBVIOUS
<1>1. IssueTypes
  BY IssueConstants DEF BI!Init, IssueTypes, BI!Lists
<1> QED
  BY <1>1, IssueConstants DEF BI!Init, IssueInv, Works, Announced, Steady, Telling

\* What a handler that goes on has, and the others.
LEMMA HandlerGoes ==
  ASSUME IssueTypes, NEW t \in Tasks,
         NEW at \in {"idle", "compare", "mark", "tell", "resolve"}, BI!Goto(t, at)
  PROVE  /\ task' \in [Tasks -> Handler] /\ task'[t].pc = at
         /\ task'[t].event = task[t].event /\ task'[t].found = task[t].found
         /\ \A u \in Tasks : u # t => task'[u] = task[u]
BY DEF BI!Goto, IssueTypes, Handler

\* What a handler that ends leaves, and the others.
LEMMA HandlerEnds ==
  ASSUME IssueTypes, NEW t \in Tasks, BI!Done(t)
  PROVE  /\ task' \in [Tasks -> Handler] /\ task'[t].pc = "idle"
         /\ \A u \in Tasks : u # t => task'[u] = task[u]
BY IssueConstants DEF BI!Done, IssueTypes

\* What a queue without its i-th event still has.
LEMMA CutAt ==
  ASSUME NEW S, NEW q \in Seq(S), NEW i \in Nat, 1 =< i, i =< Len(q)
  PROVE  /\ SubSeq(q, 1, i - 1) \in Seq(S) /\ Len(SubSeq(q, 1, i - 1)) = i - 1
         /\ \A k \in 1..(i - 1) : SubSeq(q, 1, i - 1)[k] = q[k]
         /\ SubSeq(q, i + 1, Len(q)) \in Seq(S) /\ Len(SubSeq(q, i + 1, Len(q))) = Len(q) - i
         /\ \A k \in 1..(Len(q) - i) : SubSeq(q, i + 1, Len(q))[k] = q[k + i]
<1>1. Len(q) \in Nat /\ \A k \in 1..Len(q) : q[k] \in S
  OBVIOUS
<1>2. \A k \in 1..(i - 1) : q[k] \in S
  BY <1>1
<1>3. \A k \in (i + 1)..Len(q) : q[k] \in S
  BY <1>1
<1>4. i - 1 \in Int /\ i + 1 \in Int /\ Len(q) \in Int /\ 1 \in Int
  BY <1>1
<1>5. /\ SubSeq(q, 1, i - 1) \in Seq(S)
      /\ Len(SubSeq(q, 1, i - 1)) = IF 1 =< i - 1 THEN i - 1 - 1 + 1 ELSE 0
      /\ \A k \in 1..(i - 1 - 1 + 1) : SubSeq(q, 1, i - 1)[k] = q[1 + k - 1]
  BY <1>2, <1>4, SubSeqProperties
<1>6. /\ SubSeq(q, i + 1, Len(q)) \in Seq(S)
      /\ Len(SubSeq(q, i + 1, Len(q))) = IF i + 1 =< Len(q) THEN Len(q) - (i + 1) + 1 ELSE 0
      /\ \A k \in 1..(Len(q) - (i + 1) + 1) : SubSeq(q, i + 1, Len(q))[k] = q[i + 1 + k - 1]
  BY <1>3, <1>4, SubSeqProperties
<1>7. i - 1 - 1 + 1 = i - 1 /\ Len(q) - (i + 1) + 1 = Len(q) - i
  BY <1>1
<1>9. /\ Len(SubSeq(q, 1, i - 1)) = i - 1
      /\ Len(SubSeq(q, i + 1, Len(q))) = Len(q) - i
  BY <1>1, <1>5, <1>6
<1>10. ASSUME NEW k \in 1..(i - 1) PROVE SubSeq(q, 1, i - 1)[k] = q[k]
  <2>1. k \in 1..(i - 1 - 1 + 1) /\ 1 + k - 1 = k
    BY <1>7
  <2> QED
    BY <1>5, <2>1, Zenon
<1>11. ASSUME NEW k \in 1..(Len(q) - i) PROVE SubSeq(q, i + 1, Len(q))[k] = q[k + i]
  <2>1. k \in 1..(Len(q) - (i + 1) + 1) /\ i + 1 + k - 1 = k + i
    BY <1>1, <1>7
  <2> QED
    BY <1>6, <2>1, Zenon
<1> QED
  BY <1>5, <1>6, <1>9, <1>10, <1>11

LEMMA TakenOut ==
  ASSUME inbox \in Seq(BI!Lists), NEW i \in Nat, 1 =< i, i =< Len(inbox)
  PROVE  /\ BI!Without(i) \in Seq(BI!Lists)
         /\ \A k \in 1..Len(inbox) : k # i =>
              \E j \in 1..Len(BI!Without(i)) : BI!Without(i)[j] = inbox[k]
<1> DEFINE a == SubSeq(inbox, 1, i - 1)
           b == SubSeq(inbox, i + 1, Len(inbox))
<1>1. /\ a \in Seq(BI!Lists) /\ Len(a) = i - 1 /\ Len(inbox) \in Nat
      /\ \A k \in 1..(i - 1) : a[k] = inbox[k]
      /\ b \in Seq(BI!Lists) /\ Len(b) = Len(inbox) - i
      /\ \A k \in 1..(Len(inbox) - i) : b[k] = inbox[k + i]
  BY CutAt
<1>2. BI!Without(i) = a \o b
  BY DEF BI!Without
<1> HIDE DEF a, b
<1>3. /\ a \o b \in Seq(BI!Lists) /\ Len(a \o b) = Len(a) + Len(b)
      /\ \A k \in 1..(Len(a) + Len(b)) :
           (a \o b)[k] = IF k =< Len(a) THEN a[k] ELSE b[k - Len(a)]
  BY <1>1, ConcatProperties
<1>4. ASSUME NEW k \in 1..Len(inbox), k # i
      PROVE  \E j \in 1..Len(a \o b) : (a \o b)[j] = inbox[k]
  <2>1. CASE k < i
    <3>1. k \in 1..(i - 1) /\ k \in 1..(Len(a) + Len(b)) /\ k =< Len(a)
      BY <1>1, <2>1
    <3>2. (a \o b)[k] = a[k]
      BY <1>3, <3>1
    <3> QED
      BY <1>1, <1>3, <3>1, <3>2
  <2>2. CASE k > i
    <3>1. PICK j \in 1..(Len(a) + Len(b)) : j = k - 1 /\ ~(j =< Len(a))
      BY <1>1, <2>2
    <3>2. j - Len(a) \in 1..(Len(inbox) - i) /\ (j - Len(a)) + i = k
      BY <1>1, <2>2, <3>1
    <3>3. (a \o b)[j] = b[j - Len(a)]
      BY <1>3, <3>1
    <3> QED
      BY <1>1, <1>3, <3>1, <3>2, <3>3
  <2> QED
    BY <1>1, <1>4, <2>1, <2>2
<1> QED
  BY <1>2, <1>3, <1>4

\* An event put in front.
LEMMA PutBack ==
  ASSUME inbox \in Seq(BI!Lists), NEW l \in BI!Lists
  PROVE  /\ <<l>> \o inbox \in Seq(BI!Lists) /\ (<<l>> \o inbox)[1] = l
         /\ <<l>> \o inbox # <<>> /\ 1 \in 1..Len(<<l>> \o inbox)
         /\ \A k \in 1..Len(inbox) :
              k + 1 \in 1..Len(<<l>> \o inbox) /\ (<<l>> \o inbox)[k + 1] = inbox[k]
OBVIOUS

\* An event put at the end.
LEMMA PutLast ==
  ASSUME inbox \in Seq(BI!Lists), NEW l \in BI!Lists
  PROVE  /\ Append(inbox, l) \in Seq(BI!Lists) /\ Append(inbox, l) # <<>>
         /\ Len(Append(inbox, l)) = Len(inbox) + 1
         /\ inbox # <<>> => Append(inbox, l)[1] = inbox[1]
         /\ \A k \in 1..Len(inbox) : Append(inbox, l)[k] = inbox[k]
<1>1. /\ Append(inbox, l) \in Seq(BI!Lists) /\ Len(Append(inbox, l)) = Len(inbox) + 1
      /\ \A k \in 1..Len(inbox) : Append(inbox, l)[k] = inbox[k]
  OBVIOUS
<1>2. Append(inbox, l) # <<>>
  BY AppendProperties
<1>3. inbox # <<>> => 1 \in 1..Len(inbox)
  OBVIOUS
<1> QED
  BY <1>1, <1>2, <1>3

\* A step of a handler that leaves the queue alone.
LEMMA IssueMoves ==
  ASSUME IssueInv, NEW t \in Tasks, task[t].pc # "idle",
         task' \in [Tasks -> Handler], \A u \in Tasks : u # t => task'[u] = task[u],
         Works(t)', UNCHANGED <<wanted, inbox, last, faults>>,
         shown' \in {"pending_bridge", "kyc_issues", "started"},
         told' \in {Nil} \cup SUBSET Codes, told # Nil => told' # Nil,
         shown' = "kyc_issues" =>
           shown = "kyc_issues" \/ task'[t].pc \in Telling,
         task[t].pc \in Telling => task'[t].pc \in Telling \/ told' # Nil,
         task'[t].pc # "idle" =>
           /\ task'[t].event = task[t].event /\ task'[t].pc # "resolve"
           /\ shown' = "started" => shown = "started",
         shown' = "started" => shown = "started",
         Calm /\ task'[t].pc = "idle" /\ last # Nil => Stands'
  PROVE  IssueInv'
<1>1. IssueTypes'
  BY DEF IssueInv, IssueTypes
<1>2. \A u \in Tasks : Works(u)'
  BY DEF IssueInv, Works
<1>3. Announced'
  BY DEF IssueInv, Announced
<1>4. ASSUME Calm PROVE Steady'
  <2>1. Steady /\ \A u \in Tasks : u # t => task'[u].pc = "idle"
    BY <1>4 DEF IssueInv, Steady
  <2> QED
    BY <1>4, <2>1 DEF Steady, BI!AllIdle, BI!At
<1> QED
  BY <1>1, <1>2, <1>3, <1>4 DEF IssueInv, Calm

\* The steps of a handler after it took its event.
LEMMA IssueSteps ==
  ASSUME IssueInv, NEW t \in Tasks
  PROVE  /\ BI!Compare(t) => IssueInv'
         /\ BI!Mark(t) => IssueInv'
         /\ BI!Tell(t) => IssueInv'
         /\ BI!Resolve(t) => IssueInv'
<1>0. /\ IssueTypes /\ Works(t) /\ task[t] \in Handler
      /\ \A u \in Tasks \ {t} : task[u].pc = "idle" \/ task[t].pc = "idle" \/ ~Calm
      /\ Calm /\ task[t].pc # "idle" => task[t].event = last
  BY DEF IssueInv, Steady, IssueTypes
<1>1. ASSUME BI!Compare(t) PROVE IssueInv'
  <2>1. task[t].pc = "compare" /\ UNCHANGED <<wanted, inbox, shown, told, last, faults>>
    BY <1>1 DEF BI!Compare, BI!At
  <2>2. CASE told # Nil /\ told = task[t].found /\ BI!Done(t)
    <3>1. /\ task' \in [Tasks -> Handler] /\ task'[t].pc = "idle"
          /\ \A u \in Tasks : u # t => task'[u] = task[u]
      BY <1>0, <2>2, HandlerEnds
    <3>2. Works(t)'
      BY <3>1 DEF Works, Telling
    <3>3. Calm => Stands'
      BY <1>0, <2>1, <2>2 DEF Stands, Works, Telling, Blocks
    <3> QED
      BY <1>0, <2>1, <2>2, <3>1, <3>2, <3>3, IssueMoves DEF IssueTypes
  <2>3. CASE BI!Goto(t, "mark")
    <3>1. /\ task' \in [Tasks -> Handler] /\ task'[t].pc = "mark"
          /\ task'[t].event = task[t].event /\ task'[t].found = task[t].found
          /\ \A u \in Tasks : u # t => task'[u] = task[u]
      BY <1>0, <2>3, HandlerGoes
    <3>2. Works(t)' /\ "mark" \in Telling
      BY <1>0, <2>1, <3>1 DEF Works, Telling
    <3> QED
      BY <1>0, <2>1, <3>1, <3>2, IssueMoves DEF IssueTypes
  <2> QED
    BY <1>1, <2>2, <2>3 DEF BI!Compare, BI!SameIssueSet
<1>2. ASSUME BI!Mark(t) PROVE IssueInv'
  <2>1. /\ task[t].pc = "mark" /\ shown' = "kyc_issues"
        /\ UNCHANGED <<wanted, inbox, told, last, faults>>
    BY <1>2 DEF BI!Mark, BI!At
  <2>2. /\ task' \in [Tasks -> Handler] /\ task'[t].pc = "tell"
        /\ task'[t].event = task[t].event /\ task'[t].found = task[t].found
        /\ \A u \in Tasks : u # t => task'[u] = task[u]
    BY <1>0, <1>2, HandlerGoes DEF BI!Mark
  <2>3. Works(t)' /\ "tell" \in Telling
    BY <1>0, <2>1, <2>2 DEF Works, Telling
  <2> QED
    BY <1>0, <2>1, <2>2, <2>3, IssueMoves DEF IssueTypes
<1>3. ASSUME BI!Tell(t) PROVE IssueInv'
  <2>1. /\ task[t].pc = "tell" /\ told' = task[t].found
        /\ UNCHANGED <<wanted, inbox, shown, last, faults>>
    BY <1>3 DEF BI!Tell, BI!At
  <2>2. /\ task' \in [Tasks -> Handler] /\ task'[t].pc = "idle"
        /\ \A u \in Tasks : u # t => task'[u] = task[u]
    BY <1>0, <1>3, HandlerEnds DEF BI!Tell
  <2>3. Works(t)' /\ told' \in SUBSET Codes /\ told' # Nil
    BY <1>0, <2>1, <2>2, IssueConstants DEF Works, Telling, Handler
  <2>4. Calm => Stands'
    BY <1>0, <2>1 DEF Stands, Works, Telling, Blocks
  <2> QED
    BY <1>0, <2>1, <2>2, <2>3, <2>4, IssueMoves DEF IssueTypes
<1>4. ASSUME BI!Resolve(t) PROVE IssueInv'
  <2>1. /\ task[t].pc = "resolve" /\ shown' = "pending_bridge"
        /\ UNCHANGED <<wanted, inbox, told, last, faults>>
    BY <1>4 DEF BI!Resolve, BI!At
  <2>2. /\ task' \in [Tasks -> Handler] /\ task'[t].pc = "idle"
        /\ \A u \in Tasks : u # t => task'[u] = task[u]
    BY <1>0, <1>4, HandlerEnds DEF BI!Resolve
  <2>3. Works(t)' /\ "resolve" \notin Telling
    BY <2>2 DEF Works, Telling
  <2>4. Calm => Blocks(last) = {}
    BY <2>1 DEF IssueInv, Steady
  <2>5. Calm => Stands'
    BY <2>1, <2>4 DEF Stands, Blocks
  <2> QED
    BY <1>0, <2>1, <2>2, <2>3, <2>5, IssueMoves DEF IssueTypes
<1> QED
  BY <1>1, <1>2, <1>3, <1>4

\* A handler takes an event. Each branch of the component is a case.
LEMMA IssueTakes == ASSUME IssueInv, NEW t \in Tasks, BI!Take(t) PROVE IssueInv'
<1>0. IssueTypes
  BY DEF IssueInv
<1>1. PICK i \in 1..Len(inbox) :
        /\ i = 1 \/ "reorder" \in faults
        /\ inbox' = BI!Without(i)
        /\ last' = IF shown \in BI!Waiting THEN inbox[i] ELSE last
        /\ task' = [task EXCEPT ![t] =
                      [event |-> inbox[i], found |-> BI!Blocking(inbox[i]),
                       pc |-> IF shown \notin BI!Waiting THEN "idle"
                             ELSE IF BI!Blocking(inbox[i]) # {} THEN "compare"
                             ELSE IF shown = "kyc_issues" THEN "resolve" ELSE "idle"]]
  BY DEF BI!Take
<1>2. /\ task[t].pc = "idle" /\ UNCHANGED <<wanted, shown, told, faults>>
      /\ Calm => \A u \in Tasks : task[u].pc = "idle"
  BY DEF BI!Take, BI!At, BI!AllIdle, Calm
<1>3. PICK l \in BI!Lists : l = inbox[i]
  BY <1>0 DEF IssueTypes
<1>4. BI!Blocking(l) = Blocks(l) /\ Blocks(l) \in SUBSET Codes
  BY BlockingIs
<1>5. PICK at \in {"idle", "compare", "resolve"} :
        /\ at = IF shown \notin BI!Waiting THEN "idle"
                ELSE IF Blocks(l) # {} THEN "compare"
                ELSE IF shown = "kyc_issues" THEN "resolve" ELSE "idle"
        /\ shown = "started" <=> shown \notin BI!Waiting
        /\ shown = "started" => at = "idle"
        /\ shown # "started" /\ Blocks(l) # {} => at = "compare"
        /\ shown = "kyc_issues" /\ Blocks(l) = {} => at = "resolve"
        /\ at = "compare" => Blocks(l) # {} /\ shown # "started"
        /\ at = "resolve" => Blocks(l) = {} /\ shown = "kyc_issues"
        /\ at = "idle" => shown = "started" \/ (shown = "pending_bridge" /\ Blocks(l) = {})
  <2> DEFINE w == IF shown \notin BI!Waiting THEN "idle"
                  ELSE IF Blocks(l) # {} THEN "compare"
                  ELSE IF shown = "kyc_issues" THEN "resolve" ELSE "idle"
  <2>1. w \in {"idle", "compare", "resolve"} /\ (shown \notin BI!Waiting <=> shown = "started")
    BY <1>0 DEF BI!Waiting, IssueTypes
  <2> QED
    BY <1>0, <2>1 DEF IssueTypes
<1>6. task' = [task EXCEPT ![t] = [event |-> l, found |-> Blocks(l), pc |-> at]]
  BY <1>1, <1>3, <1>4, <1>5
<1>7. /\ task' \in [Tasks -> Handler] /\ task'[t].pc = at
      /\ task'[t].event = l /\ task'[t].found = Blocks(l)
      /\ \A u \in Tasks : u # t => task'[u] = task[u]
  BY <1>0, <1>4, <1>6 DEF IssueTypes, Handler
<1>8. /\ inbox' \in Seq(BI!Lists)
      /\ \A k \in 1..Len(inbox) : k # i => \E j \in 1..Len(inbox') : inbox'[j] = inbox[k]
  BY <1>0, <1>1, TakenOut DEF IssueTypes
<1>9. last' = IF shown # "started" THEN l ELSE last
  BY <1>1, <1>3, <1>5
<1>10. IssueTypes'
  BY <1>0, <1>2, <1>7, <1>8 DEF IssueTypes
<1>11. \A u \in Tasks : Works(u)'
  BY <1>5, <1>7 DEF IssueInv, Works, Telling, Blocks
<1>12. Announced'
  <2>1. ASSUME shown = "kyc_issues", told = Nil, Blocks(l) = {}
        PROVE  \/ \E u \in Tasks : task'[u].pc \in Telling
               \/ \E j \in 1..Len(inbox') : Blocks(inbox'[j]) # {}
    <3>1. CASE \E u \in Tasks : task[u].pc \in Telling
      BY <1>2, <1>7, <3>1 DEF Telling
    <3>2. ASSUME NEW k \in 1..Len(inbox), Blocks(inbox[k]) # {}
          PROVE  \E j \in 1..Len(inbox') : Blocks(inbox'[j]) # {}
      <4>1. k # i
        BY <1>3, <2>1, <3>2
      <4>2. PICK j \in 1..Len(inbox') : inbox'[j] = inbox[k]
        BY <1>8, <4>1
      <4> QED
        BY <3>2, <4>2
    <3> QED
      BY <2>1, <3>1, <3>2 DEF IssueInv, Announced
  <2>2. Blocks(l) # {} /\ shown = "kyc_issues" => task'[t].pc \in Telling
    BY <1>5, <1>7 DEF Telling
  <2> QED
    BY <1>2, <2>1, <2>2 DEF Announced, Blocks
<1>13. ASSUME Calm PROVE Steady'
  <2>1. Steady /\ \A u \in Tasks : u # t => task'[u].pc = "idle"
    BY <1>2, <1>7, <1>13 DEF IssueInv
  <2>2. last' = IF shown = "started" THEN Nil ELSE l
    BY <1>9, <2>1 DEF Steady
  <2>3. at = "idle" /\ last' # Nil => Stands'
    BY <1>2, <1>5, <2>2 DEF Stands, Blocks
  <2>4. at # "idle" => last' = l /\ (at = "resolve" => Blocks(last') = {})
    BY <1>5, <1>9
  <2>5. shown' = "started" => last' = Nil
    BY <1>2, <1>9, <2>1 DEF Steady
  <2>6. /\ \A u \in Tasks : task'[u].pc # "idle" =>
             /\ task'[u].event = last' /\ shown' # "started"
             /\ task'[u].pc = "resolve" => Blocks(last') = {}
        /\ BI!AllIdle' /\ last' # Nil => Stands'
    BY <1>2, <1>5, <1>7, <2>1, <2>3, <2>4 DEF BI!AllIdle, BI!At
  <2> QED
    BY <2>1, <2>5, <2>6 DEF Steady, Blocks
<1> QED
  BY <1>2, <1>10, <1>11, <1>12, <1>13 DEF IssueInv, Calm

\* Bridge asks for something, an event is sent again, the process dies.
LEMMA IssueOutside ==
  ASSUME IssueInv,
         BI!BridgeLists \/ BI!RequestChanges \/ BI!SendAgain \/ \E t \in Tasks : BI!Crash(t)
  PROVE  IssueInv'
<1>0. IssueTypes
  BY DEF IssueInv
<1>1. CASE BI!BridgeLists
  <2>1. PICK l \in BI!Lists : inbox' = Append(inbox, l) /\ wanted' = l
    BY <1>1 DEF BI!BridgeLists
  <2>2. UNCHANGED <<shown, told, last, faults, task>>
    BY <1>1 DEF BI!BridgeLists
  <2>3. /\ inbox' \in Seq(BI!Lists) /\ inbox' # <<>> /\ Len(inbox') = Len(inbox) + 1
        /\ inbox # <<>> => inbox'[1] = inbox[1]
        /\ \A k \in 1..Len(inbox) : inbox'[k] = inbox[k]
    BY <1>0, <2>1, PutLast DEF IssueTypes
  <2>4. \A k \in 1..Len(inbox) : k \in 1..Len(inbox')
    BY <1>0, <2>3 DEF IssueTypes
  <2>5. IssueTypes' /\ \A u \in Tasks : Works(u)'
    BY <1>0, <2>1, <2>2, <2>3 DEF IssueTypes, IssueInv, Works
  <2>6. Announced'
    BY <2>2, <2>3, <2>4 DEF IssueInv, Announced, Blocks
  <2>7. Steady => Steady'
    BY <2>2, <2>3 DEF Steady, Stands, BI!AllIdle, BI!At
  <2> QED
    BY <2>2, <2>5, <2>6, <2>7 DEF IssueInv, Calm
<1>2. CASE BI!RequestChanges
  <2>1. /\ shown' = "started" /\ last' = Nil /\ UNCHANGED <<wanted, inbox, told, faults, task>>
        /\ Calm => \A u \in Tasks : task[u].pc = "idle"
    BY <1>2 DEF BI!RequestChanges, BI!AllIdle, BI!At, Calm
  <2>2. IssueTypes' /\ Announced' /\ \A u \in Tasks : Works(u)'
    BY <1>0, <2>1 DEF IssueTypes, IssueInv, Works, Announced
  <2> QED
    BY <2>1, <2>2 DEF IssueInv, Calm, Steady
<1>3. CASE BI!SendAgain
  <2>1. /\ shown = "started" /\ shown' = "pending_bridge"
        /\ UNCHANGED <<wanted, inbox, told, last, faults, task>>
        /\ Calm => \A u \in Tasks : task[u].pc = "idle"
    BY <1>3 DEF BI!SendAgain, BI!AllIdle, BI!At, Calm
  <2>2. IssueTypes' /\ Announced' /\ \A u \in Tasks : Works(u)'
    BY <1>0, <2>1 DEF IssueTypes, IssueInv, Works, Announced
  <2>3. Calm => last = Nil
    BY <2>1 DEF IssueInv, Steady
  <2> QED
    BY <2>1, <2>2, <2>3 DEF IssueInv, Calm, Steady
<1>4. ASSUME NEW t \in Tasks, BI!Crash(t) PROVE IssueInv'
  <2>1. /\ task[t].pc # "idle" /\ inbox' = <<task[t].event>> \o inbox
        /\ UNCHANGED <<wanted, shown, told, last, faults>>
    BY <1>4 DEF BI!Crash, BI!At
  <2>2. PICK l \in BI!Lists : l = task[t].event
    BY <2>1 DEF IssueInv, Works
  <2>3. /\ task' \in [Tasks -> Handler] /\ task'[t].pc = "idle"
        /\ \A u \in Tasks : u # t => task'[u] = task[u]
    BY <1>0, <1>4, HandlerEnds DEF BI!Crash
  <2>4. /\ inbox' \in Seq(BI!Lists) /\ inbox'[1] = l /\ inbox' # <<>> /\ 1 \in 1..Len(inbox')
        /\ \A k \in 1..Len(inbox) : k + 1 \in 1..Len(inbox') /\ inbox'[k + 1] = inbox[k]
    BY <1>0, <2>1, <2>2, PutBack DEF IssueTypes
  <2>5. IssueTypes' /\ \A u \in Tasks : Works(u)'
    BY <1>0, <2>1, <2>3, <2>4 DEF IssueTypes, IssueInv, Works, Telling
  <2>6. Announced'
    <3>1. ASSUME NEW u \in Tasks, task[u].pc \in Telling
          PROVE  task'[u].pc \in Telling \/ Blocks(inbox'[1]) # {}
      BY <2>2, <2>3, <2>4, <3>1 DEF IssueInv, Works
    <3>2. ASSUME NEW k \in 1..Len(inbox), Blocks(inbox[k]) # {}
          PROVE  \E j \in 1..Len(inbox') : Blocks(inbox'[j]) # {}
      BY <2>4, <3>2
    <3> QED
      BY <2>1, <2>4, <3>1, <3>2 DEF IssueInv, Announced, Blocks
  <2>7. ASSUME Calm PROVE Steady'
    <3>1. Steady /\ l = last /\ shown # "started"
      BY <2>1, <2>2, <2>7 DEF IssueInv, Steady
    <3>2. \A u \in Tasks : task'[u].pc = "idle"
      BY <2>1, <2>3, <3>1 DEF Steady
    <3> QED
      BY <2>1, <2>4, <3>1, <3>2 DEF Steady
  <2> QED
    BY <2>1, <2>5, <2>6, <2>7 DEF IssueInv, Calm
<1> QED
  BY <1>1, <1>2, <1>3, <1>4

\* Every step keeps it.
LEMMA IssueNext == IssueInv /\ BI!Next => IssueInv'
BY IssueSteps, IssueTakes, IssueOutside DEF BI!Next

\* IssuesAreTold of the component follows.
LEMMA IssueHolds == IssueInv => BI!IssuesAreTold
<1> SUFFICES ASSUME IssueInv, BI!AllIdle, inbox = <<>>
             PROVE  /\ shown = "kyc_issues" => told # Nil
                    /\ Calm /\ last # Nil => Stands
  BY DEF BI!IssuesAreTold, Calm, Stands, Blocks
<1>1. shown = "kyc_issues" => told # Nil
  BY DEF IssueInv, Announced, BI!AllIdle, BI!At, Telling
<1>2. Calm /\ last # Nil => Stands
  BY DEF IssueInv, Steady
<1> QED
  BY <1>1, <1>2

\* The invariant holds when the part is what Bridge wants.
LEMMA IssueInvariant == Spec => [](part = "issues" => IssueInv)
<1>1. Init => (part = "issues" => IssueInv)
  BY IssueInit DEF Init
<1>2. (part = "issues" => IssueInv) /\ [Next]_vars => (part = "issues" => IssueInv)'
  <2> SUFFICES ASSUME part = "issues" => IssueInv, [Next]_vars, part' = "issues" PROVE IssueInv'
    OBVIOUS
  <2>1. CASE UNCHANGED vars
    BY <2>1 DEF vars, issuesOwn, IssueInv, IssueTypes, Works, Announced, Steady, Stands, Calm,
      Blocks, BI!AllIdle, BI!At
  <2>2. CASE Next
    BY <2>2, IssueNext DEF Next
  <2> QED
    BY <2>1, <2>2
<1> QED
  BY <1>1, <1>2, PTL DEF Spec

\* The staff were told what Bridge said last, once nobody works and no event waits
\* (applyBridgeBlockingIssues).
THEOREM BridgeIssuesAreTold == Spec => []IssuesAreTold
<1>1. (part = "issues" => IssueInv) => IssuesAreTold
  BY IssueHolds DEF IssuesAreTold
<1> QED
  BY <1>1, IssueInvariant, PTL

(***************************************************************************)
(* Uploading with the telephone. A session is listed once, by the one      *)
(* request that made it; one that a request ends, or that was ended, has a *)
(* list and every document of it. When requests do not overlap, what a     *)
(* request has inserted stays until another of its kind, and one session at*)
(* most can be used.                                                       *)
(***************************************************************************)
\* A set with at most one element.
LEMMA AtMostOne ==
  ASSUME NEW S, \A x, y \in S : x = y
  PROVE  IsFiniteSet(S) /\ Cardinality(S) <= 1
<1>1. CASE S = {}
  BY <1>1, FS_EmptySet
<1>2. CASE S # {}
  <2>1. PICK x : x \in S
    BY <1>2
  <2>2. S = {x}
    BY <2>1
  <2>3. IsFiniteSet(S) /\ Cardinality(S) = 1
    BY <2>2, FS_Singleton
  <2> QED
    BY <2>3
<1> QED
  BY <1>1, <1>2

\* The work of a request: its session, the kind and the row of its document, and those
\* before it.
Upload == [pc : {"idle", "session", "targets", "undo", "insert", "previous", "retire", "mark",
                 "complete"},
           s : Links \cup {Nil}, k : Photos \cup {Nil}, d : PhotoRows \cup {Nil},
           seen : SUBSET PhotoRows]
\* Types.
UploadTypes ==
  /\ faults \in PhotoWorlds
  /\ session \in [Links -> {"absent", "new", "open", "completed", "deleted"}]
  /\ expired \subseteq Links /\ finished \subseteq Links
  /\ listed \in [Links -> SUBSET Photos] /\ marked \in [Links -> SUBSET Photos]
  /\ docs \in [PhotoRows -> Photos \cup {Nil}] /\ kept \subseteq Photos
  /\ task \in [Tasks -> Upload]
\* The places of a request that lists what its session is for.
Listing == {"targets", "undo"}
\* The places of a request that has a document.
Placing == {"insert", "previous", "retire", "mark"}
\* A session that may be ended.
Finishable(s) == listed[s] # {} /\ listed[s] \subseteq marked[s]
\* What a request has where it stands.
Errands(t) ==
  /\ task[t].pc \in Listing =>
       /\ task[t].s \in Links /\ listed[task[t].s] = {}
       /\ session[task[t].s] \in {"new", "completed"}
  /\ task[t].pc = "complete" => task[t].s \in Links /\ Finishable(task[t].s)
  /\ task[t].pc \in Placing => task[t].k \in Photos
  /\ task[t].pc = "mark" => task[t].s \in Links
\* A session is open with its list, and is ended with every document of it.
Listed ==
  \A s \in Links :
    /\ session[s] = "absent" => listed[s] = {}
    /\ session[s] = "open" => listed[s] # {}
    /\ s \in finished => Finishable(s)
\* A session is listed by one request.
OwnLists ==
  \A t, u \in Tasks :
    task[t].pc \in Listing /\ task[u].pc \in Listing /\ task[t].s = task[u].s => t = u
\* A session that the telephone may come to use.
Usable(s) == session[s] \in {"new", "open"} /\ s \notin expired
\* When requests do not overlap: the document of a request is there, what it replaces is
\* of its kind, and who makes a session found the others ended.
There(t) ==
  /\ task[t].pc \in {"previous", "retire"} =>
       /\ task[t].d \in PhotoRows /\ docs[task[t].d] = task[t].k
       /\ task[t].d \notin task[t].seen
  /\ task[t].pc = "retire" => \A d \in task[t].seen : docs[d] = task[t].k
  /\ task[t].pc = "session" => \A s \in Links : ~Usable(s)
\* What holds when requests do not overlap.
OneByOne ==
  /\ \A t, u \in Tasks : task[t].pc # "idle" /\ task[u].pc # "idle" => t = u
  /\ \A t \in Tasks : There(t)
  /\ \A k \in kept : \E d \in PhotoRows : docs[d] = k
  /\ \A r, s \in Links : Usable(r) /\ Usable(s) => r = s
\* The inductive invariant of uploading.
UploadInv ==
  /\ UploadTypes /\ Listed /\ OwnLists /\ \A t \in Tasks : Errands(t)
  /\ "overlap" \notin faults => OneByOne

\* What the constants are.
LEMMA UploadConstants ==
  /\ Links \subseteq Nat /\ Nil \notin Photos /\ Nil \notin Links
  /\ UD!Idle \in Upload /\ UD!Idle.pc = "idle" /\ UD!Idle.seen = {} /\ UD!Idle.s = Nil
BY InstancesAssumption DEF UD!SessionsAssumption, UD!Idle, Upload

\* No session and no document.
LEMMA UploadInit == UD!Init => UploadInv
<1> SUFFICES ASSUME UD!Init PROVE UploadInv
  OBVIOUS
<1>1. UploadTypes
  BY UploadConstants DEF UD!Init, UploadTypes
<1> QED
  BY <1>1, UploadConstants
  DEF UD!Init, UploadInv, Listed, OwnLists, Errands, OneByOne, There, Usable, Listing, Placing

\* What a task becomes.
LEMMA UploadBecomes ==
  ASSUME UploadTypes, NEW t \in Tasks, NEW w \in Upload, task' = [task EXCEPT ![t] = w]
  PROVE  /\ task' \in [Tasks -> Upload] /\ task'[t] = w
         /\ \A u \in Tasks : u # t => task'[u] = task[u]
BY DEF UploadTypes

\* A step of the task t, with w its work after it.
LEMMA UploadMoves ==
  ASSUME UploadInv, NEW t \in Tasks, NEW w \in Upload, task' = [task EXCEPT ![t] = w],
         UNCHANGED faults, UploadTypes',
         Listed', Errands(t)',
         \A u \in Tasks \ {t} : Errands(u)',
         w.pc \in Listing => \A u \in Tasks \ {t} : task[u].pc \in Listing => task[u].s # w.s,
         "overlap" \notin faults =>
           /\ task[t].pc # "idle" \/ \A u \in Tasks : task[u].pc = "idle"
           /\ There(t)'
           /\ \A k \in kept' : \E d \in PhotoRows : docs'[d] = k
           /\ \A r, s \in Links : Usable(r)' /\ Usable(s)' => r = s
  PROVE  UploadInv'
<1>1. task'[t] = w /\ \A u \in Tasks : u # t => task'[u] = task[u]
  BY UploadBecomes DEF UploadInv
<1>2. OwnLists'
  BY <1>1 DEF UploadInv, OwnLists
<1>3. ASSUME "overlap" \notin faults PROVE OneByOne'
  <2>1. \A u \in Tasks : u # t => task[u].pc = "idle" /\ task'[u].pc = "idle"
    BY <1>1, <1>3 DEF UploadInv, OneByOne
  <2>2. \A u \in Tasks : There(u)'
    <3>1. ASSUME NEW u \in Tasks, u # t PROVE There(u)'
      BY <2>1, <3>1 DEF There
    <3> QED
      BY <1>3, <3>1
  <2> QED
    BY <1>3, <2>1, <2>2 DEF OneByOne
<1> QED
  BY <1>2, <1>3 DEF UploadInv

\* A step that leaves the sessions alone.
LEMMA UploadPlaces ==
  ASSUME UploadInv, NEW t \in Tasks, NEW w \in Upload, task' = [task EXCEPT ![t] = w],
         UNCHANGED <<session, expired, listed, marked, finished, faults>>,
         docs' \in [PhotoRows -> Photos \cup {Nil}], kept' \subseteq Photos,
         w.pc \notin Listing \cup {"session"},
         w.pc = "complete" => w.s \in Links /\ Finishable(w.s),
         w.pc \in Placing => w.k \in Photos,
         w.pc = "mark" => w.s \in Links,
         "overlap" \notin faults =>
           /\ task[t].pc # "idle" \/ \A u \in Tasks : task[u].pc = "idle"
           /\ There(t)'
           /\ \A k \in kept' : \E d \in PhotoRows : docs'[d] = k
  PROVE  UploadInv'
<1>1. task' \in [Tasks -> Upload] /\ task'[t] = w /\ \A u \in Tasks : u # t => task'[u] = task[u]
  BY UploadBecomes DEF UploadInv
<1>2. UploadTypes'
  BY <1>1 DEF UploadInv, UploadTypes
<1>3. Listed'
  BY DEF UploadInv, Listed, Finishable
<1>4. Errands(t)'
  BY <1>1 DEF Errands, Finishable
<1>5. ASSUME NEW u \in Tasks \ {t} PROVE Errands(u)'
  BY <1>1 DEF UploadInv, Errands, Finishable
<1>6. "overlap" \notin faults => \A r, s \in Links : Usable(r)' /\ Usable(s)' => r = s
  BY DEF UploadInv, OneByOne, Usable
<1> QED
  BY <1>2, <1>3, <1>4, <1>5, <1>6, UploadMoves

\* A step that writes sessions and no document.
LEMMA UploadWrites ==
  ASSUME UploadInv, NEW t \in Tasks, NEW w \in Upload, task' = [task EXCEPT ![t] = w],
         UNCHANGED <<docs, kept, faults, expired>>,
         session' \in [Links -> {"absent", "new", "open", "completed", "deleted"}],
         listed' \in [Links -> SUBSET Photos], marked' \in [Links -> SUBSET Photos],
         finished' \subseteq Links,
         Listed', Errands(t)',
         \A u \in Tasks \ {t} : Errands(u)',
         w.pc \in Listing => \A u \in Tasks \ {t} : task[u].pc \in Listing => task[u].s # w.s,
         w.pc \notin {"previous", "retire"},
         "overlap" \notin faults =>
           /\ task[t].pc # "idle" \/ \A u \in Tasks : task[u].pc = "idle"
           /\ w.pc = "session" => \A s \in Links : ~Usable(s)'
           /\ \A r, s \in Links : Usable(r)' /\ Usable(s)' => r = s
  PROVE  UploadInv'
<1>1. task' \in [Tasks -> Upload] /\ task'[t] = w
  BY UploadBecomes DEF UploadInv
<1>2. UploadTypes'
  BY <1>1 DEF UploadInv, UploadTypes
<1>3. "overlap" \notin faults => There(t)'
  BY <1>1 DEF There
<1>4. "overlap" \notin faults => \A k \in kept' : \E d \in PhotoRows : docs'[d] = k
  BY DEF UploadInv, OneByOne
<1> QED
  BY <1>2, <1>3, <1>4, UploadMoves

\* A task that begins finds the others idle, unless they overlap.
LEMMA UploadStarts ==
  ASSUME UploadInv, NEW t \in Tasks, task[t].pc # "idle" \/ UD!Starts(t)
  PROVE  "overlap" \notin faults =>
           /\ task[t].pc # "idle" \/ \A u \in Tasks : task[u].pc = "idle"
           /\ There(t)
           /\ \A k \in kept : \E d \in PhotoRows : docs[d] = k
           /\ \A r, s \in Links : Usable(r) /\ Usable(s) => r = s
BY DEF UD!Starts, UD!AllIdle, UD!At, UploadInv, OneByOne

\* The session, asked for at the desktop and ended by the telephone.
LEMMA UploadLinks ==
  ASSUME UploadInv, NEW t \in Tasks
  PROVE  /\ UD!CreateMobileToken(t) => UploadInv'
         /\ UD!InsertSession(t) => UploadInv'
         /\ UD!InsertTargets(t) => UploadInv'
         /\ UD!UndoSession(t) => UploadInv'
         /\ UD!Complete(t) => UploadInv'
<1>0. /\ UploadTypes /\ Listed /\ OwnLists /\ \A u \in Tasks : Errands(u)
      /\ task[t] \in Upload
  BY DEF UploadInv, UploadTypes
<1>1. ASSUME UD!CreateMobileToken(t) PROVE UploadInv'
  <2>1. PICK w \in Upload : /\ task' = [task EXCEPT ![t] = w] /\ w.pc \in {"idle", "session"}
    <3>1. CASE UD!Goto(t, "session")
      <4>1. task' = [task EXCEPT ![t] = [task[t] EXCEPT !.pc = "session"]]
        BY <3>1 DEF UD!Goto
      <4>2. [task[t] EXCEPT !.pc = "session"] \in Upload /\ [task[t] EXCEPT !.pc = "session"].pc = "session"
        BY <1>0 DEF Upload
      <4> QED
        BY <4>1, <4>2
    <3>2. CASE UNCHANGED task
      <4>1. task' = [task EXCEPT ![t] = task[t]] /\ task[t].pc = "idle"
        BY <1>0, <1>1, <3>2 DEF UD!CreateMobileToken, UD!Starts, UD!At, UploadTypes
      <4> QED
        BY <1>0, <4>1
    <3> QED
      BY <1>1, <3>1, <3>2 DEF UD!CreateMobileToken
  <2>2. /\ UNCHANGED <<expired, listed, marked, finished, docs, kept, faults>>
        /\ session' = [s \in Links |-> IF session[s] \in {"new", "open"} /\ s \notin expired
                                        THEN "completed" ELSE session[s]]
    BY <1>1 DEF UD!CreateMobileToken, UD!docVars
  <2>3. session' \in [Links -> {"absent", "new", "open", "completed", "deleted"}]
    BY <1>0, <2>2 DEF UploadTypes
  <2>4. task'[t] = w /\ \A u \in Tasks : u # t => task'[u] = task[u]
    BY <1>0, <2>1, UploadBecomes
  <2>5. Listed'
    BY <1>0, <2>2 DEF Listed, Finishable
  <2>6. Errands(t)'
    BY <2>1, <2>4 DEF Errands, Listing, Placing
  <2>7. ASSUME NEW u \in Tasks \ {t} PROVE Errands(u)'
    BY <1>0, <2>2, <2>4 DEF Errands, Finishable
  <2>8. \A s \in Links : ~Usable(s)'
    BY <2>2 DEF Usable
  <2>9. /\ listed' \in [Links -> SUBSET Photos] /\ marked' \in [Links -> SUBSET Photos]
        /\ finished' \subseteq Links
    BY <1>0, <2>2 DEF UploadTypes
  <2>10. "overlap" \notin faults => task[t].pc # "idle" \/ \A u \in Tasks : task[u].pc = "idle"
    BY <1>1, UploadStarts DEF UD!CreateMobileToken
  <2> QED
    BY <2>1, <2>2, <2>3, <2>5, <2>6, <2>7, <2>8, <2>9, <2>10, UploadWrites DEF Listing
<1>2. ASSUME UD!InsertSession(t) PROVE UploadInv'
  <2>1. task[t].pc = "session" /\ UNCHANGED <<expired, listed, marked, finished, docs, kept, faults>>
    BY <1>2 DEF UD!InsertSession, UD!At, UD!docVars
  <2>2. /\ listed' \in [Links -> SUBSET Photos] /\ marked' \in [Links -> SUBSET Photos]
        /\ finished' \subseteq Links
    BY <1>0, <2>1 DEF UploadTypes
  <2>3. CASE UD!Done(t) /\ UNCHANGED session
    <3>1. task' = [task EXCEPT ![t] = UD!Idle] /\ UD!Idle \in Upload /\ UD!Idle.pc = "idle"
      BY <2>3, UploadConstants DEF UD!Done
    <3>2. task'[t] = UD!Idle /\ \A u \in Tasks : u # t => task'[u] = task[u]
      BY <1>0, <3>1, UploadBecomes
    <3>3. Listed'
      BY <1>0, <2>1, <2>3 DEF Listed, Finishable
    <3>4. Errands(t)'
      BY <3>1, <3>2 DEF Errands, Listing, Placing
    <3>5. ASSUME NEW u \in Tasks \ {t} PROVE Errands(u)'
      BY <1>0, <2>1, <2>3, <3>2 DEF Errands, Finishable
    <3>6. "overlap" \notin faults => \A r, s \in Links : Usable(r)' /\ Usable(s)' => r = s
      BY <2>1, <2>3, UploadStarts DEF Usable
    <3>7. session' \in [Links -> {"absent", "new", "open", "completed", "deleted"}]
      BY <1>0, <2>3 DEF UploadTypes
    <3> QED
      BY <2>1, <2>2, <3>1, <3>3, <3>4, <3>5, <3>6, <3>7, UploadWrites DEF Listing
  <2>4. CASE \E s \in Links :
               /\ \A r \in Links : session[r] = "absent" <=> r >= s
               /\ session' = [session EXCEPT ![s] = "new"]
               /\ task' = [task EXCEPT ![t].pc = "targets", ![t].s = s]
    <3>1. PICK s \in Links : /\ session[s] = "absent"
                             /\ session' = [session EXCEPT ![s] = "new"]
                             /\ task' = [task EXCEPT ![t].pc = "targets", ![t].s = s]
      <4>1. PICK s \in Links : /\ \A r \in Links : session[r] = "absent" <=> r >= s
                               /\ session' = [session EXCEPT ![s] = "new"]
                               /\ task' = [task EXCEPT ![t].pc = "targets", ![t].s = s]
        BY <2>4
      <4>2. s >= s
        BY UploadConstants
      <4> QED
        BY <4>1, <4>2
    <3>2. PICK w \in Upload : task' = [task EXCEPT ![t] = w] /\ w.pc = "targets" /\ w.s = s
      <4>1. task' = [task EXCEPT ![t] = [task[t] EXCEPT !.pc = "targets", !.s = s]]
        BY <3>1
      <4>2. /\ [task[t] EXCEPT !.pc = "targets", !.s = s] \in Upload
            /\ [task[t] EXCEPT !.pc = "targets", !.s = s].pc = "targets"
            /\ [task[t] EXCEPT !.pc = "targets", !.s = s].s = s
        BY <1>0 DEF Upload
      <4> QED
        BY <4>1, <4>2
    <3>3. task'[t] = w /\ \A u \in Tasks : u # t => task'[u] = task[u]
      BY <1>0, <3>2, UploadBecomes
    <3>4. /\ session' \in [Links -> {"absent", "new", "open", "completed", "deleted"}]
          /\ \A q \in Links : session'[q] = IF q = s THEN "new" ELSE session[q]
      BY <1>0, <3>1 DEF UploadTypes
    <3>5. Listed'
      BY <1>0, <2>1, <3>4 DEF Listed, Finishable
    <3>6. Errands(t)'
      BY <1>0, <2>1, <3>1, <3>2, <3>3, <3>4 DEF Errands, Listed, Listing, Placing
    <3>7. ASSUME NEW u \in Tasks \ {t} PROVE Errands(u)' /\ (task[u].pc \in Listing => task[u].s # s)
      <4>1. task[u].pc \in Listing => task[u].s # s
        BY <1>0, <3>1 DEF Errands
      <4> QED
        BY <1>0, <2>1, <3>3, <3>4, <4>1 DEF Errands, Finishable
    <3>8. "overlap" \notin faults => \A q, r \in Links : Usable(q)' /\ Usable(r)' => q = r
      BY <2>1, <3>4, UploadStarts DEF Usable, There
    <3> QED
      BY <2>1, <2>2, <3>2, <3>4, <3>5, <3>6, <3>7, <3>8, UploadWrites
  <2> QED
    BY <1>2, <2>3, <2>4 DEF UD!InsertSession
<1>3. ASSUME UD!InsertTargets(t) PROVE UploadInv'
  <2>1. task[t].pc = "targets" /\ UNCHANGED <<expired, marked, finished, docs, kept, faults>>
    BY <1>3 DEF UD!InsertTargets, UD!At, UD!docVars
  <2>2. PICK s \in Links : s = task[t].s /\ listed[s] = {} /\ session[s] \in {"new", "completed"}
    BY <1>0, <2>1 DEF Errands, Listing
  <2>3. marked' \in [Links -> SUBSET Photos] /\ finished' \subseteq Links
    BY <1>0, <2>1 DEF UploadTypes
  <2>4. ASSUME NEW u \in Tasks \ {t} PROVE task[u].pc \in Listing => task[u].s # s
    BY <1>0, <2>1, <2>2 DEF OwnLists, Listing
  <2>5. CASE UD!Goto(t, "undo") /\ UNCHANGED <<session, listed>>
    <3>1. PICK w \in Upload : task' = [task EXCEPT ![t] = w] /\ w.pc = "undo" /\ w.s = s
      <4>1. task' = [task EXCEPT ![t] = [task[t] EXCEPT !.pc = "undo"]]
        BY <2>5 DEF UD!Goto
      <4>2. /\ [task[t] EXCEPT !.pc = "undo"] \in Upload
            /\ [task[t] EXCEPT !.pc = "undo"].pc = "undo"
            /\ [task[t] EXCEPT !.pc = "undo"].s = task[t].s
        BY <1>0 DEF Upload
      <4> QED
        BY <2>2, <4>1, <4>2
    <3>2. task'[t] = w /\ \A u \in Tasks : u # t => task'[u] = task[u]
      BY <1>0, <3>1, UploadBecomes
    <3>3. Listed'
      BY <1>0, <2>1, <2>5 DEF Listed, Finishable
    <3>4. Errands(t)'
      BY <2>2, <2>5, <3>1, <3>2 DEF Errands, Listing, Placing
    <3>5. ASSUME NEW u \in Tasks \ {t} PROVE Errands(u)'
      BY <1>0, <2>1, <2>5, <3>2 DEF Errands, Finishable
    <3>6. "overlap" \notin faults => \A q, r \in Links : Usable(q)' /\ Usable(r)' => q = r
      BY <2>1, <2>5, UploadStarts DEF Usable
    <3>7. /\ session' \in [Links -> {"absent", "new", "open", "completed", "deleted"}]
          /\ listed' \in [Links -> SUBSET Photos]
      BY <1>0, <2>5 DEF UploadTypes
    <3> QED
      BY <2>1, <2>3, <2>4, <3>1, <3>3, <3>4, <3>5, <3>6, <3>7, UploadWrites
  <2>6. CASE /\ \E list \in (SUBSET Photos) \ {{}} : listed' = [listed EXCEPT ![s] = list]
             /\ session' = [session EXCEPT ![s] = IF @ = "new" THEN "open" ELSE @]
             /\ UD!Done(t)
    <3>1. PICK list \in (SUBSET Photos) \ {{}} : listed' = [listed EXCEPT ![s] = list]
      BY <2>6
    <3>2. /\ listed' \in [Links -> SUBSET Photos]
          /\ \A q \in Links : listed'[q] = IF q = s THEN list ELSE listed[q]
          /\ session' \in [Links -> {"absent", "new", "open", "completed", "deleted"}]
          /\ \A q \in Links : session'[q] = IF q = s /\ session[s] = "new" THEN "open" ELSE session[q]
      BY <1>0, <2>2, <2>6, <3>1 DEF UploadTypes
    <3>3. task' = [task EXCEPT ![t] = UD!Idle] /\ UD!Idle \in Upload /\ UD!Idle.pc = "idle"
      BY <2>6, UploadConstants DEF UD!Done
    <3>4. task'[t] = UD!Idle /\ \A u \in Tasks : u # t => task'[u] = task[u]
      BY <1>0, <3>3, UploadBecomes
    <3>5. s \notin finished
      BY <1>0, <2>2 DEF Listed, Finishable
    <3>6. Listed'
      <4>1. ASSUME NEW q \in Links, q # s
            PROVE  /\ session'[q] = session[q] /\ listed'[q] = listed[q] /\ marked'[q] = marked[q]
                   /\ q \in finished' <=> q \in finished
        BY <2>1, <3>2, <4>1
      <4>2. /\ session'[s] # "absent" /\ listed'[s] # {} /\ s \notin finished'
        BY <2>1, <2>2, <3>1, <3>2, <3>5
      <4> QED
        BY <1>0, <4>1, <4>2 DEF Listed, Finishable
    <3>7. Errands(t)'
      BY <3>3, <3>4 DEF Errands, Listing, Placing
    <3>8. ASSUME NEW u \in Tasks \ {t} PROVE Errands(u)'
      <4>1. task[u].pc = "complete" => task[u].s # s
        BY <1>0, <2>2 DEF Errands, Finishable
      <4> QED
        BY <1>0, <2>1, <2>4, <3>2, <3>4, <4>1 DEF Errands, Finishable
    <3>9. "overlap" \notin faults => \A q, r \in Links : Usable(q)' /\ Usable(r)' => q = r
      BY <2>1, <2>2, <3>2, UploadStarts DEF Usable
    <3> QED
      BY <2>1, <2>3, <3>2, <3>3, <3>6, <3>7, <3>8, <3>9, UploadWrites DEF Listing
  <2> QED
    BY <1>3, <2>2, <2>5, <2>6 DEF UD!InsertTargets
<1>4. ASSUME UD!UndoSession(t) \/ UD!Complete(t) PROVE UploadInv'
  <2>1. /\ task[t].pc \in {"undo", "complete"}
        /\ UNCHANGED <<expired, listed, marked, docs, kept, faults>>
        /\ task' = [task EXCEPT ![t] = UD!Idle] /\ UD!Idle \in Upload /\ UD!Idle.pc = "idle"
    BY <1>4, UploadConstants DEF UD!UndoSession, UD!Complete, UD!At, UD!Done, UD!docVars
  <2>2. PICK s \in Links : /\ s = task[t].s
                           /\ task[t].pc = "undo" => listed[s] = {}
                           /\ task[t].pc = "complete" => Finishable(s)
    BY <1>0, <2>1 DEF Errands, Listing
  <2>3. PICK p \in {"completed", "deleted"} :
          /\ p = "deleted" => task[t].pc = "undo"
          /\ session' = [session EXCEPT ![s] = p] \/ UNCHANGED session
          /\ finished' = finished \/ (task[t].pc = "complete" /\ finished' = finished \cup {s})
    BY <1>4, <2>1, <2>2 DEF UD!UndoSession, UD!Complete, UD!At
  <2>4. /\ session' \in [Links -> {"absent", "new", "open", "completed", "deleted"}]
        /\ \A q \in Links : session'[q] = session[q] \/ (q = s /\ session'[q] = p)
    BY <1>0, <2>3 DEF UploadTypes
  <2>5. task'[t] = UD!Idle /\ \A u \in Tasks : u # t => task'[u] = task[u]
    BY <1>0, <2>1, UploadBecomes
  <2>6. Listed'
    BY <1>0, <2>1, <2>2, <2>3, <2>4 DEF Listed, Finishable
  <2>7. Errands(t)'
    BY <2>1, <2>5 DEF Errands, Listing, Placing
  <2>8. ASSUME NEW u \in Tasks \ {t} PROVE Errands(u)'
    <3>1. task[u].pc \in Listing => task[u].s # s
      <4>1. CASE task[t].pc = "undo"
        BY <1>0, <2>2, <4>1 DEF OwnLists, Listing
      <4>2. CASE task[t].pc = "complete"
        BY <1>0, <2>2, <4>2 DEF Errands, Finishable
      <4> QED
        BY <2>1, <4>1, <4>2
    <3> QED
      BY <1>0, <2>1, <2>4, <2>5, <3>1 DEF Errands, Finishable
  <2>9. "overlap" \notin faults => \A q, r \in Links : Usable(q)' /\ Usable(r)' => q = r
    BY <2>1, <2>4, UploadStarts DEF Usable
  <2>10. /\ listed' \in [Links -> SUBSET Photos] /\ marked' \in [Links -> SUBSET Photos]
         /\ finished' \subseteq Links
    BY <1>0, <2>1, <2>3 DEF UploadTypes
  <2> QED
    BY <2>1, <2>4, <2>6, <2>7, <2>8, <2>9, <2>10, UploadWrites DEF Listing
<1> QED
  BY <1>1, <1>2, <1>3, <1>4

\* Uploading, and what the telephone does before it ends a session.
LEMMA UploadDocuments ==
  ASSUME UploadInv, NEW t \in Tasks
  PROVE  /\ \A k \in Photos : UD!UploadAtDesktop(t, k) => UploadInv'
         /\ \A s \in Links, k \in Photos : UD!UploadMobileDocument(t, s, k) => UploadInv'
         /\ \A s \in Links : UD!CompleteMobileToken(t, s) => UploadInv'
         /\ UD!Insert(t) => UploadInv'
         /\ UD!Previous(t) => UploadInv'
         /\ UD!Retire(t) => UploadInv'
         /\ UD!Crash(t) => UploadInv'
<1>0. /\ UploadTypes /\ \A u \in Tasks : Errands(u)
      /\ task[t] \in Upload /\ task[t].s \in Links \cup {Nil} /\ task[t].seen \subseteq PhotoRows
      /\ docs \in [PhotoRows -> Photos \cup {Nil}] /\ kept \subseteq Photos
  BY DEF UploadInv, UploadTypes, Upload
<1>1. ASSUME NEW w \in Upload, task' = [task EXCEPT ![t] = w], UD!Starts(t) \/ task[t].pc # "idle",
             UNCHANGED <<session, expired, listed, marked, finished, docs, kept, faults>>,
             w.pc \in {"idle", "insert", "complete"},
             w.pc = "insert" => w.k \in Photos,
             w.pc = "complete" => w.s \in Links /\ Finishable(w.s)
      PROVE  UploadInv'
  <2>1. task'[t] = w
    BY <1>0, <1>1, UploadBecomes
  <2>2. There(t)'
    BY <1>1, <2>1 DEF There
  <2> QED
    BY <1>0, <1>1, <2>2, UploadStarts, UploadPlaces DEF Listing, Placing
<1>2. ASSUME NEW k \in Photos, UD!UploadAtDesktop(t, k) PROVE UploadInv'
  <2>1. /\ [UD!Idle EXCEPT !.pc = "insert", !.k = k] \in Upload
        /\ [UD!Idle EXCEPT !.pc = "insert", !.k = k].pc = "insert"
        /\ [UD!Idle EXCEPT !.pc = "insert", !.k = k].k = k
    BY UploadConstants DEF Upload
  <2> QED
    BY <1>1, <1>2, <2>1 DEF UD!UploadAtDesktop, UD!sessionVars, UD!docVars
<1>3. ASSUME NEW s \in Links, NEW k \in Photos, UD!UploadMobileDocument(t, s, k) PROVE UploadInv'
  <2>1. /\ [UD!Idle EXCEPT !.pc = "insert", !.s = s, !.k = k] \in Upload
        /\ [UD!Idle EXCEPT !.pc = "insert", !.s = s, !.k = k].pc = "insert"
        /\ [UD!Idle EXCEPT !.pc = "insert", !.s = s, !.k = k].k = k
    BY UploadConstants DEF Upload
  <2> QED
    BY <1>1, <1>3, <2>1 DEF UD!UploadMobileDocument, UD!sessionVars, UD!docVars
<1>4. ASSUME NEW s \in Links, UD!CompleteMobileToken(t, s) PROVE UploadInv'
  <2>1. /\ [UD!Idle EXCEPT !.pc = "complete", !.s = s] \in Upload
        /\ [UD!Idle EXCEPT !.pc = "complete", !.s = s].pc = "complete"
        /\ [UD!Idle EXCEPT !.pc = "complete", !.s = s].s = s
    BY UploadConstants DEF Upload
  <2>2. Finishable(s)
    BY <1>4 DEF UD!CompleteMobileToken, Finishable
  <2> QED
    BY <1>1, <1>4, <2>1, <2>2 DEF UD!CompleteMobileToken, UD!sessionVars, UD!docVars
<1>5. ASSUME UD!Crash(t) PROVE UploadInv'
  BY <1>1, <1>5, UploadConstants DEF UD!Crash, UD!Done, UD!At, UD!sessionVars, UD!docVars
<1>6. ASSUME UD!Insert(t) PROVE UploadInv'
  <2>1. /\ task[t].pc = "insert" /\ task[t].k \in Photos
        /\ UNCHANGED <<session, expired, listed, marked, finished, faults>>
    BY <1>0, <1>6 DEF UD!Insert, UD!At, Errands, Placing, UD!sessionVars
  <2>2. CASE UD!Done(t) /\ UNCHANGED <<docs, kept>>
    BY <1>1, <2>1, <2>2, UploadConstants DEF UD!Done
  <2>3. CASE \E d \in PhotoRows :
               /\ docs[d] = Nil /\ docs' = [docs EXCEPT ![d] = task[t].k]
               /\ kept' = kept \cup {task[t].k}
               /\ \A u \in Tasks : d \notin task[u].seen \cup {task[u].d}
               /\ task' = [task EXCEPT ![t].pc = "previous", ![t].d = d]
    <3>1. PICK d \in PhotoRows :
               /\ docs[d] = Nil /\ docs' = [docs EXCEPT ![d] = task[t].k]
               /\ kept' = kept \cup {task[t].k}
               /\ d \notin task[t].seen
               /\ task' = [task EXCEPT ![t].pc = "previous", ![t].d = d]
      BY <2>3
    <3>2. PICK w \in Upload : /\ task' = [task EXCEPT ![t] = w] /\ w.pc = "previous" /\ w.d = d
                              /\ w.k = task[t].k /\ w.seen = task[t].seen
      <4>1. task' = [task EXCEPT ![t] = [task[t] EXCEPT !.pc = "previous", !.d = d]]
        BY <3>1
      <4>2. /\ [task[t] EXCEPT !.pc = "previous", !.d = d] \in Upload
            /\ [task[t] EXCEPT !.pc = "previous", !.d = d].pc = "previous"
            /\ [task[t] EXCEPT !.pc = "previous", !.d = d].d = d
            /\ [task[t] EXCEPT !.pc = "previous", !.d = d].k = task[t].k
            /\ [task[t] EXCEPT !.pc = "previous", !.d = d].seen = task[t].seen
        BY <1>0 DEF Upload
      <4> QED
        BY <4>1, <4>2
    <3>3. task'[t] = w
      BY <1>0, <3>2, UploadBecomes
    <3>4. /\ docs' \in [PhotoRows -> Photos \cup {Nil}] /\ kept' \subseteq Photos
          /\ docs'[d] = task[t].k /\ \A x \in PhotoRows : x # d => docs'[x] = docs[x]
      BY <1>0, <2>1, <3>1
    <3>5. There(t)'
      BY <3>1, <3>2, <3>3, <3>4 DEF There
    <3>6. ASSUME "overlap" \notin faults, NEW k \in kept' PROVE \E x \in PhotoRows : docs'[x] = k
      <4>1. CASE k = task[t].k
        BY <3>4, <4>1
      <4>2. CASE k # task[t].k
        <5>1. k \in kept /\ k # Nil
          BY <1>0, <3>1, <3>6, <4>2, UploadConstants
        <5>2. PICK x \in PhotoRows : docs[x] = k
          BY <2>1, <3>6, <5>1, UploadStarts
        <5> QED
          BY <3>1, <3>4, <5>1, <5>2
      <4> QED
        BY <4>1, <4>2
    <3> QED
      BY <2>1, <3>2, <3>4, <3>5, <3>6, UploadPlaces DEF Listing, Placing
  <2> QED
    BY <1>6, <2>2, <2>3 DEF UD!Insert, UD!docVars
<1>7. ASSUME UD!Previous(t) PROVE UploadInv'
  <2>1. /\ task[t].pc = "previous" /\ task[t].k \in Photos
        /\ UNCHANGED <<session, expired, listed, marked, finished, docs, kept, faults>>
    BY <1>0, <1>7 DEF UD!Previous, UD!At, Errands, Placing, UD!sessionVars, UD!docVars
  <2>2. PICK D \in SUBSET PhotoRows :
          D = {d \in PhotoRows \ {task[t].d} : docs[d] = task[t].k}
    OBVIOUS
  <2>3. task' = [task EXCEPT ![t] = [task[t] EXCEPT !.pc = "retire", !.seen = D]]
    BY <1>7, <2>2 DEF UD!Previous
  <2>4. PICK w \in Upload : /\ task' = [task EXCEPT ![t] = w] /\ w.pc = "retire" /\ w.d = task[t].d
                            /\ w.k = task[t].k /\ w.seen = D
    <3>1. /\ [task[t] EXCEPT !.pc = "retire", !.seen = D] \in Upload
          /\ [task[t] EXCEPT !.pc = "retire", !.seen = D].pc = "retire"
          /\ [task[t] EXCEPT !.pc = "retire", !.seen = D].d = task[t].d
          /\ [task[t] EXCEPT !.pc = "retire", !.seen = D].k = task[t].k
          /\ [task[t] EXCEPT !.pc = "retire", !.seen = D].seen = D
      BY <1>0 DEF Upload
    <3> QED
      BY <2>3, <3>1
  <2>5. task'[t] = w
    BY <1>0, <2>4, UploadBecomes
  <2>6. "overlap" \notin faults => There(t)'
    BY <2>1, <2>2, <2>4, <2>5, UploadStarts DEF There
  <2> QED
    BY <1>0, <2>1, <2>4, <2>6, UploadStarts, UploadPlaces DEF Listing, Placing
<1>8. ASSUME UD!Retire(t) PROVE UploadInv'
  <2>1. /\ task[t].pc = "retire" /\ task[t].k \in Photos
        /\ UNCHANGED <<session, expired, listed, marked, finished, kept, faults>>
        /\ docs' = [d \in PhotoRows |-> IF d \in task[t].seen THEN Nil ELSE docs[d]]
    BY <1>0, <1>8 DEF UD!Retire, UD!At, Errands, Placing, UD!sessionVars
  <2>2. PICK w \in Upload : /\ task' = [task EXCEPT ![t] = w]
                            /\ \/ w.pc = "idle"
                               \/ w.pc = "mark" /\ w.k = task[t].k /\ w.s \in Links
    <3>1. CASE UD!Done(t)
      BY <3>1, UploadConstants DEF UD!Done
    <3>2. CASE task[t].s # Nil /\ UD!Goto(t, "mark")
      <4>1. task' = [task EXCEPT ![t] = [task[t] EXCEPT !.pc = "mark"]]
        BY <3>2 DEF UD!Goto
      <4>2. /\ [task[t] EXCEPT !.pc = "mark"] \in Upload
            /\ [task[t] EXCEPT !.pc = "mark"].pc = "mark"
            /\ [task[t] EXCEPT !.pc = "mark"].k = task[t].k
            /\ [task[t] EXCEPT !.pc = "mark"].s = task[t].s
        BY <1>0 DEF Upload
      <4> QED
        BY <1>0, <3>2, <4>1, <4>2
    <3> QED
      BY <1>8, <3>1, <3>2 DEF UD!Retire
  <2>3. task'[t] = w
    BY <1>0, <2>2, UploadBecomes
  <2>4. docs' \in [PhotoRows -> Photos \cup {Nil}]
    BY <1>0, <2>1
  <2>5. There(t)'
    BY <2>2, <2>3 DEF There
  <2>6. ASSUME "overlap" \notin faults, NEW k \in kept PROVE \E x \in PhotoRows : docs'[x] = k
    <3>1. PICK x \in PhotoRows : docs[x] = k
      BY <2>1, <2>6, UploadStarts
    <3>2. There(t)
      BY <2>1, <2>6, UploadStarts
    <3>3. CASE x \in task[t].seen
      <4>1. k = task[t].k /\ task[t].d \in PhotoRows /\ docs'[task[t].d] = task[t].k
        BY <2>1, <3>1, <3>2, <3>3 DEF There
      <4> QED
        BY <4>1
    <3>4. CASE x \notin task[t].seen
      BY <2>1, <3>1, <3>4
    <3> QED
      BY <3>3, <3>4
  <2> QED
    BY <1>0, <2>1, <2>2, <2>4, <2>5, <2>6, UploadPlaces DEF Listing, Placing
<1> QED
  BY <1>2, <1>3, <1>4, <1>5, <1>6, <1>7, <1>8

\* A target of the session is marked.
LEMMA UploadMarks == ASSUME UploadInv, NEW t \in Tasks, UD!Mark(t) PROVE UploadInv'
<1>0. /\ UploadTypes /\ Listed /\ \A u \in Tasks : Errands(u)
  BY DEF UploadInv
<1>1. /\ task[t].pc = "mark" /\ UNCHANGED <<session, expired, listed, finished, docs, kept, faults>>
      /\ task' = [task EXCEPT ![t] = UD!Idle] /\ UD!Idle \in Upload /\ UD!Idle.pc = "idle"
  BY UploadConstants DEF UD!Mark, UD!At, UD!Done, UD!docVars
<1>2. PICK s \in Links, k \in Photos : s = task[t].s /\ k = task[t].k
  BY <1>0, <1>1 DEF Errands, Placing
<1>3. marked' = [marked EXCEPT ![s] = @ \cup {k}] \/ UNCHANGED marked
  BY <1>2 DEF UD!Mark
<1>4. /\ marked' \in [Links -> SUBSET Photos]
      /\ \A q \in Links : marked[q] \subseteq marked'[q]
  BY <1>0, <1>3 DEF UploadTypes
<1>5. task'[t] = UD!Idle /\ \A u \in Tasks : u # t => task'[u] = task[u]
  BY <1>0, <1>1, UploadBecomes
<1>6. \A q \in Links : Finishable(q) => Finishable(q)'
  BY <1>1, <1>4 DEF Finishable
<1>7. Listed'
  BY <1>0, <1>1, <1>6 DEF Listed
<1>8. Errands(t)'
  BY <1>1, <1>5 DEF Errands, Listing, Placing
<1>9. ASSUME NEW u \in Tasks \ {t} PROVE Errands(u)'
  BY <1>0, <1>1, <1>5, <1>6 DEF Errands
<1>10. "overlap" \notin faults => \A q, r \in Links : Usable(q)' /\ Usable(r)' => q = r
  BY <1>1, UploadStarts DEF Usable
<1>11. /\ session' \in [Links -> {"absent", "new", "open", "completed", "deleted"}]
       /\ listed' \in [Links -> SUBSET Photos] /\ finished' \subseteq Links
  BY <1>0, <1>1 DEF UploadTypes
<1> QED
  BY <1>1, <1>4, <1>7, <1>8, <1>9, <1>10, <1>11, UploadWrites DEF Listing

\* A session grows old, and the client discards a document.
LEMMA UploadOutside ==
  UploadInv => /\ \A s \in Links : UD!Expire(s) => UploadInv'
               /\ \A k \in Photos : UD!Discard(k) => UploadInv'
<1> SUFFICES ASSUME UploadInv
             PROVE  /\ \A s \in Links : UD!Expire(s) => UploadInv'
                    /\ \A k \in Photos : UD!Discard(k) => UploadInv'
  OBVIOUS
<1>1. ASSUME NEW s \in Links, UD!Expire(s) PROVE UploadInv'
  <2>1. UNCHANGED <<session, listed, marked, finished, docs, kept, faults, task>>
        /\ expired' = expired \cup {s}
    BY <1>1 DEF UD!Expire, UD!docVars
  <2>2. UploadTypes' /\ Listed' /\ OwnLists' /\ \A t \in Tasks : Errands(t)'
    BY <2>1 DEF UploadInv, UploadTypes, Listed, OwnLists, Errands, Finishable
  <2>3. "overlap" \notin faults' => OneByOne'
    BY <2>1 DEF UploadInv, OneByOne, There, Usable
  <2> QED
    BY <2>2, <2>3 DEF UploadInv
<1>2. ASSUME NEW k \in Photos, UD!Discard(k) PROVE UploadInv'
  <2>1. /\ UNCHANGED <<session, expired, listed, marked, finished, faults, task>>
        /\ docs' = [d \in PhotoRows |-> IF docs[d] = k THEN Nil ELSE docs[d]]
        /\ kept' = kept \ {k}
        /\ "overlap" \notin faults => \A t \in Tasks : task[t].pc = "idle"
    BY <1>2 DEF UD!Discard, UD!sessionVars, UD!AllIdle, UD!At
  <2>2. UploadTypes' /\ Listed' /\ OwnLists' /\ \A t \in Tasks : Errands(t)'
    BY <2>1 DEF UploadInv, UploadTypes, Listed, OwnLists, Errands, Finishable
  <2>3. ASSUME "overlap" \notin faults PROVE OneByOne'
    <3>1. \A t \in Tasks : There(t)'
      BY <2>1, <2>3 DEF There
    <3>2. \A j \in kept' : \E d \in PhotoRows : docs'[d] = j
      BY <2>1, <2>3 DEF UploadInv, OneByOne
    <3> QED
      BY <2>1, <2>3, <3>1, <3>2 DEF UploadInv, OneByOne, Usable
  <2> QED
    BY <2>1, <2>2, <2>3 DEF UploadInv
<1> QED
  BY <1>1, <1>2

\* Every step keeps it.
LEMMA UploadNext == UploadInv /\ UD!Next => UploadInv'
BY UploadLinks, UploadDocuments, UploadMarks, UploadOutside DEF UD!Next

\* UploadsAreThere of the component follows.
LEMMA UploadHolds == UploadInv => UD!UploadsAreThere
<1> SUFFICES ASSUME UploadInv PROVE UD!UploadsAreThere
  OBVIOUS
<1>1. /\ finished \subseteq Links /\ \A s \in finished : listed[s] # {} /\ listed[s] \subseteq marked[s]
  BY DEF UploadInv, UploadTypes, Listed, Finishable
<1>2. \A s \in Links : UD!Resolved(s) => listed[s] # {}
  BY DEF UploadInv, Listed, UD!Resolved
<1>3. ASSUME "overlap" \notin faults
      PROVE  kept \subseteq UD!Live /\ UD!Cardinality({s \in Links : UD!Resolved(s)}) <= 1
  <2>1. kept \subseteq UD!Live
    <3>1. kept \subseteq Photos /\ \A k \in kept : \E d \in PhotoRows : docs[d] = k
      BY <1>3 DEF UploadInv, UploadTypes, OneByOne
    <3> QED
      BY <3>1, UploadConstants DEF UD!Live
  <2>2. \A r, s \in {s \in Links : UD!Resolved(s)} : r = s
    BY <1>3 DEF UploadInv, OneByOne, UD!Resolved, Usable
  <2>3. Cardinality({s \in Links : UD!Resolved(s)}) <= 1
    BY <2>2, AtMostOne
  <2>4. UD!Cardinality({s \in Links : UD!Resolved(s)}) = Cardinality({s \in Links : UD!Resolved(s)})
    BY DEF UD!Cardinality, Cardinality
  <2> QED
    BY <2>1, <2>3, <2>4
<1> QED
  BY <1>1, <1>2, <1>3 DEF UD!UploadsAreThere

\* The invariant holds when the part is uploading.
LEMMA UploadInvariant == Spec => [](part = "uploads" => UploadInv)
<1>1. Init => (part = "uploads" => UploadInv)
  BY UploadInit DEF Init
<1>2. (part = "uploads" => UploadInv) /\ [Next]_vars => (part = "uploads" => UploadInv)'
  <2> SUFFICES ASSUME part = "uploads" => UploadInv, [Next]_vars, part' = "uploads"
               PROVE  UploadInv'
    OBVIOUS
  <2>1. CASE UNCHANGED vars
    BY <2>1 DEF vars, uploadsOwn, UploadInv, UploadTypes, Listed, OwnLists, Errands, OneByOne,
      There, Usable, Finishable
  <2>2. CASE Next
    BY <2>2, UploadNext DEF Next
  <2> QED
    BY <2>1, <2>2
<1> QED
  BY <1>1, <1>2, PTL DEF Spec

\* A session that the telephone ended has each of its documents, none is shown without
\* its list, and, unless requests overlap, the client is at no moment without a document
\* that he uploaded and did not discard and one session at most can be used
\* (uploadDocument, createMobileToken, completeMobileToken).
THEOREM UploadsStayThere == Spec => []UploadsAreThere
<1>1. (part = "uploads" => UploadInv) => UploadsAreThere
  BY UploadHolds DEF UploadsAreThere
<1> QED
  BY <1>1, UploadInvariant, PTL

(***************************************************************************)
(* The bank account. Every number a row or an answer has was given out and *)
(* is used once; data that a withdrawal may go to are approved; a request  *)
(* of the client aims at a row of his, and at no change that waits. When   *)
(* the requests of one side do not overlap, one change waits in its row, or*)
(* one answer was given it.                                                *)
(***************************************************************************)
\* The months there are.
Months == 1..MaxMonths
\* The numbers of data there are.
Numbers == 1..MaxNumbers
\* The work of a request: a row and the change it answers.
Request == [pc : {"idle"} \cup BK!OfClient \cup BK!OfStaff, id : Banks \cup {Nil}, change : Nat]
\* Types.
BankTypes ==
  /\ faults \in BankWorlds
  /\ bank \in [Banks -> BK!Account \cup {Nil}]
  /\ numbers \in 0..MaxNumbers /\ month \in Months
  /\ asked \subseteq Numbers \X Months
  /\ answers \subseteq Numbers \X {"approved", "rejected"}
  /\ withdrawn \subseteq Numbers
  /\ task \in [Tasks -> Request]
\* What has a number was given it.
Used ==
  /\ \A a \in asked : a[1] =< numbers
  /\ \A a \in answers : a[1] =< numbers
  /\ \A c \in withdrawn : c =< numbers
  /\ \A i \in BK!Stored : bank[i].data =< numbers /\ bank[i].change =< numbers
  /\ \A t \in Tasks : task[t].change =< numbers
\* Data that a withdrawal goes to, or a row has, were approved if somebody asked to
\* change to them.
Approved ==
  \A c \in BK!Changes :
    c \in withdrawn \/ (\E i \in BK!Stored : bank[i].data = c) => <<c, "approved">> \in answers
\* A request that writes a row has one, and the staff a change.
Aims(t) ==
  /\ task[t].pc \in {"request"} \cup BK!OfStaff => task[t].id \in BK!Stored
  /\ task[t].pc \in BK!OfStaff => task[t].change \in Numbers
\* A change waits in a row, or has one answer and is in none.
Waits(c) ==
  \/ BK!Answers(c) = {} /\ \E i \in BK!Stored : bank[i].change = c
  \/ (\E a : BK!Answers(c) = {a}) /\ \A i \in BK!Stored : bank[i].change # c
\* What a request read is still so when it writes.
OnTime(t) ==
  /\ task[t].pc = "insert" => BK!Stored = {}
  /\ task[t].pc = "request" => bank[task[t].id].change = 0 /\ bank[task[t].id].month < month
  /\ task[t].pc \in BK!OfStaff => bank[task[t].id].change = task[t].change
\* When the requests of one side do not overlap and the database does not fail.
OneSide ==
  /\ \A t, u \in Tasks : task[t].pc \in BK!OfClient /\ task[u].pc \in BK!OfClient => t = u
  /\ \A t, u \in Tasks : task[t].pc \in BK!OfStaff /\ task[u].pc \in BK!OfStaff => t = u
  /\ \A t \in Tasks : OnTime(t)
  /\ \A i, j \in BK!Stored : i = j
  /\ \A i \in BK!Stored : bank[i].month =< month
                         /\ (bank[i].change # 0 => bank[i].change \in BK!Changes)
  /\ \A c \in BK!Changes : Waits(c)
  /\ \A a \in asked : \E i \in BK!Stored : a[2] =< bank[i].month
  /\ \A a, b \in asked : a[2] = b[2] => a = b
\* The requests of one side do not overlap and the database does not fail.
InTurn == faults \cap {"client", "staff", "dbError"} = {}
\* The inductive invariant of the bank account.
BankInv == BankTypes /\ Used /\ Approved /\ (\A t \in Tasks : Aims(t)) /\ (InTurn => OneSide)

\* What the constants are.
LEMMA BankConstants ==
  /\ MaxNumbers \in Nat \ {0} /\ MaxMonths \in Nat \ {0} /\ Nil \notin BK!Account
  /\ BK!Idle \in Request /\ BK!Idle.pc = "idle" /\ BK!Idle.change = 0
BY InstancesAssumption DEF BK!BoundsAssumption, BK!Idle, Request, BK!OfClient, BK!OfStaff

\* No account and no request.
LEMMA BankInit == BK!Init => BankInv
<1> SUFFICES ASSUME BK!Init PROVE BankInv
  OBVIOUS
<1>1. BankTypes
  BY BankConstants DEF BK!Init, BankTypes, Numbers, Months
<1>2. BK!Stored = {} /\ BK!Changes = {}
  BY DEF BK!Init, BK!Stored, BK!Changes
<1> QED
  BY <1>1, <1>2, BankConstants
  DEF BK!Init, BankInv, Used, Approved, Aims, OneSide, OnTime, BK!OfClient, BK!OfStaff

\* What a request that ends leaves, and the others.
LEMMA BankEnds ==
  ASSUME BankTypes, NEW t \in Tasks, BK!Done(t)
  PROVE  /\ task' \in [Tasks -> Request] /\ task'[t].pc = "idle" /\ task'[t].change = 0
         /\ \A u \in Tasks : u # t => task'[u] = task[u]
BY BankConstants DEF BK!Done, BankTypes

\* One row is written.
LEMMA BankWrites ==
  ASSUME BankTypes, NEW i \in Banks, NEW e \in BK!Account, bank' = [bank EXCEPT ![i] = e]
  PROVE  /\ bank' \in [Banks -> BK!Account \cup {Nil}]
         /\ bank'[i] = e /\ \A j \in Banks \ {i} : bank'[j] = bank[j]
         /\ BK!Stored' = BK!Stored \cup {i} /\ BK!Stored' \subseteq Banks
BY BankConstants DEF BankTypes, BK!Stored

LEMMA RowKept ==
  ASSUME NEW A, NEW B, NEW C, NEW e \in [data : A, change : B, month : C],
         NEW d \in A, NEW c \in B, NEW m \in C
  PROVE  /\ [e EXCEPT !.change = c, !.month = m] \in [data : A, change : B, month : C]
         /\ [e EXCEPT !.data = d, !.change = c] \in [data : A, change : B, month : C]
         /\ [e EXCEPT !.change = c] \in [data : A, change : B, month : C]
OBVIOUS

LEMMA BankRows ==
  ASSUME NEW e \in BK!Account, NEW c \in 0..MaxNumbers, NEW d \in Numbers, NEW m \in Months
  PROVE  /\ [e EXCEPT !.change = c, !.month = m] \in BK!Account
         /\ [e EXCEPT !.data = d, !.change = c] \in BK!Account
         /\ [e EXCEPT !.change = c] \in BK!Account
<1>1. m \in 0..MaxMonths /\ d \in 1..MaxNumbers
  BY BankConstants DEF Months, Numbers
<1> QED
  BY <1>1, RowKept DEF BK!Account

\* A step that begins or ends a request, or waits for the next month.
LEMMA BankLooks ==
  ASSUME BankInv, UNCHANGED <<bank, numbers, asked, answers, withdrawn, faults>>,
         month' \in Months, month =< month', task' \in [Tasks -> Request],
         \A u \in Tasks :
           \/ task'[u] = task[u]
           \/ task'[u].pc = "idle" /\ task'[u].change = 0
           \/ Aims(u)' /\ task'[u].change =< numbers,
         InTurn =>
           \A u \in Tasks :
             \/ task'[u] = task[u]
             \/ task'[u].pc = "idle"
             \/ /\ OnTime(u)'
                /\ \A v \in Tasks \ {u} :
                     /\ task'[u].pc \in BK!OfClient => task'[v].pc \notin BK!OfClient
                     /\ task'[u].pc \in BK!OfStaff => task'[v].pc \notin BK!OfStaff
  PROVE  BankInv'
<1>1. BK!Stored' = BK!Stored /\ BK!Changes' = BK!Changes
  BY DEF BK!Stored, BK!Changes
<1>2. BankTypes'
  BY DEF BankInv, BankTypes
<1>3. Approved'
  BY <1>1 DEF BankInv, Approved
<1>4. Used'
  <2>1. \A u \in Tasks : task'[u].change =< numbers
    BY BankConstants DEF BankInv, Used, BankTypes
  <2> QED
    BY <1>1, <2>1 DEF BankInv, Used
<1>5. \A u \in Tasks : Aims(u)'
  BY <1>1 DEF BankInv, Aims, BK!OfStaff
<1>6. ASSUME InTurn PROVE OneSide'
  <2>1. OneSide
    BY <1>6 DEF BankInv
  <2>2. \A i \in BK!Stored : bank[i].month \in Nat /\ bank[i].month =< month'
    BY <2>1 DEF BankInv, BankTypes, BK!Stored, BK!Account, OneSide, Months
  <2>3. \A u \in Tasks : OnTime(u)'
    <3>1. ASSUME NEW u \in Tasks, task'[u] = task[u] PROVE OnTime(u)'
      <4>1. OnTime(u) /\ Aims(u)
        BY <2>1 DEF OneSide, BankInv
      <4>2. task[u].pc = "request" =>
              bank[task[u].id].month < month /\ bank[task[u].id].month \in Nat
        BY <4>1, <2>2 DEF OnTime, Aims
      <4>3. month \in Nat /\ month' \in Nat
        BY DEF BankInv, BankTypes, Months
      <4> QED
        BY <1>1, <3>1, <4>1, <4>2, <4>3 DEF OnTime
    <3>2. ASSUME NEW u \in Tasks, task'[u].pc = "idle" PROVE OnTime(u)'
      BY <3>2 DEF OnTime, BK!OfStaff
    <3> QED
      BY <1>6, <3>1, <3>2
  <2>4. \A c \in BK!Changes : Waits(c)'
    BY <1>1, <2>1 DEF OneSide, Waits, BK!Answers
  <2>5. \A t, u \in Tasks :
          /\ task'[t].pc \in BK!OfClient /\ task'[u].pc \in BK!OfClient => t = u
          /\ task'[t].pc \in BK!OfStaff /\ task'[u].pc \in BK!OfStaff => t = u
    BY <1>6, <2>1 DEF OneSide, BK!OfClient, BK!OfStaff
  <2> QED
    BY <1>1, <2>1, <2>2, <2>3, <2>4, <2>5 DEF OneSide
<1> QED
  BY <1>2, <1>3, <1>4, <1>5, <1>6 DEF BankInv, InTurn

LEMMA BankWaitsKept ==
  ASSUME NEW i \in BK!Stored, \A j \in BK!Stored : j = i, BK!Stored' = BK!Stored,
         NEW c, NEW d, bank[i].change = c, bank'[i].change = d,
         NEW b, b # c, b # d, BK!Answers(b)' = BK!Answers(b), Waits(b)
  PROVE  Waits(b)'
BY DEF Waits

LEMMA BankAnswers ==
  ASSUME NEW c, NEW r, answers' = answers \cup {<<c, r>>}
  PROVE  /\ \A b : b # c => BK!Answers(b)' = BK!Answers(b)
         /\ BK!Answers(c) = {} => BK!Answers(c)' = {<<c, r>>}
BY DEF BK!Answers

\* The INSERT of the account.
LEMMA BankInserts == ASSUME BankInv, NEW t \in Tasks, BK!InsertAccount(t) PROVE BankInv'
<1>0. BankTypes
  BY DEF BankInv
<1>1. /\ task[t].pc = "insert"
      /\ UNCHANGED <<month, asked, answers, withdrawn, faults>>
  BY DEF BK!InsertAccount, BK!At, BK!history
<1>2. /\ task' \in [Tasks -> Request] /\ task'[t].pc = "idle" /\ task'[t].change = 0
      /\ \A u \in Tasks : u # t => task'[u] = task[u]
  BY <1>0, BankEnds DEF BK!InsertAccount
<1>3. CASE UNCHANGED <<bank, numbers>>
  <2>1. month \in Months /\ month =< month
    BY <1>0 DEF BankTypes, Months
  <2> QED
    BY <1>1, <1>2, <1>3, <2>1, BankLooks
<1>4. ASSUME numbers < MaxNumbers, numbers' = numbers + 1, NEW i \in Banks \ BK!Stored,
             bank' = [bank EXCEPT ![i] = [data |-> numbers + 1, change |-> 0, month |-> 0]]
      PROVE BankInv'
  <2>0. numbers \in Nat /\ numbers' \in Nat /\ numbers' \in Numbers /\ numbers < numbers' /\ month \in Nat
        /\ bank[i] = Nil
    BY <1>0, <1>4, BankConstants DEF BankTypes, Numbers, Months, BK!Stored
  <2>1. PICK e \in BK!Account : e = [data |-> numbers', change |-> 0, month |-> 0]
    <3>1. numbers' \in 1..MaxNumbers /\ 0 \in 0..MaxNumbers /\ 0 \in 0..MaxMonths
      BY <2>0, BankConstants DEF Numbers
    <3>2. [data |-> numbers', change |-> 0, month |-> 0] \in BK!Account
      BY <3>1 DEF BK!Account
    <3> QED
      BY <3>2
  <2>2. e.data = numbers' /\ e.change = 0 /\ e.month = 0
    BY <2>1
  <2>3. /\ bank' \in [Banks -> BK!Account \cup {Nil}] /\ i \in Banks
        /\ bank'[i] = e /\ \A j \in Banks \ {i} : bank'[j] = bank[j]
        /\ BK!Stored' = BK!Stored \cup {i} /\ BK!Stored \subseteq Banks
    BY <1>0, <1>4, <2>1, BankWrites DEF BK!Stored
  <2>4. BankTypes'
    BY <1>0, <1>1, <1>2, <2>0, <2>3 DEF BankTypes, Numbers
  <2>5. BK!Changes' = BK!Changes /\ \A c \in BK!Changes : c =< numbers
    BY <1>1, <1>0 DEF BK!Changes, BankInv, Used
  <2>6. Used'
    <3>1. \A c \in Int : c =< numbers => c =< numbers'
      BY <2>0
    <3>2. \A a \in asked : a[1] \in Int
      BY <1>0 DEF BankTypes, Numbers
    <3>3. \A a \in answers : a[1] \in Int
      BY <1>0 DEF BankTypes, Numbers
    <3>4. \A j \in BK!Stored : bank[j].data \in Int /\ bank[j].change \in Int /\ j # i
      BY <1>0, <1>4 DEF BankTypes, BK!Stored, BK!Account
    <3>5. \A u \in Tasks : task'[u].change \in Int
      BY <1>2 DEF Request
    <3>6. withdrawn \subseteq Int
      BY <1>0 DEF BankTypes, Numbers
    <3>7. \A j \in BK!Stored' : bank'[j].data =< numbers' /\ bank'[j].change =< numbers'
      BY <2>0, <2>2, <2>3, <3>1, <3>4 DEF BankInv, Used
    <3>8. \A u \in Tasks : task'[u].change =< numbers'
      BY <1>2, <2>0, <3>1, <3>5 DEF BankInv, Used
    <3> QED
      BY <1>1, <3>1, <3>2, <3>3, <3>6, <3>7, <3>8 DEF BankInv, Used
  <2>7. Approved'
    BY <1>1, <1>4, <2>0, <2>2, <2>3, <2>5 DEF BankInv, Approved
  <2>8. \A u \in Tasks : Aims(u)'
    BY <1>2, <2>3 DEF BankInv, Aims, BK!OfStaff
  <2>9. ASSUME InTurn PROVE OneSide'
    <3>1. OneSide /\ BK!Stored = {}
      BY <1>1, <2>9 DEF BankInv, OneSide, OnTime
    <3>2. asked = {}
      BY <3>1 DEF OneSide
    <3>3. \A u \in Tasks : task[u].pc \notin {"request"} \cup BK!OfStaff
      BY <3>1 DEF BankInv, Aims
    <3>4. \A u \in Tasks : OnTime(u)'
      BY <1>1, <1>2, <3>1, <3>3 DEF OnTime, BK!OfStaff, OneSide, BK!OfClient
    <3>5. BK!Changes = {}
      BY <3>2 DEF BK!Changes
    <3> QED
      BY <1>1, <1>2, <2>0, <2>2, <2>3, <2>5, <3>1, <3>2, <3>4, <3>5
      DEF OneSide, BK!OfStaff, BK!OfClient
  <2> QED
    BY <1>1, <2>4, <2>6, <2>7, <2>8, <2>9 DEF BankInv, InTurn
<1> QED
  BY <1>3, <1>4 DEF BK!InsertAccount

\* The client asks for a change.
LEMMA BankRequests == ASSUME BankInv, NEW t \in Tasks, BK!WriteRequest(t) PROVE BankInv'
<1>0. BankTypes
  BY DEF BankInv
<1>1. /\ task[t].pc = "request"
      /\ UNCHANGED <<month, answers, withdrawn, faults>>
  BY DEF BK!WriteRequest, BK!At
<1>2. /\ task' \in [Tasks -> Request] /\ task'[t].pc = "idle" /\ task'[t].change = 0
      /\ \A u \in Tasks : u # t => task'[u] = task[u]
  BY <1>0, BankEnds DEF BK!WriteRequest
<1>3. PICK i \in Banks : i = task[t].id /\ i \in BK!Stored
  BY <1>1 DEF BankInv, Aims, BK!Stored
<1>4. CASE UNCHANGED <<bank, numbers, asked>>
  <2>1. month \in Months /\ month =< month
    BY <1>0 DEF BankTypes, Months
  <2> QED
    BY <1>1, <1>2, <1>4, <2>1, BankLooks
<1>5. ASSUME numbers < MaxNumbers, numbers' = numbers + 1,
             bank' = [bank EXCEPT ![i].change = numbers + 1, ![i].month = month],
             asked' = asked \cup {<<numbers + 1, month>>}
      PROVE BankInv'
  <2>0. numbers \in Nat /\ numbers' \in Nat /\ numbers' \in Numbers /\ numbers < numbers'
        /\ month \in Months /\ month \in Nat /\ numbers' \in 0..MaxNumbers /\ numbers' # 0
    BY <1>0, <1>5, BankConstants DEF BankTypes, Numbers, Months
  <2>1. bank[i] \in BK!Account
    BY <1>0, <1>3 DEF BankTypes, BK!Stored
  <2>2. PICK e \in BK!Account : e = [bank[i] EXCEPT !.change = numbers', !.month = month]
    <3>1. \A d \in Numbers : [bank[i] EXCEPT !.change = numbers', !.month = month] \in BK!Account
      BY <2>0, <2>1, BankRows
    <3> QED
      BY <2>0, <3>1
  <2>3. e.data = bank[i].data /\ e.change = numbers' /\ e.month = month
    BY <2>1, <2>2 DEF BK!Account
  <2>4. bank' = [bank EXCEPT ![i] = e]
    BY <1>0, <1>5, <2>2 DEF BankTypes
  <2>5. /\ bank' \in [Banks -> BK!Account \cup {Nil}]
        /\ bank'[i] = e /\ \A j \in Banks \ {i} : bank'[j] = bank[j]
        /\ BK!Stored' = BK!Stored /\ BK!Stored \subseteq Banks
    <3>1. BK!Stored \cup {i} = BK!Stored /\ BK!Stored \subseteq Banks
      BY <1>3 DEF BK!Stored
    <3> QED
      BY <1>0, <2>4, <3>1, BankWrites
  <2>6. asked' \subseteq Numbers \X Months
    BY <1>0, <1>5, <2>0 DEF BankTypes
  <2>7. BankTypes'
    BY <1>0, <1>1, <1>2, <2>0, <2>5, <2>6 DEF BankTypes, Numbers
  <2>8. /\ BK!Changes' = BK!Changes \cup {numbers'}
        /\ \A c \in BK!Changes : c =< numbers /\ c \in Nat
    <3>1. asked' = asked \cup {<<numbers', month>>} /\ <<numbers', month>>[1] = numbers'
      BY <1>5
    <3>2. BK!Changes' = BK!Changes \cup {numbers'}
      BY <3>1 DEF BK!Changes
    <3>3. \A a \in asked : a[1] =< numbers /\ a[1] \in Nat
      BY <1>0 DEF BankInv, Used, BankTypes, Numbers
    <3> QED
      BY <3>2, <3>3 DEF BK!Changes
  <2>9. \A j \in BK!Stored :
          /\ bank[j].data \in Nat /\ bank[j].change \in Nat /\ bank[j].month \in Nat
          /\ bank[j].data =< numbers /\ bank[j].change =< numbers
    BY <1>0 DEF BankTypes, BK!Stored, BK!Account, BankInv, Used
  <2>10. withdrawn \subseteq Nat /\ \A c \in withdrawn : c =< numbers
    BY <1>0 DEF BankTypes, Numbers, BankInv, Used
  <2>11. \A a \in answers : a[1] =< numbers /\ a[1] \in Nat
    BY <1>0 DEF BankTypes, Numbers, BankInv, Used
  <2>12. Used'
    <3>1. \A c \in Int : c =< numbers => c =< numbers'
      BY <2>0
    <3>2. \A a \in asked' : a[1] =< numbers'
      BY <1>0, <1>5, <2>0, <3>1 DEF BankInv, Used, BankTypes, Numbers
    <3>3. \A j \in BK!Stored : bank'[j].data =< numbers' /\ bank'[j].change =< numbers'
      BY <1>3, <2>0, <2>3, <2>5, <2>9, <3>1
    <3>4. \A u \in Tasks : task'[u].change =< numbers'
      <4>1. \A u \in Tasks : task'[u].change \in Int
        BY <1>2 DEF Request
      <4> QED
        BY <1>2, <2>0, <3>1, <4>1 DEF BankInv, Used
    <3> QED
      BY <1>1, <2>5, <2>10, <2>11, <3>1, <3>2, <3>3, <3>4 DEF Used
  <2>13. Approved'
    <3>1. /\ numbers' \notin withdrawn
          /\ \A j \in BK!Stored : bank'[j].data # numbers' /\ bank'[j].data = bank[j].data
      BY <1>3, <2>0, <2>3, <2>5, <2>9, <2>10
    <3> QED
      BY <1>1, <2>5, <2>8, <3>1 DEF BankInv, Approved
  <2>14. \A u \in Tasks : Aims(u)'
    BY <1>2, <2>5 DEF BankInv, Aims, BK!OfStaff
  <2>15. ASSUME InTurn PROVE OneSide'
    <3>1. OneSide /\ OnTime(t)
      BY <2>15 DEF BankInv, OneSide
    <3>2. /\ bank[i].change = 0 /\ bank[i].month < month
          /\ \A j \in BK!Stored : j = i
      BY <1>1, <1>3, <3>1 DEF OneSide, OnTime
    <3>3. \A u \in Tasks \ {t} : task[u].pc = "idle"
      <4>1. \A u \in Tasks \ {t} : task[u].pc \notin BK!OfStaff
        BY <1>1, <3>1, <3>2 DEF OneSide, OnTime, BankInv, Aims, Numbers
      <4>2. \A u \in Tasks \ {t} : task[u].pc \notin BK!OfClient
        BY <1>1, <3>1 DEF OneSide, BK!OfClient
      <4> QED
        BY <1>0, <4>1, <4>2 DEF BankTypes, Request
    <3>4. \A u \in Tasks : task'[u].pc = "idle"
      BY <1>2, <3>3
    <3>5. \A c \in BK!Changes' : Waits(c)'
      <4>1. \A c : BK!Answers(c)' = BK!Answers(c)
        BY <1>1 DEF BK!Answers
      <4>0. PICK n \in Nat : n = numbers'
        BY <2>0
      <4>2. Waits(n)'
        <5>1. BK!Answers(n) = {}
          BY <2>0, <2>11, <4>0 DEF BK!Answers
        <5>2. i \in BK!Stored' /\ bank'[i].change = n /\ BK!Answers(n)' = {}
          BY <1>3, <2>3, <2>5, <4>0, <4>1, <5>1
        <5> QED
          BY <5>2 DEF Waits
      <4>3. ASSUME NEW c \in BK!Changes PROVE Waits(c)'
        <5>1. c # numbers' /\ c # 0
          BY <1>0, <2>0, <2>8 DEF BK!Changes, BankTypes, Numbers
        <5>2. Waits(c) /\ bank'[i].change = numbers'
          BY <2>3, <2>5, <3>1 DEF OneSide
        <5> QED
          BY <1>3, <2>5, <3>2, <4>1, <5>1, <5>2, BankWaitsKept
      <4> QED
        BY <2>8, <4>0, <4>2, <4>3
    <3>6. \A a \in asked : a[2] \in Nat /\ a[2] < month
      BY <1>0, <2>0, <2>9, <3>1, <3>2 DEF OneSide, BankTypes, Months
    <3>7. /\ \A a \in asked' : a[2] =< bank'[i].month
          /\ \A a, b \in asked' : a[2] = b[2] => a = b
      BY <1>5, <2>0, <2>3, <2>5, <3>1, <3>6 DEF OneSide
    <3>8. \A j \in BK!Stored' : bank'[j].month =< month'
                                /\ (bank'[j].change # 0 => bank'[j].change \in BK!Changes')
      BY <1>1, <2>0, <2>3, <2>5, <2>8, <3>2
    <3> QED
      BY <1>3, <2>5, <3>2, <3>4, <3>5, <3>7, <3>8
      DEF OneSide, OnTime, BK!OfClient, BK!OfStaff
  <2> QED
    BY <1>1, <2>7, <2>12, <2>13, <2>14, <2>15 DEF BankInv, InTurn
<1> QED
  BY <1>3, <1>4, <1>5 DEF BK!WriteRequest

\* The staff answer change c, and the row i takes data d or keeps its own.
LEMMA BankReviewed ==
  ASSUME BankInv, NEW t \in Tasks, task[t].pc \in BK!OfStaff,
         NEW i \in BK!Stored, i = task[t].id, NEW c \in Numbers, c = task[t].change,
         NEW e \in BK!Account, bank' = [bank EXCEPT ![i] = e],
         e.change = 0, e.month = bank[i].month,
         NEW r \in {"approved", "rejected"}, answers' = answers \cup {<<c, r>>},
         e.data = bank[i].data \/ (e.data = c /\ r = "approved"),
         BK!Done(t), UNCHANGED <<numbers, month, asked, withdrawn, faults>>
  PROVE  BankInv'
<1>0. BankTypes /\ i \in Banks /\ BK!Stored \subseteq Banks
  BY DEF BankInv, BK!Stored
<1>2. /\ task' \in [Tasks -> Request] /\ task'[t].pc = "idle" /\ task'[t].change = 0
      /\ \A u \in Tasks : u # t => task'[u] = task[u]
  BY <1>0, BankEnds
<1>3. /\ bank' \in [Banks -> BK!Account \cup {Nil}]
      /\ bank'[i] = e /\ \A j \in Banks \ {i} : bank'[j] = bank[j]
      /\ BK!Stored' = BK!Stored
  <2>1. BK!Stored \cup {i} = BK!Stored
    BY <1>0
  <2> QED
    BY <1>0, <2>1, BankWrites
<1>4. BK!Changes' = BK!Changes
  BY DEF BK!Changes
<1>5. numbers \in Nat /\ c =< numbers /\ c \in Nat /\ c # 0
  BY <1>0 DEF BankInv, Used, BankTypes, Numbers
<1>6. BankTypes'
  BY <1>0, <1>2, <1>3 DEF BankTypes
<1>7. Used'
  <2>1. \A a \in answers' : a[1] =< numbers
    BY <1>5 DEF BankInv, Used
  <2>2. \A j \in BK!Stored' : bank'[j].data =< numbers /\ bank'[j].change =< numbers
    BY <1>0, <1>3, <1>5 DEF BankInv, Used
  <2>3. \A u \in Tasks : task'[u].change =< numbers
    BY <1>2, <1>5 DEF BankInv, Used
  <2> QED
    BY <2>1, <2>2, <2>3 DEF BankInv, Used
<1>8. Approved'
  BY <1>0, <1>3, <1>4 DEF BankInv, Approved
<1>9. \A u \in Tasks : Aims(u)'
  BY <1>2, <1>3 DEF BankInv, Aims, BK!OfStaff
<1>10. ASSUME InTurn PROVE OneSide'
  <2>1. OneSide /\ OnTime(t)
    BY <1>10 DEF BankInv, OneSide
  <2>2. bank[i].change = c /\ \A j \in BK!Stored : j = i
    BY <2>1 DEF OneSide, OnTime
  <2>3. c \in BK!Changes
    BY <1>5, <2>1, <2>2 DEF OneSide
  <2>4. \A u \in Tasks : task'[u].pc \notin BK!OfStaff
    BY <1>2, <2>1 DEF OneSide, BK!OfStaff
  <2>5. \A u \in Tasks : OnTime(u)'
    <3>1. ASSUME NEW u \in Tasks \ {t} PROVE OnTime(u)'
      <4>1. OnTime(u) /\ Aims(u) /\ task'[u] = task[u]
        BY <1>2, <2>1 DEF OneSide, BankInv
      <4>2. task[u].pc # "request"
        BY <1>5, <2>2, <4>1 DEF OnTime, Aims
      <4> QED
        BY <1>3, <2>4, <4>1, <4>2 DEF OnTime
    <3>2. OnTime(t)'
      BY <1>2, <2>4 DEF OnTime
    <3> QED
      BY <3>1, <3>2
  <2>6. \A b \in BK!Changes : Waits(b)'
    <3>1. BK!Answers(c)' = {<<c, r>>}
      <4>1. BK!Answers(c) = {}
        BY <2>1, <2>2, <2>3 DEF OneSide, Waits
      <4> QED
        BY <4>1, BankAnswers
    <3>2. Waits(c)'
      <4>1. \A j \in BK!Stored' : bank'[j].change # c
        BY <1>3, <1>5, <2>2
      <4> QED
        BY <3>1, <4>1 DEF Waits
    <3>3. ASSUME NEW b \in BK!Changes, b # c PROVE Waits(b)'
      <4>1. b # 0 /\ Waits(b) /\ BK!Answers(b)' = BK!Answers(b)
        <5>1. b # 0
          BY <1>0 DEF BK!Changes, BankTypes, Numbers
        <5> QED
          BY <2>1, <3>3, <5>1, BankAnswers DEF OneSide
      <4>2. bank'[i].change = 0
        BY <1>3
      <4> QED
        BY <1>3, <2>2, <3>3, <4>1, <4>2, BankWaitsKept
    <3> QED
      BY <3>2, <3>3
  <2>7. \A j \in BK!Stored' : bank'[j].month = bank[j].month /\ bank'[j].change = 0
    BY <1>3, <2>2
  <2>8. \A j \in BK!Stored' : bank'[j].month =< month'
                              /\ (bank'[j].change # 0 => bank'[j].change \in BK!Changes')
    BY <1>3, <2>1, <2>7 DEF OneSide
  <2>9. \A a \in asked' : \E j \in BK!Stored' : a[2] =< bank'[j].month
    BY <1>3, <2>1, <2>7 DEF OneSide
  <2>10. \A u, v \in Tasks : task'[u].pc \in BK!OfClient /\ task'[v].pc \in BK!OfClient => u = v
    BY <1>2, <2>1 DEF OneSide, BK!OfClient
  <2> QED
    BY <1>3, <1>4, <2>1, <2>4, <2>5, <2>6, <2>8, <2>9, <2>10 DEF OneSide
<1> QED
  BY <1>6, <1>7, <1>8, <1>9, <1>10 DEF BankInv, InTurn

\* The answer of the staff, approval or not.
LEMMA BankReviews ==
  ASSUME BankInv, NEW t \in Tasks, BK!ApproveChange(t) \/ BK!RejectChange(t)
  PROVE  BankInv'
<1>0. BankTypes
  BY DEF BankInv
<1>1. /\ task[t].pc \in BK!OfStaff /\ BK!Done(t)
      /\ UNCHANGED <<numbers, month, asked, withdrawn, faults>>
  BY DEF BK!ApproveChange, BK!RejectChange, BK!At, BK!OfStaff
<1>2. PICK i \in BK!Stored, c \in Numbers : i = task[t].id /\ c = task[t].change
  BY <1>1 DEF BankInv, Aims
<1>3. i \in Banks /\ bank[i] \in BK!Account
  BY <1>0 DEF BK!Stored, BankTypes
<1>4. CASE UNCHANGED <<bank, answers>>
  <2>1. month \in Months /\ month =< month
    BY <1>0 DEF BankTypes, Months
  <2>2. /\ task' \in [Tasks -> Request] /\ task'[t].pc = "idle" /\ task'[t].change = 0
        /\ \A u \in Tasks : u # t => task'[u] = task[u]
    BY <1>0, <1>1, BankEnds
  <2> QED
    BY <1>1, <1>4, <2>1, <2>2, BankLooks
<1>5. CASE bank' = [bank EXCEPT ![i].data = c, ![i].change = 0]
           /\ answers' = answers \cup {<<c, "approved">>}
  <2>1. PICK e \in BK!Account : e = [bank[i] EXCEPT !.data = c, !.change = 0]
    <3>1. 1 \in Months /\ 0 \in 0..MaxNumbers
      BY BankConstants DEF Months
    <3>2. \A d \in Numbers, x \in 0..MaxNumbers, m \in Months :
            [bank[i] EXCEPT !.data = d, !.change = x] \in BK!Account
      BY <1>3, BankRows
    <3> QED
      BY <3>1, <3>2
  <2>2. e.data = c /\ e.change = 0 /\ e.month = bank[i].month
    BY <1>3, <2>1 DEF BK!Account
  <2>3. bank' = [bank EXCEPT ![i] = e]
    BY <1>0, <1>3, <1>5, <2>1 DEF BankTypes
  <2> QED
    BY <1>1, <1>2, <1>5, <2>2, <2>3, BankReviewed
<1>6. CASE bank' = [bank EXCEPT ![i].change = 0]
           /\ answers' = answers \cup {<<c, "rejected">>}
  <2>1. PICK e \in BK!Account : e = [bank[i] EXCEPT !.change = 0]
    <3>1. 1 \in Months /\ 0 \in 0..MaxNumbers
      BY BankConstants DEF Months
    <3>2. \A d \in Numbers, x \in 0..MaxNumbers, m \in Months :
            [bank[i] EXCEPT !.change = x] \in BK!Account
      BY <1>3, BankRows
    <3> QED
      BY <3>1, <3>2
  <2>2. e.data = bank[i].data /\ e.change = 0 /\ e.month = bank[i].month
    BY <1>3, <2>1 DEF BK!Account
  <2>3. bank' = [bank EXCEPT ![i] = e]
    BY <1>0, <1>3, <1>6, <2>1 DEF BankTypes
  <2> QED
    BY <1>1, <1>2, <1>6, <2>2, <2>3, BankReviewed
<1> QED
  BY <1>2, <1>4, <1>5, <1>6 DEF BK!ApproveChange, BK!RejectChange

\* The lookups of the routes.
LEMMA BankStarts ==
  ASSUME BankInv, NEW t \in Tasks,
         \/ BK!Create(t) \/ BK!Crash(t)
         \/ \E i \in Banks : BK!RequestUpdate(t, i) \/ BK!ReadChange(t, i)
  PROVE  BankInv'
<1>0. BankTypes
  BY DEF BankInv
<1>1. UNCHANGED <<bank, numbers, month, asked, answers, withdrawn, faults>>
  BY DEF BK!Create, BK!Crash, BK!RequestUpdate, BK!ReadChange, BK!accountVars, BK!history
<1>2. month \in Months /\ month =< month
  BY <1>0 DEF BankTypes, Months
<1>3. CASE BK!Create(t)
  <2>1. /\ task' \in [Tasks -> Request] /\ task'[t].pc = "insert" /\ task'[t].change = 0
        /\ \A u \in Tasks : u # t => task'[u] = task[u]
    <3>1. BK!Begin(t, "insert", Nil, 0) /\ "insert" \in {"idle"} \cup BK!OfClient \cup BK!OfStaff
      BY <1>3 DEF BK!Create, BK!OfClient
    <3> QED
      BY <1>0, <3>1 DEF BK!Begin, BankTypes, Request
  <2>2. Aims(t)' /\ task'[t].change =< numbers
    BY <1>0, <2>1 DEF Aims, BK!OfStaff, BankTypes
  <2>3. ASSUME InTurn
        PROVE  OnTime(t)' /\ \A u \in Tasks \ {t} : task'[u].pc \notin BK!OfClient
    <3>1. BK!Cardinality(BK!Stored) # 1
      BY <1>3, <2>3 DEF BK!Create, BK!Fails, InTurn
    <3>2. BK!Stored = {}
      <4>1. \A i \in BK!Stored : BK!Stored = {i}
        BY <2>3 DEF BankInv, OneSide
      <4>2. \A i : Cardinality({i}) = 1
        BY FS_Singleton
      <4>3. \A S : BK!Cardinality(S) = Cardinality(S)
        BY DEF BK!Cardinality, Cardinality
      <4> QED
        BY <3>1, <4>1, <4>2, <4>3
    <3>3. BK!Stored' = {}
      BY <1>1, <3>2 DEF BK!Stored
    <3> QED
      BY <1>3, <2>1, <2>3, <3>3 DEF OnTime, BK!OfStaff, InTurn, BK!Create, BK!May
  <2> QED
    BY <1>1, <1>2, <2>1, <2>2, <2>3, BankLooks DEF BK!OfClient, BK!OfStaff
<1>4. CASE BK!Crash(t)
  <2>1. /\ task' \in [Tasks -> Request] /\ task'[t].pc = "idle" /\ task'[t].change = 0
        /\ \A u \in Tasks : u # t => task'[u] = task[u]
    BY <1>0, <1>4, BankEnds DEF BK!Crash
  <2> QED
    BY <1>1, <1>2, <2>1, BankLooks
<1>5. ASSUME NEW i \in Banks, BK!RequestUpdate(t, i) PROVE BankInv'
  <2>1. /\ task' \in [Tasks -> Request] /\ task'[t].pc = "request" /\ task'[t].change = 0
        /\ task'[t].id = i
        /\ \A u \in Tasks : u # t => task'[u] = task[u]
    <3>1. BK!Begin(t, "request", i, 0)
          /\ "request" \in {"idle"} \cup BK!OfClient \cup BK!OfStaff
      BY <1>5 DEF BK!RequestUpdate, BK!OfClient
    <3> QED
      BY <1>0, <3>1 DEF BK!Begin, BankTypes, Request
  <2>2. i \in BK!Stored /\ bank[i].change = 0 /\ bank[i].month # month
        /\ bank[i] \in BK!Account /\ BK!Stored' = BK!Stored
    BY <1>0, <1>1, <1>5 DEF BK!RequestUpdate, BK!MayChange, BK!Pending, BK!Account, BankTypes,
      BK!Stored
  <2>3. Aims(t)' /\ task'[t].change =< numbers
    BY <1>0, <2>1, <2>2 DEF Aims, BK!OfStaff, BankTypes
  <2>4. ASSUME InTurn
        PROVE  OnTime(t)' /\ \A u \in Tasks \ {t} : task'[u].pc \notin BK!OfClient
    <3>1. bank[i].month < month
      <4>1. bank[i].month =< month
        BY <2>2, <2>4 DEF BankInv, OneSide
      <4>2. bank[i].month \in Nat /\ month \in Nat
        BY <1>2, <2>2 DEF BK!Account, Months
      <4> QED
        BY <2>2, <4>1, <4>2
    <3> QED
      BY <1>1, <1>5, <2>1, <2>2, <2>4, <3>1
      DEF OnTime, BK!OfStaff, InTurn, BK!RequestUpdate, BK!May
  <2> QED
    BY <1>1, <1>2, <2>1, <2>3, <2>4, BankLooks DEF BK!OfClient, BK!OfStaff
<1>6. ASSUME NEW i \in Banks, BK!ReadChange(t, i) PROVE BankInv'
  <2>0. i \in BK!Stored /\ bank[i].change # 0
        /\ bank[i] \in BK!Account /\ BK!Stored' = BK!Stored
    BY <1>0, <1>1, <1>6 DEF BK!ReadChange, BK!Pending, BankTypes, BK!Stored
  <2>1. PICK c \in Numbers : c = bank[i].change /\ c =< numbers /\ c \in Nat
    BY <2>0, BankConstants DEF BK!Account, Numbers, BankInv, Used
  <2>2. /\ task' \in [Tasks -> Request] /\ task'[t].pc \in BK!OfStaff /\ task'[t].change = c
        /\ task'[t].id = i
        /\ \A u \in Tasks : u # t => task'[u] = task[u]
    <3>1. PICK at \in BK!OfStaff : BK!Begin(t, at, i, c)
      BY <1>6, <2>1 DEF BK!ReadChange
    <3> QED
      BY <1>0, <2>1, <3>1 DEF BK!Begin, BankTypes, Request
  <2>3. Aims(t)' /\ task'[t].change =< numbers
    BY <2>0, <2>1, <2>2 DEF Aims, BK!OfStaff
  <2>4. ASSUME InTurn
        PROVE  OnTime(t)' /\ \A u \in Tasks \ {t} : task'[u].pc \notin BK!OfStaff
    BY <1>1, <1>6, <2>0, <2>1, <2>2, <2>4
    DEF OnTime, BK!OfStaff, InTurn, BK!ReadChange, BK!May
  <2> QED
    BY <1>1, <1>2, <2>2, <2>3, <2>4, BankLooks DEF BK!OfClient, BK!OfStaff
<1> QED
  BY <1>3, <1>4, <1>5, <1>6

\* A withdrawal, the next month, the death of the process.
LEMMA BankOutside ==
  ASSUME BankInv, BK!Withdraw \/ BK!NextMonth
  PROVE  BankInv'
<1>0. BankTypes
  BY DEF BankInv
<1>1. CASE BK!Withdraw
  <2>1. PICK i \in BK!Stored : withdrawn' = withdrawn \cup {bank[i].data}
    BY <1>1 DEF BK!Withdraw
  <2>2. UNCHANGED <<bank, numbers, month, asked, answers, faults, task>>
    BY <1>1 DEF BK!Withdraw, BK!accountVars
  <2>3. bank[i].data \in Numbers /\ bank[i].data =< numbers
    BY <1>0 DEF BankTypes, BK!Stored, BK!Account, Numbers, BankInv, Used
  <2>4. BK!Stored' = BK!Stored /\ BK!Changes' = BK!Changes
    BY <2>2 DEF BK!Stored, BK!Changes
  <2>5. BankTypes' /\ Used' /\ Approved' /\ \A u \in Tasks : Aims(u)'
    BY <1>0, <2>1, <2>2, <2>3, <2>4 DEF BankTypes, BankInv, Used, Approved, Aims
  <2>6. OneSide => OneSide'
    <3>1. \A c : Waits(c)' <=> Waits(c)
      BY <2>2, <2>4 DEF Waits, BK!Answers
    <3>2. \A u \in Tasks : OnTime(u)' <=> OnTime(u)
      BY <2>2, <2>4 DEF OnTime
    <3> QED
      BY <2>2, <2>4, <3>1, <3>2 DEF OneSide
  <2> QED
    BY <2>2, <2>5, <2>6 DEF BankInv, InTurn
<1>2. CASE BK!NextMonth
  <2>1. month' \in Months /\ month =< month'
    BY <1>0, <1>2, BankConstants DEF BK!NextMonth, BankTypes, Months
  <2>2. UNCHANGED <<bank, numbers, asked, answers, withdrawn, faults, task>>
    BY <1>2 DEF BK!NextMonth, BK!history
  <2> QED
    BY <1>0, <2>1, <2>2, BankLooks DEF BankTypes
<1> QED
  BY <1>1, <1>2

\* Every step keeps it.
LEMMA BankNext == BankInv /\ BK!Next => BankInv'
BY BankInserts, BankRequests, BankReviews, BankStarts, BankOutside DEF BK!Next

\* The parts of ChangesAreReviewed follow.
LEMMA BankHolds == BankInv => BK!ChangesAreReviewed
<1> SUFFICES ASSUME BankInv PROVE BK!ChangesAreReviewed
  OBVIOUS
<1>1. \A c \in withdrawn \cap BK!Changes : <<c, "approved">> \in answers
  BY DEF BankInv, Approved
<1>2. ASSUME InTurn
      PROVE  /\ \A c \in BK!Changes :
                  BK!Cardinality(BK!Answers(c))
                    + BK!Cardinality({i \in BK!Stored : bank[i].change = c}) = 1
             /\ \A a, b \in asked : a[2] = b[2] => a = b
             /\ BK!Cardinality(BK!Stored) =< 1
  <2>1. OneSide
    BY <1>2 DEF BankInv
  <2>2. \A S : BK!Cardinality(S) = Cardinality(S)
    BY DEF BK!Cardinality, Cardinality
  <2>3. Cardinality({}) = 0 /\ \A i : Cardinality({i}) = 1
    BY FS_EmptySet, FS_Singleton
  <2>4. BK!Stored = {} \/ \E i : BK!Stored = {i}
    <3>1. \A i \in BK!Stored : BK!Stored = {i}
      BY <2>1 DEF OneSide
    <3> QED
      BY <3>1
  <2>5. ASSUME NEW c \in BK!Changes
        PROVE  Cardinality(BK!Answers(c))
                 + Cardinality({i \in BK!Stored : bank[i].change = c}) = 1
    <3>1. CASE BK!Answers(c) = {} /\ \E i \in BK!Stored : bank[i].change = c
      <4>1. PICK i : {j \in BK!Stored : bank[j].change = c} = {i}
        BY <2>1, <3>1 DEF OneSide
      <4>2. Cardinality(BK!Answers(c)) = 0 /\ Cardinality({j \in BK!Stored : bank[j].change = c}) = 1
        BY <2>3, <3>1, <4>1, Zenon
      <4> QED
        BY <4>2
    <3>2. CASE (\E a : BK!Answers(c) = {a}) /\ \A i \in BK!Stored : bank[i].change # c
      <4>1. {j \in BK!Stored : bank[j].change = c} = {}
        BY <3>2
      <4>2. Cardinality(BK!Answers(c)) = 1 /\ Cardinality({j \in BK!Stored : bank[j].change = c}) = 0
        BY <2>3, <3>2, <4>1, Zenon
      <4> QED
        BY <4>2
    <3> QED
      BY <2>1, <3>1, <3>2 DEF OneSide, Waits
  <2>6. Cardinality(BK!Stored) =< 1
    BY <2>3, <2>4
  <2>7. \A a, b \in asked : a[2] = b[2] => a = b
    BY <2>1 DEF OneSide
  <2> QED
    BY <2>2, <2>5, <2>6, <2>7
<1> QED
  BY <1>1, <1>2 DEF BK!ChangesAreReviewed, InTurn

\* The invariant holds when the part is the bank account.
LEMMA BankInvariant == Spec => [](part = "bank" => BankInv)
<1>1. Init => (part = "bank" => BankInv)
  BY BankInit DEF Init
<1>2. (part = "bank" => BankInv) /\ [Next]_vars => (part = "bank" => BankInv)'
  <2> SUFFICES ASSUME part = "bank" => BankInv, [Next]_vars, part' = "bank" PROVE BankInv'
    OBVIOUS
  <2>1. CASE UNCHANGED vars
    <3>1. BankInv /\ UNCHANGED <<bank, numbers, month, asked, answers, withdrawn, faults, task>>
      BY <2>1 DEF vars, bankOwn
    <3>2. month \in Months /\ month =< month /\ task' \in [Tasks -> Request]
      BY <3>1 DEF BankInv, BankTypes, Months
    <3> QED
      BY <3>1, <3>2, BankLooks
  <2>2. CASE Next
    BY <2>2, BankNext DEF Next
  <2> QED
    BY <2>1, <2>2
<1> QED
  BY <1>1, <1>2, PTL DEF Spec

\* No withdrawal goes to data that the staff have not approved, and every change a client
\* asks for waits or has one answer, unless requests of one side overlap (approveChange,
\* rejectChange, requestUpdate of the bank accounts).
THEOREM ChangesAreAnswered == Spec => []ChangesAreReviewed
<1>1. (part = "bank" => BankInv) => ChangesAreReviewed
  BY BankHolds DEF ChangesAreReviewed
<1> QED
  BY <1>1, BankInvariant, PTL

(***************************************************************************)
(* The people of a company at Bridge. Whom an id is of never changes once  *)
(* it is given, so whatever a row, an answer of Bridge or a send remembers *)
(* is about its own person. Unless names change, whom Bridge has is in the *)
(* list a send was given or has a key, so nobody is created twice; and     *)
(* while one send at a time loses nothing, rows and keys go together.      *)
(***************************************************************************)
\* A person at Bridge.
Human == [of : AP!Rows \cup {Nil, "namesake"}, spelling : Nat]
\* The work of a send: the rows it has to do, what it read and where it stands.
Sending == [pc : AP!Pcs, todo : SUBSET AP!Entries, names : [AP!Rows -> Nat],
            links : [AP!Rows -> PersonIds \cup {Nil}], seen : SUBSET (PersonIds \X Human),
            matched : SUBSET PersonIds, row : AP!Rows \cup {Nil}, id : PersonIds \cup {Nil}]
\* Types.
PersonTypes ==
  /\ faults \in PersonWorlds
  /\ spelling \in [AP!Rows -> Nat]
  /\ director \in [Shareholders -> Directors \cup {Nil}]
  /\ link \in [AP!Rows -> PersonIds \cup {Nil}] /\ keyed \in [AP!Rows -> PersonIds \cup {Nil}]
  /\ stored \in BOOLEAN /\ made \in BOOLEAN
  /\ persons \in [PersonIds -> Human]
  /\ synced \subseteq AP!Entries
  /\ task \in [Tasks -> Sending]
\* The person with this id is that of the row.
Theirs(x, r) == x # Nil => persons[x].of = AP!Person(r)
\* What a send remembers is about whom it was.
Remembers(k) ==
  /\ \A r \in AP!Rows : Theirs(k.links[r], r)
  /\ \A e \in k.seen : e[2].of # Nil /\ persons[e[1]].of = e[2].of
  /\ k.pc = "link" => k.row \in k.todo /\ k.id \in PersonIds /\ Theirs(k.id, k.row)
\* Rows are linked to their own person, and so are keys.
Own ==
  /\ \A r \in AP!Rows : Theirs(link[r], r) /\ Theirs(keyed[r], r)
  /\ \A r \in AP!Rows : link[r] # Nil => r \in AP!Entries
  /\ \A t \in Tasks : Remembers(task[t])
\* The places of a send that come after the customer was made.
After == {"put", "build", "get", "person", "link", "store"}
\* Without a customer Bridge has nobody.
Founded ==
  /\ ~made => AP!Made = {}
  /\ stored => made
  /\ \A t \in Tasks : task[t].pc \in After => made
\* Names do not change, nor are they shared.
Stable == faults \cap {"rename", "namesake"} = {}
\* What a send has to do, and whom it will find: everybody at Bridge is in its list or has
\* a key, and it has matched only those it is done with.
Covers(k) ==
  /\ \A r \in AP!Rows : k.names[r] = 1
  /\ k.pc \in {"idle", "post", "put", "build", "get"} => k.matched = {}
  /\ k.pc \in {"person", "link"} =>
       /\ \A x \in AP!Made : <<x, persons[x]>> \in k.seen \/ keyed[persons[x].of] # Nil
       /\ \A x \in k.matched :
            /\ persons[x].of # Nil
            /\ persons[x].of \notin k.todo \/ (k.pc = "link" /\ persons[x].of = k.row)
\* Each of them is there once.
Once ==
  /\ \A r \in AP!Rows : spelling[r] = 1
  /\ \A x \in AP!Made : persons[x].of \in AP!Rows /\ persons[x].spelling = 1
  /\ \A x, y \in AP!Made : persons[x].of = persons[y].of => x = y
  /\ \A t \in Tasks : Covers(task[t])
\* One send at a time, and nothing of it is lost.
Plain == faults \subseteq {"rename", "refuse", "replace", "legacy"}
\* What a send read is still so when nobody else moves.
UpToDate(k) ==
  /\ k.pc # "idle" => k.names = spelling
  /\ k.pc \in {"get", "person", "link"} => \A r \in k.todo : k.links[r] = link[r]
  /\ k.pc = "link" => persons[k.id].spelling = spelling[k.row]
Current ==
  /\ \A t, u \in Tasks : task[t].pc # "idle" /\ task[u].pc # "idle" => t = u
  /\ \A t \in Tasks : UpToDate(task[t])
  /\ \A r \in synced : link[r] # Nil /\ persons[link[r]].spelling = spelling[r]
  /\ \A r \in AP!Rows : keyed[r] # Nil =>
       \/ link[r] # Nil
       \/ \E t \in Tasks : task[t].pc = "link" /\ task[t].row = r
\* The inductive invariant of the people.
PersonInv == PersonTypes /\ Own /\ Founded /\ (Stable => Once) /\ (Plain => Current)

\* What the constants are.
LEMMA PersonConstants ==
  /\ Directors \cap Shareholders = {} /\ AP!Rows = Directors \cup Shareholders
  /\ Nil \notin AP!Rows /\ Nil \notin PersonIds /\ Nil # "namesake"
BY InstancesAssumption DEF AP!RowsAssumption, AP!Rows

\* The entries of a dossier and whose they are.
LEMMA EntryFacts ==
  ASSUME PersonTypes
  PROVE  /\ AP!Entries \subseteq AP!Rows
         /\ \A r \in AP!Rows : AP!Person(r) \in AP!Rows \cup {"namesake"} /\ AP!Person(r) # Nil
         /\ "namesake" \notin faults => \A r \in AP!Entries : AP!Person(r) = r
<1>1. \A r \in AP!Rows : AP!Entry(r) \in AP!Rows
  BY PersonConstants DEF PersonTypes, AP!Entry
<1>2. \A r \in AP!Rows : AP!Entry(AP!Entry(r)) = AP!Entry(r)
  BY PersonConstants DEF PersonTypes, AP!Entry
<1> QED
  BY <1>1, <1>2, PersonConstants DEF AP!Entries, AP!Person

\* They do not change.
LEMMA EntriesStay ==
  ASSUME UNCHANGED <<director, faults>>
  PROVE  /\ AP!Entries' = AP!Entries /\ \A r : AP!Person(r)' = AP!Person(r)
         /\ Stable' = Stable /\ Plain' = Plain
<1>1. \A r : AP!Entry(r)' = AP!Entry(r)
  BY DEF AP!Entry
<1>2. AP!Entries' = AP!Entries
  BY <1>1 DEF AP!Entries
<1>3. \A r : AP!Person(r)' = AP!Person(r)
  BY <1>1 DEF AP!Person
<1> QED
  BY <1>2, <1>3 DEF Stable, Plain

\* A send that is none.
LEMMA NoSendIs ==
  /\ AP!NoSend \in Sending /\ AP!NoSend.pc = "idle" /\ AP!NoSend.todo = {}
  /\ \A r \in AP!Rows : AP!NoSend.links[r] = Nil /\ AP!NoSend.names[r] = 1
  /\ AP!NoSend.seen = {} /\ AP!NoSend.matched = {} /\ AP!NoSend.row = Nil /\ AP!NoSend.id = Nil
BY DEF AP!NoSend, Sending, AP!Pcs

\* The customer is created with everybody once.
LEMMA CreatesAll ==
  ASSUME PersonTypes, AP!Made = {}, NEW names \in [AP!Rows -> Nat],
         AP!Creates(AP!Entries, names)
  PROVE  /\ persons' \in [PersonIds -> Human]
         /\ \A x \in PersonIds : persons'[x].of = Nil
              \/ \E r \in AP!Entries : persons'[x] = [of |-> AP!Person(r), spelling |-> names[r]]
         /\ "namesake" \notin faults =>
              \A x, y \in PersonIds :
                persons'[x].of # Nil /\ persons'[x].of = persons'[y].of => x = y
<1>1. PICK new \in [AP!Entries -> PersonIds \ AP!Made] :
        persons' = [x \in PersonIds |->
          IF \E r \in AP!Entries : new[r] = x
          THEN [of |-> AP!Person(CHOOSE r \in AP!Entries : new[r] = x),
                spelling |-> names[CHOOSE r \in AP!Entries : new[r] = x]]
          ELSE persons[x]]
  BY DEF AP!Creates
<1>2. ASSUME NEW x \in PersonIds
      PROVE  \/ persons'[x] = persons[x] /\ persons[x].of = Nil
             \/ \E r \in AP!Entries : new[r] = x /\
                  persons'[x] = [of |-> AP!Person(r), spelling |-> names[r]]
  <2>1. CASE \E r \in AP!Entries : new[r] = x
    <3>1. PICK r \in AP!Entries : r = CHOOSE q \in AP!Entries : new[q] = x
      BY <2>1
    <3>2. new[r] = x
      BY <2>1, <3>1
    <3> QED
      BY <1>1, <2>1, <3>1, <3>2
  <2>2. CASE ~\E r \in AP!Entries : new[r] = x
    <3>1. persons'[x] = persons[x]
      BY <1>1, <2>2
    <3>2. persons[x].of = Nil
      BY DEF AP!Made
    <3> QED
      BY <3>1, <3>2
  <2> QED
    BY <2>1, <2>2
<1>3. ASSUME NEW x \in PersonIds PROVE persons'[x] \in Human
  <2>1. CASE persons'[x] = persons[x]
    BY <2>1 DEF PersonTypes
  <2>2. CASE \E r \in AP!Entries : persons'[x] = [of |-> AP!Person(r), spelling |-> names[r]]
    BY <2>2, EntryFacts DEF Human
  <2> QED
    BY <1>2, <2>1, <2>2
<1>4. persons' \in [PersonIds -> Human]
  <2>1. persons' = [x \in PersonIds |-> persons'[x]]
    BY <1>1
  <2> QED
    BY <1>3, <2>1
<1>5. ASSUME "namesake" \notin faults, NEW x \in PersonIds, NEW y \in PersonIds,
             persons'[x].of # Nil, persons'[x].of = persons'[y].of
      PROVE  x = y
  <2>1. PICK r \in AP!Entries : new[r] = x /\ persons'[x].of = AP!Person(r)
    <3>1. ~(persons'[x] = persons[x] /\ persons[x].of = Nil)
      BY <1>5
    <3>2. PICK r \in AP!Entries : new[r] = x /\
            persons'[x] = [of |-> AP!Person(r), spelling |-> names[r]]
      BY <1>2, <3>1
    <3> QED
      BY <3>2
  <2>2. PICK q \in AP!Entries : new[q] = y /\ persons'[y].of = AP!Person(q)
    <3>1. ~(persons'[y] = persons[y] /\ persons[y].of = Nil)
      BY <1>5
    <3>2. PICK q \in AP!Entries : new[q] = y /\
            persons'[y] = [of |-> AP!Person(q), spelling |-> names[q]]
      BY <1>2, <3>1
    <3> QED
      BY <3>2
  <2>3. r = q
    BY <1>5, <2>1, <2>2, EntryFacts
  <2> QED
    BY <2>1, <2>2, <2>3
<1> QED
  BY <1>2, <1>4, <1>5

\* No send has begun.
LEMMA PersonInit == AP!Init => PersonInv
<1> SUFFICES ASSUME AP!Init PROVE PersonInv
  OBVIOUS
<1>1. /\ faults \in PersonWorlds /\ spelling = [r \in AP!Rows |-> 1]
      /\ director \in [Shareholders -> Directors \cup {Nil}]
      /\ link = [r \in AP!Rows |-> Nil] /\ keyed = [r \in AP!Rows |-> Nil] /\ synced = {}
      /\ task = [t \in Tasks |-> AP!NoSend]
  BY PersonConstants DEF AP!Init
<1>2. /\ stored \in BOOLEAN /\ made \in BOOLEAN /\ stored = made
      /\ persons \in [PersonIds -> Human]
      /\ ~made => \A x \in PersonIds : persons[x].of = Nil
      /\ \A x \in PersonIds : persons[x].spelling = 1
      /\ \A x \in PersonIds : persons[x].of # Nil => persons[x].of \in AP!Rows
      /\ \A x, y \in PersonIds : persons[x].of # Nil /\ persons[x].of = persons[y].of => x = y
  <2>1. CASE "legacy" \in faults
    <3>1. PICK new \in [AP!Entries -> PersonIds] :
            persons = [x \in PersonIds |->
              IF \E r \in AP!Entries : new[r] = x
              THEN [of |-> CHOOSE r \in AP!Entries : new[r] = x, spelling |-> 1]
              ELSE AP!Nobody]
      BY <2>1 DEF AP!Init
    <3>2. AP!Entries \subseteq AP!Rows
      BY <1>1, PersonConstants DEF AP!Entries, AP!Entry
    <3>3. ASSUME NEW x \in PersonIds
          PROVE  \/ persons[x] = AP!Nobody
                 \/ \E r \in AP!Entries : new[r] = x /\ persons[x] = [of |-> r, spelling |-> 1]
      <4>1. CASE \E r \in AP!Entries : new[r] = x
        <5>1. PICK r \in AP!Entries : r = CHOOSE q \in AP!Entries : new[q] = x
          BY <4>1
        <5> QED
          BY <3>1, <4>1, <5>1
      <4> QED
        BY <3>1, <4>1
    <3>4. ASSUME NEW x \in PersonIds
          PROVE  /\ persons[x] \in Human /\ persons[x].spelling = 1
                 /\ persons[x].of # Nil => \E r \in AP!Entries : new[r] = x /\ persons[x].of = r
      <4>1. CASE persons[x] = AP!Nobody
        BY <4>1 DEF Human, AP!Nobody
      <4>2. CASE \E r \in AP!Entries : new[r] = x /\ persons[x] = [of |-> r, spelling |-> 1]
        <5>1. PICK r \in AP!Entries : new[r] = x /\ persons[x] = [of |-> r, spelling |-> 1]
          BY <4>2
        <5>2. r \in AP!Rows
          BY <3>2
        <5> QED
          BY <5>1, <5>2 DEF Human
      <4> QED
        BY <3>3, <4>1, <4>2
    <3>5. persons \in [PersonIds -> Human]
      <4>1. persons = [x \in PersonIds |-> persons[x]]
        BY <3>1
      <4> QED
        BY <3>4, <4>1
    <3>6. \A x, y \in PersonIds : persons[x].of # Nil /\ persons[x].of = persons[y].of => x = y
      BY <3>4
    <3>7. \A x \in PersonIds : persons[x].of # Nil => persons[x].of \in AP!Rows
      BY <3>2, <3>4
    <3> QED
      BY <2>1, <3>4, <3>5, <3>6, <3>7 DEF AP!Init
  <2>2. CASE "legacy" \notin faults
    <3>1. stored = FALSE /\ made = FALSE /\ persons = [x \in PersonIds |-> AP!Nobody]
      BY <2>2 DEF AP!Init
    <3> QED
      BY <3>1 DEF Human, AP!Nobody
  <2> QED
    BY <2>1, <2>2
<1>3. PersonTypes
  BY <1>1, <1>2, NoSendIs DEF PersonTypes
<1>4. Own
  BY <1>1, NoSendIs DEF Own, Theirs, Remembers
<1>5. Founded
  BY <1>1, <1>2, NoSendIs DEF Founded, AP!Made, After
<1>6. Once
  BY <1>1, <1>2, NoSendIs DEF Once, Covers, AP!Made
<1>7. Current
  BY <1>1, NoSendIs DEF Current, UpToDate
<1> QED
  BY <1>3, <1>4, <1>5, <1>6, <1>7 DEF PersonInv

\* What a send puts, and the others.
LEMMA SendPuts ==
  ASSUME task \in [Tasks -> Sending], NEW t \in Tasks, NEW k \in Sending, AP!Put(t, k)
  PROVE  /\ task' \in [Tasks -> Sending] /\ task'[t] = k
         /\ \A u \in Tasks : u # t => task'[u] = task[u]
BY DEF AP!Put

\* A step of a send: what it keeps of types and of whom things are.
LEMMA SendOwns ==
  ASSUME PersonTypes, Own, Founded, UNCHANGED <<director, faults, spelling>>,
         NEW t \in Tasks, NEW k \in Sending, AP!Put(t, k),
         persons' \in [PersonIds -> Human],
         \A x \in PersonIds : persons[x].of # Nil => persons'[x].of = persons[x].of,
         link' \in [AP!Rows -> PersonIds \cup {Nil}],
         keyed' \in [AP!Rows -> PersonIds \cup {Nil}],
         stored' \in BOOLEAN, made' \in BOOLEAN, synced' \subseteq AP!Entries,
         \A r \in AP!Rows : link'[r] = link[r]
           \/ (r \in AP!Entries /\ persons'[link'[r]].of = AP!Person(r)),
         \A r \in AP!Rows : keyed'[r] = keyed[r] \/ persons'[keyed'[r]].of = AP!Person(r),
         \A r \in AP!Rows : k.links[r] # Nil => persons[k.links[r]].of = AP!Person(r),
         \A e \in k.seen : e[2].of # Nil /\ persons[e[1]].of = e[2].of,
         k.pc = "link" => /\ k.row \in k.todo /\ k.id \in PersonIds
                          /\ persons'[k.id].of = AP!Person(k.row),
         ~made' => AP!Made' = {}, stored' => made', made => made', k.pc \in After => made'
  PROVE  (PersonTypes /\ Own /\ Founded)'
<1>1. /\ AP!Entries' = AP!Entries /\ \A r : AP!Person(r)' = AP!Person(r)
      /\ task' \in [Tasks -> Sending] /\ task'[t] = k
      /\ \A u \in Tasks : u # t => task'[u] = task[u]
  BY EntriesStay, SendPuts DEF PersonTypes
<1>2. PersonTypes'
  <2>1. Sending' = Sending
    BY <1>1 DEF Sending, AP!Rows, Human, AP!Pcs
  <2> QED
    BY <1>1, <2>1 DEF PersonTypes, Human, AP!Rows
<1>3. ASSUME NEW x \in PersonIds, NEW r \in AP!Rows, persons[x].of = AP!Person(r)
      PROVE  persons'[x].of = AP!Person(r)
  BY <1>3, EntryFacts
<1>4. \A r \in AP!Rows : Theirs(link[r], r)'
  <2> SUFFICES ASSUME NEW r \in AP!Rows, link'[r] # Nil
               PROVE  persons'[link'[r]].of = AP!Person(r)
    BY <1>1 DEF Theirs
  <2> QED
    BY <1>3 DEF Own, Theirs, PersonTypes
<1>5. \A r \in AP!Rows : Theirs(keyed[r], r)'
  <2> SUFFICES ASSUME NEW r \in AP!Rows, keyed'[r] # Nil
               PROVE  persons'[keyed'[r]].of = AP!Person(r)
    BY <1>1 DEF Theirs
  <2> QED
    BY <1>3 DEF Own, Theirs, PersonTypes
<1>6. \A r \in AP!Rows : link'[r] # Nil => r \in AP!Entries'
  BY <1>1 DEF Own
<1>7. ASSUME NEW u \in Tasks, NEW h \in Sending, h = task'[u]
      PROVE  /\ \A r \in AP!Rows : h.links[r] # Nil => persons'[h.links[r]].of = AP!Person(r)
             /\ \A e \in h.seen : e[2].of # Nil /\ persons'[e[1]].of = e[2].of
             /\ h.pc = "link" => /\ h.row \in h.todo /\ h.id \in PersonIds
                                 /\ persons'[h.id].of = AP!Person(h.row)
  <2>1. CASE u = t
    <3>1. h = k
      BY <1>1, <1>7, <2>1
    <3>2. \A r \in AP!Rows : h.links[r] \in PersonIds \cup {Nil}
      BY DEF Sending
    <3>3. \A e \in h.seen : e[1] \in PersonIds
      BY DEF Sending
    <3> QED
      BY <1>3, <3>1, <3>2, <3>3
  <2>2. CASE u # t
    <3>1. h = task[u] /\ Remembers(h)
      BY <1>1, <1>7, <2>2 DEF Own
    <3>2. \A r \in AP!Rows : h.links[r] \in PersonIds \cup {Nil}
      BY DEF Sending
    <3>3. \A e \in h.seen : e[1] \in PersonIds
      BY DEF Sending
    <3>4. h.todo \subseteq AP!Rows
      BY EntryFacts DEF Sending
    <3>5. /\ \A r \in AP!Rows : h.links[r] # Nil => persons[h.links[r]].of = AP!Person(r)
          /\ \A e \in h.seen : e[2].of # Nil /\ persons[e[1]].of = e[2].of
          /\ h.pc = "link" => /\ h.row \in h.todo /\ h.id \in PersonIds
                              /\ persons[h.id].of = AP!Person(h.row)
      BY <3>1, PersonConstants DEF Remembers, Theirs
    <3> QED
      BY <1>3, <3>2, <3>3, <3>4, <3>5
  <2> QED
    BY <2>1, <2>2
<1>8. \A u \in Tasks : Remembers(task[u])'
  <2> SUFFICES ASSUME NEW u \in Tasks
               PROVE  /\ \A r \in AP!Rows : Theirs(task[u].links[r], r)'
                      /\ \A e \in task'[u].seen : e[2].of # Nil /\ persons'[e[1]].of = e[2].of
                      /\ task'[u].pc = "link" =>
                           /\ task'[u].row \in task'[u].todo /\ task'[u].id \in PersonIds
                           /\ Theirs(task[u].id, task[u].row)'
    BY DEF Remembers, AP!Rows
  <2>1. task'[u] \in Sending
    BY <1>1
  <2>2. /\ \A r \in AP!Rows : task'[u].links[r] # Nil
               => persons'[task'[u].links[r]].of = AP!Person(r)
        /\ \A e \in task'[u].seen : e[2].of # Nil /\ persons'[e[1]].of = e[2].of
        /\ task'[u].pc = "link" => /\ task'[u].row \in task'[u].todo
                                   /\ task'[u].id \in PersonIds
                                   /\ persons'[task'[u].id].of = AP!Person(task'[u].row)
    BY <1>7, <2>1
  <2> QED
    BY <1>1, <2>2 DEF Theirs
<1>9. Own'
  BY <1>4, <1>5, <1>6, <1>8 DEF Own, AP!Rows
<1>10. Founded'
  BY <1>1 DEF Founded
<1> QED
  BY <1>2, <1>9, <1>10

\* What a send may become: it ends, it goes on elsewhere, or it takes up a row.
LEMMA SendSteps ==
  ASSUME PersonTypes, Own, Founded, NEW t \in Tasks
  PROVE  /\ task[t] \in Sending /\ AP!NoSend \in Sending
         /\ \A at \in AP!Pcs :
              LET k == [task[t] EXCEPT !.pc = at] IN
              /\ k \in Sending /\ k.pc = at
              /\ k.todo = task[t].todo /\ k.names = task[t].names /\ k.links = task[t].links
              /\ k.seen = task[t].seen /\ k.matched = task[t].matched
              /\ k.row = task[t].row /\ k.id = task[t].id
         /\ \A r \in AP!Rows, x \in PersonIds :
              LET k == [task[t] EXCEPT !.pc = "link", !.row = r, !.id = x,
                                       !.matched = @ \cup {x}] IN
              /\ k \in Sending /\ k.pc = "link"
              /\ k.todo = task[t].todo /\ k.names = task[t].names /\ k.links = task[t].links
              /\ k.seen = task[t].seen /\ k.matched = task[t].matched \cup {x}
              /\ k.row = r /\ k.id = x
         /\ \A r \in AP!Rows : task[t].links[r] # Nil => persons[task[t].links[r]].of = AP!Person(r)
         /\ \A e \in task[t].seen : e[2].of # Nil /\ persons[e[1]].of = e[2].of
         /\ task[t].pc = "link" => /\ task[t].row \in task[t].todo /\ task[t].id \in PersonIds
                                   /\ persons[task[t].id].of = AP!Person(task[t].row)
<1>1. task[t] \in Sending /\ Remembers(task[t])
  BY DEF PersonTypes, Own
<1>2. \A at \in AP!Pcs :
        LET k == [task[t] EXCEPT !.pc = at] IN
        /\ k \in Sending /\ k.pc = at
        /\ k.todo = task[t].todo /\ k.names = task[t].names /\ k.links = task[t].links
        /\ k.seen = task[t].seen /\ k.matched = task[t].matched
        /\ k.row = task[t].row /\ k.id = task[t].id
  BY <1>1 DEF Sending
<1>3. \A r \in AP!Rows, x \in PersonIds :
        LET k == [task[t] EXCEPT !.pc = "link", !.row = r, !.id = x,
                                 !.matched = @ \cup {x}] IN
        /\ k \in Sending /\ k.pc = "link"
        /\ k.todo = task[t].todo /\ k.names = task[t].names /\ k.links = task[t].links
        /\ k.seen = task[t].seen /\ k.matched = task[t].matched \cup {x}
        /\ k.row = r /\ k.id = x
  BY <1>1 DEF Sending, AP!Pcs
<1> QED
  BY <1>1, <1>2, <1>3, NoSendIs, PersonConstants DEF Remembers, Theirs

\* Whom a send may take for the next row is the person of the row.
LEMMA CandidatesAreTheirs ==
  ASSUME PersonTypes, Own, NEW t \in Tasks, NEW r \in AP!Rows, NEW x \in AP!Candidates(t, r)
  PROVE  x \in PersonIds /\ persons[x].of = AP!Person(r)
<1>1. task[t] \in Sending /\ Remembers(task[t])
  BY DEF PersonTypes, Own
<1>2. CASE task[t].links[r] # Nil
  BY <1>1, <1>2 DEF AP!Candidates, Remembers, Theirs, Sending
<1>3. CASE task[t].links[r] = Nil
  <2>1. /\ x \in PersonIds
        /\ <<x, [of |-> AP!Person(r), spelling |-> task[t].names[r]]>> \in task[t].seen
    BY <1>3 DEF AP!Candidates
  <2> QED
    BY <1>1, <2>1 DEF Remembers
<1> QED
  BY <1>2, <1>3

\* A send that ends keeps the rest.
LEMMA SendEnds ==
  ASSUME PersonTypes, Own, Founded, NEW t \in Tasks, AP!Done(t),
         UNCHANGED <<director, faults, spelling, link, keyed, persons, synced, made>>,
         stored' \in BOOLEAN, stored' => made
  PROVE  (PersonTypes /\ Own /\ Founded)'
<1>1. AP!Made' = AP!Made
  BY DEF AP!Made
<1> QED
  BY <1>1, SendOwns, NoSendIs DEF AP!Done, PersonTypes, Founded, After

\* Starting, and the calls about the customer.
LEMMA CustomerOwns ==
  ASSUME PersonTypes, Own, Founded, NEW t \in Tasks,
         \/ AP!Start(t) \/ AP!PostCustomer(t) \/ AP!PutCustomer(t)
         \/ AP!BuildAssociatedPersons(t) \/ AP!GetPersons(t) \/ AP!Store(t)
  PROVE  (PersonTypes /\ Own /\ Founded)'
<1>1. /\ task[t] \in Sending
      /\ \A r \in AP!Rows : task[t].links[r] # Nil => persons[task[t].links[r]].of = AP!Person(r)
      /\ \A e \in task[t].seen : e[2].of # Nil /\ persons[e[1]].of = e[2].of
  BY SendSteps
<1>2. CASE AP!Start(t)
  <2> DEFINE k == [AP!NoSend EXCEPT !.pc = IF stored THEN "put" ELSE "post",
                                    !.names = spelling]
  <2>1. /\ k \in Sending /\ k.links = AP!NoSend.links /\ k.seen = {}
        /\ k.pc = IF stored THEN "put" ELSE "post"
    BY NoSendIs DEF PersonTypes, Sending, AP!Pcs, AP!NoSend
  <2>2. AP!Put(t, k) /\ UNCHANGED <<made, persons, keyed, spelling, director, link, stored,
                                     synced, faults>>
    BY <1>2 DEF AP!Start, AP!bridgeVars, AP!rowVars
  <2>3. AP!Made' = AP!Made
    BY <2>2 DEF AP!Made
  <2> HIDE DEF k
  <2> QED
    BY <2>1, <2>2, <2>3, NoSendIs, SendOwns DEF PersonTypes, Founded, After
<1>3. CASE AP!PostCustomer(t)
  <2>1. UNCHANGED <<keyed, spelling, director, link, stored, synced, faults>>
    BY <1>3 DEF AP!PostCustomer, AP!OnlyBridge, AP!rowVars
  <2>2. CASE UNCHANGED <<made, persons>> /\ AP!Done(t)
    BY <2>1, <2>2, SendEnds DEF PersonTypes, Founded
  <2>3. CASE /\ IF made THEN UNCHANGED persons ELSE AP!Creates(AP!Entries, task[t].names)
             /\ made' = TRUE
             /\ AP!Goto(t, "build") \/ AP!Done(t)
    <3>1. /\ persons' \in [PersonIds -> Human]
          /\ \A x \in PersonIds : persons[x].of # Nil => persons'[x].of = persons[x].of
      <4>1. CASE made
        BY <2>3, <4>1 DEF PersonTypes
      <4>2. CASE ~made
        <5>1. AP!Made = {} /\ AP!Creates(AP!Entries, task[t].names)
              /\ task[t].names \in [AP!Rows -> Nat]
          BY <1>1, <2>3, <4>2 DEF Founded, Sending
        <5> QED
          BY <5>1, CreatesAll DEF AP!Made
      <4> QED
        BY <4>1, <4>2
    <3>2. CASE AP!Goto(t, "build")
      <4> DEFINE k == [task[t] EXCEPT !.pc = "build"]
      <4>1. AP!Put(t, k)
        BY <3>2 DEF AP!Goto
      <4>2. k \in Sending /\ k.pc = "build" /\ k.links = task[t].links /\ k.seen = task[t].seen
        BY SendSteps DEF AP!Pcs
      <4> HIDE DEF k
      <4> QED
        BY <1>1, <2>1, <2>3, <3>1, <4>1, <4>2, SendOwns DEF PersonTypes, Founded
    <3>3. CASE AP!Done(t)
      BY <2>1, <2>3, <3>1, <3>3, NoSendIs, SendOwns DEF PersonTypes, Founded, AP!Done
    <3> QED
      BY <2>3, <3>2, <3>3
  <2> QED
    BY <1>3, <2>2, <2>3 DEF AP!PostCustomer, AP!Refused, AP!Lost
<1>4. CASE AP!PutCustomer(t)
  <2>1. UNCHANGED <<made, persons, keyed, spelling, director, link, stored, synced, faults>>
        /\ AP!Made' = AP!Made
    BY <1>4 DEF AP!PutCustomer, AP!OnlyBridge, AP!rowVars, AP!bridgeVars, AP!Made
  <2>2. CASE AP!Goto(t, "build")
    <3> DEFINE k == [task[t] EXCEPT !.pc = "build"]
    <3>1. AP!Put(t, k)
      BY <2>2 DEF AP!Goto
    <3>2. k \in Sending /\ k.pc = "build" /\ k.links = task[t].links /\ k.seen = task[t].seen
      BY SendSteps DEF AP!Pcs
    <3>3. made
      BY <1>4 DEF AP!PutCustomer, AP!At, Founded, After
    <3> HIDE DEF k
    <3> QED
      BY <1>1, <2>1, <3>1, <3>2, <3>3, SendOwns DEF PersonTypes, Founded
  <2>3. CASE AP!Done(t)
    BY <2>1, <2>3, SendEnds DEF PersonTypes, Founded
  <2> QED
    BY <1>4, <2>2, <2>3 DEF AP!PutCustomer, AP!Refused, AP!Lost
<1>5. CASE AP!BuildAssociatedPersons(t)
  <2> DEFINE k == [task[t] EXCEPT !.pc = "get", !.todo = AP!Entries, !.names = spelling,
                                  !.links = link]
  <2>1. UNCHANGED <<made, persons, keyed, spelling, director, link, stored, synced, faults>>
        /\ AP!Made' = AP!Made
    BY <1>5 DEF AP!BuildAssociatedPersons, AP!OnlyBridge, AP!rowVars, AP!bridgeVars, AP!Made
  <2>2. AP!Put(t, k) /\ made
    BY <1>5 DEF AP!BuildAssociatedPersons, AP!At, Founded, After
  <2>3. k \in Sending /\ k.pc = "get" /\ k.links = link /\ k.seen = task[t].seen
    BY <1>1 DEF Sending, PersonTypes, AP!Pcs
  <2>4. \A r \in AP!Rows : link[r] # Nil => persons[link[r]].of = AP!Person(r)
    BY DEF Own, Theirs
  <2> HIDE DEF k
  <2> QED
    BY <1>1, <2>1, <2>2, <2>3, <2>4, SendOwns DEF PersonTypes, Founded
<1>6. CASE AP!GetPersons(t)
  <2>1. UNCHANGED <<made, persons, keyed, spelling, director, link, stored, synced, faults>>
        /\ AP!Made' = AP!Made
    BY <1>6 DEF AP!GetPersons, AP!OnlyBridge, AP!rowVars, AP!bridgeVars, AP!Made
  <2> DEFINE list == {<<x, persons[x]>> : x \in AP!Made}
             k == [task[t] EXCEPT !.pc = "person", !.seen = list]
  <2>2. CASE AP!Put(t, k)
    <3>1. list \in SUBSET (PersonIds \X Human)
      BY DEF AP!Made, PersonTypes
    <3>2. \A e \in list : e[2].of # Nil /\ persons[e[1]].of = e[2].of
      BY DEF AP!Made
    <3> HIDE DEF list
    <3>3. k \in Sending /\ k.pc = "person" /\ k.links = task[t].links /\ k.seen = list
      BY <1>1, <3>1 DEF Sending, AP!Pcs
    <3>4. made
      BY <1>6 DEF AP!GetPersons, AP!At, Founded, After
    <3> HIDE DEF k
    <3> QED
      BY <1>1, <2>1, <2>2, <3>2, <3>3, <3>4, SendOwns DEF PersonTypes, Founded
  <2>3. CASE AP!Done(t)
    BY <2>1, <2>3, SendEnds DEF PersonTypes, Founded
  <2> QED
    BY <1>6, <2>2, <2>3 DEF AP!GetPersons, AP!Refused
<1>7. CASE AP!Store(t)
  BY <1>7, SendEnds DEF AP!Store, AP!At, AP!rowVars, AP!bridgeVars, PersonTypes, Founded, After
<1> QED
  BY <1>2, <1>3, <1>4, <1>5, <1>6, <1>7

\* The next row: its person is updated or created, and it is linked to him.
LEMMA RowOwns ==
  ASSUME PersonTypes, Own, Founded, NEW t \in Tasks,
         \/ \E r \in AP!Rows : AP!PutPerson(t, r) \/ AP!Ambiguous(t, r) \/ AP!PostPerson(t, r)
         \/ AP!LinkPerson(t)
  PROVE  (PersonTypes /\ Own /\ Founded)'
<1>1. /\ task[t] \in Sending
      /\ \A r \in AP!Rows : task[t].links[r] # Nil => persons[task[t].links[r]].of = AP!Person(r)
      /\ \A e \in task[t].seen : e[2].of # Nil /\ persons[e[1]].of = e[2].of
      /\ task[t].pc = "link" => /\ task[t].row \in task[t].todo /\ task[t].id \in PersonIds
                                /\ persons[task[t].id].of = AP!Person(task[t].row)
      /\ task[t].todo \subseteq AP!Entries /\ AP!Entries \subseteq AP!Rows
  BY SendSteps, EntryFacts DEF Sending
<1>2. ASSUME NEW r \in AP!Rows, NEW x \in PersonIds, r \in task[t].todo, made,
             persons' \in [PersonIds -> Human],
             \A y \in PersonIds : persons[y].of # Nil => persons'[y].of = persons[y].of,
             persons'[x].of = AP!Person(r),
             keyed' \in [AP!Rows -> PersonIds \cup {Nil}],
             \A q \in AP!Rows : keyed'[q] = keyed[q] \/ persons'[keyed'[q]].of = AP!Person(q),
             UNCHANGED <<made, spelling, director, link, stored, synced, faults>>,
             AP!Matched(t, r, x) \/ AP!Done(t)
      PROVE  (PersonTypes /\ Own /\ Founded)'
  <2>1. CASE AP!Matched(t, r, x)
    <3> DEFINE k == [task[t] EXCEPT !.pc = "link", !.row = r, !.id = x,
                                    !.matched = @ \cup {x}]
    <3>1. AP!Put(t, k)
      BY <2>1 DEF AP!Matched
    <3>2. /\ k \in Sending /\ k.pc = "link" /\ k.todo = task[t].todo
          /\ k.links = task[t].links /\ k.seen = task[t].seen /\ k.row = r /\ k.id = x
      BY <1>1 DEF Sending, AP!Pcs
    <3> HIDE DEF k
    <3> QED
      BY <1>1, <1>2, <3>1, <3>2, SendOwns DEF PersonTypes
  <2>2. CASE AP!Done(t)
    BY <1>2, <2>2, NoSendIs, SendOwns DEF PersonTypes, AP!Done
  <2> QED
    BY <1>2, <2>1, <2>2
<1>3. CASE \E r \in AP!Rows : AP!PutPerson(t, r)
  <2>1. PICK r \in AP!Rows : AP!PutPerson(t, r)
    BY <1>3
  <2>2. /\ r \in task[t].todo /\ made
        /\ UNCHANGED <<made, keyed, spelling, director, link, stored, synced, faults>>
    BY <2>1 DEF AP!PutPerson, AP!IsNext, AP!At, AP!OnlyBridge, AP!rowVars, Founded, After
  <2>3. PICK x \in AP!Candidates(t, r) :
          \/ /\ persons' = [persons EXCEPT ![x].spelling = task[t].names[r]]
             /\ AP!Matched(t, r, x) \/ AP!Lost(t)
          \/ AP!Refused(t) /\ UNCHANGED persons
    BY <2>1 DEF AP!PutPerson
  <2>4. x \in PersonIds /\ persons[x].of = AP!Person(r)
    BY <2>3, CandidatesAreTheirs
  <2>5. CASE /\ persons' = [persons EXCEPT ![x].spelling = task[t].names[r]]
             /\ AP!Matched(t, r, x) \/ AP!Lost(t)
    <3>1. task[t].names[r] \in Nat
      BY <1>1 DEF Sending
    <3>2. persons' \in [PersonIds -> Human] /\ \A y \in PersonIds : persons'[y].of = persons[y].of
      BY <2>4, <2>5, <3>1 DEF PersonTypes, Human
    <3> QED
      BY <1>2, <2>2, <2>4, <2>5, <3>2 DEF PersonTypes, AP!Lost
  <2>6. CASE AP!Refused(t) /\ UNCHANGED persons
    BY <2>2, <2>6, SendEnds DEF AP!Refused, PersonTypes, Founded
  <2> QED
    BY <2>3, <2>5, <2>6
<1>4. CASE \E r \in AP!Rows : AP!Ambiguous(t, r)
  BY <1>4, SendEnds DEF AP!Ambiguous, AP!OnlyBridge, AP!rowVars, AP!bridgeVars, PersonTypes,
    Founded
<1>5. CASE \E r \in AP!Rows : AP!PostPerson(t, r)
  <2>1. PICK r \in AP!Rows : AP!PostPerson(t, r)
    BY <1>5
  <2>2. /\ r \in task[t].todo /\ made
        /\ UNCHANGED <<made, spelling, director, link, stored, synced, faults>>
    BY <2>1 DEF AP!PostPerson, AP!IsNext, AP!At, AP!OnlyBridge, AP!rowVars, Founded, After
  <2>3. CASE AP!Refused(t) /\ UNCHANGED <<persons, keyed>>
    BY <2>2, <2>3, SendEnds DEF AP!Refused, PersonTypes, Founded
  <2>4. CASE \E x \in PersonIds :
               /\ IF keyed[r] = Nil
                  THEN /\ x \notin AP!Made
                       /\ persons' = [persons EXCEPT ![x] =
                                       [of |-> AP!Person(r), spelling |-> task[t].names[r]]]
                       /\ keyed' = [keyed EXCEPT ![r] = x]
                  ELSE x = keyed[r] /\ UNCHANGED <<persons, keyed>>
               /\ AP!Matched(t, r, x) \/ AP!Lost(t)
    <3>1. PICK x \in PersonIds :
               /\ IF keyed[r] = Nil
                  THEN /\ x \notin AP!Made
                       /\ persons' = [persons EXCEPT ![x] =
                                       [of |-> AP!Person(r), spelling |-> task[t].names[r]]]
                       /\ keyed' = [keyed EXCEPT ![r] = x]
                  ELSE x = keyed[r] /\ UNCHANGED <<persons, keyed>>
               /\ AP!Matched(t, r, x) \/ AP!Lost(t)
      BY <2>4
    <3>2. CASE keyed[r] = Nil
      <4>1. /\ persons' \in [PersonIds -> Human]
            /\ \A y \in PersonIds : persons[y].of # Nil => persons'[y].of = persons[y].of
            /\ persons'[x].of = AP!Person(r)
        <5>1. [of |-> AP!Person(r), spelling |-> task[t].names[r]] \in Human
          BY <1>1, EntryFacts DEF Sending, Human
        <5>2. persons[x].of = Nil
          BY <3>1, <3>2 DEF AP!Made
        <5> QED
          BY <3>1, <3>2, <5>1, <5>2 DEF PersonTypes
      <4>2. /\ keyed' \in [AP!Rows -> PersonIds \cup {Nil}]
            /\ keyed'[r] = x /\ \A q \in AP!Rows : q # r => keyed'[q] = keyed[q]
        BY <3>1, <3>2 DEF PersonTypes
      <4>3. \A q \in AP!Rows : keyed'[q] = keyed[q] \/ persons'[keyed'[q]].of = AP!Person(q)
        BY <4>1, <4>2
      <4> QED
        BY <1>2, <2>2, <3>1, <4>1, <4>2, <4>3 DEF AP!Lost
    <3>3. CASE keyed[r] # Nil
      <4>1. persons[x].of = AP!Person(r) /\ UNCHANGED <<persons, keyed>>
        BY <3>1, <3>3 DEF Own, Theirs
      <4> QED
        BY <1>2, <2>2, <3>1, <4>1 DEF AP!Lost, PersonTypes
    <3> QED
      BY <3>2, <3>3
  <2> QED
    BY <2>1, <2>3, <2>4 DEF AP!PostPerson
<1>6. CASE AP!LinkPerson(t)
  <2> DEFINE r == task[t].row
             left == task[t].todo \ {r}
             k == [task[t] EXCEPT !.pc = IF left = {} THEN "store" ELSE "person",
                                  !.todo = left, !.row = Nil, !.id = Nil]
  <2>1. /\ task[t].pc = "link" /\ made
        /\ UNCHANGED <<made, persons, keyed, spelling, director, stored, faults>>
        /\ AP!Made' = AP!Made
    BY <1>6 DEF AP!LinkPerson, AP!At, AP!bridgeVars, Founded, After, AP!Made
  <2>2. CASE AP!Done(t) /\ UNCHANGED <<link, synced>>
    BY <2>1, <2>2, SendEnds DEF PersonTypes, Founded
  <2>3. CASE /\ link' = [link EXCEPT ![r] = task[t].id]
             /\ synced' = IF spelling[r] = task[t].names[r]
                          THEN synced \cup {r} ELSE synced
             /\ AP!Put(t, k)
    <3>1. /\ k \in Sending /\ k.pc \in {"store", "person"}
          /\ k.links = task[t].links /\ k.seen = task[t].seen
      BY <1>1 DEF Sending, AP!Pcs
    <3>2. /\ r \in AP!Entries /\ r \in AP!Rows /\ task[t].id \in PersonIds
          /\ persons[task[t].id].of = AP!Person(r)
      BY <1>1, <2>1
    <3>3. /\ link' \in [AP!Rows -> PersonIds \cup {Nil}] /\ synced' \subseteq AP!Entries
          /\ \A q \in AP!Rows : link'[q] = link[q]
               \/ (q \in AP!Entries /\ persons'[link'[q]].of = AP!Person(q))
      BY <2>1, <2>3, <3>2 DEF PersonTypes
    <3> HIDE DEF k, r
    <3> QED
      BY <1>1, <2>1, <2>3, <3>1, <3>3, SendOwns DEF PersonTypes, Founded
  <2> QED
    BY <1>6, <2>2, <2>3 DEF AP!LinkPerson
<1> QED
  BY <1>3, <1>4, <1>5, <1>6

\* What the client corrects or saves anew while nothing is sent, and a crash.
LEMMA ClientOwns ==
  ASSUME PersonTypes, Own, Founded,
         (\E r \in AP!Rows : AP!Rename(r) \/ AP!Replace(r)) \/ AP!Crash
  PROVE  (PersonTypes /\ Own /\ Founded)'
<1>1. UNCHANGED <<director, faults, persons, made, stored>> /\ AP!Made' = AP!Made
  BY DEF AP!Rename, AP!Replace, AP!Crash, AP!bridgeVars, AP!OnlyBridge, AP!rowVars, AP!Made
<1>2. AP!Entries' = AP!Entries /\ \A r : AP!Person(r)' = AP!Person(r)
  BY <1>1, EntriesStay
<1>3. /\ spelling' \in [AP!Rows -> Nat] /\ synced' \subseteq AP!Entries
      /\ link' \in [AP!Rows -> PersonIds \cup {Nil}]
      /\ keyed' \in [AP!Rows -> PersonIds \cup {Nil}]
      /\ \A r \in AP!Rows : link'[r] \in {link[r], Nil} /\ keyed'[r] \in {keyed[r], Nil}
      /\ task' \in [Tasks -> Sending]
      /\ \A t \in Tasks : task'[t] \in {task[t], AP!NoSend}
  <2>1. CASE \E r \in AP!Rows : AP!Rename(r)
    BY <2>1 DEF AP!Rename, AP!bridgeVars, PersonTypes
  <2>2. CASE \E r \in AP!Rows : AP!Replace(r)
    BY <2>2 DEF AP!Replace, PersonTypes
  <2>3. CASE AP!Crash
    BY <2>3, NoSendIs DEF AP!Crash, AP!bridgeVars, AP!OnlyBridge, AP!rowVars, PersonTypes
  <2> QED
    BY <2>1, <2>2, <2>3
<1>4. PersonTypes'
  <2>1. Sending' = Sending
    BY <1>2 DEF Sending, AP!Rows, Human, AP!Pcs
  <2> QED
    BY <1>1, <1>2, <1>3, <2>1 DEF PersonTypes, Human, AP!Rows
<1>5. /\ \A r \in AP!Rows : Theirs(link[r], r)' /\ Theirs(keyed[r], r)'
      /\ \A r \in AP!Rows : link'[r] # Nil => r \in AP!Entries'
  BY <1>1, <1>2, <1>3 DEF Own, Theirs
<1>6. ASSUME NEW t \in Tasks PROVE Remembers(task[t])'
  <2>1. CASE task'[t] = task[t]
    BY <1>1, <1>2, <2>1 DEF Own, Remembers, Theirs, AP!Rows
  <2>2. CASE task'[t] = AP!NoSend
    BY <1>1, <1>2, <2>2, NoSendIs DEF Remembers, Theirs, AP!Rows
  <2> QED
    BY <1>3, <2>1, <2>2
<1>7. Own'
  BY <1>5, <1>6 DEF Own, AP!Rows
<1>8. Founded'
  BY <1>1, <1>3, NoSendIs DEF Founded, After
<1> QED
  BY <1>4, <1>7, <1>8

\* Every step keeps types and owners.
LEMMA PersonOwns ==
  PersonTypes /\ Own /\ Founded /\ AP!Next => (PersonTypes /\ Own /\ Founded)'
BY CustomerOwns, RowOwns, ClientOwns DEF AP!Next

\* A step of a send: nobody is made twice.
LEMMA SendOnce ==
  ASSUME PersonTypes, Once, UNCHANGED <<director, faults, spelling>>,
         NEW t \in Tasks, NEW k \in Sending, AP!Put(t, k),
         persons' \in [PersonIds -> Human],
         \A x \in PersonIds : persons[x].of # Nil => persons'[x].of = persons[x].of,
         \A x \in PersonIds : persons'[x].of # Nil =>
           persons'[x].of \in AP!Rows /\ persons'[x].spelling = 1,
         \A x, y \in PersonIds : persons'[x].of # Nil /\ persons'[x].of = persons'[y].of => x = y,
         \A r \in AP!Rows : keyed[r] # Nil => keyed'[r] # Nil,
         \/ \A u \in Tasks : task[u].pc \notin {"person", "link"}
         \/ \A x \in PersonIds : persons'[x].of # Nil =>
              persons'[x] = persons[x] \/ keyed'[persons'[x].of] # Nil,
         \A r \in AP!Rows : k.names[r] = 1,
         k.pc \in {"idle", "post", "put", "build", "get"} => k.matched = {},
         k.pc \in {"person", "link"} =>
           /\ \A x \in PersonIds : persons'[x].of # Nil =>
                <<x, persons'[x]>> \in k.seen \/ keyed'[persons'[x].of] # Nil
           /\ \A x \in k.matched :
                /\ persons'[x].of # Nil
                /\ persons'[x].of \notin k.todo \/ (k.pc = "link" /\ persons'[x].of = k.row)
  PROVE  Once'
<1>1. /\ task'[t] = k
      /\ \A u \in Tasks : u # t => task'[u] = task[u]
  BY SendPuts DEF PersonTypes
<1>2. Covers(task[t])'
  BY <1>1 DEF Covers, AP!Made, AP!Rows
<1>3. ASSUME NEW u \in Tasks, u # t PROVE Covers(task[u])'
  <2>1. task[u] \in Sending /\ task'[u] = task[u] /\ Covers(task[u])
    BY <1>1, <1>3 DEF PersonTypes, Once
  <2>2. ASSUME task[u].pc \in {"person", "link"}, NEW x \in PersonIds, persons'[x].of # Nil
        PROVE  <<x, persons'[x]>> \in task[u].seen \/ keyed'[persons'[x].of] # Nil
    <3>1. persons'[x] = persons[x] \/ keyed'[persons'[x].of] # Nil
      BY <2>2
    <3>2. CASE persons'[x] = persons[x]
      <4>1. <<x, persons[x]>> \in task[u].seen \/ keyed[persons[x].of] # Nil
        BY <2>1, <2>2, <3>2 DEF Covers, AP!Made
      <4> QED
        BY <2>2, <3>2, <4>1
    <3> QED
      BY <3>1, <3>2
  <2>3. ASSUME task[u].pc \in {"person", "link"}, NEW x \in task[u].matched
        PROVE  /\ persons'[x].of # Nil
               /\ \/ persons'[x].of \notin task[u].todo
                  \/ task[u].pc = "link" /\ persons'[x].of = task[u].row
    BY <2>1, <2>3 DEF Covers, Sending
  <2> QED
    BY <2>1, <2>2, <2>3 DEF Covers, AP!Made, AP!Rows
<1>4. \A u \in Tasks : Covers(task[u])'
  BY <1>2, <1>3
<1> QED
  BY <1>4 DEF Once, AP!Made, AP!Rows

\* A send that goes on beside an unchanged list.
LEMMA SendOnceQuietly ==
  ASSUME PersonTypes, Once, UNCHANGED <<director, faults, spelling, persons, keyed>>,
         NEW t \in Tasks, NEW k \in Sending, AP!Put(t, k),
         \A r \in AP!Rows : k.names[r] = 1,
         k.pc \in {"idle", "post", "put", "build", "get"} => k.matched = {},
         k.pc \in {"person", "link"} =>
           /\ \A x \in AP!Made : <<x, persons[x]>> \in k.seen \/ keyed[persons[x].of] # Nil
           /\ \A x \in k.matched :
                /\ persons[x].of # Nil
                /\ persons[x].of \notin k.todo \/ (k.pc = "link" /\ persons[x].of = k.row)
  PROVE  Once'
<1>1. /\ persons' \in [PersonIds -> Human]
      /\ \A x \in PersonIds : persons'[x].of # Nil =>
           persons'[x].of \in AP!Rows /\ persons'[x].spelling = 1
      /\ \A x, y \in PersonIds : persons'[x].of # Nil /\ persons'[x].of = persons'[y].of => x = y
  BY DEF PersonTypes, Once, AP!Made
<1> QED
  BY <1>1, SendOnce DEF AP!Made

\* A send that ends.
LEMMA SendEndsOnce ==
  ASSUME PersonTypes, Once, UNCHANGED <<director, faults, spelling, persons, keyed>>,
         NEW t \in Tasks, AP!Done(t)
  PROVE  Once'
BY NoSendIs, SendOnceQuietly DEF AP!Done

\* Starting, and the calls about the customer.
LEMMA CustomerOnce ==
  ASSUME PersonTypes, Own, Founded, Stable, Once, NEW t \in Tasks,
         \/ AP!Start(t) \/ AP!PostCustomer(t) \/ AP!PutCustomer(t)
         \/ AP!BuildAssociatedPersons(t) \/ AP!GetPersons(t) \/ AP!Store(t)
  PROVE  Once'
<1>1. task[t] \in Sending /\ Covers(task[t]) /\ \A r \in AP!Rows : spelling[r] = 1
  BY DEF PersonTypes, Once
<1>2. CASE AP!Start(t)
  <2> DEFINE k == [AP!NoSend EXCEPT !.pc = IF stored THEN "put" ELSE "post",
                                    !.names = spelling]
  <2>1. k \in Sending /\ k.matched = {} /\ k.names = spelling /\ k.pc \in {"put", "post"}
    BY NoSendIs DEF PersonTypes, Sending, AP!Pcs, AP!NoSend
  <2>2. AP!Put(t, k) /\ UNCHANGED <<director, faults, spelling, persons, keyed>>
    BY <1>2 DEF AP!Start, AP!bridgeVars, AP!rowVars
  <2> HIDE DEF k
  <2> QED
    BY <1>1, <2>1, <2>2, SendOnceQuietly
<1>3. CASE AP!PostCustomer(t)
  <2>1. UNCHANGED <<keyed, spelling, director, faults>> /\ task[t].pc = "post"
    BY <1>3 DEF AP!PostCustomer, AP!OnlyBridge, AP!rowVars, AP!At
  <2> DEFINE k == [task[t] EXCEPT !.pc = "build"]
  <2>2. k \in Sending /\ k.pc = "build" /\ k.matched = {} /\ \A r \in AP!Rows : k.names[r] = 1
    BY <1>1, <2>1 DEF Sending, AP!Pcs, Covers
  <2>3. AP!Put(t, k) \/ AP!Done(t)
    BY <1>3 DEF AP!PostCustomer, AP!Goto, AP!Refused, AP!Lost
  <2> HIDE DEF k
  <2>4. CASE UNCHANGED persons
    BY <2>1, <2>2, <2>3, <2>4, SendOnceQuietly, SendEndsOnce
  <2>5. CASE ~made /\ AP!Creates(AP!Entries, task[t].names)
    <3>1. AP!Made = {} /\ task[t].names \in [AP!Rows -> Nat]
      BY <1>1, <2>5 DEF Founded, Sending
    <3>2. /\ persons' \in [PersonIds -> Human]
          /\ \A x \in PersonIds : persons'[x].of = Nil
               \/ \E r \in AP!Entries :
                    persons'[x] = [of |-> AP!Person(r), spelling |-> task[t].names[r]]
          /\ \A x, y \in PersonIds :
               persons'[x].of # Nil /\ persons'[x].of = persons'[y].of => x = y
      BY <2>5, <3>1, CreatesAll DEF Stable
    <3>3. ASSUME NEW x \in PersonIds, persons'[x].of # Nil
          PROVE  persons'[x].of \in AP!Rows /\ persons'[x].spelling = 1
      <4>1. PICK r \in AP!Entries :
              persons'[x] = [of |-> AP!Person(r), spelling |-> task[t].names[r]]
        BY <3>2, <3>3
      <4>2. r \in AP!Rows /\ AP!Person(r) = r /\ task[t].names[r] = 1
        BY <1>1, EntryFacts DEF Stable, Covers
      <4> QED
        BY <4>1, <4>2
    <3>4. \A u \in Tasks : task[u].pc \notin {"person", "link"}
      BY <2>5 DEF Founded, After
    <3>5. \A x \in PersonIds : persons[x].of = Nil
      BY <3>1 DEF AP!Made
    <3>6. CASE AP!Put(t, k)
      BY <2>1, <2>2, <3>2, <3>3, <3>4, <3>5, <3>6, SendOnce
    <3>7. CASE AP!Done(t)
      BY <2>1, <3>2, <3>3, <3>4, <3>5, <3>7, NoSendIs, SendOnce DEF AP!Done
    <3> QED
      BY <2>3, <3>6, <3>7
  <2> QED
    BY <1>3, <2>4, <2>5 DEF AP!PostCustomer
<1>4. CASE AP!PutCustomer(t)
  <2>1. UNCHANGED <<keyed, spelling, director, faults, persons>> /\ task[t].pc = "put"
    BY <1>4 DEF AP!PutCustomer, AP!OnlyBridge, AP!rowVars, AP!bridgeVars, AP!At
  <2> DEFINE k == [task[t] EXCEPT !.pc = "build"]
  <2>2. k \in Sending /\ k.pc = "build" /\ k.matched = {} /\ \A r \in AP!Rows : k.names[r] = 1
    BY <1>1, <2>1 DEF Sending, AP!Pcs, Covers
  <2>3. AP!Put(t, k) \/ AP!Done(t)
    BY <1>4 DEF AP!PutCustomer, AP!Goto, AP!Refused, AP!Lost
  <2> HIDE DEF k
  <2> QED
    BY <2>1, <2>2, <2>3, SendOnceQuietly, SendEndsOnce
<1>5. CASE AP!BuildAssociatedPersons(t)
  <2> DEFINE k == [task[t] EXCEPT !.pc = "get", !.todo = AP!Entries, !.names = spelling,
                                  !.links = link]
  <2>1. UNCHANGED <<keyed, spelling, director, faults, persons>> /\ task[t].pc = "build"
    BY <1>5 DEF AP!BuildAssociatedPersons, AP!OnlyBridge, AP!rowVars, AP!bridgeVars, AP!At
  <2>2. k \in Sending /\ k.pc = "get" /\ k.matched = {} /\ k.names = spelling
    BY <1>1, <2>1 DEF Sending, AP!Pcs, Covers, PersonTypes
  <2>3. AP!Put(t, k)
    BY <1>5 DEF AP!BuildAssociatedPersons
  <2> HIDE DEF k
  <2> QED
    BY <1>1, <2>1, <2>2, <2>3, SendOnceQuietly
<1>6. CASE AP!GetPersons(t)
  <2>1. UNCHANGED <<keyed, spelling, director, faults, persons>> /\ task[t].pc = "get"
    BY <1>6 DEF AP!GetPersons, AP!OnlyBridge, AP!rowVars, AP!bridgeVars, AP!At
  <2> DEFINE list == {<<x, persons[x]>> : x \in AP!Made}
             k == [task[t] EXCEPT !.pc = "person", !.seen = list]
  <2>2. CASE AP!Put(t, k)
    <3>1. list \in SUBSET (PersonIds \X Human) /\ \A x \in AP!Made : <<x, persons[x]>> \in list
      BY DEF AP!Made, PersonTypes
    <3> HIDE DEF list
    <3>2. /\ k \in Sending /\ k.pc = "person" /\ k.matched = {} /\ k.seen = list
          /\ \A r \in AP!Rows : k.names[r] = 1
      BY <1>1, <2>1, <3>1 DEF Sending, AP!Pcs, Covers
    <3> HIDE DEF k
    <3> QED
      BY <2>1, <2>2, <3>1, <3>2, SendOnceQuietly
  <2>3. CASE AP!Done(t)
    BY <2>1, <2>3, SendEndsOnce
  <2> QED
    BY <1>6, <2>2, <2>3 DEF AP!GetPersons, AP!Refused
<1>7. CASE AP!Store(t)
  BY <1>7, SendEndsOnce DEF AP!Store, AP!rowVars, AP!bridgeVars
<1> QED
  BY <1>2, <1>3, <1>4, <1>5, <1>6, <1>7

\* A send that takes up row r, whose person is x.
LEMMA MatchedOnce ==
  ASSUME PersonTypes, Once, Stable, NEW t \in Tasks, NEW r \in AP!Rows, NEW x \in PersonIds,
         task[t].pc = "person", r \in task[t].todo,
         UNCHANGED <<director, faults, spelling>>,
         persons' \in [PersonIds -> Human], persons'[x].of = r,
         \A y \in PersonIds : persons[y].of # Nil => persons'[y].of = persons[y].of,
         \A y \in PersonIds : persons'[y].of # Nil =>
           persons'[y].of \in AP!Rows /\ persons'[y].spelling = 1,
         \A y, z \in PersonIds : persons'[y].of # Nil /\ persons'[y].of = persons'[z].of => y = z,
         \A q \in AP!Rows : keyed[q] # Nil => keyed'[q] # Nil,
         \A y \in PersonIds : persons'[y].of # Nil =>
           persons'[y] = persons[y] \/ keyed'[persons'[y].of] # Nil,
         AP!Matched(t, r, x) \/ AP!Done(t)
  PROVE  Once'
<1>1. task[t] \in Sending /\ Covers(task[t])
  BY DEF PersonTypes, Once
<1>2. CASE AP!Matched(t, r, x)
  <2> DEFINE k == [task[t] EXCEPT !.pc = "link", !.row = r, !.id = x, !.matched = @ \cup {x}]
  <2>1. AP!Put(t, k)
    BY <1>2 DEF AP!Matched
  <2>2. /\ k \in Sending /\ k.pc = "link" /\ k.todo = task[t].todo /\ k.seen = task[t].seen
        /\ k.matched = task[t].matched \cup {x} /\ k.row = r
        /\ \A q \in AP!Rows : k.names[q] = 1
    BY <1>1 DEF Sending, AP!Pcs, Covers
  <2>3. ASSUME NEW y \in PersonIds, persons'[y].of # Nil
        PROVE  <<y, persons'[y]>> \in k.seen \/ keyed'[persons'[y].of] # Nil
    <3>1. CASE persons'[y] = persons[y]
      <4>1. <<y, persons[y]>> \in task[t].seen \/ keyed[persons[y].of] # Nil
        BY <1>1, <2>3, <3>1 DEF Covers, AP!Made
      <4> QED
        BY <2>2, <2>3, <3>1, <4>1
    <3> QED
      BY <2>3, <3>1
  <2>4. ASSUME NEW y \in k.matched
        PROVE  /\ persons'[y].of # Nil
               /\ persons'[y].of \notin k.todo \/ persons'[y].of = k.row
    <3>1. CASE y = x
      BY <2>2, <3>1, PersonConstants
    <3>2. CASE y \in task[t].matched
      <4>1. y \in PersonIds /\ persons[y].of # Nil /\ persons[y].of \notin task[t].todo
        BY <1>1, <3>2 DEF Covers, Sending
      <4> QED
        BY <2>2, <4>1
    <3> QED
      BY <2>2, <2>4, <3>1, <3>2
  <2> HIDE DEF k
  <2> QED
    BY <2>1, <2>2, <2>3, <2>4, SendOnce
<1>3. CASE AP!Done(t)
  BY <1>3, NoSendIs, SendOnce DEF AP!Done
<1> QED
  BY <1>2, <1>3

\* The next row.
LEMMA RowOnce ==
  ASSUME PersonTypes, Own, Founded, Stable, Once, NEW t \in Tasks,
         \/ \E r \in AP!Rows : AP!PutPerson(t, r) \/ AP!Ambiguous(t, r) \/ AP!PostPerson(t, r)
         \/ AP!LinkPerson(t)
  PROVE  Once'
<1>1. /\ task[t] \in Sending /\ Covers(task[t]) /\ task[t].todo \subseteq AP!Entries
      /\ AP!Entries \subseteq AP!Rows /\ \A r \in AP!Entries : AP!Person(r) = r
  BY EntryFacts DEF PersonTypes, Once, Sending, Stable
<1>2. CASE \E r \in AP!Rows : AP!PutPerson(t, r)
  <2>1. PICK r \in AP!Rows : AP!PutPerson(t, r)
    BY <1>2
  <2>2. /\ r \in task[t].todo /\ task[t].pc = "person"
        /\ UNCHANGED <<keyed, spelling, director, faults>>
    BY <2>1 DEF AP!PutPerson, AP!IsNext, AP!At, AP!OnlyBridge, AP!rowVars
  <2>3. PICK x \in AP!Candidates(t, r) :
          \/ /\ persons' = [persons EXCEPT ![x].spelling = task[t].names[r]]
             /\ AP!Matched(t, r, x) \/ AP!Lost(t)
          \/ AP!Refused(t) /\ UNCHANGED persons
    BY <2>1 DEF AP!PutPerson
  <2>4. x \in PersonIds /\ persons[x].of = r
    BY <1>1, <2>2, <2>3, CandidatesAreTheirs
  <2>5. CASE /\ persons' = [persons EXCEPT ![x].spelling = task[t].names[r]]
             /\ AP!Matched(t, r, x) \/ AP!Lost(t)
    <3>1. task[t].names[r] = 1 /\ persons[x].spelling = 1
      BY <1>1, <2>4, PersonConstants DEF Covers, Once, AP!Made
    <3>2. persons' = persons
      BY <2>4, <2>5, <3>1 DEF PersonTypes, Human
    <3>3. /\ \A y \in PersonIds : persons'[y].of # Nil =>
               persons'[y].of \in AP!Rows /\ persons'[y].spelling = 1
          /\ \A y, z \in PersonIds :
               persons'[y].of # Nil /\ persons'[y].of = persons'[z].of => y = z
          /\ persons' \in [PersonIds -> Human] /\ persons'[x].of = r
          /\ \A y \in PersonIds : persons'[y] = persons[y]
          /\ AP!Matched(t, r, x) \/ AP!Done(t)
      BY <2>4, <2>5, <3>2 DEF Once, AP!Made, PersonTypes, AP!Lost
    <3> QED
      BY <2>2, <2>4, <3>3, MatchedOnce
  <2>6. CASE AP!Refused(t) /\ UNCHANGED persons
    BY <2>2, <2>6, SendEndsOnce DEF AP!Refused
  <2> QED
    BY <2>3, <2>5, <2>6
<1>3. CASE \E r \in AP!Rows : AP!Ambiguous(t, r)
  BY <1>3, SendEndsOnce DEF AP!Ambiguous, AP!OnlyBridge, AP!rowVars, AP!bridgeVars
<1>4. CASE \E r \in AP!Rows : AP!PostPerson(t, r)
  <2>1. PICK r \in AP!Rows : AP!PostPerson(t, r)
    BY <1>4
  <2>2. /\ r \in task[t].todo /\ task[t].pc = "person" /\ AP!Candidates(t, r) = {}
        /\ UNCHANGED <<spelling, director, faults>>
    BY <2>1 DEF AP!PostPerson, AP!IsNext, AP!At, AP!OnlyBridge, AP!rowVars
  <2>3. /\ AP!Person(r) = r /\ task[t].names[r] = 1
        /\ \A y \in PersonIds : persons[y].of # Nil =>
             persons[y].of \in AP!Rows /\ persons[y].spelling = 1
        /\ \A y, z \in PersonIds : persons[y].of # Nil /\ persons[y].of = persons[z].of => y = z
    BY <1>1, <2>2 DEF Once, AP!Made, Covers
  <2>4. CASE AP!Refused(t) /\ UNCHANGED <<persons, keyed>>
    BY <2>2, <2>4, SendEndsOnce DEF AP!Refused
  <2>5. ASSUME NEW x \in PersonIds, keyed[r] = Nil, x \notin AP!Made,
               persons' = [persons EXCEPT ![x] =
                            [of |-> AP!Person(r), spelling |-> task[t].names[r]]],
               keyed' = [keyed EXCEPT ![r] = x],
               AP!Matched(t, r, x) \/ AP!Lost(t)
        PROVE  Once'
    <3>1. ASSUME NEW y \in PersonIds, persons[y].of = r PROVE FALSE
      <4>1. y \in AP!Made /\ <<y, persons[y]>> \in task[t].seen
        BY <1>1, <2>2, <2>5, <3>1, PersonConstants DEF Covers, AP!Made
      <4>2. y \notin task[t].matched
        BY <1>1, <2>2, <3>1 DEF Covers
      <4>3. persons[y] = [of |-> AP!Person(r), spelling |-> task[t].names[r]]
        BY <2>3, <3>1, <4>1 DEF PersonTypes, Human, AP!Made
      <4> QED
        BY <2>2, <4>1, <4>2, <4>3 DEF AP!Candidates
    <3>2. persons[x].of = Nil
      BY <2>5 DEF AP!Made
    <3>3. /\ persons'[x] = [of |-> r, spelling |-> 1]
          /\ \A y \in PersonIds : y # x => persons'[y] = persons[y]
          /\ persons' \in [PersonIds -> Human]
      BY <2>3, <2>5 DEF PersonTypes, Human
    <3>4. keyed'[r] = x /\ (\A q \in AP!Rows : q # r => keyed'[q] = keyed[q])
      BY <2>5 DEF PersonTypes
    <3>5. persons'[x].of = r /\ persons'[x].spelling = 1
      BY <3>3
    <3>6. \A y \in PersonIds : persons[y].of # Nil => persons'[y].of = persons[y].of
      BY <3>2, <3>3
    <3>7. \A y \in PersonIds : persons'[y].of # Nil =>
            persons'[y].of \in AP!Rows /\ persons'[y].spelling = 1
      BY <2>3, <3>3, <3>5
    <3>8. \A y, z \in PersonIds : persons'[y].of # Nil /\ persons'[y].of = persons'[z].of => y = z
      BY <2>3, <3>1, <3>3, <3>5
    <3>9. /\ \A q \in AP!Rows : keyed[q] # Nil => keyed'[q] # Nil
          /\ \A y \in PersonIds : persons'[y].of # Nil =>
               persons'[y] = persons[y] \/ keyed'[persons'[y].of] # Nil
      BY <2>5, <3>3, <3>4, <3>5, PersonConstants
    <3> QED
      BY <2>2, <2>5, <3>3, <3>5, <3>6, <3>7, <3>8, <3>9, MatchedOnce DEF AP!Lost
  <2>6. ASSUME NEW x \in PersonIds, keyed[r] # Nil, x = keyed[r],
               UNCHANGED <<persons, keyed>>, AP!Matched(t, r, x) \/ AP!Lost(t)
        PROVE  Once'
    <3>1. persons[x].of = r
      BY <2>3, <2>6 DEF Own, Theirs
    <3> QED
      BY <2>2, <2>3, <2>6, <3>1, MatchedOnce DEF PersonTypes, AP!Lost
  <2> QED
    BY <2>1, <2>4, <2>5, <2>6 DEF AP!PostPerson
<1>5. CASE AP!LinkPerson(t)
  <2> DEFINE r == task[t].row
             left == task[t].todo \ {r}
             k == [task[t] EXCEPT !.pc = IF left = {} THEN "store" ELSE "person",
                                  !.todo = left, !.row = Nil, !.id = Nil]
  <2>1. task[t].pc = "link" /\ UNCHANGED <<director, faults, spelling, persons, keyed>>
    BY <1>5 DEF AP!LinkPerson, AP!At, AP!bridgeVars
  <2>2. CASE AP!Done(t)
    BY <2>1, <2>2, SendEndsOnce
  <2>3. CASE AP!Put(t, k)
    <3>1. /\ k \in Sending /\ k.pc \in {"store", "person"} /\ k.todo = left
          /\ k.seen = task[t].seen /\ k.matched = task[t].matched
          /\ \A q \in AP!Rows : k.names[q] = 1
      BY <1>1 DEF Sending, AP!Pcs, Covers
    <3>2. /\ \A x \in AP!Made : <<x, persons[x]>> \in k.seen \/ keyed[persons[x].of] # Nil
          /\ \A x \in k.matched : persons[x].of # Nil /\ persons[x].of \notin k.todo
      BY <1>1, <2>1, <3>1 DEF Covers
    <3> HIDE DEF k
    <3> QED
      BY <2>1, <2>3, <3>1, <3>2, SendOnceQuietly
  <2> QED
    BY <1>5, <2>2, <2>3 DEF AP!LinkPerson
<1> QED
  BY <1>2, <1>3, <1>4, <1>5

\* A row saved anew while nothing is sent, and a crash.
LEMMA ClientOnce ==
  ASSUME PersonTypes, Stable, Once,
         (\E r \in AP!Rows : AP!Rename(r) \/ AP!Replace(r)) \/ AP!Crash
  PROVE  Once'
<1>1. UNCHANGED <<director, faults, spelling, persons>>
  BY DEF Stable, AP!Rename, AP!Replace, AP!Crash, AP!bridgeVars, AP!OnlyBridge, AP!rowVars
<1>2. \A t \in Tasks : task'[t] = AP!NoSend \/ (task'[t] = task[t] /\ task[t].pc = "idle")
  <2>1. CASE AP!Crash
    BY <2>1 DEF AP!Crash
  <2>2. CASE \E r \in AP!Rows : AP!Rename(r) \/ AP!Replace(r)
    BY <2>2 DEF AP!Rename, AP!Replace, AP!Quiet, AP!At
  <2> QED
    BY <2>1, <2>2
<1>3. ASSUME NEW t \in Tasks PROVE Covers(task[t])'
  <2>1. CASE task'[t] = AP!NoSend
    BY <2>1, NoSendIs DEF Covers, AP!Rows
  <2>2. CASE task'[t] = task[t] /\ task[t].pc = "idle"
    BY <2>2 DEF Once, Covers, AP!Rows
  <2> QED
    BY <1>2, <2>1, <2>2
<1> QED
  BY <1>1, <1>3 DEF Once, AP!Made, AP!Rows

\* Every step.
LEMMA PersonOnce ==
  PersonTypes /\ Own /\ Founded /\ Stable /\ Once /\ AP!Next => Once'
BY CustomerOnce, RowOnce, ClientOnce DEF AP!Next

\* A step of a send that is alone: what it read is up to date, and rows and keys agree.
LEMMA SendCurrent ==
  ASSUME PersonTypes, Current, UNCHANGED <<director, faults, spelling>>,
         NEW t \in Tasks, NEW k \in Sending, AP!Put(t, k),
         task[t].pc # "idle" \/ AP!Quiet,
         k.pc # "idle" => k.names = spelling,
         k.pc \in {"get", "person", "link"} => \A r \in k.todo : k.links[r] = link'[r],
         k.pc = "link" => persons'[k.id].spelling = spelling[k.row],
         \A r \in synced' : link'[r] # Nil /\ persons'[link'[r]].spelling = spelling[r],
         \A r \in AP!Rows : keyed'[r] # Nil => link'[r] # Nil \/ (k.pc = "link" /\ k.row = r)
  PROVE  Current'
<1>1. task'[t] = k /\ \A u \in Tasks : u # t => task'[u] = task[u] /\ task[u].pc = "idle"
  BY SendPuts DEF PersonTypes, Current, AP!Quiet, AP!At
<1>2. \A u, v \in Tasks : task'[u].pc # "idle" /\ task'[v].pc # "idle" => u = v
  BY <1>1
<1>3. UpToDate(task[t])'
  BY <1>1 DEF UpToDate
<1>4. \A u \in Tasks : u # t => UpToDate(task[u])'
  BY <1>1 DEF UpToDate
<1> QED
  BY <1>1, <1>2, <1>3, <1>4 DEF Current, AP!Rows

\* One that leaves Bridge and the rows alone and goes on elsewhere, or ends.
LEMMA SendCurrentQuietly ==
  ASSUME PersonTypes, Current,
         UNCHANGED <<director, faults, spelling, persons, keyed, link, synced>>,
         NEW t \in Tasks, NEW k \in Sending, AP!Put(t, k),
         task[t].pc # "idle" \/ AP!Quiet, task[t].pc # "link",
         k.pc # "link", k.pc # "idle" => k.names = spelling,
         k.pc \in {"get", "person"} => \A r \in k.todo : k.links[r] = link[r]
  PROVE  Current'
<1>1. ASSUME NEW r \in AP!Rows, keyed[r] # Nil PROVE link[r] # Nil
  <2>1. \A u \in Tasks : task[u].pc # "link"
    BY DEF Current, AP!Quiet, AP!At
  <2> QED
    BY <1>1, <2>1 DEF Current
<1> QED
  BY <1>1, SendCurrent DEF Current

\* Starting, and the calls about the customer.
LEMMA CustomerCurrent ==
  ASSUME PersonTypes, Own, Founded, Plain, Current, NEW t \in Tasks,
         \/ AP!Start(t) \/ AP!PostCustomer(t) \/ AP!PutCustomer(t)
         \/ AP!BuildAssociatedPersons(t) \/ AP!GetPersons(t) \/ AP!Store(t)
  PROVE  Current'
<1>1. /\ task[t] \in Sending /\ UpToDate(task[t])
      /\ \A r \in AP!Rows : link[r] # Nil => link[r] \in PersonIds
      /\ \A f \in {"overlap", "lost", "crash", "dbError"} : f \notin faults
  BY DEF PersonTypes, Current, Plain
<1>2. CASE AP!Start(t)
  <2> DEFINE k == [AP!NoSend EXCEPT !.pc = IF stored THEN "put" ELSE "post",
                                    !.names = spelling]
  <2>1. k \in Sending /\ k.names = spelling /\ k.pc \in {"put", "post"}
    BY NoSendIs DEF PersonTypes, Sending, AP!Pcs, AP!NoSend
  <2>2. /\ AP!Put(t, k) /\ AP!Quiet /\ task[t].pc = "idle"
        /\ UNCHANGED <<director, faults, spelling, persons, keyed, link, synced>>
    BY <1>1, <1>2 DEF AP!Start, AP!bridgeVars, AP!rowVars, AP!At
  <2> HIDE DEF k
  <2> QED
    BY <1>1, <2>1, <2>2, SendCurrentQuietly
<1>3. CASE AP!PostCustomer(t)
  <2>1. /\ UNCHANGED <<keyed, spelling, director, faults, link, synced>>
        /\ task[t].pc = "post"
    BY <1>3 DEF AP!PostCustomer, AP!OnlyBridge, AP!rowVars, AP!At
  <2> DEFINE k == [task[t] EXCEPT !.pc = "build"]
  <2>2. k \in Sending /\ k.pc = "build" /\ k.names = spelling
    BY <1>1, <2>1 DEF Sending, AP!Pcs, UpToDate
  <2>3. AP!Put(t, k) \/ AP!Done(t)
    BY <1>3 DEF AP!PostCustomer, AP!Goto, AP!Refused, AP!Lost
  <2> HIDE DEF k
  <2>4. CASE UNCHANGED persons
    BY <2>1, <2>2, <2>3, <2>4, NoSendIs, SendCurrentQuietly DEF AP!Done
  <2>5. CASE ~made
    <3>1. \A x \in PersonIds : persons[x].of = Nil
      BY <2>5 DEF Founded, AP!Made
    <3>2. \A r \in AP!Rows : link[r] = Nil /\ keyed[r] = Nil
      BY <3>1, EntryFacts DEF Own, Theirs, PersonTypes
    <3>3. synced = {}
      BY <3>2, EntryFacts DEF Current, PersonTypes
    <3>4. \A q \in AP!Rows : keyed'[q] = Nil
      BY <2>1, <3>2
    <3>5. synced' = {}
      BY <2>1, <3>3
    <3> QED
      BY <2>1, <2>2, <2>3, <3>4, <3>5, NoSendIs, SendCurrent DEF AP!Done
  <2> QED
    BY <1>3, <2>4, <2>5 DEF AP!PostCustomer
<1>4. CASE AP!PutCustomer(t)
  <2>1. /\ UNCHANGED <<keyed, spelling, director, faults, persons, link, synced>>
        /\ task[t].pc = "put"
    BY <1>4 DEF AP!PutCustomer, AP!OnlyBridge, AP!rowVars, AP!bridgeVars, AP!At
  <2> DEFINE k == [task[t] EXCEPT !.pc = "build"]
  <2>2. k \in Sending /\ k.pc = "build" /\ k.names = spelling
    BY <1>1, <2>1 DEF Sending, AP!Pcs, UpToDate
  <2>3. AP!Put(t, k) \/ AP!Done(t)
    BY <1>4 DEF AP!PutCustomer, AP!Goto, AP!Refused, AP!Lost
  <2> HIDE DEF k
  <2> QED
    BY <2>1, <2>2, <2>3, NoSendIs, SendCurrentQuietly DEF AP!Done
<1>5. CASE AP!BuildAssociatedPersons(t)
  <2> DEFINE k == [task[t] EXCEPT !.pc = "get", !.todo = AP!Entries, !.names = spelling,
                                  !.links = link]
  <2>1. /\ UNCHANGED <<keyed, spelling, director, faults, persons, link, synced>>
        /\ task[t].pc = "build"
    BY <1>5 DEF AP!BuildAssociatedPersons, AP!OnlyBridge, AP!rowVars, AP!bridgeVars, AP!At
  <2>2. k \in Sending /\ k.pc = "get" /\ k.names = spelling /\ k.links = link
    BY <1>1, <2>1 DEF Sending, AP!Pcs, PersonTypes
  <2>3. AP!Put(t, k)
    BY <1>5 DEF AP!BuildAssociatedPersons
  <2> HIDE DEF k
  <2> QED
    BY <2>1, <2>2, <2>3, SendCurrentQuietly
<1>6. CASE AP!GetPersons(t)
  <2>1. /\ UNCHANGED <<keyed, spelling, director, faults, persons, link, synced>>
        /\ task[t].pc = "get"
    BY <1>6 DEF AP!GetPersons, AP!OnlyBridge, AP!rowVars, AP!bridgeVars, AP!At
  <2> DEFINE list == {<<x, persons[x]>> : x \in AP!Made}
             k == [task[t] EXCEPT !.pc = "person", !.seen = list]
  <2>2. CASE AP!Put(t, k)
    <3>1. list \in SUBSET (PersonIds \X Human)
      BY DEF AP!Made, PersonTypes
    <3> HIDE DEF list
    <3>2. /\ k \in Sending /\ k.pc = "person" /\ k.names = spelling
          /\ \A r \in k.todo : k.links[r] = link[r]
      BY <1>1, <2>1, <3>1 DEF Sending, AP!Pcs, UpToDate
    <3> HIDE DEF k
    <3> QED
      BY <2>1, <2>2, <3>2, SendCurrentQuietly
  <2>3. CASE AP!Done(t)
    BY <2>1, <2>3, NoSendIs, SendCurrentQuietly DEF AP!Done
  <2> QED
    BY <1>6, <2>2, <2>3 DEF AP!GetPersons, AP!Refused
<1>7. CASE AP!Store(t)
  BY <1>7, NoSendIs, SendCurrentQuietly DEF AP!Store, AP!rowVars, AP!bridgeVars, AP!Done, AP!At
<1> QED
  BY <1>2, <1>3, <1>4, <1>5, <1>6, <1>7

\* The next row.
LEMMA RowCurrent ==
  ASSUME PersonTypes, Own, Founded, Plain, Current, NEW t \in Tasks,
         \/ \E r \in AP!Rows : AP!PutPerson(t, r) \/ AP!Ambiguous(t, r) \/ AP!PostPerson(t, r)
         \/ AP!LinkPerson(t)
  PROVE  Current'
<1>1. /\ task[t] \in Sending /\ UpToDate(task[t]) /\ task[t].todo \subseteq AP!Entries
      /\ AP!Entries \subseteq AP!Rows /\ \A r \in AP!Entries : AP!Person(r) = r
      /\ \A f \in {"overlap", "lost", "crash", "dbError"} : f \notin faults
      /\ synced \subseteq AP!Entries
  BY EntryFacts DEF PersonTypes, Current, Sending, Plain
<1>2. ASSUME NEW r \in task[t].todo, NEW x \in PersonIds, task[t].pc = "person",
             UNCHANGED <<director, faults, spelling, link, synced>>, AP!Matched(t, r, x),
             persons'[x].spelling = spelling[r],
             \A q \in synced : persons'[link[q]].spelling = persons[link[q]].spelling \/ q = r,
             link[r] # Nil => link[r] = x,
             keyed' \in [AP!Rows -> PersonIds \cup {Nil}],
             \A q \in AP!Rows : q # r => keyed'[q] = keyed[q]
      PROVE  Current'
  <2> DEFINE k == [task[t] EXCEPT !.pc = "link", !.row = r, !.id = x, !.matched = @ \cup {x}]
  <2>1. AP!Put(t, k) /\ r \in AP!Rows
    BY <1>1, <1>2 DEF AP!Matched
  <2>2. /\ k \in Sending /\ k.pc = "link" /\ k.todo = task[t].todo /\ k.names = task[t].names
        /\ k.links = task[t].links /\ k.row = r /\ k.id = x
    BY <1>1, <2>1 DEF Sending, AP!Pcs
  <2> HIDE DEF k
  <2>3. /\ k.names = spelling /\ \A q \in k.todo : k.links[q] = link'[q]
        /\ persons'[k.id].spelling = spelling[k.row]
    BY <1>1, <1>2, <2>2 DEF UpToDate
  <2>4. \A q \in synced' : link'[q] # Nil /\ persons'[link'[q]].spelling = spelling[q]
    BY <1>2 DEF Current
  <2>5. \A u \in Tasks : task[u].pc # "link"
    BY <1>2 DEF Current
  <2>6. \A q \in AP!Rows : keyed'[q] # Nil => link'[q] # Nil \/ (k.pc = "link" /\ k.row = q)
    BY <1>2, <2>2, <2>5 DEF Current
  <2> QED
    BY <1>2, <2>1, <2>2, <2>3, <2>4, <2>6, SendCurrent
<1>3. CASE \E r \in AP!Rows : AP!PutPerson(t, r)
  <2>1. PICK r \in AP!Rows : AP!PutPerson(t, r)
    BY <1>3
  <2>2. /\ r \in task[t].todo /\ task[t].pc = "person"
        /\ UNCHANGED <<keyed, spelling, director, faults, link, synced>>
    BY <2>1 DEF AP!PutPerson, AP!IsNext, AP!At, AP!OnlyBridge, AP!rowVars
  <2>3. PICK x \in AP!Candidates(t, r) :
          \/ /\ persons' = [persons EXCEPT ![x].spelling = task[t].names[r]]
             /\ AP!Matched(t, r, x) \/ AP!Lost(t)
          \/ AP!Refused(t) /\ UNCHANGED persons
    BY <2>1 DEF AP!PutPerson
  <2>4. x \in PersonIds /\ persons[x].of = r
    BY <1>1, <2>2, <2>3, CandidatesAreTheirs
  <2>5. CASE /\ persons' = [persons EXCEPT ![x].spelling = task[t].names[r]]
             /\ AP!Matched(t, r, x)
    <3>1. /\ persons'[x].spelling = spelling[r]
          /\ \A y \in PersonIds : y # x => persons'[y] = persons[y]
      BY <1>1, <2>2, <2>4, <2>5 DEF UpToDate, PersonTypes, Human
    <3>2. ASSUME NEW q \in synced
          PROVE  persons'[link[q]].spelling = persons[link[q]].spelling \/ q = r
      <4>1. link[q] \in PersonIds /\ persons[link[q]].of = q
        BY <1>1 DEF Current, Own, Theirs, PersonTypes
      <4> QED
        BY <2>4, <3>1, <4>1
    <3>3. link[r] # Nil => link[r] = x
      BY <1>1, <2>2, <2>3 DEF UpToDate, AP!Candidates
    <3> QED
      BY <1>2, <2>2, <2>4, <2>5, <3>1, <3>2, <3>3 DEF PersonTypes
  <2>6. CASE AP!Refused(t) /\ UNCHANGED persons
    BY <2>2, <2>6, NoSendIs, SendCurrentQuietly DEF AP!Refused, AP!Done
  <2> QED
    BY <1>1, <2>3, <2>5, <2>6 DEF AP!Lost
<1>4. CASE \E r \in AP!Rows : AP!Ambiguous(t, r)
  BY <1>4, NoSendIs, SendCurrentQuietly DEF AP!Ambiguous, AP!OnlyBridge, AP!rowVars,
    AP!bridgeVars, AP!Done, AP!At
<1>5. CASE \E r \in AP!Rows : AP!PostPerson(t, r)
  <2>1. PICK r \in AP!Rows : AP!PostPerson(t, r)
    BY <1>5
  <2>2. /\ r \in task[t].todo /\ task[t].pc = "person" /\ AP!Candidates(t, r) = {}
        /\ UNCHANGED <<spelling, director, faults, link, synced>>
    BY <2>1 DEF AP!PostPerson, AP!IsNext, AP!At, AP!OnlyBridge, AP!rowVars
  <2>3. link[r] = Nil /\ keyed[r] = Nil
    <3>1. task[t].links[r] = link[r]
      BY <1>1, <2>2 DEF UpToDate
    <3>2. link[r] = Nil
      BY <2>2, <3>1 DEF AP!Candidates
    <3>3. \A u \in Tasks : task[u].pc # "link"
      BY <2>2 DEF Current
    <3> QED
      BY <1>1, <2>2, <3>2, <3>3 DEF Current
  <2>4. CASE AP!Refused(t) /\ UNCHANGED <<persons, keyed>>
    BY <2>2, <2>4, NoSendIs, SendCurrentQuietly DEF AP!Refused, AP!Done
  <2>5. ASSUME NEW x \in PersonIds, x \notin AP!Made,
               persons' = [persons EXCEPT ![x] =
                            [of |-> AP!Person(r), spelling |-> task[t].names[r]]],
               keyed' = [keyed EXCEPT ![r] = x], AP!Matched(t, r, x)
        PROVE  Current'
    <3>1. /\ persons'[x].spelling = spelling[r]
          /\ \A y \in PersonIds : y # x => persons'[y] = persons[y]
      BY <1>1, <2>2, <2>5 DEF UpToDate, PersonTypes
    <3>2. ASSUME NEW q \in synced PROVE persons'[link[q]].spelling = persons[link[q]].spelling
      <4>1. link[q] \in PersonIds /\ persons[link[q]].of = q /\ q # Nil
        BY <1>1, PersonConstants DEF Current, Own, Theirs, PersonTypes
      <4>2. link[q] \in AP!Made
        BY <4>1 DEF AP!Made
      <4> QED
        BY <2>5, <3>1, <4>1, <4>2
    <3>3. keyed' \in [AP!Rows -> PersonIds \cup {Nil}] /\ \A q \in AP!Rows : q # r => keyed'[q] = keyed[q]
      BY <2>5 DEF PersonTypes
    <3> QED
      BY <1>2, <2>2, <2>3, <2>5, <3>1, <3>2, <3>3
  <2> QED
    BY <1>1, <2>1, <2>3, <2>4, <2>5 DEF AP!PostPerson, AP!Lost
<1>6. CASE AP!LinkPerson(t)
  <2> DEFINE r == task[t].row
             left == task[t].todo \ {r}
             k == [task[t] EXCEPT !.pc = IF left = {} THEN "store" ELSE "person",
                                  !.todo = left, !.row = Nil, !.id = Nil]
  <2>1. /\ task[t].pc = "link" /\ UNCHANGED <<director, faults, spelling, persons, keyed>>
        /\ task[t].names = spelling
    BY <1>1, <1>6 DEF AP!LinkPerson, AP!At, AP!bridgeVars, UpToDate
  <2>2. /\ r \in task[t].todo /\ r \in AP!Entries /\ r \in AP!Rows
        /\ task[t].id \in PersonIds /\ persons[task[t].id].of = r
        /\ persons[task[t].id].spelling = spelling[r]
    <3>1. /\ r \in task[t].todo /\ task[t].id \in PersonIds
          /\ persons[task[t].id].of = AP!Person(r)
      BY <2>1, SendSteps
    <3>2. persons[task[t].id].spelling = spelling[r]
      BY <1>1, <2>1 DEF UpToDate
    <3> QED
      BY <1>1, <3>1, <3>2
  <2>3. ~AP!Taken(r, task[t].id)
    <3> SUFFICES ASSUME NEW s \in AP!Rows, s # r, link[s] = task[t].id PROVE FALSE
      BY DEF AP!Taken, AP!Table, AP!Rows
    <3> QED
      BY <1>1, <2>2, PersonConstants DEF Own, Theirs
  <2>4. /\ link' = [link EXCEPT ![r] = task[t].id]
        /\ synced' = synced \cup {r}
        /\ AP!Put(t, k)
    BY <1>1, <1>6, <2>1, <2>3 DEF AP!LinkPerson
  <2>5. /\ k \in Sending /\ k.pc \in {"store", "person"} /\ k.todo = left
        /\ k.names = spelling /\ k.links = task[t].links
    BY <1>1, <2>1 DEF Sending, AP!Pcs
  <2> HIDE DEF k
  <2>6. link'[r] = task[t].id /\ \A q \in AP!Rows : q # r => link'[q] = link[q]
    BY <2>2, <2>4 DEF PersonTypes
  <2>7. \A q \in k.todo : k.links[q] = link'[q]
    BY <1>1, <2>1, <2>5, <2>6 DEF UpToDate
  <2>9. ASSUME NEW q \in synced'
        PROVE  link'[q] # Nil /\ persons'[link'[q]].spelling = spelling[q]
    <3>1. CASE q = r
      BY <2>1, <2>2, <2>6, <3>1, PersonConstants
    <3>2. CASE q # r
      BY <1>1, <2>1, <2>4, <2>6, <3>2 DEF Current
    <3> QED
      BY <3>1, <3>2
  <2>10. ASSUME NEW q \in AP!Rows, keyed'[q] # Nil PROVE link'[q] # Nil
    <3>1. CASE q = r
      BY <2>2, <2>6, <3>1, PersonConstants
    <3>2. CASE q # r
      <4>1. \A u \in Tasks : task[u].pc = "link" => task[u].row = r
        BY <2>1 DEF Current
      <4> QED
        BY <2>1, <2>6, <2>10, <3>2, <4>1 DEF Current
    <3> QED
      BY <3>1, <3>2
  <2> QED
    BY <2>1, <2>4, <2>5, <2>7, <2>9, <2>10, SendCurrent
<1> QED
  BY <1>3, <1>4, <1>5, <1>6

\* What the client corrects or saves anew while nothing is sent.
LEMMA ClientCurrent ==
  ASSUME PersonTypes, Plain, Current,
         (\E r \in AP!Rows : AP!Rename(r) \/ AP!Replace(r)) \/ AP!Crash
  PROVE  Current'
<1>1. PICK r \in AP!Rows : AP!Rename(r) \/ AP!Replace(r)
  BY DEF AP!Crash, Plain
<1>2. /\ UNCHANGED <<persons, task>> /\ synced' = synced \ {r}
      /\ \A t \in Tasks : task[t].pc = "idle"
  BY <1>1 DEF AP!Rename, AP!Replace, AP!bridgeVars, AP!Quiet, AP!At
<1>3. /\ \A q \in AP!Rows : q # r => link'[q] = link[q] /\ keyed'[q] = keyed[q]
                                      /\ spelling'[q] = spelling[q]
      /\ keyed'[r] # Nil => keyed[r] # Nil /\ link'[r] = link[r]
  BY <1>1 DEF AP!Rename, AP!Replace, AP!bridgeVars, PersonTypes
<1>4. \A t \in Tasks : UpToDate(task[t])'
  BY <1>2 DEF UpToDate
<1>5. \A q \in synced' : link'[q] # Nil /\ persons'[link'[q]].spelling = spelling'[q]
  BY <1>2, <1>3, EntryFacts DEF Current, PersonTypes
<1>6. \A q \in AP!Rows : keyed'[q] # Nil => link'[q] # Nil
  BY <1>2, <1>3 DEF Current
<1> QED
  BY <1>2, <1>4, <1>5, <1>6 DEF Current, AP!Rows

\* Every step.
LEMMA PersonCurrent ==
  PersonTypes /\ Own /\ Founded /\ Plain /\ Current /\ AP!Next => Current'
BY CustomerCurrent, RowCurrent, ClientCurrent DEF AP!Next

\* Every step keeps it.
LEMMA PersonNext == PersonInv /\ AP!Next => PersonInv'
<1> SUFFICES ASSUME PersonInv, AP!Next PROVE PersonInv'
  OBVIOUS
<1>1. UNCHANGED <<director, faults>>
  BY DEF AP!Next, AP!Start, AP!PostCustomer, AP!PutCustomer, AP!BuildAssociatedPersons,
    AP!GetPersons, AP!LinkPerson, AP!Store, AP!PutPerson, AP!Ambiguous, AP!PostPerson, AP!Rename,
    AP!Replace, AP!Crash, AP!OnlyBridge, AP!rowVars
<1>2. Stable' = Stable /\ Plain' = Plain
  BY <1>1, EntriesStay
<1> QED
  BY <1>2, PersonOwns, PersonOnce, PersonCurrent DEF PersonInv

\* NobodyTwice and SyncedIsCurrent of the component follow.
LEMMA PersonHolds == PersonInv => AP!NobodyTwice /\ AP!SyncedIsCurrent
<1> SUFFICES ASSUME PersonInv PROVE AP!NobodyTwice /\ AP!SyncedIsCurrent
  OBVIOUS
<1>1. Stable => ~AP!Twice
  BY DEF PersonInv, Once, AP!Twice
<1>2. \A r \in AP!Rows : link[r] # Nil => persons[link[r]].of = AP!Person(r)
  BY DEF PersonInv, Own, Theirs
<1>3. Plain => \A r \in synced : link[r] # Nil /\ persons[link[r]].spelling = spelling[r]
  BY DEF PersonInv, Current
<1> QED
  BY <1>1, <1>2, <1>3 DEF AP!NobodyTwice, AP!SyncedIsCurrent, Stable, Plain

\* The invariant holds when the part is the people.
LEMMA PersonInvariant == Spec => [](part = "persons" => PersonInv)
<1>1. Init => (part = "persons" => PersonInv)
  BY PersonInit DEF Init
<1>2. (part = "persons" => PersonInv) /\ [Next]_vars => (part = "persons" => PersonInv)'
  <2> SUFFICES ASSUME part = "persons" => PersonInv, [Next]_vars, part' = "persons"
               PROVE  PersonInv'
    OBVIOUS
  <2>1. CASE UNCHANGED vars
    <3>1. /\ UNCHANGED <<spelling, director, link, stored, made, persons, keyed, synced, faults,
                         task>>
          /\ PersonInv
      BY <2>1 DEF vars, personsOwn
    <3>2. /\ AP!Entries' = AP!Entries /\ \A r : AP!Person(r)' = AP!Person(r)
          /\ Stable' = Stable /\ Plain' = Plain /\ AP!Made' = AP!Made
      BY <3>1, EntriesStay DEF AP!Made
    <3>3. PersonTypes'
      <4>1. Sending' = Sending
        BY <3>2 DEF Sending, AP!Rows, Human, AP!Pcs
      <4> QED
        BY <3>1, <3>2, <4>1 DEF PersonInv, PersonTypes, Human, AP!Rows
    <3>4. Own'
      BY <3>1, <3>2 DEF PersonInv, Own, Remembers, Theirs, AP!Rows
    <3>5. Founded'
      BY <3>1, <3>2 DEF PersonInv, Founded
    <3>6. Stable => Once'
      BY <3>1, <3>2 DEF PersonInv, Once, Covers, AP!Rows
    <3>7. Plain => Current'
      BY <3>1, <3>2 DEF PersonInv, Current, UpToDate, AP!Rows
    <3> QED
      BY <3>2, <3>3, <3>4, <3>5, <3>6, <3>7 DEF PersonInv
  <2>2. CASE Next
    BY <2>2, PersonNext DEF Next
  <2> QED
    BY <2>1, <2>2
<1> QED
  BY <1>1, <1>2, PTL DEF Spec

\* Bridge has nobody of a company twice and no row linked to somebody else, unless a name
\* was corrected, and it has the names as they were last sent
\* (syncBusinessAssociatedPersons, updateCustomerInBridge).
THEOREM NobodyIsTwice == Spec => []NobodyTwice
<1>1. (part = "persons" => PersonInv) => NobodyTwice
  BY PersonHolds DEF NobodyTwice
<1> QED
  BY <1>1, PersonInvariant, PTL

(***************************************************************************)
(* What Didit says of an application. A result that says Approved is one   *)
(* Didit gave for the inputs it is sealed with; a run that goes over the   *)
(* subjects has for those it is done with results about what it read, and  *)
(* the representative comes before the owners, who may be him.             *)
(***************************************************************************)
\* The state of a run.
Run == [pc : {"idle", "rows", "papers", "log"}, was : VE!Verdicts \cup {Nil},
        read : VE!People \cup {Nil}, seen : [VE!Subjects -> Nat] \cup [{} -> Nat],
        todo : Seq(VE!Subjects), found : VE!Results]
\* Types.
VerdictTypes ==
  /\ data \in VE!People
  /\ papers \in [VE!Subjects -> Nat]
  /\ verdict \in VE!Verdicts \cup {Nil}
  /\ logged \in Nat /\ today \in Nat
  /\ task \in [Tasks -> Run]
\* Whom a run is about, who of them it has not come to, and whose papers count for whom.
Asked(read) ==
  IF read["company"] = Nil THEN {"person"}
  ELSE {"company", "director"} \cup {u \in Owners : read[u] # Nil}
Left(todo) == {todo[i] : i \in DOMAIN todo}
Of(s, read) == IF VE!IsSamePerson(s, read) THEN "director" ELSE s
\* The approved results are answers of Didit.
Sealed(results, A) ==
  \A x \in DOMAIN results : results[x].status = "Approved" =>
    [input |-> results[x].print, day |-> results[x].day] \in A
\* They are about what was read of these subjects, and not older than they may be.
Backs(results, S, read, seen, now) ==
  \A s \in S : \A c \in VE!Checks(s) : results[<<s, c>>].status = "Approved" =>
    /\ read[Of(s, read)] # Nil
    /\ results[<<s, c>>].print =
         VE!Fingerprint(Of(s, read), c, read[Of(s, read)], seen[Of(s, read)])
    /\ now =< results[<<s, c>>].day + MaxAge
\* Nobody is left twice, nor the representative after an owner.
InLine(todo) ==
  \A i, j \in DOMAIN todo :
    /\ todo[i] = todo[j] => i = j
    /\ todo[i] \in Owners /\ todo[j] = "director" => j < i
\* Where a run stands.
Goes(k, now, A) ==
  /\ k.was # Nil => Sealed(k.was.results, A)
  /\ k.pc # "papers" => k.found = VE!NoResults
  /\ k.pc = "papers" =>
       LET done == Asked(k.read) \ Left(k.todo) IN
       /\ k.read \in VE!People /\ k.seen \in [VE!Subjects -> Nat]
       /\ Left(k.todo) \subseteq Asked(k.read) /\ InLine(k.todo)
       /\ done \cap Owners # {} => "director" \notin Left(k.todo)
       /\ DOMAIN k.found = VE!Slots(done)
       /\ Sealed(k.found, A) /\ Backs(k.found, done, k.read, k.seen, now)
\* A verdict is the work of such a run.
Vouched ==
  verdict # Nil =>
    /\ DOMAIN verdict.results = VE!Slots(Asked(verdict.read))
    /\ Sealed(verdict.results, answered)
    /\ Backs(verdict.results, Asked(verdict.read), verdict.read, verdict.seen, verdict.day)
    /\ verdict.overall = "approved" =>
         \A x \in DOMAIN verdict.results : verdict.results[x].status = "Approved"
\* One run at a time, that knows the verdict there is; each that wrote one is counted.
Counted ==
  /\ \A t, u \in Tasks : task[t].pc # "idle" /\ task[u].pc # "idle" => t = u
  /\ \A t \in Tasks : task[t].pc \in {"rows", "papers"} => task[t].was = verdict
  /\ (IF verdict = Nil THEN 0 ELSE verdict.count)
       = logged + (IF \E t \in Tasks : task[t].pc = "log" THEN 1 ELSE 0)
\* The inductive invariant of the verdict.
VerdictInv ==
  VerdictTypes /\ (\A t \in Tasks : Goes(task[t], today, answered)) /\ Vouched
  /\ (faults = {} => Counted)

\* What the constants are.
LEMMA VerdictConstants ==
  /\ MaxAge \in Nat /\ IsFiniteSet(Owners) /\ Owners \cap {"person", "company", "director"} = {}
  /\ Nil \notin VE!Verdicts
BY InstancesAssumption DEF InstancesAssumption, VE!AgesAssumption, VE!OwnersAssumption,
  VE!NoneAssumption, VE!IsFiniteSet, IsFiniteSet

\* The checks of a subject: an owner has those of the representative.
LEMMA ChecksOf ==
  /\ VE!Checks("person") = {"id", "aml", "face", "poa"}
  /\ VE!Checks("company") = {"aml", "poa"}
  /\ VE!Checks("director") = {"id", "aml", "face"}
  /\ \A u \in Owners : VE!Checks(u) = {"id", "aml", "face"}
BY VerdictConstants DEF VE!Checks

\* The results a run keeps for some subjects.
LEMMA SlotIs ==
  ASSUME NEW S
  PROVE  /\ \A x \in VE!Slots(S) :
              /\ x[1] \in S /\ x[2] \in VE!Checks(x[1]) /\ x = <<x[1], x[2]>>
         /\ \A s \in S : \A c \in VE!Checks(s) : <<s, c>> \in VE!Slots(S)
BY DEF VE!Slots

\* Nobody has no results.
LEMMA NoSlots == VE!Slots({}) = {} /\ VE!NoResults \in VE!Results /\ DOMAIN VE!NoResults = {}
<1>1. VE!Slots({}) = {}
  BY DEF VE!Slots
<1>2. VE!NoResults \in [{} -> VE!Result] /\ DOMAIN VE!NoResults = {}
  BY DEF VE!NoResults
<1>3. VE!NoResults \in [VE!Slots({}) -> VE!Result]
  BY <1>1, <1>2
<1> QED
  BY <1>1, <1>2, <1>3 DEF VE!Results

\* Results are those of some subjects, each with its type.
LEMMA ResultsAre ==
  ASSUME NEW f \in VE!Results
  PROVE  /\ \A x \in DOMAIN f : f[x] \in VE!Result
         /\ \E S \in SUBSET VE!Subjects : DOMAIN f = VE!Slots(S)
BY DEF VE!Results

\* Those of one more subject.
LEMMA WithResultsIs ==
  ASSUME NEW D \in SUBSET VE!Subjects, NEW s \in VE!Subjects,
         NEW f \in [VE!Slots(D) -> VE!Result],
         NEW q, \A c \in VE!Checks(s) : q[c] \in VE!Result,
         NEW g, g = VE!WithResults(f, s, q)
  PROVE  /\ g \in [VE!Slots(D \cup {s}) -> VE!Result] /\ g \in VE!Results
         /\ \A c \in VE!Checks(s) : g[<<s, c>>] = q[c]
         /\ \A u \in D \ {s} : \A c \in VE!Checks(u) : g[<<u, c>>] = f[<<u, c>>]
<1>1. VE!Slots(D) \cup VE!Slots({s}) = VE!Slots(D \cup {s})
  BY DEF VE!Slots
<1>2. g = [x \in VE!Slots(D \cup {s}) |-> IF x[1] = s THEN q[x[2]] ELSE f[x]]
  BY <1>1 DEF VE!WithResults
<1>3. ASSUME NEW x \in VE!Slots(D \cup {s})
      PROVE  (IF x[1] = s THEN q[x[2]] ELSE f[x]) \in VE!Result
  <2>1. x[1] \in D \cup {s} /\ x[2] \in VE!Checks(x[1]) /\ x = <<x[1], x[2]>>
    BY SlotIs
  <2>2. CASE x[1] = s
    BY <2>1, <2>2
  <2>3. CASE x[1] # s
    <3>1. x \in VE!Slots(D)
      BY <2>1, <2>3, SlotIs
    <3> QED
      BY <2>3, <3>1
  <2> QED
    BY <2>2, <2>3
<1>4. g \in [VE!Slots(D \cup {s}) -> VE!Result]
  BY <1>2, <1>3
<1>5. g \in VE!Results
  BY <1>4 DEF VE!Results
<1>6. ASSUME NEW u \in D \cup {s}, NEW c \in VE!Checks(u)
      PROVE  g[<<u, c>>] = IF u = s THEN q[c] ELSE f[<<u, c>>]
  <2>1. <<u, c>> \in VE!Slots(D \cup {s})
    BY SlotIs
  <2> QED
    BY <1>2, <2>1
<1>7. \A c \in VE!Checks(s) : g[<<s, c>>] = q[c]
  BY <1>6
<1>8. \A u \in D \ {s} : \A c \in VE!Checks(u) : g[<<u, c>>] = f[<<u, c>>]
  BY <1>6
<1> QED
  BY <1>4, <1>5, <1>7, <1>8

\* The order in which the owners come has each of them once.
LEMMA OwnersInOrder ==
  ASSUME NEW U \in SUBSET Owners
  PROVE  LET q == VE!SetToSeq(U) IN
         /\ q \in Seq(U)
         /\ \A i, j \in 1..Len(q) : q[i] = q[j] => i = j
         /\ \A u \in U : \E i \in 1..Len(q) : q[i] = u
<1>1. IsFiniteSet(U)
  BY VerdictConstants, FS_Subset
<1> DEFINE n == Cardinality(U)
           q == VE!SetToSeq(U)
<1>2. n \in Nat /\ ExistsBijection(1..n, U)
  BY <1>1, FS_CardinalityType
<1>3. VE!Cardinality(U) = n
  BY DEF VE!Cardinality, Cardinality
<1>4. \E f \in [1..n -> U] : VE!IsInjective(f)
  BY <1>2 DEF ExistsBijection, Bijection, Injection, IsInjective, VE!IsInjective
<1>5. q \in [1..n -> U] /\ VE!IsInjective(q)
  BY <1>3, <1>4 DEF VE!SetToSeq
<1>6. q \in Injection(1..n, U)
  BY <1>5 DEF VE!IsInjective, IsInjective, Injection
<1>7. Cardinality(1..n) = n /\ IsFiniteSet(1..n)
  BY <1>2, FS_Interval
<1>8. q \in Surjection(1..n, U)
  BY <1>1, <1>6, <1>7, FS_Injection
<1>9. q \in Seq(U) /\ Len(q) = n
  BY <1>2, <1>5
<1> QED
  BY <1>5, <1>8, <1>9 DEF VE!IsInjective, Surjection

\* The invariant holds at first.
LEMMA VerdictInit == VE!Init => VerdictInv
<1> SUFFICES ASSUME VE!Init PROVE VerdictInv
  OBVIOUS
<1>1. data \in VE!People
  BY VerdictConstants DEF VE!Init, VE!People, VE!Data
<1>2. VE!Idle \in Run /\ VE!Idle.was = Nil /\ VE!Idle.pc = "idle" /\ VE!Idle.found = VE!NoResults
  BY NoSlots DEF VE!Idle, Run
<1>3. VerdictTypes
  BY <1>1, <1>2 DEF VE!Init, VerdictTypes
<1>4. \A t \in Tasks : Goes(task[t], today, answered)
  BY <1>2 DEF VE!Init, Goes
<1>5. Vouched /\ Counted
  BY <1>2 DEF VE!Init, Vouched, Counted
<1> QED
  BY <1>3, <1>4, <1>5 DEF VerdictInv

\* What Didit said stays said.
LEMMA MoreAnswers ==
  ASSUME NEW A, NEW B, A \subseteq B
  PROVE  /\ \A f : Sealed(f, A) => Sealed(f, B)
         /\ \A k, now : Goes(k, now, A) => Goes(k, now, B)
<1>1. \A f : Sealed(f, A) => Sealed(f, B)
  BY DEF Sealed
<1> QED
  BY <1>1 DEF Goes

\* One run goes on and the verdict stays.
LEMMA RunMoves ==
  ASSUME VerdictInv, NEW t \in Tasks, NEW k \in Run, task' = [task EXCEPT ![t] = k],
         answered \subseteq answered', UNCHANGED <<data, papers, today, faults>>,
         Goes(k, today, answered'), verdict' \in VE!Verdicts \cup {Nil}, logged' \in Nat
  PROVE  VerdictTypes' /\ \A u \in Tasks : Goes(task'[u], today', answered')
<1>1. /\ VE!People' = VE!People /\ VE!Subjects' = VE!Subjects
      /\ VE!Verdicts' = VE!Verdicts /\ Run' = Run
  OBVIOUS
<1>2. VerdictTypes'
  BY <1>1 DEF VerdictInv, VerdictTypes
<1>3. ASSUME NEW u \in Tasks PROVE Goes(task'[u], today', answered')
  <2>1. CASE u = t
    BY <2>1 DEF VerdictInv, VerdictTypes
  <2>2. CASE u # t
    <3>1. task'[u] = task[u] /\ Goes(task[u], today, answered)
      BY <2>2 DEF VerdictInv, VerdictTypes
    <3>2. Goes(task[u], today, answered')
      BY <3>1, MoreAnswers
    <3> QED
      BY <3>1, <3>2
  <2> QED
    BY <2>1, <2>2
<1> QED
  BY <1>2, <1>3

LEMMA VerdictStays ==
  ASSUME Vouched, answered \subseteq answered', verdict' = verdict
  PROVE  Vouched'
<1> QED
  BY MoreAnswers DEF Vouched

\* A run that goes on from where it read what the verdict was, or ends without one.
LEMMA CountGoes ==
  ASSUME VerdictTypes, Counted, NEW t \in Tasks, NEW k \in Run, task' = [task EXCEPT ![t] = k],
         UNCHANGED <<verdict, logged>>, task[t].pc \in {"rows", "papers"},
         k.pc \in {"rows", "papers"}, k.was = task[t].was
  PROVE  Counted'
<1>1. \A u \in Tasks : task'[u] = IF u = t THEN k ELSE task[u]
  BY DEF VerdictTypes
<1>2. \A u \in Tasks : /\ task'[u].pc # "idle" <=> task[u].pc # "idle"
                       /\ task'[u].pc = "log" <=> task[u].pc = "log"
                       /\ task'[u].pc \in {"rows", "papers"} <=> task[u].pc \in {"rows", "papers"}
                       /\ task'[u].was = task[u].was
  BY <1>1
<1> QED
  BY <1>2 DEF Counted

LEMMA RunIs ==
  ASSUME VerdictInv, NEW t \in Tasks
  PROVE  task[t] \in Run /\ Goes(task[t], today, answered)
BY DEF VerdictInv, VerdictTypes

\* Begin.
LEMMA VerdictBegins ==
  ASSUME VerdictInv, NEW t \in Tasks, VE!Begin(t) PROVE VerdictInv'
<1> DEFINE k == [task[t] EXCEPT !.pc = "rows", !.was = verdict]
<1>1. task[t] \in Run /\ Goes(task[t], today, answered)
  BY RunIs
<1>2. task[t].pc = "idle" /\ ~VE!InFlight(t)
  BY DEF VE!Begin, VE!At
<1>3. UNCHANGED <<data, papers, verdict, answered, logged, today, faults>>
  BY DEF VE!Begin
<1>4. k \in Run /\ k.pc = "rows" /\ k.was = verdict /\ k.found = task[t].found
  BY <1>1 DEF Run, VerdictInv, VerdictTypes
<1>5. task' = [task EXCEPT ![t] = k]
  BY DEF VE!Begin, VerdictInv, VerdictTypes
<1> HIDE DEF k
<1>6. Goes(k, today, answered)
  BY <1>1, <1>2, <1>4 DEF Goes, VerdictInv, Vouched
<1>7. VerdictTypes' /\ \A u \in Tasks : Goes(task'[u], today', answered')
  BY <1>3, <1>4, <1>5, <1>6, RunMoves DEF VerdictInv, VerdictTypes
<1>8. Vouched'
  BY <1>3, VerdictStays DEF VerdictInv
<1>9. ASSUME faults = {} PROVE Counted'
  <2>1. \A u \in Tasks : task[u].pc = "idle"
    BY <1>2, <1>9 DEF VE!InFlight, VE!At
  <2>2. \A u \in Tasks : task'[u] = IF u = t THEN k ELSE task[u]
    BY <1>5 DEF VerdictInv, VerdictTypes
  <2>3. \A u \in Tasks : task'[u].pc # "idle" => u = t
    BY <2>1, <2>2
  <2>4. \A u \in Tasks : task'[u].pc # "log" /\ task[u].pc # "log"
    BY <1>4, <2>1, <2>2
  <2>5. \A u \in Tasks : task'[u].pc \in {"rows", "papers"} => task'[u].was = verdict
    BY <1>4, <2>1, <2>2
  <2> QED
    BY <1>3, <1>9, <2>3, <2>4, <2>5 DEF VerdictInv, Counted
<1> QED
  BY <1>3, <1>7, <1>8, <1>9 DEF VerdictInv

\* ReadPerson and ReadBusiness: everybody is left.
LEMMA VerdictReads ==
  ASSUME VerdictInv, NEW t \in Tasks, NEW todo \in Seq(VE!Subjects), VE!Read(t, todo),
         Left(todo) = Asked(data), InLine(todo)
  PROVE  VerdictInv'
<1> DEFINE k == [task[t] EXCEPT !.pc = "papers", !.read = data, !.todo = todo,
                                !.seen = [s \in VE!Subjects |-> 0]]
<1>1. task[t] \in Run /\ Goes(task[t], today, answered)
  BY RunIs
<1>2. task[t].pc = "rows"
  BY DEF VE!Read, VE!At
<1>3. UNCHANGED <<data, papers, verdict, answered, logged, today, faults>>
  BY DEF VE!Read
<1>4. data \in VE!People
  BY DEF VerdictInv, VerdictTypes
<1>5. /\ k \in Run /\ k.pc = "papers" /\ k.was = task[t].was /\ k.found = task[t].found
      /\ k.todo = todo /\ k.read = data /\ k.seen \in [VE!Subjects -> Nat]
  BY <1>1, <1>4 DEF Run
<1>6. task' = [task EXCEPT ![t] = k]
  BY DEF VE!Read, VerdictInv, VerdictTypes
<1> HIDE DEF k
<1>7. k.found = VE!NoResults /\ DOMAIN k.found = {} /\ VE!Slots({}) = {}
  BY <1>1, <1>2, <1>5, NoSlots DEF Goes
<1>8. Asked(k.read) \ Left(k.todo) = {}
  BY <1>5
<1>9. Sealed(k.found, answered) /\ Backs(k.found, {}, k.read, k.seen, today)
  BY <1>7 DEF Sealed, Backs
<1>10. Goes(k, today, answered)
  BY <1>1, <1>4, <1>5, <1>7, <1>8, <1>9 DEF Goes
<1>11. VerdictTypes' /\ \A u \in Tasks : Goes(task'[u], today', answered')
  BY <1>3, <1>5, <1>6, <1>10, RunMoves DEF VerdictInv, VerdictTypes
<1>12. Vouched'
  BY <1>3, VerdictStays DEF VerdictInv
<1>13. faults = {} => Counted'
  BY <1>2, <1>3, <1>5, <1>6, CountGoes DEF VerdictInv
<1> QED
  BY <1>3, <1>11, <1>12, <1>13 DEF VerdictInv

LEMMA PersonRead ==
  ASSUME VerdictInv, NEW t \in Tasks, VE!ReadPerson(t) PROVE VerdictInv'
<1> DEFINE q == <<"person">>
<1>1. q \in Seq(VE!Subjects)
  BY DEF VE!Subjects
<1>2. Asked(data) = {"person"}
  BY DEF VE!ReadPerson, VE!Kyb, Asked
<1>3. Left(q) = {"person"}
  BY DEF Left
<1>4. InLine(q)
  BY VerdictConstants DEF InLine
<1> QED
  BY <1>1, <1>2, <1>3, <1>4, VerdictReads DEF VE!ReadPerson

LEMMA BusinessRead ==
  ASSUME VerdictInv, NEW t \in Tasks, VE!ReadBusiness(t) PROVE VerdictInv'
<1> DEFINE U == {u \in Owners : data[u] # Nil}
           o == VE!SetToSeq(U)
           q == <<"company", "director">> \o o
<1>1. /\ o \in Seq(U)
      /\ \A i, j \in 1..Len(o) : o[i] = o[j] => i = j
      /\ \A u \in U : \E i \in 1..Len(o) : o[i] = u
  BY OwnersInOrder
<1>2. Asked(data) = {"company", "director"} \cup U
  BY DEF VE!ReadBusiness, VE!Kyb, Asked
<1>3. VE!Read(t, q)
  BY DEF VE!ReadBusiness
<1> HIDE DEF o
<1>4. U \subseteq VE!Subjects /\ {"company", "director"} \subseteq VE!Subjects
  BY DEF VE!Subjects
<1>5. q \in Seq(VE!Subjects) /\ Len(q) = Len(o) + 2 /\ Len(o) \in Nat /\ DOMAIN q = 1..Len(q)
  BY <1>1, <1>4
<1>6. q[1] = "company" /\ q[2] = "director"
      /\ \A i \in 1..Len(q) : i > 2 => q[i] = o[i - 2] /\ i - 2 \in 1..Len(o)
  BY <1>1, <1>5
<1>7. \A i \in 1..Len(o) : o[i] \in U /\ i + 2 \in 1..Len(q) /\ q[i + 2] = o[i]
  BY <1>1, <1>5, <1>6
<1> HIDE DEF q, U
<1>8. \A i \in 1..Len(q) : i > 2 => q[i] \in U
  BY <1>6, <1>7
<1>9. \A i \in 1..Len(q) : i > 2 \/ i = 1 \/ i = 2
  BY <1>5
<1>10. Left(q) = Asked(data)
  <2>1. Left(q) \subseteq {"company", "director"} \cup U
    <3>1. \A i \in 1..Len(q) : q[i] \in {"company", "director"} \cup U
      BY <1>6, <1>8, <1>9
    <3> QED
      BY <1>5, <3>1 DEF Left
  <2>2. 1 \in DOMAIN q /\ 2 \in DOMAIN q
    BY <1>5
  <2>3. U \subseteq Left(q)
    <3>1. \A u \in U : \E i \in 1..Len(q) : q[i] = u
      BY <1>1, <1>7
    <3> QED
      BY <1>5, <3>1 DEF Left
  <2>4. {"company", "director"} \subseteq Left(q)
    BY <1>6, <2>2 DEF Left
  <2> QED
    BY <1>2, <2>1, <2>3, <2>4
<1>11. InLine(q)
  <2> SUFFICES ASSUME NEW i \in 1..Len(q), NEW j \in 1..Len(q)
               PROVE  /\ q[i] = q[j] => i = j
                      /\ q[i] \in Owners /\ q[j] = "director" => j < i
    BY <1>5 DEF InLine
  <2>1. \A u \in U : u # "company" /\ u # "director"
    BY VerdictConstants DEF U
  <2>2. i \in Nat /\ j \in Nat /\ i >= 1 /\ j >= 1
    BY <1>5
  <2>3. CASE i > 2 /\ j > 2
    <3>1. q[i] = o[i - 2] /\ q[j] = o[j - 2] /\ i - 2 \in 1..Len(o) /\ j - 2 \in 1..Len(o)
      BY <1>6, <2>3
    <3>2. q[i] = q[j] => i - 2 = j - 2
      BY <1>1, <3>1
    <3>3. q[j] # "director"
      BY <1>8, <2>1, <2>3
    <3> QED
      BY <2>2, <3>2, <3>3
  <2>4. CASE i > 2 /\ j =< 2
    <3>1. q[i] \in U /\ (j = 1 \/ j = 2)
      BY <1>8, <1>9, <2>2, <2>4
    <3>2. q[j] = "company" \/ q[j] = "director"
      BY <1>6, <3>1
    <3> QED
      BY <2>1, <2>2, <2>4, <3>1, <3>2
  <2>5. CASE i =< 2
    <3>1. i = 1 \/ i = 2
      BY <2>2, <2>5
    <3>2. q[i] \notin Owners
      BY <1>6, <3>1, VerdictConstants
    <3>3. CASE j > 2
      BY <1>6, <1>7, <2>1, <3>1, <3>2, <3>3
    <3>4. CASE j =< 2
      BY <1>6, <2>2, <3>1, <3>2, <3>4
    <3> QED
      BY <2>2, <3>3, <3>4
  <2> QED
    BY <2>2, <2>3, <2>4, <2>5
<1> QED
  BY <1>3, <1>5, <1>10, <1>11, VerdictReads

\* A run takes the first of those it is left with.
LEMMA FirstTaken ==
  ASSUME NEW todo \in Seq(VE!Subjects), todo # <<>>, InLine(todo)
  PROVE  /\ Head(todo) \in Left(todo) /\ Head(todo) \in VE!Subjects
         /\ Tail(todo) \in Seq(VE!Subjects)
         /\ Left(Tail(todo)) = Left(todo) \ {Head(todo)} /\ InLine(Tail(todo))
         /\ Head(todo) \in Owners => "director" \notin Left(todo)
<1> DEFINE q == Tail(todo)
           n == Len(todo)
<1>1. n \in Nat /\ n >= 1 /\ DOMAIN todo = 1..n /\ Head(todo) = todo[1] /\ todo[1] \in VE!Subjects
  <2>1. n \in Nat /\ n # 0 /\ DOMAIN todo = 1..n /\ Head(todo) = todo[1]
    OBVIOUS
  <2> QED
    BY <2>1
<1>2. q \in Seq(VE!Subjects) /\ Len(q) = n - 1 /\ DOMAIN q = 1..(n - 1)
      /\ \A i \in 1..(n - 1) : q[i] = todo[i + 1] /\ i + 1 \in 1..n
  <2>1. q \in Seq(VE!Subjects) /\ Len(q) = n - 1 /\ \A i \in 1..(n - 1) : q[i] = todo[i + 1]
    BY <1>1
  <2> QED
    BY <1>1, <2>1
<1> HIDE DEF q, n
<1>3. \A i, j \in 1..n : /\ todo[i] = todo[j] => i = j
                         /\ todo[i] \in Owners /\ todo[j] = "director" => j < i
  BY <1>1 DEF InLine
<1>4. 1 \in 1..n
  BY <1>1
<1>5. Left(q) = Left(todo) \ {todo[1]}
  <2>1. \A i \in 1..(n - 1) : q[i] \in Left(todo) /\ q[i] # todo[1]
    <3> TAKE i \in 1..(n - 1)
    <3>1. q[i] = todo[i + 1] /\ i + 1 \in 1..n /\ i + 1 # 1
      BY <1>1, <1>2
    <3> QED
      BY <1>1, <1>3, <1>4, <3>1 DEF Left
  <2>2. \A i \in 1..n : i # 1 => i - 1 \in 1..(n - 1) /\ (i - 1) + 1 = i
    BY <1>1
  <2>3. \A i \in 1..n : todo[i] # todo[1] => todo[i] = q[i - 1] /\ i - 1 \in 1..(n - 1)
    BY <1>2, <2>2
  <2>4. Left(todo) \ {todo[1]} \subseteq Left(q)
    BY <1>1, <1>2, <2>3 DEF Left
  <2>5. Left(q) \subseteq Left(todo) \ {todo[1]}
    BY <1>2, <2>1 DEF Left
  <2> QED
    BY <2>4, <2>5
<1>6. InLine(q)
  <2> SUFFICES ASSUME NEW i \in 1..(n - 1), NEW j \in 1..(n - 1)
               PROVE  /\ q[i] = q[j] => i = j
                      /\ q[i] \in Owners /\ q[j] = "director" => j < i
    BY <1>2 DEF InLine
  <2>1. /\ q[i] = todo[i + 1] /\ i + 1 \in 1..n
        /\ q[j] = todo[j + 1] /\ j + 1 \in 1..n
    BY <1>2
  <2>2. /\ todo[i + 1] = todo[j + 1] => i + 1 = j + 1
        /\ todo[i + 1] \in Owners /\ todo[j + 1] = "director" => j + 1 < i + 1
    BY <1>3, <2>1
  <2>3. i \in Nat /\ j \in Nat
    BY <1>1
  <2> QED
    BY <2>1, <2>2, <2>3
<1>7. todo[1] \in Owners => "director" \notin Left(todo)
  <2>1. \A j \in 1..n : ~(j < 1)
    BY <1>1
  <2> QED
    BY <1>1, <1>3, <1>4, <2>1 DEF Left
<1>8. todo[1] \in Left(todo)
  BY <1>1, <1>4 DEF Left
<1> QED
  BY <1>1, <1>2, <1>5, <1>6, <1>7, <1>8 DEF q

\* What it answers for that one is beside what it had.
LEMMA SubjectDone ==
  ASSUME VerdictInv, NEW t \in Tasks, task[t].pc = "papers", task[t].todo # <<>>,
         NEW s, s = Head(task[t].todo), NEW q, \A c \in VE!Checks(s) : q[c] \in VE!Result,
         NEW seen \in [VE!Subjects -> Nat],
         \A u \in VE!Subjects \ {s} : seen[u] = task[t].seen[u],
         task' = [task EXCEPT ![t] =
                    [task[t] EXCEPT !.todo = Tail(@), !.seen = seen,
                                    !.found = VE!WithResults(@, s, q)]],
         answered \subseteq answered', UNCHANGED <<data, papers, verdict, logged, today, faults>>,
         \A c \in VE!Checks(s) : q[c].status = "Approved" =>
           /\ task[t].read[Of(s, task[t].read)] # Nil
           /\ q[c].print = VE!Fingerprint(Of(s, task[t].read), c,
                             task[t].read[Of(s, task[t].read)], seen[Of(s, task[t].read)])
           /\ today =< q[c].day + MaxAge
           /\ [input |-> q[c].print, day |-> q[c].day] \in answered'
  PROVE  VerdictInv'
<1> DEFINE read == task[t].read
           old == task[t].found
           todo == task[t].todo
           D == Asked(read) \ Left(todo)
           g == VE!WithResults(old, s, q)
           k == [task[t] EXCEPT !.todo = Tail(@), !.seen = seen, !.found = g]
<1>1. task[t] \in Run /\ Goes(task[t], today, answered)
  BY RunIs
<1>2. /\ read \in VE!People /\ Left(todo) \subseteq Asked(read) /\ InLine(todo)
      /\ D \cap Owners # {} => "director" \notin Left(todo)
      /\ DOMAIN old = VE!Slots(D)
      /\ Sealed(old, answered) /\ Backs(old, D, read, task[t].seen, today)
  BY <1>1 DEF Goes
<1>3. /\ todo \in Seq(VE!Subjects) /\ old \in VE!Results
  BY <1>1 DEF Run
<1>4. /\ s \in Left(todo) /\ s \in VE!Subjects /\ Tail(todo) \in Seq(VE!Subjects)
      /\ Left(Tail(todo)) = Left(todo) \ {s} /\ InLine(Tail(todo))
      /\ s \in Owners => "director" \notin Left(todo)
  BY <1>2, <1>3, FirstTaken
<1>5. D \in SUBSET VE!Subjects
  BY DEF Asked, VE!Subjects
<1>6. old \in [VE!Slots(D) -> VE!Result]
  BY <1>2, <1>3, ResultsAre DEF VE!Results
<1>7. g = VE!WithResults(old, s, q)
  OBVIOUS
<1> HIDE DEF D, old, g
<1>8. /\ g \in [VE!Slots(D \cup {s}) -> VE!Result] /\ g \in VE!Results
      /\ \A c \in VE!Checks(s) : g[<<s, c>>] = q[c]
      /\ \A u \in D \ {s} : \A c \in VE!Checks(u) : g[<<u, c>>] = old[<<u, c>>]
  <2>1. s \in VE!Subjects
    BY <1>4
  <2>2. \A c \in VE!Checks(s) : q[c] \in VE!Result
    OBVIOUS
  <2> QED
    BY ONLY <1>5, <1>6, <1>7, <2>1, <2>2, WithResultsIs
<1>9. Asked(read) \ Left(Tail(todo)) = D \cup {s} /\ s \notin D
  BY <1>2, <1>4 DEF D
<1>10. /\ k \in Run /\ k.pc = "papers" /\ k.was = task[t].was /\ k.read = read
      /\ k.todo = Tail(todo) /\ k.seen = seen /\ k.found = g
  BY <1>1, <1>4, <1>8 DEF Run
<1>11. task' = [task EXCEPT ![t] = k]
  BY DEF g, old
<1> HIDE DEF k, read, todo
<1>12. Sealed(g, answered')
  <2> SUFFICES ASSUME NEW x \in VE!Slots(D \cup {s}), g[x].status = "Approved"
               PROVE  [input |-> g[x].print, day |-> g[x].day] \in answered'
    BY <1>8 DEF Sealed
  <2>1. x[1] \in D \cup {s} /\ x[2] \in VE!Checks(x[1]) /\ x = <<x[1], x[2]>>
    BY SlotIs
  <2>2. CASE x[1] = s
    <3> DEFINE c == x[2]
    <3>1. c \in VE!Checks(s) /\ x = <<s, c>>
      BY <2>1, <2>2
    <3> HIDE DEF c
    <3>2. g[x] = q[c]
      BY ONLY <1>8, <3>1
    <3>3. q[c].status = "Approved" =>
            [input |-> q[c].print, day |-> q[c].day] \in answered'
      BY <3>1
    <3>4. g[x].status = "Approved"
      OBVIOUS
    <3> QED
      BY ONLY <3>2, <3>3, <3>4
  <2>3. CASE x[1] # s
    <3>1. x[1] \in D /\ x \in VE!Slots(D) /\ g[x] = old[x]
      BY <1>8, <2>1, <2>3, SlotIs
    <3> QED
      BY <1>2, <3>1 DEF Sealed
  <2> QED
    BY <2>2, <2>3
<1>13. Backs(g, D \cup {s}, read, seen, today)
  <2> SUFFICES ASSUME NEW u \in D \cup {s}, NEW c \in VE!Checks(u),
                      g[<<u, c>>].status = "Approved"
               PROVE  /\ read[Of(u, read)] # Nil
                      /\ g[<<u, c>>].print =
                           VE!Fingerprint(Of(u, read), c, read[Of(u, read)], seen[Of(u, read)])
                      /\ today =< g[<<u, c>>].day + MaxAge
    BY DEF Backs
  <2>1. CASE u = s
    <3>1. g[<<u, c>>] = q[c]
      BY <1>8, <2>1
    <3> QED
      BY <2>1, <3>1 DEF read
  <2>2. CASE u # s
    <3>1. u \in D /\ g[<<u, c>>] = old[<<u, c>>]
      BY <1>8, <2>2
    <3>2. /\ read[Of(u, read)] # Nil
          /\ old[<<u, c>>].print =
               VE!Fingerprint(Of(u, read), c, read[Of(u, read)], task[t].seen[Of(u, read)])
          /\ today =< old[<<u, c>>].day + MaxAge
      BY <1>2, <3>1 DEF Backs
    <3>3. Of(u, read) \in VE!Subjects /\ Of(u, read) # s
      BY <1>2, <1>4, <1>5, <2>2, <3>1 DEF Of, VE!IsSamePerson, VE!Subjects
    <3> QED
      BY <3>1, <3>2, <3>3
  <2> QED
    BY <2>1, <2>2
<1>14. Goes(k, today, answered')
  <2>1. k.was # Nil => Sealed(k.was.results, answered')
    BY <1>1, <1>10, MoreAnswers DEF Goes
  <2>2. (D \cup {s}) \cap Owners # {} => "director" \notin Left(k.todo)
    BY <1>2, <1>4, <1>10
  <2>3. DOMAIN k.found = VE!Slots(D \cup {s})
    BY <1>8, <1>10
  <2>4. Left(k.todo) \subseteq Asked(k.read) /\ Asked(k.read) \ Left(k.todo) = D \cup {s}
    BY <1>2, <1>4, <1>9, <1>10
  <2> QED
    BY <1>2, <1>4, <1>10, <1>12, <1>13, <2>1, <2>2, <2>3, <2>4 DEF Goes
<1>15. VerdictTypes' /\ \A u \in Tasks : Goes(task'[u], today', answered')
  BY <1>10, <1>11, <1>14, RunMoves DEF VerdictInv, VerdictTypes
<1>16. Vouched'
  BY VerdictStays DEF VerdictInv
<1>17. faults = {} => Counted'
  BY <1>10, <1>11, CountGoes DEF VerdictInv
<1> QED
  BY <1>15, <1>16, <1>17 DEF VerdictInv

\* ShareChecks: he is done with before any owner.
LEMMA VerdictShares ==
  ASSUME VerdictInv, NEW t \in Tasks, VE!ShareChecks(t) PROVE VerdictInv'
<1> DEFINE s == Head(task[t].todo)
           old == task[t].found
           read == task[t].read
           D == Asked(read) \ Left(task[t].todo)
           q == [c \in VE!Checks(s) |-> old[<<"director", c>>]]
<1>1. task[t] \in Run /\ Goes(task[t], today, answered)
  BY RunIs
<1>2. /\ task[t].pc = "papers" /\ task[t].todo # <<>> /\ VE!IsSamePerson(s, read)
      /\ UNCHANGED <<data, papers, verdict, answered, logged, today, faults>>
  BY DEF VE!ShareChecks, VE!At
<1>3. /\ Left(task[t].todo) \subseteq Asked(read) /\ InLine(task[t].todo)
      /\ DOMAIN old = VE!Slots(D) /\ task[t].seen \in [VE!Subjects -> Nat]
      /\ Sealed(old, answered) /\ Backs(old, D, read, task[t].seen, today)
  BY <1>1, <1>2 DEF Goes
<1>4. task[t].todo \in Seq(VE!Subjects) /\ old \in VE!Results
  BY <1>1 DEF Run
<1>5. s \in Owners /\ s \in Left(task[t].todo) /\ "director" \notin Left(task[t].todo)
  BY <1>2, <1>3, <1>4, FirstTaken DEF VE!IsSamePerson
<1>6. "director" \in D
  BY <1>3, <1>5, VerdictConstants DEF Asked
<1>7. VE!Checks(s) = VE!Checks("director")
  BY <1>5, ChecksOf
<1>8. \A c \in VE!Checks(s) : <<"director", c>> \in DOMAIN old
  BY <1>3, <1>6, <1>7, SlotIs
<1>9. \A c \in VE!Checks(s) : q[c] = old[<<"director", c>>]
  OBVIOUS
<1>10. \A c \in VE!Checks(s) : q[c] \in VE!Result
  BY <1>4, <1>8, <1>9, ResultsAre
<1>11. Of(s, read) = "director" /\ Of("director", read) = "director"
  BY <1>2, VerdictConstants DEF Of, VE!IsSamePerson
<1>12. task' = [task EXCEPT ![t] = [task[t] EXCEPT !.todo = Tail(@), !.seen = task[t].seen,
                                                   !.found = VE!WithResults(@, s, q)]]
  <2>1. [task[t] EXCEPT !.todo = Tail(@), !.found = VE!WithResults(@, s, q)]
          = [task[t] EXCEPT !.todo = Tail(@), !.seen = task[t].seen,
                            !.found = VE!WithResults(@, s, q)]
    BY <1>1 DEF Run
  <2>2. task' = [task EXCEPT ![t] =
                   [task[t] EXCEPT !.todo = Tail(@), !.found = VE!WithResults(@, s, q)]]
    BY DEF VE!ShareChecks, VerdictInv, VerdictTypes
  <2> QED
    BY <2>1, <2>2
<1> HIDE DEF q, D
<1>13. ASSUME NEW c \in VE!Checks(s), q[c].status = "Approved"
       PROVE  /\ read[Of(s, read)] # Nil
              /\ q[c].print = VE!Fingerprint(Of(s, read), c, read[Of(s, read)],
                                             task[t].seen[Of(s, read)])
              /\ today =< q[c].day + MaxAge
              /\ [input |-> q[c].print, day |-> q[c].day] \in answered'
  <2>1. q[c] = old[<<"director", c>>] /\ c \in VE!Checks("director")
    BY <1>7, <1>9
  <2>2. /\ read["director"] # Nil
        /\ q[c].print = VE!Fingerprint("director", c, read["director"], task[t].seen["director"])
        /\ today =< q[c].day + MaxAge
    BY <1>3, <1>6, <1>11, <1>13, <2>1 DEF Backs
  <2>3. [input |-> q[c].print, day |-> q[c].day] \in answered
    BY <1>3, <1>8, <1>13, <2>1 DEF Sealed
  <2> QED
    BY <1>2, <1>11, <2>2, <2>3
<1> QED
  BY <1>2, <1>3, <1>10, <1>12, <1>13, SubjectDone

\* SkipChecks.
LEMMA VerdictSkips ==
  ASSUME VerdictInv, NEW t \in Tasks, VE!SkipChecks(t) PROVE VerdictInv'
<1> DEFINE s == Head(task[t].todo)
           q == [c \in VE!Checks(s) |-> [status |-> "Skipped", print |-> Nil, day |-> today]]
<1>1. task[t] \in Run /\ Goes(task[t], today, answered)
  BY RunIs
<1>2. /\ task[t].pc = "papers" /\ task[t].todo # <<>>
      /\ UNCHANGED <<data, papers, verdict, answered, logged, today, faults>>
  BY DEF VE!SkipChecks, VE!At
<1>3. task[t].seen \in [VE!Subjects -> Nat]
  BY <1>1, <1>2 DEF Goes
<1>4. \A c \in VE!Checks(s) : q[c] \in VE!Result /\ q[c].status = "Skipped"
  BY DEF VerdictInv, VerdictTypes, VE!Result
<1>5. task' = [task EXCEPT ![t] = [task[t] EXCEPT !.todo = Tail(@), !.seen = task[t].seen,
                                                  !.found = VE!WithResults(@, s, q)]]
  <2>1. [task[t] EXCEPT !.todo = Tail(@), !.found = VE!WithResults(@, s, q)]
          = [task[t] EXCEPT !.todo = Tail(@), !.seen = task[t].seen,
                            !.found = VE!WithResults(@, s, q)]
    BY <1>1 DEF Run
  <2>2. task' = [task EXCEPT ![t] =
                   [task[t] EXCEPT !.todo = Tail(@), !.found = VE!WithResults(@, s, q)]]
    BY DEF VE!SkipChecks, VerdictInv, VerdictTypes
  <2> QED
    BY <2>1, <2>2
<1> HIDE DEF q
<1> QED
  BY <1>2, <1>3, <1>4, <1>5, SubjectDone

\* A fingerprint has its type.
LEMMA PrintIs ==
  ASSUME NEW s \in VE!Subjects, NEW c \in VE!Checks(s), NEW who1 \in VE!Data, NEW n \in Nat
  PROVE  VE!Fingerprint(s, c, who1, n) \in VE!Prints
<1>1. c \in {"id", "aml", "face", "poa"}
  BY ChecksOf DEF VE!Subjects
<1>2. who1.name \in {1, 2}
  BY DEF VE!Data
<1> QED
  BY <1>1, <1>2 DEF VE!Fingerprint, VE!Prints

\* What is reused was answered by Didit for these inputs.
LEMMA ReusedIs ==
  ASSUME NEW was \in VE!Verdicts \cup {Nil}, was # Nil => Sealed(was.results, answered),
         NEW s, NEW c, NEW old, old = VE!Previous(was, s, c),
         NEW print, VE!CanReuse(old, print)
  PROVE  /\ old \in VE!Result /\ old.print = print /\ today =< old.day + MaxAge
         /\ [input |-> old.print, day |-> old.day] \in answered
<1>1. old # Nil /\ old.status = "Approved" /\ old.print = print /\ today =< old.day + MaxAge
  BY DEF VE!CanReuse
<1>2. was # Nil /\ <<s, c>> \in DOMAIN was.results /\ old = was.results[<<s, c>>]
  BY <1>1 DEF VE!Previous
<1>3. was.results \in VE!Results
  BY <1>2 DEF VE!Verdicts
<1>4. old \in VE!Result
  BY <1>2, <1>3, ResultsAre
<1>5. [input |-> old.print, day |-> old.day] \in answered
  BY <1>1, <1>2 DEF Sealed
<1> QED
  BY <1>1, <1>4, <1>5

\* Launch.
LEMMA VerdictLaunches ==
  ASSUME VerdictInv, NEW t \in Tasks, VE!Launch(t) PROVE VerdictInv'
<1> DEFINE s == Head(task[t].todo)
           read == task[t].read
           seen == [task[t].seen EXCEPT ![s] = papers[s]]
           print == [c \in VE!Checks(s) |-> VE!Fingerprint(s, c, read[s], papers[s])]
           old == [c \in VE!Checks(s) |-> VE!Previous(task[t].was, s, c)]
           bare == {c \in VE!Checks(s) : VE!Lacks(s, c)}
           asked1 == {c \in VE!Checks(s) \ bare : ~VE!CanReuse(old[c], print[c])}
<1>1. task[t] \in Run /\ Goes(task[t], today, answered)
  BY RunIs
<1>2. /\ task[t].pc = "papers" /\ task[t].todo # <<>>
      /\ read[s] # Nil /\ ~VE!IsSamePerson(s, read)
      /\ UNCHANGED <<data, papers, verdict, logged, today, faults>>
  BY DEF VE!Launch, VE!At
<1>3. /\ InLine(task[t].todo) /\ task[t].seen \in [VE!Subjects -> Nat] /\ read \in VE!People
      /\ task[t].was # Nil => Sealed(task[t].was.results, answered)
  BY <1>1, <1>2 DEF Goes
<1>4. task[t].todo \in Seq(VE!Subjects) /\ task[t].was \in VE!Verdicts \cup {Nil}
  BY <1>1 DEF Run
<1>5. s \in VE!Subjects
  BY <1>2, <1>3, <1>4, FirstTaken
<1>6. papers[s] \in Nat /\ today \in Nat /\ MaxAge \in Nat
  BY <1>5, VerdictConstants DEF VerdictInv, VerdictTypes
<1>7. /\ seen \in [VE!Subjects -> Nat] /\ seen[s] = papers[s]
      /\ \A u \in VE!Subjects \ {s} : seen[u] = task[t].seen[u]
  BY <1>3, <1>5, <1>6
<1>8. \A c \in VE!Checks(s) : print[c] \in VE!Prints
  BY <1>2, <1>3, <1>5, <1>6, PrintIs DEF VE!People
<1>9. Of(s, read) = s
  BY <1>2 DEF Of
<1>10. PICK refused \in {{}} \cup {{c} : c \in asked1}, how \in VE!Refusals :
         /\ task' = [task EXCEPT
              ![t].todo = Tail(@), ![t].seen[s] = papers[s],
              ![t].found = VE!WithResults(@, s, [c \in VE!Checks(s) |->
                             VE!Resolve(old[c], print[c],
                                        CASE c \in bare -> "Skipped"
                                          [] c \in refused -> how
                                          [] OTHER -> "Approved")])]
         /\ answered' = answered \cup
              {[input |-> print[c], day |-> today] : c \in asked1 \ refused}
  BY DEF VE!Launch, VE!Documents
<1> DEFINE status == [c \in VE!Checks(s) |-> CASE c \in bare -> "Skipped"
                                              [] c \in refused -> how
                                              [] OTHER -> "Approved"]
           q == [c \in VE!Checks(s) |-> VE!Resolve(old[c], print[c],
                                        CASE c \in bare -> "Skipped"
                                          [] c \in refused -> how
                                          [] OTHER -> "Approved")]
<1>11. refused \cap bare = {}
  BY <1>10
<1>12. /\ \A c \in VE!Checks(s) : status[c] \in {"Approved", "Declined", "Failed", "Skipped"}
       /\ \A c \in VE!Checks(s) : status[c] = "Approved" => c \notin bare /\ c \notin refused
  BY <1>10, <1>11 DEF VE!Refusals
<1>13. \A c \in VE!Checks(s) : q[c] = VE!Resolve(old[c], print[c], status[c])
  OBVIOUS
<1>14. answered \subseteq answered'
  BY <1>10
<1>15. \A c \in VE!Checks(s) : c \in asked1 /\ c \notin refused =>
         [input |-> print[c], day |-> today] \in answered'
  BY <1>10
<1>16. \A c \in VE!Checks(s) : c \notin bare /\ ~VE!CanReuse(old[c], print[c]) => c \in asked1
  OBVIOUS
<1>17. \A c \in VE!Checks(s) : /\ old[c] = VE!Previous(task[t].was, s, c)
                               /\ print[c] = VE!Fingerprint(s, c, read[s], papers[s])
  OBVIOUS
<1>18. task' = [task EXCEPT ![t] = [task[t] EXCEPT !.todo = Tail(@), !.seen = seen,
                                                   !.found = VE!WithResults(@, s, q)]]
  BY <1>1, <1>10 DEF Run, VerdictInv, VerdictTypes
<1> HIDE DEF q, status, old, print, bare, asked1, seen
<1>19. ASSUME NEW c \in VE!Checks(s)
       PROVE  /\ q[c] \in VE!Result
              /\ q[c].status = "Approved" =>
                   /\ q[c].print = print[c]
                   /\ today =< q[c].day + MaxAge
                   /\ [input |-> q[c].print, day |-> q[c].day] \in answered'
  <2>1. CASE VE!CanReuse(old[c], print[c])
    <3>1. q[c] = old[c]
      BY <1>13, <2>1 DEF VE!Resolve
    <3>2. /\ old[c] \in VE!Result /\ old[c].print = print[c] /\ today =< old[c].day + MaxAge
          /\ [input |-> old[c].print, day |-> old[c].day] \in answered
      <4> DEFINE was == task[t].was
                 one == old[c]
                 seal == print[c]
      <4>1. was \in VE!Verdicts \cup {Nil} /\ (was # Nil => Sealed(was.results, answered))
        BY <1>3, <1>4
      <4>2. one = VE!Previous(was, s, c)
        BY <1>17
      <4>3. VE!CanReuse(one, seal)
        BY <2>1
      <4> HIDE DEF was, one, seal
      <4>4. /\ one \in VE!Result /\ one.print = seal /\ today =< one.day + MaxAge
            /\ [input |-> one.print, day |-> one.day] \in answered
        BY ONLY <4>1, <4>2, <4>3, ReusedIs
      <4> QED
        BY <4>4 DEF one, seal
    <3> QED
      BY <1>14, <3>1, <3>2
  <2>2. CASE ~VE!CanReuse(old[c], print[c])
    <3>1. q[c] = [status |-> status[c],
                  print |-> IF status[c] \in {"Skipped", "Failed"} THEN Nil ELSE print[c],
                  day |-> today]
      BY <1>13, <2>2 DEF VE!Resolve
    <3>2. q[c] \in VE!Result
      BY <1>6, <1>8, <1>12, <3>1 DEF VE!Result
    <3>3. ASSUME status[c] = "Approved"
          PROVE  [input |-> print[c], day |-> today] \in answered'
      BY <1>12, <1>15, <1>16, <2>2, <3>3
    <3>4. today =< today + MaxAge
      BY <1>6
    <3> QED
      BY <3>1, <3>2, <3>3, <3>4
  <2> QED
    BY <2>1, <2>2
<1>20. ASSUME NEW c \in VE!Checks(s), q[c].status = "Approved"
       PROVE  /\ read[Of(s, read)] # Nil
              /\ q[c].print = VE!Fingerprint(Of(s, read), c, read[Of(s, read)], seen[Of(s, read)])
              /\ today =< q[c].day + MaxAge
              /\ [input |-> q[c].print, day |-> q[c].day] \in answered'
  BY <1>2, <1>7, <1>9, <1>17, <1>19, <1>20
<1> QED
  BY <1>2, <1>7, <1>14, <1>18, <1>19, <1>20, SubjectDone

\* Persist: with nobody left, the results are those of everybody read.
LEMMA VerdictPersists ==
  ASSUME VerdictInv, NEW t \in Tasks, VE!Persist(t) PROVE VerdictInv'
<1> DEFINE k == [VE!Idle EXCEPT !.pc = "log"]
           old == task[t]
           v == VE!Verdict(old)
<1>1. old \in Run /\ Goes(old, today, answered)
  BY RunIs
<1>2. /\ old.pc = "papers" /\ old.todo = <<>>
      /\ UNCHANGED <<data, papers, answered, logged, today, faults>>
      /\ verdict' = v \/ (faults # {} /\ verdict' = verdict)
  BY DEF VE!Persist, VE!At
<1>3. /\ old.read \in VE!People /\ old.seen \in [VE!Subjects -> Nat]
      /\ DOMAIN old.found = VE!Slots(Asked(old.read)) /\ Sealed(old.found, answered)
      /\ Backs(old.found, Asked(old.read), old.read, old.seen, today)
  <2>1. Left(old.todo) = {}
    BY <1>2 DEF Left
  <2>2. Asked(old.read) \ Left(old.todo) = Asked(old.read)
    BY <2>1
  <2> QED
    BY <1>1, <1>2, <2>2 DEF Goes
<1>4. /\ k \in Run /\ k.pc = "log" /\ k.was = Nil /\ k.found = VE!NoResults
      /\ task' = [task EXCEPT ![t] = k]
  <2>1. k = [pc |-> "log", was |-> Nil, read |-> Nil, seen |-> [s \in {} |-> 0], todo |-> <<>>,
             found |-> VE!NoResults]
    BY DEF VE!Idle
  <2>2. task' = [task EXCEPT ![t] = k]
    BY DEF VE!Persist
  <2> HIDE DEF k
  <2>3. k \in Run /\ k.pc = "log" /\ k.was = Nil /\ k.found = VE!NoResults
    BY <2>1, NoSlots DEF Run
  <2> QED
    BY <2>2, <2>3
<1>5. /\ v.results = old.found /\ v.read = old.read /\ v.seen = old.seen /\ v.day = today
      /\ v.overall = VE!Overall(old.found)
      /\ v.count = IF old.was = Nil THEN 1 ELSE old.was.count + 1
  BY DEF VE!Verdict
<1>6. VE!Overall(old.found) \in {"error", "declined", "approved", "needs_review"}
      /\ (VE!Overall(old.found) = "approved" =>
            \A x \in DOMAIN old.found : old.found[x].status = "Approved")
  BY DEF VE!Overall
<1>7. v \in VE!Verdicts
  <2>1. old.found \in VE!Results /\ today \in Nat
    BY <1>1 DEF Run, VerdictInv, VerdictTypes
  <2>2. (IF old.was = Nil THEN 1 ELSE old.was.count + 1) \in Nat
    BY <1>1 DEF Run, VE!Verdicts
  <2> QED
    BY <1>3, <1>6, <2>1, <2>2 DEF VE!Verdict, VE!Verdicts
<1>8. v # Nil
  BY <1>7, VerdictConstants
<1> HIDE DEF k, v
<1>9. Goes(k, today, answered)
  BY <1>4 DEF Goes
<1>10. VerdictTypes' /\ \A u \in Tasks : Goes(task'[u], today', answered')
  BY <1>2, <1>4, <1>7, <1>9, RunMoves DEF VerdictInv, VerdictTypes
<1>11. Vouched'
  <2>1. CASE verdict' = v
    BY <1>2, <1>3, <1>5, <1>6, <2>1 DEF Vouched
  <2>2. CASE verdict' = verdict
    BY <1>2, <2>2, VerdictStays DEF VerdictInv
  <2> QED
    BY <1>2, <2>1, <2>2
<1>12. ASSUME faults = {} PROVE Counted'
  <2>1. Counted /\ verdict' = v
    BY <1>2, <1>12 DEF VerdictInv
  <2>2. \A u \in Tasks : task'[u] = IF u = t THEN k ELSE task[u]
    BY <1>4 DEF VerdictInv, VerdictTypes
  <2>3. \A u \in Tasks : u # t => task[u].pc = "idle"
    BY <1>2, <2>1 DEF Counted
  <2>4. old.was = verdict /\ \A u \in Tasks : task[u].pc # "log"
    BY <1>2, <2>1, <2>3 DEF Counted
  <2>5. logged = (IF verdict = Nil THEN 0 ELSE verdict.count) /\ logged \in Nat
    BY <2>1, <2>4 DEF Counted, VerdictInv, VerdictTypes
  <2>6. v.count = logged + 1
    BY <1>5, <2>4, <2>5
  <2>7. task'[t].pc = "log" /\ \A u \in Tasks : task'[u].pc # "idle" => u = t
    BY <1>4, <2>2, <2>3
  <2>8. \A u \in Tasks : task'[u].pc \notin {"rows", "papers"}
    BY <1>4, <2>2, <2>3
  <2> QED
    BY <1>2, <1>8, <2>1, <2>6, <2>7, <2>8 DEF Counted
<1> QED
  BY <1>2, <1>10, <1>11, <1>12 DEF VerdictInv

\* A run ends.
LEMMA VerdictEnds ==
  ASSUME VerdictInv, NEW t \in Tasks, VE!Done(t), logged' \in Nat,
         UNCHANGED <<data, papers, verdict, answered, today, faults>>, faults = {} => Counted'
  PROVE  VerdictInv'
<1>1. VE!Idle \in Run /\ Goes(VE!Idle, today, answered)
  BY NoSlots DEF VE!Idle, Run, Goes
<1>2. VerdictTypes' /\ \A u \in Tasks : Goes(task'[u], today', answered')
  BY <1>1, RunMoves DEF VE!Done, VerdictInv, VerdictTypes
<1>3. Vouched'
  BY VerdictStays DEF VerdictInv
<1> QED
  BY <1>2, <1>3 DEF VerdictInv

\* Log: one more is counted.
LEMMA VerdictLogs ==
  ASSUME VerdictInv, NEW t \in Tasks, VE!Log(t) PROVE VerdictInv'
<1>1. /\ task[t].pc = "log" /\ logged' = logged + 1 /\ logged \in Nat /\ VE!Done(t)
      /\ UNCHANGED <<data, papers, verdict, answered, today, faults>>
  BY DEF VE!Log, VE!At, VerdictInv, VerdictTypes
<1>2. ASSUME faults = {} PROVE Counted'
  <2>1. Counted
    BY <1>2 DEF VerdictInv
  <2>2. \A u \in Tasks : u # t => task[u].pc = "idle"
    BY <1>1, <2>1 DEF Counted
  <2>3. \A u \in Tasks : task'[u].pc = "idle"
    BY <1>1, <2>2 DEF VE!Done, VE!Idle, VerdictInv, VerdictTypes
  <2>4. (IF verdict = Nil THEN 0 ELSE verdict.count) = logged + 1
    BY <1>1, <2>1 DEF Counted
  <2> QED
    BY <1>1, <2>3, <2>4 DEF Counted
<1> QED
  BY <1>1, <1>2, VerdictEnds

LEMMA VerdictCrashes ==
  ASSUME VerdictInv, NEW t \in Tasks, VE!Crash(t) PROVE VerdictInv'
<1>1. /\ faults # {} /\ VE!Done(t) /\ logged' \in Nat
      /\ UNCHANGED <<data, papers, verdict, answered, today, faults>>
  BY DEF VE!Crash, VerdictInv, VerdictTypes
<1> QED
  BY <1>1, VerdictEnds

\* What the client and the staff do, and a day that passes while nothing runs.
LEMMA VerdictOutside ==
  ASSUME VerdictInv, (\E s \in VE!Subjects : VE!Edit(s) \/ VE!Upload(s)) \/ VE!Tick
  PROVE  VerdictInv'
<1>1. /\ UNCHANGED <<verdict, answered, logged, faults, task>>
      /\ data' \in VE!People /\ papers' \in [VE!Subjects -> Nat] /\ today' \in Nat
  <2>1. ASSUME NEW s \in VE!Subjects, VE!Edit(s)
        PROVE  /\ data' \in VE!People
               /\ UNCHANGED <<verdict, answered, logged, faults, task, papers, today>>
    BY <2>1 DEF VE!Edit, VerdictInv, VerdictTypes, VE!People
  <2>2. ASSUME NEW s \in VE!Subjects, VE!Upload(s)
        PROVE  /\ papers' \in [VE!Subjects -> Nat]
               /\ UNCHANGED <<verdict, answered, logged, faults, task, data, today>>
    BY <2>2 DEF VE!Upload, VerdictInv, VerdictTypes
  <2>3. ASSUME VE!Tick
        PROVE  /\ today' \in Nat
               /\ UNCHANGED <<verdict, answered, logged, faults, task, data, papers>>
    BY <2>3 DEF VE!Tick, VerdictInv, VerdictTypes
  <2> QED
    BY <2>1, <2>2, <2>3 DEF VerdictInv, VerdictTypes
<1>2. today' = today \/ \A t \in Tasks : task[t].pc = "idle"
  BY DEF VE!Edit, VE!Upload, VE!Tick, VE!At
<1>3. VerdictTypes'
  <2>1. /\ VE!People' = VE!People /\ VE!Subjects' = VE!Subjects
        /\ VE!Verdicts' = VE!Verdicts /\ Run' = Run
    OBVIOUS
  <2> QED
    BY <1>1, <2>1 DEF VerdictInv, VerdictTypes
<1>4. \A t \in Tasks : Goes(task[t], today, answered)
  BY DEF VerdictInv
<1>5. \A t \in Tasks : Goes(task[t], today', answered)
  <2>1. CASE today' = today
    BY <1>4, <2>1
  <2>2. CASE \A t \in Tasks : task[t].pc = "idle"
    BY <1>4, <2>2 DEF Goes
  <2> QED
    BY <1>2, <2>1, <2>2
<1>6. Vouched' /\ (faults = {} => Counted')
  BY <1>1 DEF VerdictInv, Vouched, Counted
<1> QED
  BY <1>1, <1>3, <1>5, <1>6 DEF VerdictInv

\* Every step keeps it.
LEMMA VerdictNext == VerdictInv /\ VE!Next => VerdictInv'
BY VerdictBegins, PersonRead, BusinessRead, VerdictShares, VerdictSkips, VerdictLaunches,
  VerdictPersists, VerdictLogs, VerdictCrashes, VerdictOutside DEF VE!Next

\* ApprovedIsChecked and RunsAreCounted of the component follow.
LEMMA VerdictHolds == VerdictInv => VE!ApprovedIsChecked /\ VE!RunsAreCounted
<1> SUFFICES ASSUME VerdictInv PROVE VE!ApprovedIsChecked /\ VE!RunsAreCounted
  OBVIOUS
<1>1. VE!RunsAreCounted
  BY DEF VerdictInv, Counted, VE!RunsAreCounted, VE!At
<1>2. ASSUME verdict # Nil, verdict.overall = "approved",
             NEW s \in Asked(verdict.read), NEW c \in VE!Checks(s)
      PROVE  LET of == Of(s, verdict.read) IN
             /\ verdict.read[of] # Nil
             /\ \E a \in answered :
                  /\ a.input = VE!Fingerprint(of, c, verdict.read[of], verdict.seen[of])
                  /\ verdict.day =< a.day + MaxAge
  <2> DEFINE r == verdict.results[<<s, c>>]
             of == Of(s, verdict.read)
             a == [input |-> r.print, day |-> r.day]
  <2>1. <<s, c>> \in DOMAIN verdict.results
    BY <1>2, SlotIs DEF VerdictInv, Vouched
  <2>2. r.status = "Approved"
    BY <1>2, <2>1 DEF VerdictInv, Vouched
  <2>3. /\ verdict.read[of] # Nil
        /\ r.print = VE!Fingerprint(of, c, verdict.read[of], verdict.seen[of])
        /\ verdict.day =< r.day + MaxAge
    BY <1>2, <2>2 DEF VerdictInv, Vouched, Backs
  <2>4. a \in answered
    BY <1>2, <2>1, <2>2 DEF VerdictInv, Vouched, Sealed
  <2>5. a.input = r.print /\ a.day = r.day
    OBVIOUS
  <2> QED
    BY <2>3, <2>4, <2>5
<1>3. \A s \in VE!Subjects : \E c \in VE!Checks(s) : TRUE
  BY ChecksOf DEF VE!Subjects
<1>4. Asked(verdict.read) \subseteq VE!Subjects
  BY DEF Asked, VE!Subjects
<1>5. VE!ApprovedIsChecked
  BY <1>2, <1>3, <1>4 DEF VE!ApprovedIsChecked, Asked, Of
<1> QED
  BY <1>1, <1>5

\* The invariant holds when the part is the verdict.
LEMMA VerdictInvariant == Spec => [](part = "verdict" => VerdictInv)
<1>1. Init => (part = "verdict" => VerdictInv)
  BY VerdictInit DEF Init
<1>2. (part = "verdict" => VerdictInv) /\ [Next]_vars => (part = "verdict" => VerdictInv)'
  <2> SUFFICES ASSUME part = "verdict" => VerdictInv, [Next]_vars, part' = "verdict"
               PROVE  VerdictInv'
    OBVIOUS
  <2>1. CASE UNCHANGED vars
    <3>1. /\ UNCHANGED <<data, papers, verdict, answered, logged, today, faults, task>>
          /\ VerdictInv
      BY <2>1 DEF vars, verdictOwn
    <3>2. /\ VE!People' = VE!People /\ VE!Subjects' = VE!Subjects
          /\ VE!Verdicts' = VE!Verdicts /\ Run' = Run
      OBVIOUS
    <3>3. VerdictTypes'
      BY <3>1, <3>2 DEF VerdictInv, VerdictTypes
    <3>4. \A t \in Tasks : Goes(task[t], today, answered)
      BY <3>1 DEF VerdictInv
    <3>5. Vouched' /\ (faults = {} => Counted')
      BY <3>1 DEF VerdictInv, Vouched, Counted
    <3> QED
      BY <3>1, <3>3, <3>4, <3>5 DEF VerdictInv
  <2>2. CASE Next
    BY <2>2, VerdictNext DEF Next
  <2> QED
    BY <2>1, <2>2
<1> QED
  BY <1>1, <1>2, PTL DEF Spec

\* An approved verdict of Didit has no gap, however much of it is reused, and no run is
\* lost (runForKycReview, runForKybReview).
THEOREM ApprovalsAreChecked == Spec => []ApprovedIsChecked
<1>1. (part = "verdict" => VerdictInv) => ApprovedIsChecked
  BY VerdictHolds DEF ApprovedIsChecked
<1> QED
  BY <1>1, VerdictInvariant, PTL

(***************************************************************************)
(* The dossier of a company. What was sent is a draft no longer, so nobody *)
(* deletes it; an object and its row are made and removed by one request,  *)
(* which knows what is missing meanwhile; and a request that saves a       *)
(* person knows which rows of his will be left and which documents wait    *)
(* for them.                                                               *)
(***************************************************************************)
\* A document, and the work of a request.
Sheet == [status : {"absent", "pending", "superseded"}, draft : BOOLEAN,
          of : Holders \cup HolderRows \cup {Nil}]
Filing == [pc : DO!Pcs, of : Holders \cup HolderRows \cup {Nil}, row : HolderRows \cup {Nil},
           o : Papers \cup {Nil}, seen : SUBSET (Papers \cup HolderRows), gone : SUBSET Papers,
           old : SUBSET (Papers \cup HolderRows), then : {"idle", "end", "form", "claim"}]
\* Types.
DossierTypes ==
  /\ who \in [HolderRows -> Holders \cup {Nil}] /\ known \subseteq HolderRows
  /\ doc \in [Papers -> Sheet] /\ files \subseteq Papers
  /\ saved \subseteq Holders /\ sent \subseteq Papers
  /\ form \in {"none", "fresh", "stale"}
  /\ app \in {"pending", "submitted", "sent_to_bridge", "needs_review"}
  /\ task \in Filing
\* What a request knows of documents: the one it uploads has no row yet, and those it
\* deletes are drafts.
Drafts ==
  /\ task.pc \in {"insert", "undo"} =>
       /\ task.o \in files /\ doc[task.o].status = "absent"
       /\ task.of \in Holders \cup HolderRows /\ task.of \notin saved
  /\ task.pc = "undo" => "dbError" \in faults
  /\ task.pc \in {"remove", "delete"} => \A o \in task.gone : doc[o].draft
\* What was sent is there, and is no draft once it is marked.
SentStays ==
  \A o \in sent : doc[o].status # "absent" /\ (task.pc # "sentDocs" => ~doc[o].draft)
\* A document has its object, unless it is about to go.
HasObject ==
  \A o \in Papers : doc[o].status = "pending" =>
    o \in files \/ (task.pc = "delete" /\ o \in task.gone)
\* An object has its row, unless it is about to come.
HasRow ==
  /\ \A o \in files : doc[o].status # "absent" \/ (task.pc \in {"insert", "undo"} /\ o = task.o)
  /\ task.pc = "delete" => files \cap task.gone = {}
\* An application that was sent has everybody's documents.
WaitsFor(o, s) == doc[o].status = "pending" /\ doc[o].of = s
SentWhole ==
  /\ task.pc = "check" => \A r \in HolderRows : who[r] # Nil => r \in task.seen
  /\ task.pc = "submit" =>
       \A r \in HolderRows : who[r] # Nil => \E o \in Papers : WaitsFor(o, r)
  /\ app = "submitted" =>
       /\ task.pc \in {"idle", "sentDocs", "sentForm"}
       /\ task.pc = "idle" => form = "none"
       /\ \A r \in HolderRows : who[r] # Nil => \E o \in files : WaitsFor(o, r)
\* The rows of a person, but for some, are at Bridge or are one.
Single(p, but) ==
  \/ \A r \in HolderRows \ but : who[r] = p => r \in known
  \/ \E k \in HolderRows : \A r \in HolderRows \ but : who[r] = p => r = k
\* Where saving a person stands.
Claims ==
  \/ task.pc \in {"replaced", "claim"}
  \/ task.pc \in {"remove", "delete", "supersede"} /\ task.then = "claim"
Saves ==
  /\ task.pc = "find" => task.of \in Holders /\ task.row = Nil
  /\ task.pc \in {"covered", "take", "drop"} =>
       /\ task.of \in Holders
       /\ task.row \in HolderRows \ task.old /\ who[task.row] = task.of
       /\ Single(task.of, task.old)
  /\ task.pc = "write" =>
       /\ task.of \in Holders
       /\ task.row = Nil => \A r \in HolderRows : who[r] # task.of
       /\ task.row # Nil => who[task.row] = task.of /\ Single(task.of, {})
  /\ task.pc = "orphans" \/ Claims =>
       task.of \in Holders /\ task.row \in HolderRows /\ Single(task.of, {})
  /\ Claims => \A o \in Papers : WaitsFor(o, task.of) => o \in task.seen
\* Nothing waits for a person who was saved, and his rows are one or at Bridge.
SavedOnce == \A p \in saved : (\A o \in Papers : ~WaitsFor(o, p)) /\ Single(p, {})
\* The inductive invariant of the dossier.
DossierInv ==
  /\ DossierTypes /\ Drafts /\ Saves /\ SavedOnce
  /\ faults \cap {"dbError", "crash"} = {} => SentStays /\ HasObject
  /\ faults \cap {"storage", "crash"} = {} => HasRow
  /\ faults \subseteq {"legacy"} => SentWhole

\* What the constants are.
LEMMA DossierConstants ==
  /\ Rep \in Holders /\ Nil \notin Holders /\ Nil \notin HolderRows /\ Nil \notin Papers
  /\ IsFiniteSet(HolderRows) /\ Holders \cap HolderRows = {}
BY InstancesAssumption DEF InstancesAssumption, DO!DossierAssumption, DO!IsFiniteSet, IsFiniteSet

\* A request that begins.
LEMMA CallIs ==
  DO!Call = [pc |-> "idle", of |-> Nil, row |-> Nil, o |-> Nil, seen |-> {}, gone |-> {},
             old |-> {}, then |-> "idle"]
BY DEF DO!Call

\* The invariant holds at first.
LEMMA DossierInit == DO!Init => DossierInv
<1> SUFFICES ASSUME DO!Init PROVE DossierInv
  OBVIOUS
<1>1. /\ known = {} /\ form = "none" /\ app = "pending" /\ saved = {} /\ sent = {}
      /\ task \in Filing /\ task.pc = "idle"
  BY DEF DO!Init, DO!Call, Filing, DO!Pcs
<1>2. /\ who \in [HolderRows -> Holders \cup {Nil}] /\ doc \in [Papers -> Sheet]
      /\ files \subseteq Papers
      /\ \A o \in Papers : doc[o].status # "absent" <=> o \in files
  <2>1. DO!Absent \in Sheet /\ DO!Absent.status = "absent"
    BY DEF DO!Absent, Sheet
  <2>2. CASE "legacy" \in faults
    <3>1. PICK p \in Holders, r \in HolderRows, s \in HolderRows : DO!Doubled(p, r, s)
      BY <2>2 DEF DO!Init
    <3>2. PICK o \in Papers :
            /\ files = {o}
            /\ doc = [[x \in Papers |-> DO!Absent] EXCEPT
                       ![o] = [status |-> "pending", draft |-> TRUE, of |-> r]]
      BY <3>1 DEF DO!Doubled
    <3>3. [status |-> "pending", draft |-> TRUE, of |-> r] \in Sheet
      BY DEF Sheet
    <3>4. doc \in [Papers -> Sheet] /\ \A x \in Papers : doc[x].status # "absent" <=> x \in files
      BY <2>1, <3>2, <3>3
    <3>5. who \in [HolderRows -> Holders \cup {Nil}]
      BY <3>1 DEF DO!Doubled
    <3> QED
      BY <3>2, <3>4, <3>5
  <2>3. CASE "legacy" \notin faults
    <3>1. /\ who = [r \in HolderRows |-> Nil] /\ doc = [o \in Papers |-> DO!Absent]
          /\ files = {}
      BY <2>3 DEF DO!Init
    <3> QED
      BY <2>1, <3>1
  <2> QED
    BY <2>2, <2>3
<1>3. DossierTypes
  BY <1>1, <1>2 DEF DossierTypes
<1>4. Drafts /\ Saves /\ SavedOnce /\ SentStays /\ SentWhole
  BY <1>1 DEF Drafts, Saves, Claims, SavedOnce, SentStays, SentWhole
<1>5. HasObject /\ HasRow
  BY <1>1, <1>2 DEF HasObject, HasRow, DO!Active
<1> QED
  BY <1>3, <1>4, <1>5 DEF DossierInv

LEMMA DossierUploads ==
  ASSUME DossierInv, NEW o \in Papers, NEW of \in Holders \cup HolderRows, DO!Upload(o, of)
  PROVE  DossierInv'
<1>1. /\ task.pc = "idle" /\ o \notin files /\ doc[o].status = "absent"
      /\ app \in {"pending", "needs_review"} \/ "late" \in faults
      /\ files' = files \cup {o} /\ saved' = saved \ {of}
      /\ UNCHANGED <<who, known, doc, form, app, sent, faults>>
  BY DEF DO!Upload, DO!Edits, DO!Quiet, DO!At, DO!Absent, DO!personVars, DO!docVars, DO!historyVars
<1>2. task' \in Filing /\ task'.pc = "insert" /\ task'.o = o /\ task'.of = of
  BY CallIs DEF DO!Upload, Filing, DO!Pcs
<1>3. DossierTypes'
  BY <1>1, <1>2, DossierConstants DEF DossierInv, DossierTypes, Sheet, Filing
<1>4. Drafts'
  BY <1>1, <1>2 DEF DossierInv, DossierTypes, Drafts
<1>5. Saves'
  BY <1>1, <1>2, DossierConstants DEF DossierInv, DossierTypes, Saves, Claims, Single, WaitsFor
<1>6. SavedOnce'
  BY <1>1, <1>2, DossierConstants
    DEF DossierInv, DossierTypes, Drafts, SavedOnce, Single, WaitsFor
<1>7. faults \cap {"dbError", "crash"} = {} => SentStays'
  BY <1>1, <1>2 DEF DossierInv, DossierTypes, Drafts, SentStays
<1>8. faults \cap {"dbError", "crash"} = {} => HasObject'
  BY <1>1, <1>2 DEF DossierInv, DossierTypes, Drafts, HasObject
<1>9. faults \cap {"storage", "crash"} = {} => HasRow'
  BY <1>1, <1>2 DEF DossierInv, DossierTypes, Drafts, HasRow
<1>10. faults \subseteq {"legacy"} => SentWhole'
  BY <1>1, <1>2, DossierConstants DEF DossierInv, DossierTypes, SentWhole, WaitsFor
<1> QED
  BY <1>1, <1>2, <1>3, <1>4, <1>5, <1>6, <1>7, <1>8, <1>9, <1>10 DEF DossierInv

LEMMA DossierInserts ==
  ASSUME DossierInv, DO!Insert PROVE DossierInv'
<1>1. /\ task.pc = "insert" /\ task.o \in Papers
      /\ UNCHANGED <<who, known, files, form, app, saved, sent, faults>>
  BY DEF DO!Insert, DO!At, DO!OnlyDocs, DO!personVars, DO!docVars, DO!historyVars, DossierInv,
    DossierTypes, Drafts
<1>2. [status |-> "pending", draft |-> TRUE, of |-> task.of] \in Sheet
  BY <1>1 DEF DossierInv, DossierTypes, Drafts, Sheet
<1>3. \/ /\ doc' = [doc EXCEPT ![task.o] =
                      [status |-> "pending", draft |-> TRUE, of |-> task.of]]
         /\ task' = [task EXCEPT !.pc = "previous"]
      \/ "dbError" \in faults /\ task' = [task EXCEPT !.pc = "undo"] /\ doc' = doc
  BY DEF DO!Insert, DO!Goto
<1>4. /\ task' \in Filing /\ task'.o = task.o /\ task'.of = task.of
      /\ \/ /\ task'.pc = "previous"
            /\ doc' = [doc EXCEPT ![task.o] =
                         [status |-> "pending", draft |-> TRUE, of |-> task.of]]
         \/ task'.pc = "undo" /\ "dbError" \in faults /\ doc' = doc
  BY <1>3 DEF DossierInv, DossierTypes, Filing, DO!Pcs
<1>5. /\ doc' \in [Papers -> Sheet]
      /\ \A o \in Papers :
           \/ doc'[o] = doc[o] /\ (o # task.o \/ task'.pc = "undo")
           \/ /\ o = task.o
              /\ doc'[o].status = "pending" /\ doc'[o].draft /\ doc'[o].of = task.of
  BY <1>1, <1>2, <1>4 DEF DossierInv, DossierTypes
<1>6. DossierTypes'
  BY <1>1, <1>4, <1>5, DossierConstants DEF DossierInv, DossierTypes, Sheet, Filing
<1>7. Drafts'
  BY <1>1, <1>4, <1>5 DEF DossierInv, DossierTypes, Drafts
<1>8. Saves'
  BY <1>1, <1>4, <1>5, DossierConstants
    DEF DossierInv, DossierTypes, Saves, Claims, Single, WaitsFor
<1>9. SavedOnce'
  BY <1>1, <1>4, <1>5, DossierConstants
    DEF DossierInv, DossierTypes, Drafts, SavedOnce, Single, WaitsFor
<1>10. faults \cap {"dbError", "crash"} = {} => SentStays'
  BY <1>1, <1>4, <1>5 DEF DossierInv, DossierTypes, Drafts, SentStays
<1>11. faults \cap {"dbError", "crash"} = {} => HasObject'
  BY <1>1, <1>4, <1>5 DEF DossierInv, DossierTypes, Drafts, HasObject
<1>12. faults \cap {"storage", "crash"} = {} => HasRow'
  BY <1>1, <1>4, <1>5 DEF DossierInv, DossierTypes, Drafts, HasRow
<1>13. faults \subseteq {"legacy"} => SentWhole'
  BY <1>1, <1>4, <1>5, DossierConstants DEF DossierInv, DossierTypes, SentWhole, WaitsFor
<1> QED
  BY <1>1, <1>4, <1>5, <1>6, <1>7, <1>8, <1>9, <1>10, <1>11, <1>12, <1>13 DEF DossierInv

\* A request that only reads.
LEMMA DossierMoves ==
  ASSUME DossierInv, task' \in Filing, Drafts', Saves',
         UNCHANGED <<who, known, doc, files, form, app, saved, sent, faults>>,
         task.pc \notin {"insert", "undo", "delete", "sentDocs"} \/ "crash" \in faults,
         task'.pc # "delete", faults \subseteq {"legacy"} => SentWhole'
  PROVE  DossierInv'
<1>1. DossierTypes'
  BY DEF DossierInv, DossierTypes, Sheet, Filing
<1>2. SavedOnce'
  BY DEF DossierInv, SavedOnce, Single, WaitsFor
<1>3. faults \cap {"dbError", "crash"} = {} => SentStays' /\ HasObject'
  BY DEF DossierInv, SentStays, HasObject
<1>4. faults \cap {"storage", "crash"} = {} => HasRow'
  BY DEF DossierInv, HasRow
<1> QED
  BY <1>1, <1>2, <1>3, <1>4 DEF DossierInv

\* The state of the dossier is read and the request goes elsewhere.
LEMMA DossierReads ==
  ASSUME DossierInv, DO!Reads
  PROVE  UNCHANGED <<who, known, doc, files, form, app, saved, sent, faults>>
BY DEF DO!Reads, DO!personVars, DO!docVars, DO!historyVars

\* Previous: what is withdrawn are the drafts.
LEMMA DossierPrevious == ASSUME DossierInv, DO!Previous PROVE DossierInv'
<1> DEFINE these == DO!Of(task.of) \ {task.o}
           gone == {o \in these : doc[o].draft}
<1>1. task.pc = "previous" /\ UNCHANGED <<who, known, doc, files, form, app, saved, sent, faults>>
  BY DossierReads DEF DO!Previous, DO!At
<1>2. task' = [task EXCEPT !.pc = "remove", !.gone = gone, !.old = these \ gone, !.then = "idle"]
  BY DEF DO!Previous, DO!Retire
<1>3. these \subseteq Papers /\ \A o \in gone : doc[o].draft
  BY DEF DO!Of, DO!Active
<1> HIDE DEF these, gone
<1>4. /\ task' \in Filing /\ task'.pc = "remove" /\ task'.then = "idle" /\ task'.gone = gone
  BY <1>2, <1>3 DEF DossierInv, DossierTypes, Filing, DO!Pcs, gone
<1>5. Drafts' /\ Saves'
  BY <1>1, <1>3, <1>4 DEF Drafts, Saves, Claims
<1>6. faults \subseteq {"legacy"} => SentWhole'
  BY <1>1, <1>4 DEF DossierInv, SentWhole, WaitsFor
<1> QED
  BY <1>1, <1>4, <1>5, <1>6, DossierMoves

\* DeleteDraftDocument, DeleteDraft and the purge, Save, SubmitKybApplication: a request begins.
LEMMA DossierBegins ==
  ASSUME DossierInv,
         (\E o \in Papers : DO!DeleteDraftDocument(o)) \/ DO!DeleteDraft
           \/ (\E p \in Holders : DO!Save(p)) \/ DO!SubmitKybApplication
  PROVE  DossierInv'
<1>1. task.pc = "idle" /\ UNCHANGED <<who, known, doc, files, form, app, saved, sent, faults>>
  BY DossierReads DEF DO!DeleteDraftDocument, DO!DeleteDraft, DO!Save, DO!SubmitKybApplication,
    DO!Edits, DO!Quiet, DO!At
<1>2. (faults \subseteq {"legacy"} /\ app = "submitted") => form = "none"
  BY <1>1 DEF DossierInv, SentWhole
<1>3. (faults \subseteq {"legacy"} /\ app = "submitted") => FALSE
  BY <1>2 DEF DO!DeleteDraftDocument, DO!DeleteDraft, DO!Save, DO!SubmitKybApplication, DO!Edits
<1>4. /\ task' \in Filing
      /\ \/ /\ task'.pc = "remove" /\ task'.then \in {"end", "form"}
            /\ \A o \in task'.gone : doc[o].draft
         \/ task'.pc = "form"
         \/ task'.pc = "find" /\ task'.of \in Holders /\ task'.row = Nil
         \/ task'.pc = "check" /\ task'.seen = DO!Registered
  <2>1. ASSUME NEW o \in Papers, DO!DeleteDraftDocument(o)
        PROVE  /\ task' \in Filing /\ task'.pc = "remove" /\ task'.then = "end"
               /\ task'.gone = {o} /\ doc[o].draft
    BY <2>1, CallIs DEF DO!DeleteDraftDocument, Filing, DO!Pcs
  <2>2. ASSUME DO!DeleteDraft
        PROVE  /\ task' \in Filing /\ task'.pc \in {"remove", "form"} /\ task'.then = "form"
               /\ \A o \in task'.gone : doc[o].draft
    <3> DEFINE drafts == {o \in Papers : doc[o].draft}
    <3>1. drafts \subseteq Papers /\ \A o \in drafts : doc[o].draft
      OBVIOUS
    <3>2. task' = [DO!Call EXCEPT !.pc = IF drafts = {} THEN "form" ELSE "remove",
                                  !.gone = drafts, !.then = "form"]
      BY <2>2 DEF DO!DeleteDraft
    <3> HIDE DEF drafts
    <3> QED
      BY <3>1, <3>2, CallIs DEF Filing, DO!Pcs
  <2>3. ASSUME NEW p \in Holders, DO!Save(p)
        PROVE  task' \in Filing /\ task'.pc = "find" /\ task'.of = p /\ task'.row = Nil
    BY <2>3, CallIs DEF DO!Save, Filing, DO!Pcs
  <2>4. ASSUME DO!SubmitKybApplication
        PROVE  task' \in Filing /\ task'.pc = "check" /\ task'.seen = DO!Registered
    <3>1. DO!Registered \subseteq HolderRows
      BY DEF DO!Registered
    <3> QED
      BY <2>4, <3>1, CallIs DEF DO!SubmitKybApplication, Filing, DO!Pcs
  <2> QED
    BY <2>1, <2>2, <2>3, <2>4
<1>5. Drafts' /\ Saves'
  BY <1>1, <1>4 DEF Drafts, Saves, Claims
<1>6. faults \subseteq {"legacy"} => SentWhole'
  BY <1>1, <1>3, <1>4 DEF DossierInv, SentWhole, DO!Registered
<1> QED
  BY <1>1, <1>4, <1>5, <1>6, DossierMoves

\* AssertIdentityDocumentsComplete.
LEMMA DossierChecks ==
  ASSUME DossierInv, DO!AssertIdentityDocumentsComplete PROVE DossierInv'
<1>1. task.pc = "check" /\ UNCHANGED <<who, known, doc, files, form, app, saved, sent, faults>>
  BY DossierReads DEF DO!AssertIdentityDocumentsComplete, DO!At
<1>2. /\ task' \in Filing
      /\ \/ task'.pc = "submit" /\ \A r \in task.seen : \E o \in Papers : WaitsFor(o, r)
         \/ task'.pc = "idle"
  <2>1. CASE \A r \in task.seen : DO!Of(r) # {}
    <3>1. task' = [task EXCEPT !.pc = "submit"]
      BY <2>1 DEF DO!AssertIdentityDocumentsComplete, DO!Goto
    <3>2. \A r \in task.seen : \E o \in Papers : WaitsFor(o, r)
      BY <2>1 DEF DO!Of, DO!Active, WaitsFor
    <3> QED
      BY <3>1, <3>2 DEF DossierInv, DossierTypes, Filing, DO!Pcs
  <2>2. CASE ~\A r \in task.seen : DO!Of(r) # {}
    BY <2>2, CallIs DEF DO!AssertIdentityDocumentsComplete, DO!Done, Filing, DO!Pcs
  <2> QED
    BY <2>1, <2>2
<1>3. Drafts' /\ Saves'
  BY <1>1, <1>2 DEF Drafts, Saves, Claims
<1>4. faults \subseteq {"legacy"} => SentWhole'
  BY <1>1, <1>2 DEF DossierInv, SentWhole, WaitsFor
<1> QED
  BY <1>1, <1>2, <1>3, <1>4, DossierMoves

LEMMA DossierCrashes == ASSUME DossierInv, DO!Crash PROVE DossierInv'
<1>1. /\ "crash" \in faults /\ task' \in Filing /\ task'.pc = "idle"
      /\ UNCHANGED <<who, known, doc, files, form, app, saved, sent, faults>>
  BY DossierReads, CallIs DEF DO!Crash, Filing, DO!Pcs
<1>2. Drafts' /\ Saves' /\ ~(faults \subseteq {"legacy"})
  BY <1>1 DEF Drafts, Saves, Claims
<1> QED
  BY <1>1, <1>2, DossierMoves

\* Find: the rows that are left are one, or Bridge has them.
LEMMA DossierFinds == ASSUME DossierInv, DO!Find PROVE DossierInv'
<1> DEFINE p == task.of
<1>1. /\ task.pc = "find" /\ p \in Holders /\ task.row = Nil
      /\ UNCHANGED <<who, known, doc, files, form, app, saved, sent, faults>>
  BY DossierReads DEF DO!Find, DO!At, DossierInv, Saves
<1>2. /\ task' \in Filing
      /\ \/ /\ task'.pc = "write" /\ task'.of = p /\ task'.row = Nil
            /\ \A r \in HolderRows : who[r] # p
         \/ task'.pc = "idle"
         \/ /\ task'.pc = "write" /\ task'.of = p /\ task'.row \in HolderRows
            /\ who[task'.row] = p /\ Single(p, {})
         \/ /\ task'.pc = "covered" /\ task'.of = p /\ task'.row \in HolderRows \ task'.old
            /\ who[task'.row] = p /\ Single(p, task'.old)
  <2>1. CASE DO!RowsOf(p) = {}
    <3>1. \A r \in HolderRows : who[r] # p
      BY <2>1 DEF DO!RowsOf
    <3>2. task' = [task EXCEPT !.pc = "write"] \/ task' = DO!Call
      BY <2>1 DEF DO!Find, DO!Goto, DO!Done
    <3> QED
      BY <1>1, <3>1, <3>2, CallIs DEF DossierInv, DossierTypes, Filing, DO!Pcs
  <2>2. CASE DO!RowsOf(p) # {} /\ p = Rep /\ DO!Cardinality(DO!RowsOf(p)) > 1
    BY <2>2, CallIs DEF DO!Find, DO!Done, Filing, DO!Pcs
  <2>3. CASE DO!RowsOf(p) # {} /\ ~(p = Rep /\ DO!Cardinality(DO!RowsOf(p)) > 1)
    <3>1. PICK keeper \in DO!Keepers(p) :
            LET doubles == DO!RowsOf(p) \ (known \cup {keeper}) IN
            task' = [task EXCEPT !.pc = IF doubles = {} THEN "write" ELSE "covered",
                                 !.row = keeper, !.old = doubles]
      BY <2>3 DEF DO!Find
    <3> DEFINE doubles == DO!RowsOf(p) \ (known \cup {keeper})
    <3>2. /\ keeper \in HolderRows /\ who[keeper] = p
          /\ keeper \in known \/ \A r \in HolderRows : who[r] = p => r \notin known
      BY <3>1 DEF DO!Keepers, DO!RowsOf
    <3>3. /\ doubles \subseteq HolderRows /\ keeper \notin doubles
          /\ \A r \in HolderRows \ doubles : who[r] = p => r \in known \/ r = keeper
      BY DEF DO!RowsOf
    <3>4. Single(p, doubles)
      BY <3>2, <3>3 DEF Single
    <3> HIDE DEF doubles
    <3>5. task' = [task EXCEPT !.pc = IF doubles = {} THEN "write" ELSE "covered",
                               !.row = keeper, !.old = doubles]
      BY <3>1 DEF doubles
    <3>6. /\ task' \in Filing /\ task'.of = p /\ task'.row = keeper /\ task'.old = doubles
          /\ task'.pc = IF doubles = {} THEN "write" ELSE "covered"
      BY <3>2, <3>3, <3>5 DEF DossierInv, DossierTypes, Filing, DO!Pcs
    <3> QED
      BY <3>2, <3>3, <3>4, <3>6
  <2> QED
    BY <2>1, <2>2, <2>3
<1>3. Drafts'
  BY <1>2 DEF Drafts
<1>4. Saves'
  BY <1>1, <1>2, DossierConstants DEF Saves, Claims, Single
<1>5. faults \subseteq {"legacy"} => SentWhole'
  BY <1>1, <1>2 DEF DossierInv, SentWhole, WaitsFor
<1> QED
  BY <1>1, <1>2, <1>3, <1>4, <1>5, DossierMoves

\* Covered.
LEMMA DossierCovers == ASSUME DossierInv, DO!Covered PROVE DossierInv'
<1> DEFINE theirs == {o \in DO!Active : doc[o].of \in task.old}
<1>1. task.pc = "covered" /\ UNCHANGED <<who, known, doc, files, form, app, saved, sent, faults>>
  BY DossierReads DEF DO!Covered, DO!At
<1>2. theirs \subseteq Papers /\ DO!Of(task.row) \subseteq Papers
  BY DEF DO!Of, DO!Active
<1>3. task' = [task EXCEPT !.pc = IF theirs = {} THEN "drop" ELSE "take",
                           !.seen = theirs, !.gone = DO!Of(task.row)]
  BY DEF DO!Covered
<1> HIDE DEF theirs
<1>4. /\ task' \in Filing /\ task'.pc \in {"drop", "take"}
      /\ task'.of = task.of /\ task'.row = task.row /\ task'.old = task.old
  BY <1>2, <1>3 DEF DossierInv, DossierTypes, Filing, DO!Pcs
<1>5. Drafts'
  BY <1>4 DEF Drafts
<1>6. Saves'
  BY <1>1, <1>4 DEF DossierInv, Saves, Claims, Single
<1>7. faults \subseteq {"legacy"} => SentWhole'
  BY <1>1, <1>4 DEF DossierInv, SentWhole
<1> QED
  BY <1>1, <1>4, <1>5, <1>6, <1>7, DossierMoves

\* Replaced.
LEMMA DossierReplaces == ASSUME DossierInv, DO!Replaced PROVE DossierInv'
<1> DEFINE these == DO!Of(task.row)
           gone == {o \in these : doc[o].draft}
<1>1. task.pc = "replaced" /\ UNCHANGED <<who, known, doc, files, form, app, saved, sent, faults>>
  BY DossierReads DEF DO!Replaced, DO!At
<1>2. task' = [task EXCEPT !.pc = "remove", !.gone = gone, !.old = these \ gone, !.then = "claim"]
  BY DEF DO!Replaced, DO!Retire
<1>3. these \subseteq Papers /\ \A o \in gone : doc[o].draft
  BY DEF DO!Of, DO!Active
<1> HIDE DEF these, gone
<1>4. /\ task' \in Filing /\ task'.pc = "remove" /\ task'.then = "claim" /\ task'.gone = gone
      /\ task'.of = task.of /\ task'.row = task.row /\ task'.seen = task.seen
  BY <1>2, <1>3 DEF DossierInv, DossierTypes, Filing, DO!Pcs, gone
<1>5. Drafts'
  BY <1>1, <1>3, <1>4 DEF Drafts
<1>6. Saves'
  BY <1>1, <1>4 DEF DossierInv, Saves, Claims, Single, WaitsFor
<1>7. faults \subseteq {"legacy"} => SentWhole'
  BY <1>1, <1>4 DEF DossierInv, SentWhole
<1> QED
  BY <1>1, <1>4, <1>5, <1>6, <1>7, DossierMoves

\* Undo: the object of a document without a row.
LEMMA DossierUndoes ==
  ASSUME DossierInv, DO!Undo PROVE DossierInv'
<1>1. /\ task.pc = "undo"
      /\ files' = files \ {task.o} \/ ("storage" \in faults /\ files' = files)
      /\ "dbError" \in faults /\ UNCHANGED <<who, known, doc, form, app, saved, sent, faults>>
  BY DEF DO!Undo, DO!At, DO!OnlyFiles, DO!personVars, DO!historyVars, DossierInv, Drafts
<1>2. task' \in Filing /\ task'.pc = "idle"
  BY CallIs DEF DO!Undo, DO!Done, Filing, DO!Pcs
<1>3. DossierTypes'
  BY <1>1, <1>2, DossierConstants DEF DossierInv, DossierTypes, Sheet, Filing
<1>4. Drafts'
  BY <1>1, <1>2 DEF DossierInv, DossierTypes, Drafts
<1>5. Saves'
  BY <1>1, <1>2, DossierConstants DEF DossierInv, DossierTypes, Saves, Claims, Single, WaitsFor
<1>6. SavedOnce'
  BY <1>1, <1>2, DossierConstants
    DEF DossierInv, DossierTypes, Drafts, SavedOnce, Single, WaitsFor
<1>7. faults \cap {"dbError", "crash"} = {} => SentStays'
  BY <1>1, <1>2 DEF DossierInv, DossierTypes, Drafts, SentStays
<1>8. faults \cap {"dbError", "crash"} = {} => HasObject'
  BY <1>1, <1>2 DEF DossierInv, DossierTypes, Drafts, HasObject
<1>9. faults \cap {"storage", "crash"} = {} => HasRow'
  BY <1>1, <1>2 DEF DossierInv, DossierTypes, Drafts, HasRow
<1>10. faults \subseteq {"legacy"} => SentWhole'
  BY <1>1, <1>2, DossierConstants DEF DossierInv, DossierTypes, SentWhole, WaitsFor
<1> QED
  BY <1>1, <1>2, <1>3, <1>4, <1>5, <1>6, <1>7, <1>8, <1>9, <1>10 DEF DossierInv

\* Remove: the objects go first.
LEMMA DossierRemoves ==
  ASSUME DossierInv, DO!Remove PROVE DossierInv'
<1>1. task.pc = "remove" /\ UNCHANGED <<who, known, doc, form, app, saved, sent, faults>>
  BY DEF DO!Remove, DO!At, DO!OnlyFiles, DO!personVars, DO!historyVars
<1>a. \/ files' = files \ task.gone /\ task' = [task EXCEPT !.pc = "delete"]
      \/ "storage" \in faults /\ files' = files /\ task' = DO!Call
      \/ /\ "storage" \in faults /\ files' = files
         /\ task' = [task EXCEPT !.pc = "supersede", !.gone = {}, !.old = task.old \cup task.gone]
  BY DEF DO!Remove, DO!Goto, DO!Fails, DO!Done, DO!Erases
<1>2. /\ task' \in Filing
      /\ \/ /\ files' = files \ task.gone /\ task'.pc = "delete" /\ task'.gone = task.gone
            /\ task'.of = task.of /\ task'.row = task.row /\ task'.seen = task.seen
            /\ task'.then = task.then
         \/ "storage" \in faults /\ files' = files /\ task'.pc = "idle"
         \/ /\ "storage" \in faults /\ files' = files /\ task'.pc = "supersede"
            /\ task'.of = task.of /\ task'.row = task.row /\ task'.seen = task.seen
            /\ task'.then = task.then
  <2>0. task \in Filing
    BY DEF DossierInv, DossierTypes
  <2>1. CASE files' = files \ task.gone /\ task' = [task EXCEPT !.pc = "delete"]
    BY <1>a, <2>0, <2>1 DEF Filing, DO!Pcs
  <2>2. CASE "storage" \in faults /\ files' = files /\ task' = DO!Call
    BY <1>a, <2>0, <2>2, CallIs DEF Filing, DO!Pcs
  <2>3. CASE /\ "storage" \in faults /\ files' = files
             /\ task' = [task EXCEPT !.pc = "supersede", !.gone = {},
                                     !.old = task.old \cup task.gone]
    BY <1>a, <2>0, <2>3 DEF Filing, DO!Pcs
  <2> QED
    BY <1>a, <2>1, <2>2, <2>3
<1>3. DossierTypes'
  BY <1>1, <1>2, DossierConstants DEF DossierInv, DossierTypes, Sheet, Filing
<1>4. Drafts'
  BY <1>1, <1>2 DEF DossierInv, DossierTypes, Drafts
<1>5. Saves'
  BY <1>1, <1>2, DossierConstants DEF DossierInv, DossierTypes, Saves, Claims, Single, WaitsFor
<1>6. SavedOnce'
  BY <1>1, <1>2, DossierConstants
    DEF DossierInv, DossierTypes, Drafts, SavedOnce, Single, WaitsFor
<1>7. faults \cap {"dbError", "crash"} = {} => SentStays'
  BY <1>1, <1>2 DEF DossierInv, DossierTypes, Drafts, SentStays
<1>8. faults \cap {"dbError", "crash"} = {} => HasObject'
  BY <1>1, <1>2 DEF DossierInv, DossierTypes, Drafts, HasObject
<1>9. faults \cap {"storage", "crash"} = {} => HasRow'
  BY <1>1, <1>2 DEF DossierInv, DossierTypes, Drafts, HasRow
<1>10. faults \subseteq {"legacy"} => SentWhole'
  BY <1>1, <1>2, DossierConstants DEF DossierInv, DossierTypes, SentWhole, WaitsFor
<1> QED
  BY <1>1, <1>2, <1>3, <1>4, <1>5, <1>6, <1>7, <1>8, <1>9, <1>10 DEF DossierInv

\* Delete: then their rows.
LEMMA DossierDeletes ==
  ASSUME DossierInv, DO!Delete PROVE DossierInv'
<1>1. task.pc = "delete" /\ UNCHANGED <<who, known, files, form, app, saved, sent, faults>>
  BY DEF DO!Delete, DO!At, DO!OnlyDocs, DO!personVars, DO!historyVars
<1>2. /\ DO!Absent \in Sheet /\ DO!Absent.status = "absent" /\ ~DO!Absent.draft
      /\ \/ doc' = [o \in Papers |-> IF o \in task.gone THEN DO!Absent ELSE doc[o]]
         \/ "dbError" \in faults /\ doc' = doc
  BY DEF DO!Delete, DO!Absent, Sheet
<1>3. /\ doc' \in [Papers -> Sheet]
      /\ \A o \in Papers :
           \/ doc'[o] = doc[o] /\ (o \notin task.gone \/ "dbError" \in faults)
           \/ o \in task.gone /\ doc'[o].status = "absent" /\ ~doc'[o].draft
  BY <1>2 DEF DossierInv, DossierTypes
<1>a. \/ task' = DO!Call \/ task' = [task EXCEPT !.pc = "form"]
      \/ task' = [task EXCEPT !.pc = "supersede"]
      \/ task' = [task EXCEPT !.pc = "supersede", !.gone = {}, !.old = task.old \cup task.gone]
  BY DEF DO!Delete, DO!Goto, DO!Fails, DO!Done, DO!Erases
<1>4. /\ task' \in Filing
      /\ \/ task'.pc \in {"idle", "form"}
         \/ /\ task'.pc = "supersede" /\ task'.seen = task.seen /\ task'.then = task.then
            /\ task'.of = task.of /\ task'.row = task.row
  <2>0. task \in Filing
    BY DEF DossierInv, DossierTypes
  <2>1. CASE task' = DO!Call
    BY <1>a, <2>0, <2>1, CallIs DEF Filing, DO!Pcs
  <2>2. CASE task' = [task EXCEPT !.pc = "form"]
    BY <1>a, <2>0, <2>2 DEF Filing, DO!Pcs
  <2>3. CASE task' = [task EXCEPT !.pc = "supersede"]
    BY <1>a, <2>0, <2>3 DEF Filing, DO!Pcs
  <2>4. CASE task' = [task EXCEPT !.pc = "supersede", !.gone = {},
                                   !.old = task.old \cup task.gone]
    BY <1>a, <2>0, <2>4 DEF Filing, DO!Pcs
  <2> QED
    BY <1>a, <2>1, <2>2, <2>3, <2>4
<1>5. DossierTypes'
  BY <1>1, <1>3, <1>4, DossierConstants DEF DossierInv, DossierTypes, Sheet, Filing
<1>6. Drafts'
  BY <1>1, <1>3, <1>4 DEF DossierInv, DossierTypes, Drafts
<1>7. Saves'
  BY <1>1, <1>3, <1>4, DossierConstants
    DEF DossierInv, DossierTypes, Saves, Claims, Single, WaitsFor
<1>8. SavedOnce'
  BY <1>1, <1>3, <1>4, DossierConstants
    DEF DossierInv, DossierTypes, Drafts, SavedOnce, Single, WaitsFor
<1>9. faults \cap {"dbError", "crash"} = {} => SentStays'
  BY <1>1, <1>3, <1>4 DEF DossierInv, DossierTypes, Drafts, SentStays
<1>10. faults \cap {"dbError", "crash"} = {} => HasObject'
  BY <1>1, <1>3, <1>4 DEF DossierInv, DossierTypes, Drafts, HasObject
<1>11. faults \cap {"storage", "crash"} = {} => HasRow'
  BY <1>1, <1>3, <1>4 DEF DossierInv, DossierTypes, Drafts, HasRow
<1>12. faults \subseteq {"legacy"} => SentWhole'
  BY <1>1, <1>3, <1>4, DossierConstants DEF DossierInv, DossierTypes, SentWhole, WaitsFor
<1> QED
  BY <1>1, <1>3, <1>4, <1>5, <1>6, <1>7, <1>8, <1>9, <1>10, <1>11, <1>12 DEF DossierInv

\* Supersede.
LEMMA DossierSupersedes ==
  ASSUME DossierInv, DO!Supersede PROVE DossierInv'
<1>1. task.pc = "supersede" /\ UNCHANGED <<who, known, files, form, app, saved, sent, faults>>
  BY DEF DO!Supersede, DO!At, DO!OnlyDocs, DO!personVars, DO!historyVars
<1>2. \/ doc' = [o \in Papers |-> IF o \in task.old
                               THEN [doc[o] EXCEPT !.status = "superseded"] ELSE doc[o]]
      \/ doc' = doc
  BY DEF DO!Supersede
<1>3. /\ doc' \in [Papers -> Sheet]
      /\ \A o \in Papers :
           \/ doc'[o] = doc[o]
           \/ /\ doc'[o].status = "superseded"
              /\ doc'[o].draft = doc[o].draft /\ doc'[o].of = doc[o].of
  BY <1>2 DEF DossierInv, DossierTypes, Sheet
<1>4. /\ task' \in Filing
      /\ \/ task'.pc = "idle"
         \/ /\ task'.pc = "claim" /\ task'.seen = task.seen /\ task.then = "claim"
            /\ task'.of = task.of /\ task'.row = task.row
  BY CallIs DEF DO!Supersede, DO!Goto, DO!Done, DossierInv, DossierTypes, Filing, DO!Pcs
<1>5. DossierTypes'
  BY <1>1, <1>3, <1>4, DossierConstants DEF DossierInv, DossierTypes, Sheet, Filing
<1>6. Drafts'
  BY <1>1, <1>3, <1>4 DEF DossierInv, DossierTypes, Drafts
<1>7. Saves'
  BY <1>1, <1>3, <1>4, DossierConstants
    DEF DossierInv, DossierTypes, Saves, Claims, Single, WaitsFor
<1>8. SavedOnce'
  BY <1>1, <1>3, <1>4, DossierConstants
    DEF DossierInv, DossierTypes, Drafts, SavedOnce, Single, WaitsFor
<1>9. faults \cap {"dbError", "crash"} = {} => SentStays'
  BY <1>1, <1>3, <1>4 DEF DossierInv, DossierTypes, Drafts, SentStays
<1>10. faults \cap {"dbError", "crash"} = {} => HasObject'
  BY <1>1, <1>3, <1>4 DEF DossierInv, DossierTypes, Drafts, HasObject
<1>11. faults \cap {"storage", "crash"} = {} => HasRow'
  BY <1>1, <1>3, <1>4 DEF DossierInv, DossierTypes, Drafts, HasRow
<1>12. faults \subseteq {"legacy"} => SentWhole'
  BY <1>1, <1>3, <1>4, DossierConstants DEF DossierInv, DossierTypes, SentWhole, WaitsFor
<1> QED
  BY <1>1, <1>3, <1>4, <1>5, <1>6, <1>7, <1>8, <1>9, <1>10, <1>11, <1>12 DEF DossierInv

\* Take: a document of a double becomes one of the row that stays.
LEMMA DossierTakes ==
  ASSUME DossierInv, NEW o \in Papers, DO!Take(o) PROVE DossierInv'
<1>1. /\ task.pc = "take" /\ task.row \in HolderRows
      /\ UNCHANGED <<who, known, files, form, app, saved, sent, faults>>
  BY DEF DO!Take, DO!At, DO!OnlyDocs, DO!personVars, DO!historyVars, DossierInv, Saves
<1>2. \/ doc' = [doc EXCEPT ![o] = [doc[o] EXCEPT !.of = task.row]]
      \/ doc' = [doc EXCEPT ![o] = [doc[o] EXCEPT !.status = "superseded"]]
      \/ doc' = doc
  BY DEF DO!Take
<1>3. /\ doc' \in [Papers -> Sheet]
      /\ \A x \in Papers :
           /\ doc'[x].draft = doc[x].draft
           /\ doc'[x].status = doc[x].status \/ doc'[x].status = "superseded"
           /\ doc'[x].of = doc[x].of \/ doc'[x].of = task.row
  BY <1>1, <1>2 DEF DossierInv, DossierTypes, Sheet
<1>a. \/ task' = DO!Call
      \/ task' = [task EXCEPT !.pc = IF task.seen \ {o} = {} THEN "drop" ELSE "take",
                                !.seen = task.seen \ {o}, !.gone = task.gone \cup {o}]
  BY DEF DO!Take, DO!Done
<1>4. /\ task' \in Filing
      /\ \/ task'.pc = "idle"
         \/ /\ task'.pc \in {"take", "drop"} /\ task'.old = task.old
            /\ task'.of = task.of /\ task'.row = task.row
  <2>0. task \in Filing
    BY DEF DossierInv, DossierTypes
  <2>1. CASE task' = DO!Call
    BY <1>a, <2>0, <2>1, CallIs DEF Filing, DO!Pcs
  <2>2. CASE task' = [task EXCEPT !.pc = IF task.seen \ {o} = {} THEN "drop" ELSE "take",
                                   !.seen = task.seen \ {o}, !.gone = task.gone \cup {o}]
    BY <1>a, <2>0, <2>2 DEF Filing, DO!Pcs
  <2> QED
    BY <1>a, <2>1, <2>2
<1>5. DossierTypes'
  BY <1>1, <1>3, <1>4, DossierConstants DEF DossierInv, DossierTypes, Sheet, Filing
<1>6. Drafts'
  BY <1>1, <1>3, <1>4 DEF DossierInv, DossierTypes, Drafts
<1>7. Saves'
  BY <1>1, <1>3, <1>4, DossierConstants
    DEF DossierInv, DossierTypes, Saves, Claims, Single, WaitsFor
<1>8. SavedOnce'
  BY <1>1, <1>3, <1>4, DossierConstants
    DEF DossierInv, DossierTypes, Drafts, SavedOnce, Single, WaitsFor
<1>9. faults \cap {"dbError", "crash"} = {} => SentStays'
  BY <1>1, <1>3, <1>4 DEF DossierInv, DossierTypes, Drafts, SentStays
<1>10. faults \cap {"dbError", "crash"} = {} => HasObject'
  BY <1>1, <1>3, <1>4 DEF DossierInv, DossierTypes, Drafts, HasObject
<1>11. faults \cap {"storage", "crash"} = {} => HasRow'
  BY <1>1, <1>3, <1>4 DEF DossierInv, DossierTypes, Drafts, HasRow
<1>12. faults \subseteq {"legacy"} => SentWhole'
  BY <1>1, <1>3, <1>4, DossierConstants DEF DossierInv, DossierTypes, SentWhole, WaitsFor
<1> QED
  BY <1>1, <1>3, <1>4, <1>5, <1>6, <1>7, <1>8, <1>9, <1>10, <1>11, <1>12 DEF DossierInv

\* Drop.
LEMMA DossierDrops ==
  ASSUME DossierInv, DO!Drop PROVE DossierInv'
<1>1. task.pc = "drop" /\ UNCHANGED <<doc, files, form, app, saved, sent, faults>>
  BY DEF DO!Drop, DO!At, DO!OnlyPeople, DO!docVars
<1>2. /\ task' \in Filing
      /\ \/ /\ who' = [r \in HolderRows |-> IF r \in task.old THEN Nil ELSE who[r]]
            /\ known' = known \ task.old /\ task'.pc = "write"
            /\ task'.of = task.of /\ task'.row = task.row
         \/ task'.pc = "idle" /\ who' = who /\ known' = known
  BY CallIs
    DEF DO!Drop, DO!personVars, DO!Goto, DO!Done, DossierInv, DossierTypes, Filing, DO!Pcs
<1>3. DossierTypes'
  BY <1>1, <1>2, DossierConstants DEF DossierInv, DossierTypes, Sheet, Filing
<1>4. Drafts'
  BY <1>1, <1>2 DEF DossierInv, DossierTypes, Drafts
<1>5. Saves'
  BY <1>1, <1>2, DossierConstants DEF DossierInv, DossierTypes, Saves, Claims, Single, WaitsFor
<1>6. SavedOnce'
  BY <1>1, <1>2, DossierConstants
    DEF DossierInv, DossierTypes, Drafts, SavedOnce, Single, WaitsFor
<1>7. faults \cap {"dbError", "crash"} = {} => SentStays'
  BY <1>1, <1>2 DEF DossierInv, DossierTypes, Drafts, SentStays
<1>8. faults \cap {"dbError", "crash"} = {} => HasObject'
  BY <1>1, <1>2 DEF DossierInv, DossierTypes, Drafts, HasObject
<1>9. faults \cap {"storage", "crash"} = {} => HasRow'
  BY <1>1, <1>2 DEF DossierInv, DossierTypes, Drafts, HasRow
<1>10. faults \subseteq {"legacy"} => SentWhole'
  BY <1>1, <1>2, DossierConstants DEF DossierInv, DossierTypes, SentWhole, WaitsFor
<1> QED
  BY <1>1, <1>2, <1>3, <1>4, <1>5, <1>6, <1>7, <1>8, <1>9, <1>10 DEF DossierInv

\* Write: his row, or a new one when he has none.
LEMMA DossierWrites ==
  ASSUME DossierInv, NEW r \in HolderRows, DO!Write(r) PROVE DossierInv'
<1>1. /\ task.pc = "write" /\ UNCHANGED <<known, doc, files, form, app, saved, sent, faults>>
      /\ task.of \in Holders
      /\ \/ task.row = Nil /\ who[r] = Nil /\ \A x \in HolderRows : who[x] # task.of
         \/ r = task.row /\ who[r] = task.of /\ Single(task.of, {})
  BY DEF DO!Write, DO!At, DO!OnlyPeople, DO!docVars, DossierInv, Saves
<1>a. \/ /\ who' = [who EXCEPT ![r] = task.of]
         /\ task' = [task EXCEPT !.pc = "orphans", !.row = r]
      \/ who' = who /\ task' = DO!Call
  BY DEF DO!Write, DO!Done
<1>2. /\ task' \in Filing
      /\ \/ /\ who' = [who EXCEPT ![r] = task.of] /\ task'.pc = "orphans"
            /\ task'.of = task.of /\ task'.row = r
         \/ task'.pc = "idle" /\ who' = who
  <2>0. task \in Filing
    BY DEF DossierInv, DossierTypes
  <2>1. CASE /\ who' = [who EXCEPT ![r] = task.of]
               /\ task' = [task EXCEPT !.pc = "orphans", !.row = r]
    BY <1>a, <2>0, <2>1 DEF Filing, DO!Pcs
  <2>2. CASE who' = who /\ task' = DO!Call
    BY <1>a, <2>0, <2>2, CallIs DEF Filing, DO!Pcs
  <2> QED
    BY <1>a, <2>1, <2>2
<1>3. DossierTypes'
  BY <1>1, <1>2, DossierConstants DEF DossierInv, DossierTypes, Sheet, Filing
<1>4. Drafts'
  BY <1>1, <1>2 DEF DossierInv, DossierTypes, Drafts
<1>5. Saves'
  BY <1>1, <1>2, DossierConstants DEF DossierInv, DossierTypes, Saves, Claims, Single, WaitsFor
<1>6. SavedOnce'
  BY <1>1, <1>2, DossierConstants
    DEF DossierInv, DossierTypes, Drafts, SavedOnce, Single, WaitsFor
<1>7. faults \cap {"dbError", "crash"} = {} => SentStays'
  BY <1>1, <1>2 DEF DossierInv, DossierTypes, Drafts, SentStays
<1>8. faults \cap {"dbError", "crash"} = {} => HasObject'
  BY <1>1, <1>2 DEF DossierInv, DossierTypes, Drafts, HasObject
<1>9. faults \cap {"storage", "crash"} = {} => HasRow'
  BY <1>1, <1>2 DEF DossierInv, DossierTypes, Drafts, HasRow
<1>10. faults \subseteq {"legacy"} => SentWhole'
  BY <1>1, <1>2, DossierConstants DEF DossierInv, DossierTypes, SentWhole, WaitsFor
<1> QED
  BY <1>1, <1>2, <1>3, <1>4, <1>5, <1>6, <1>7, <1>8, <1>9, <1>10 DEF DossierInv

\* Orphans.
LEMMA DossierLooks ==
  ASSUME DossierInv, DO!Orphans PROVE DossierInv'
<1>1. /\ task.pc = "orphans"
      /\ UNCHANGED <<who, known, doc, files, form, app, sent, faults>>
      /\ DO!Of(task.of) \subseteq Papers
      /\ \A o \in Papers : WaitsFor(o, task.of) <=> o \in DO!Of(task.of)
  BY DEF DO!Orphans, DO!At, DO!docVars, DO!personVars, DO!Of, DO!Active, WaitsFor
<1>a. \/ DO!Of(task.of) = {} /\ saved' = saved \cup {task.of} /\ task' = DO!Call
      \/ saved' = saved /\ task' = [task EXCEPT !.pc = "replaced", !.seen = DO!Of(task.of)]
  BY DEF DO!Orphans, DO!Done
<1>2. /\ task' \in Filing
      /\ \/ DO!Of(task.of) = {} /\ saved' = saved \cup {task.of} /\ task'.pc = "idle"
         \/ /\ saved' = saved /\ task'.pc = "replaced" /\ task'.seen = DO!Of(task.of)
            /\ task'.of = task.of /\ task'.row = task.row
  <2>0. task \in Filing
    BY DEF DossierInv, DossierTypes
  <2>1. CASE DO!Of(task.of) = {} /\ saved' = saved \cup {task.of} /\ task' = DO!Call
    BY <1>a, <2>0, <2>1, CallIs, <1>1 DEF Filing, DO!Pcs
  <2>2. CASE /\ saved' = saved
               /\ task' = [task EXCEPT !.pc = "replaced", !.seen = DO!Of(task.of)]
    BY <1>a, <2>0, <2>2, <1>1 DEF Filing, DO!Pcs
  <2> QED
    BY <1>a, <2>1, <2>2
<1>3. DossierTypes'
  BY <1>1, <1>2, DossierConstants DEF DossierInv, DossierTypes, Saves, Claims
<1>4. Drafts'
  BY <1>1, <1>2 DEF DossierInv, DossierTypes, Drafts
<1>5. Saves'
  BY <1>1, <1>2, DossierConstants DEF DossierInv, DossierTypes, Saves, Claims, Single, WaitsFor
<1>6. SavedOnce'
  BY <1>1, <1>2, DossierConstants
    DEF DossierInv, DossierTypes, Drafts, Saves, Claims, SavedOnce, Single, WaitsFor
<1>7. faults \cap {"dbError", "crash"} = {} => SentStays'
  BY <1>1, <1>2 DEF DossierInv, DossierTypes, Drafts, SentStays
<1>8. faults \cap {"dbError", "crash"} = {} => HasObject'
  BY <1>1, <1>2 DEF DossierInv, DossierTypes, Drafts, HasObject
<1>9. faults \cap {"storage", "crash"} = {} => HasRow'
  BY <1>1, <1>2 DEF DossierInv, DossierTypes, Drafts, HasRow
<1>10. faults \subseteq {"legacy"} => SentWhole'
  BY <1>1, <1>2, DossierConstants DEF DossierInv, DossierTypes, SentWhole, WaitsFor
<1> QED
  BY <1>1, <1>2, <1>3, <1>4, <1>5, <1>6, <1>7, <1>8, <1>9, <1>10 DEF DossierInv

\* ClaimDraftDocuments: what waited for him is of his row.
LEMMA DossierClaims ==
  ASSUME DossierInv, DO!ClaimDraftDocuments PROVE DossierInv'
<1>1. /\ task.pc = "claim"
      /\ UNCHANGED <<who, known, files, form, app, sent, faults>>
      /\ task.row \in HolderRows
      /\ task.of \in Holders /\ task' \in Filing /\ task'.pc = "idle"
  BY CallIs
    DEF DO!ClaimDraftDocuments, DO!At, DO!personVars, DO!historyVars, DO!Done, DossierInv,
      DossierTypes, Filing, DO!Pcs, Saves, Claims
<1>2. \/ /\ doc' = [o \in Papers |-> IF o \in task.seen
                                   THEN [doc[o] EXCEPT !.of = task.row] ELSE doc[o]]
         /\ saved' = saved \cup {task.of}
      \/ doc' = doc /\ saved' = saved
  BY DEF DO!ClaimDraftDocuments
<1>3. /\ doc' \in [Papers -> Sheet]
      /\ saved' = saved \/ saved' = saved \cup {task.of}
      /\ \A o \in Papers :
           /\ doc'[o].draft = doc[o].draft /\ doc'[o].status = doc[o].status
           /\ \/ doc'[o].of = doc[o].of /\ (o \notin task.seen \/ saved' = saved)
              \/ o \in task.seen /\ doc'[o].of = task.row
  BY <1>1, <1>2 DEF DossierInv, DossierTypes, Sheet
<1>4. DossierTypes'
  BY <1>1, <1>3, DossierConstants DEF DossierInv, DossierTypes, Sheet, Filing
<1>5. Drafts'
  BY <1>1, <1>3 DEF DossierInv, DossierTypes, Drafts
<1>6. Saves'
  BY <1>1, <1>3, DossierConstants DEF DossierInv, DossierTypes, Saves, Claims, Single, WaitsFor
<1>7. SavedOnce'
  BY <1>1, <1>3, DossierConstants
    DEF DossierInv, DossierTypes, Drafts, Saves, Claims, SavedOnce, Single, WaitsFor
<1>8. faults \cap {"dbError", "crash"} = {} => SentStays'
  BY <1>1, <1>3 DEF DossierInv, DossierTypes, Drafts, SentStays
<1>9. faults \cap {"dbError", "crash"} = {} => HasObject'
  BY <1>1, <1>3 DEF DossierInv, DossierTypes, Drafts, HasObject
<1>10. faults \cap {"storage", "crash"} = {} => HasRow'
  BY <1>1, <1>3 DEF DossierInv, DossierTypes, Drafts, HasRow
<1>11. faults \subseteq {"legacy"} => SentWhole'
  BY <1>1, <1>3, DossierConstants DEF DossierInv, DossierTypes, SentWhole, WaitsFor
<1> QED
  BY <1>1, <1>3, <1>4, <1>5, <1>6, <1>7, <1>8, <1>9, <1>10, <1>11 DEF DossierInv

\* RemovePerson.
LEMMA DossierLoses ==
  ASSUME DossierInv, NEW r \in HolderRows, DO!RemovePerson(r) PROVE DossierInv'
<1>1. /\ task.pc = "idle"
      /\ UNCHANGED <<doc, files, form, app, saved, sent, faults>>
      /\ task' = task
      /\ app \in {"pending", "needs_review"} \/ "late" \in faults
      /\ who' = [who EXCEPT ![r] = Nil] /\ known' = known \ {r}
  BY DEF DO!RemovePerson, DO!Edits, DO!Quiet, DO!At, DO!docVars, DO!historyVars
<1>2. DossierTypes'
  BY <1>1, DossierConstants DEF DossierInv, DossierTypes, Sheet, Filing
<1>3. Drafts'
  BY <1>1 DEF DossierInv, DossierTypes, Drafts
<1>4. Saves'
  BY <1>1, DossierConstants DEF DossierInv, DossierTypes, Saves, Claims, Single, WaitsFor
<1>5. SavedOnce'
  BY <1>1, DossierConstants DEF DossierInv, DossierTypes, Drafts, SavedOnce, Single, WaitsFor
<1>6. faults \cap {"dbError", "crash"} = {} => SentStays'
  BY <1>1 DEF DossierInv, DossierTypes, Drafts, SentStays
<1>7. faults \cap {"dbError", "crash"} = {} => HasObject'
  BY <1>1 DEF DossierInv, DossierTypes, Drafts, HasObject
<1>8. faults \cap {"storage", "crash"} = {} => HasRow'
  BY <1>1 DEF DossierInv, DossierTypes, Drafts, HasRow
<1>9. faults \subseteq {"legacy"} => SentWhole'
  BY <1>1, DossierConstants DEF DossierInv, DossierTypes, SentWhole, WaitsFor
<1> QED
  BY <1>1, <1>2, <1>3, <1>4, <1>5, <1>6, <1>7, <1>8, <1>9 DEF DossierInv

\* What becomes of the form.
LEMMA DossierForms ==
  ASSUME DossierInv, DO!SaveDraft \/ DO!Age \/ DO!DeleteForm PROVE DossierInv'
<1>1. UNCHANGED <<who, known, doc, files, app, saved, sent, faults>>
  BY DEF DO!SaveDraft, DO!Age, DO!DeleteForm, DO!personVars, DO!docVars, DO!historyVars
<1>2. /\ task' \in Filing
      /\ \/ task' = task /\ task.pc = "idle" /\ form' = "fresh" /\ app # "submitted"
         \/ task' = task /\ form = "fresh" /\ form' = "stale"
         \/ /\ task.pc \in {"form", "sentForm"} /\ task'.pc = "idle"
            /\ form' = "none" \/ ("dbError" \in faults /\ form' = form)
  BY CallIs
    DEF DO!SaveDraft, DO!Age, DO!DeleteForm, DO!Edits, DO!Quiet, DO!At, DO!Done, DossierInv,
      DossierTypes, Filing, DO!Pcs
<1>3. DossierTypes'
  BY <1>1, <1>2, DossierConstants DEF DossierInv, DossierTypes, Sheet, Filing
<1>4. Drafts'
  BY <1>1, <1>2 DEF DossierInv, DossierTypes, Drafts
<1>5. Saves'
  BY <1>1, <1>2, DossierConstants DEF DossierInv, DossierTypes, Saves, Claims, Single, WaitsFor
<1>6. SavedOnce'
  BY <1>1, <1>2, DossierConstants
    DEF DossierInv, DossierTypes, Drafts, SavedOnce, Single, WaitsFor
<1>7. faults \cap {"dbError", "crash"} = {} => SentStays'
  BY <1>1, <1>2 DEF DossierInv, DossierTypes, Drafts, SentStays
<1>8. faults \cap {"dbError", "crash"} = {} => HasObject'
  BY <1>1, <1>2 DEF DossierInv, DossierTypes, Drafts, HasObject
<1>9. faults \cap {"storage", "crash"} = {} => HasRow'
  BY <1>1, <1>2 DEF DossierInv, DossierTypes, Drafts, HasRow
<1>10. faults \subseteq {"legacy"} => SentWhole'
  BY <1>1, <1>2, DossierConstants DEF DossierInv, DossierTypes, SentWhole, WaitsFor
<1> QED
  BY <1>1, <1>2, <1>3, <1>4, <1>5, <1>6, <1>7, <1>8, <1>9, <1>10 DEF DossierInv

\* Submit.
LEMMA DossierSubmits ==
  ASSUME DossierInv, DO!Submit PROVE DossierInv'
<1>1. /\ task.pc = "submit"
      /\ UNCHANGED <<who, known, doc, files, form, saved, faults>>
      /\ app' = "submitted"
      /\ sent' = sent \cup DO!Active /\ DO!Active \subseteq Papers
      /\ \A o \in Papers : o \in DO!Active <=> doc[o].status = "pending"
  BY DEF DO!Submit, DO!At, DO!personVars, DO!docVars, DO!Active
<1>2. task' \in Filing /\ task'.pc = "sentDocs"
  BY DEF DO!Submit, DO!Goto, DossierInv, DossierTypes, Filing, DO!Pcs
<1>3. DossierTypes'
  BY <1>1, <1>2, DossierConstants DEF DossierInv, DossierTypes, Sheet, Filing
<1>4. Drafts'
  BY <1>1, <1>2 DEF DossierInv, DossierTypes, Drafts
<1>5. Saves'
  BY <1>1, <1>2, DossierConstants DEF DossierInv, DossierTypes, Saves, Claims, Single, WaitsFor
<1>6. SavedOnce'
  BY <1>1, <1>2, DossierConstants
    DEF DossierInv, DossierTypes, Drafts, SavedOnce, Single, WaitsFor
<1>7. faults \cap {"dbError", "crash"} = {} => SentStays'
  BY <1>1, <1>2 DEF DossierInv, DossierTypes, Drafts, SentStays
<1>8. faults \cap {"dbError", "crash"} = {} => HasObject'
  BY <1>1, <1>2 DEF DossierInv, DossierTypes, Drafts, HasObject
<1>9. faults \cap {"storage", "crash"} = {} => HasRow'
  BY <1>1, <1>2 DEF DossierInv, DossierTypes, Drafts, HasRow
<1>10. faults \subseteq {"legacy"} => SentWhole'
  BY <1>1, <1>2 DEF DossierInv, DossierTypes, SentWhole, HasObject, WaitsFor
<1> QED
  BY <1>1, <1>2, <1>3, <1>4, <1>5, <1>6, <1>7, <1>8, <1>9, <1>10 DEF DossierInv

\* MarkSubmitted.
LEMMA DossierMarks ==
  ASSUME DossierInv, DO!MarkSubmitted PROVE DossierInv'
<1>1. task.pc = "sentDocs" /\ UNCHANGED <<who, known, files, form, app, saved, sent, faults>>
  BY DEF DO!MarkSubmitted, DO!At, DO!OnlyDocs, DO!personVars, DO!historyVars
<1>2. /\ task' \in Filing
      /\ \/ /\ doc' = [o \in Papers |-> [doc[o] EXCEPT !.draft = FALSE]]
            /\ task'.pc = "sentForm"
         \/ "dbError" \in faults /\ task'.pc = "idle" /\ doc' = doc
  BY CallIs DEF DO!MarkSubmitted, DO!Goto, DO!Done, DossierInv, DossierTypes, Filing, DO!Pcs
<1>3. /\ doc' \in [Papers -> Sheet]
      /\ \A o \in Papers :
           /\ doc'[o].status = doc[o].status /\ doc'[o].of = doc[o].of
           /\ ~doc'[o].draft \/ "dbError" \in faults
  <2>0. doc \in [Papers -> Sheet]
    BY DEF DossierInv, DossierTypes
  <2>1. CASE doc' = [o \in Papers |-> [doc[o] EXCEPT !.draft = FALSE]]
    <3>1. ASSUME NEW o \in Papers
          PROVE  /\ doc'[o] \in Sheet /\ ~doc'[o].draft
                 /\ doc'[o].status = doc[o].status /\ doc'[o].of = doc[o].of
      <4>1. doc'[o] = [doc[o] EXCEPT !.draft = FALSE] /\ doc[o] \in Sheet
        BY <2>0, <2>1
      <4> QED
        BY <4>1 DEF Sheet
    <3> QED
      BY <2>1, <3>1
  <2>2. CASE "dbError" \in faults /\ doc' = doc
    BY <2>0, <2>2
  <2> QED
    BY <1>2, <2>1, <2>2
<1>4. DossierTypes'
  BY <1>1, <1>2, <1>3, DossierConstants DEF DossierInv, DossierTypes, Sheet, Filing
<1>5. Drafts'
  BY <1>1, <1>2, <1>3 DEF DossierInv, DossierTypes, Drafts
<1>6. Saves'
  BY <1>1, <1>2, <1>3, DossierConstants
    DEF DossierInv, DossierTypes, Saves, Claims, Single, WaitsFor
<1>7. SavedOnce'
  BY <1>1, <1>2, <1>3, DossierConstants
    DEF DossierInv, DossierTypes, Drafts, SavedOnce, Single, WaitsFor
<1>8. faults \cap {"dbError", "crash"} = {} => SentStays'
  BY <1>1, <1>2, <1>3 DEF DossierInv, DossierTypes, Drafts, SentStays
<1>9. faults \cap {"dbError", "crash"} = {} => HasObject'
  BY <1>1, <1>2, <1>3 DEF DossierInv, DossierTypes, Drafts, HasObject
<1>10. faults \cap {"storage", "crash"} = {} => HasRow'
  BY <1>1, <1>2, <1>3 DEF DossierInv, DossierTypes, Drafts, HasRow
<1>11. faults \subseteq {"legacy"} => SentWhole'
  BY <1>1, <1>2, <1>3, DossierConstants DEF DossierInv, DossierTypes, SentWhole, WaitsFor
<1> QED
  BY <1>1, <1>2, <1>3, <1>4, <1>5, <1>6, <1>7, <1>8, <1>9, <1>10, <1>11 DEF DossierInv

\* Send and RequestChanges.
LEMMA DossierSends ==
  ASSUME DossierInv, DO!Send \/ DO!RequestChanges PROVE DossierInv'
<1>1. /\ UNCHANGED <<who, doc, files, form, saved, sent, faults>>
      /\ app' \in {"sent_to_bridge", "needs_review"}
      /\ task' = task
      /\ known' \subseteq HolderRows
      /\ \/ known' = known
         \/ \A r \in HolderRows : r \in known' <=> who[r] # Nil
  BY DEF DO!Send, DO!RequestChanges, DO!docVars, DO!personVars, DO!historyVars,
    DO!Registered, DossierInv, DossierTypes
<1>2. DossierTypes'
  BY <1>1, DossierConstants DEF DossierInv, DossierTypes, Sheet, Filing
<1>3. Drafts'
  BY <1>1 DEF DossierInv, DossierTypes, Drafts
<1>4. Saves'
  BY <1>1, DossierConstants DEF DossierInv, DossierTypes, Saves, Claims, Single, WaitsFor
<1>5. SavedOnce'
  BY <1>1, DossierConstants DEF DossierInv, DossierTypes, Drafts, SavedOnce, Single, WaitsFor
<1>6. faults \cap {"dbError", "crash"} = {} => SentStays'
  BY <1>1 DEF DossierInv, DossierTypes, Drafts, SentStays
<1>7. faults \cap {"dbError", "crash"} = {} => HasObject'
  BY <1>1 DEF DossierInv, DossierTypes, Drafts, HasObject
<1>8. faults \cap {"storage", "crash"} = {} => HasRow'
  BY <1>1 DEF DossierInv, DossierTypes, Drafts, HasRow
<1>9. faults \subseteq {"legacy"} => SentWhole'
  BY <1>1, DossierConstants DEF DossierInv, DossierTypes, SentWhole, WaitsFor
<1> QED
  BY <1>1, <1>2, <1>3, <1>4, <1>5, <1>6, <1>7, <1>8, <1>9 DEF DossierInv

\* A request for the dossier, or what happens beside it.
LEMMA DossierNext == DossierInv /\ DO!Next => DossierInv'
BY DossierUploads, DossierInserts, DossierPrevious, DossierBegins, DossierChecks, DossierCrashes,
  DossierFinds, DossierCovers, DossierReplaces, DossierUndoes, DossierRemoves, DossierDeletes,
  DossierSupersedes, DossierTakes, DossierDrops, DossierWrites, DossierLooks, DossierClaims,
  DossierLoses, DossierForms, DossierSubmits, DossierMarks, DossierSends DEF DO!Next

\* What the invariant says of the dossier.
LEMMA DossierHolds == DossierInv => DO!DossierIsKept /\ DO!SavedIsDocumented
<1> SUFFICES ASSUME DossierInv PROVE DO!DossierIsKept /\ DO!SavedIsDocumented
  OBVIOUS
<1>1. DO!DossierIsKept
  <2>1. ASSUME faults \cap {"dbError", "crash"} = {}
        PROVE  /\ \A o \in sent : doc[o] # DO!Absent
               /\ DO!Quiet => DO!Active \subseteq files
    BY <2>1 DEF DossierInv, SentStays, HasObject, DO!Absent, DO!Quiet, DO!At, DO!Active
  <2>2. ASSUME DO!Quiet, faults \cap {"storage", "crash"} = {}
        PROVE  \A o \in files : doc[o] # DO!Absent
    BY <2>2 DEF DossierInv, HasRow, DO!Absent, DO!Quiet, DO!At
  <2>3. ASSUME DO!Quiet, faults \subseteq {"legacy"}, app = "submitted"
        PROVE  \A r \in DO!Registered : DO!HasImage(r)
    <3>1. \A r \in HolderRows : who[r] # Nil => \E o \in files : WaitsFor(o, r)
      BY <2>3 DEF DossierInv, SentWhole
    <3> QED
      BY <3>1
        DEF DossierInv, DossierTypes, WaitsFor, DO!Registered, DO!HasImage, DO!Of, DO!Active
  <2> QED
    BY <2>1, <2>2, <2>3 DEF DO!DossierIsKept
<1>2. ASSUME DO!Quiet, faults \subseteq {"late", "legacy"}, NEW p \in saved
      PROVE  \/ DO!RowsOf(p) = {} \/ DO!Cardinality(DO!RowsOf(p) \cap known) > 1
             \/ /\ DO!Cardinality(DO!RowsOf(p)) = 1
                /\ (\E o \in DO!Active : doc[o].of = p \/ doc[o].of \in DO!RowsOf(p))
                     => \A r \in DO!RowsOf(p) : DO!HasImage(r)
  <2> DEFINE own == DO!RowsOf(p)
  <2>1. /\ IsFiniteSet(own) /\ \A r : r \in own <=> r \in HolderRows /\ who[r] = p
        /\ own \cap known = own \/ \E k : own \subseteq {k}
    <3>1. Single(p, {}) /\ own \subseteq HolderRows
      BY DEF DossierInv, SavedOnce, DO!RowsOf
    <3>2. own \subseteq known \/ \E k : own \subseteq {k}
      BY <3>1 DEF Single, DO!RowsOf
    <3> QED
      BY <3>1, <3>2, DossierConstants, FS_Subset DEF DO!RowsOf
  <2>2. ASSUME NEW k, own = {k}, NEW o \in DO!Active, doc[o].of = p \/ doc[o].of \in own
        PROVE  DO!HasImage(k)
    <3>1. o \in Papers /\ doc[o].status = "pending" /\ doc[o].of = k
      BY <2>2 DEF DossierInv, SavedOnce, WaitsFor, DO!Active
    <3>2. o \in files
      BY <1>2, <3>1 DEF DossierInv, HasObject, DO!Quiet, DO!At
    <3> QED
      BY <3>1, <3>2 DEF DO!HasImage, DO!Of, DO!Active
  <2> HIDE DEF own
  <2>3. CASE own = {}
    BY <2>3 DEF own
  <2>4. CASE \E k : own = {k}
    <3>1. PICK k : own = {k}
      BY <2>4
    <3>2. Cardinality(own) = 1
      BY <3>1, FS_Singleton
    <3> QED
      BY <2>2, <3>1, <3>2 DEF own, Cardinality, DO!Cardinality
  <2>5. CASE own # {} /\ ~\E k : own = {k}
    <3>1. own \cap known = own /\ Cardinality(own) \in Nat
      BY <2>1, <2>5, FS_CardinalityType
    <3>2. Cardinality(own) # 0 /\ Cardinality(own) # 1
      BY <2>1, <2>5, FS_EmptySet, FS_Singleton
    <3>3. Cardinality(own) > 1
      BY <3>1, <3>2
    <3> QED
      BY <3>1, <3>3 DEF own, Cardinality, DO!Cardinality
  <2> QED
    BY <2>3, <2>4, <2>5
<1> QED
  BY <1>1, <1>2 DEF DO!SavedIsDocumented

\* The invariant holds when the part is the dossier.
LEMMA DossierInvariant == Spec => [](part = "dossier" => DossierInv)
<1>1. Init => (part = "dossier" => DossierInv)
  BY DossierInit DEF Init
<1>2. (part = "dossier" => DossierInv) /\ [Next]_vars => (part = "dossier" => DossierInv)'
  <2> SUFFICES ASSUME part = "dossier" => DossierInv, [Next]_vars, part' = "dossier"
               PROVE  DossierInv'
    OBVIOUS
  <2>1. CASE UNCHANGED vars
    <3>1. /\ UNCHANGED <<who, known, doc, files, form, app, saved, sent, faults, task>>
          /\ DossierInv
      BY <2>1 DEF vars, dossierOwn
    <3>2. DossierTypes'
      BY <3>1 DEF DossierInv, DossierTypes, Sheet, Filing
    <3>3. Drafts' /\ Saves' /\ SavedOnce'
      BY <3>1 DEF DossierInv, Drafts, Saves, Claims, SavedOnce, Single, WaitsFor
    <3>4. /\ faults \cap {"dbError", "crash"} = {} => SentStays' /\ HasObject'
          /\ faults \cap {"storage", "crash"} = {} => HasRow'
          /\ faults \subseteq {"legacy"} => SentWhole'
      BY <3>1 DEF DossierInv, SentStays, HasObject, HasRow, SentWhole, WaitsFor
    <3> QED
      BY <3>1, <3>2, <3>3, <3>4 DEF DossierInv
  <2>2. CASE Next
    BY <2>2, DossierNext DEF Next
  <2> QED
    BY <2>1, <2>2
<1> QED
  BY <1>1, <1>2, PTL DEF Spec

\* What was sent stays, a document has its object and an object its row, what is sent is
\* whole, and a person who was saved has one row with his document (deleteDraftDocument,
\* markSubmitted, assertIdentityDocumentsComplete, upsertUbo).
THEOREM DossiersAreKept == Spec => []DossierIsKept
<1>1. (part = "dossier" => DossierInv) => DossierIsKept
  BY DossierHolds DEF DossierIsKept
<1> QED
  BY <1>1, DossierInvariant, PTL
=============================================================================
