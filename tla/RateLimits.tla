----------------------------- MODULE RateLimits -----------------------------
(***************************************************************************)
(* The two limiters that share the table auth_rate_limits: the guard of    *)
(* the routes of authentication and the throttle of the team's             *)
(* invitations.  Each reads the row of an identifier and an action, and    *)
(* writes what follows from it; nothing makes that row unique.  They       *)
(* differ in how they read two rows, and in which attempt is refused.      *)
(*                                                                         *)
(* The module follows one bucket (one identifier and action) of one        *)
(* limiter.  A throttled call takes one from the bucket of the owner and   *)
(* then one from that of the recipient; a refusal of the second leaves the *)
(* first spent.  The failures of a behaviour are chosen in its first       *)
(* state: "overlap" (requests at once) and "dbError".                      *)
(***************************************************************************)
EXTENDS Naturals, FiniteSets, FiniteSetsExt

CONSTANTS
  Ids,       \* ids for rows
  MaxAttempts,       \* attempts
  Window,    \* the length of a window, and of a block, in ticks
  Block,
  Horizon,   \* bound of the clock
  Tasks,
  Worlds     \* the sets of failures a behaviour may have

LimitsAssumption ==
  /\ Ids # {} /\ MaxAttempts \in Nat \ {0, 1}
  /\ Window \in Nat \ {0} /\ Block \in Nat \ {0} /\ Horizon \in Nat

VARIABLES
  limiter,   \* "guard" or "throttle"
  bucket,    \* the rows of the bucket
  now,
  admitted,  \* history: how many were admitted at each tick, where nothing fails
  faults,    \* the failures of this behaviour
  task       \* the requests, each with what it has read

vars == <<limiter, bucket, now, admitted, faults, task>>

Time == 0 .. Horizon
\* attempt_count, first_attempt_at, last_attempt_at, blocked_until
None == [count |-> 0, first |-> 0, last |-> 0, until |-> 0]
Fresh == [count |-> 1, first |-> now, last |-> now, until |-> 0]
Idle == [pc |-> "idle", id |-> CHOOSE i \in Ids : TRUE, read |-> None]

Init ==
  /\ limiter \in {"guard", "throttle"}
  /\ faults \in Worlds
  /\ bucket = [i \in Ids |-> None]
  /\ now = 0
  /\ admitted = [k \in Time |-> 0]
  /\ task = [t \in Tasks |-> Idle]

At(t, pc) == task[t].pc = pc
Goto(t, pc, i) == task' = [task EXCEPT ![t] = [pc |-> pc, id |-> i, read |-> bucket[i]]]
Done(t) == task' = [task EXCEPT ![t] = Idle]
Free(t) == At(t, "idle") /\ ("overlap" \in faults \/ \A u \in Tasks : At(u, "idle"))
Existing == {i \in Ids : bucket[i].count > 0}
Write(i, row) == bucket' = [bucket EXCEPT ![i] = row]
Admit == admitted' = IF faults = {} THEN [admitted EXCEPT ![now] = @ + 1] ELSE admitted

\* The guard reads with single, for which two rows are an error and thus none;
\* the throttle reads the row of the last attempt.
Found ==
  IF limiter = "guard"
  THEN IF Cardinality(Existing) = 1 THEN Existing ELSE {}
  ELSE {i \in Existing : \A j \in Existing : bucket[j].last =< bucket[i].last}
Read(t) ==
  /\ Free(t)
  /\ \/ Found = {} /\ Goto(t, "insert", Idle.id)
     \/ \E i \in Found : Goto(t, "track", i)
     \/ "dbError" \in faults /\ Goto(t, IF limiter = "guard" THEN "insert" ELSE "open", Idle.id)
  /\ UNCHANGED <<limiter, bucket, now, admitted, faults>>
InsertRow(t, i) ==
  /\ At(t, "insert")
  /\ bucket[i].count = 0
  /\ Write(i, Fresh)
  /\ Admit
  /\ Done(t)
  /\ UNCHANGED <<limiter, now, faults>>
\* consumeBucket lets the call through when it cannot read.
FailOpen(t) ==
  /\ At(t, "open")
  /\ Admit
  /\ Done(t)
  /\ UNCHANGED <<limiter, bucket, now, faults>>

IsBlocked(row) == row.until > now
Outside(row) == row.first + Window < now
\* Mutant: both refuse the attempt that passes it.
ExceedsAfter(count) == count > MaxAttempts
\* The guard refuses the attempt that reaches the maximum, the throttle the one
\* that passes it.
Exceeds(count) == IF limiter = "guard" THEN count >= MaxAttempts ELSE count > MaxAttempts
Refuse(t) ==
  /\ At(t, "track") /\ IsBlocked(task[t].read)
  /\ Done(t)
  /\ UNCHANGED <<limiter, bucket, now, admitted, faults>>
Restart(t) ==
  /\ At(t, "track") /\ ~IsBlocked(task[t].read) /\ Outside(task[t].read)
  /\ Write(task[t].id, Fresh)
  /\ Admit
  /\ Done(t)
  /\ UNCHANGED <<limiter, now, faults>>
Track(t) ==
  /\ At(t, "track") /\ ~IsBlocked(task[t].read) /\ ~Outside(task[t].read)
  /\ LET count == task[t].read.count + 1 IN
     IF Exceeds(count)
     THEN /\ Write(task[t].id, [bucket[task[t].id] EXCEPT !.count = count, !.last = now,
                                                          !.until = now + Block])
          /\ UNCHANGED admitted
     ELSE /\ Write(task[t].id, [bucket[task[t].id] EXCEPT !.count = count, !.last = now])
          /\ Admit
  /\ Done(t)
  /\ UNCHANGED <<limiter, now, faults>>

Tick ==
  /\ now < Horizon /\ now' = now + 1
  /\ UNCHANGED <<limiter, bucket, admitted, faults, task>>

Next ==
  \/ \E t \in Tasks : Read(t) \/ FailOpen(t) \/ Refuse(t) \/ Restart(t) \/ Track(t)
  \/ \E t \in Tasks, i \in Ids : InsertRow(t, i)
  \/ Tick

Spec == Init /\ [][Next]_vars

(***************************************************************************)
(* Properties.                                                             *)
(***************************************************************************)
Row == [count : Nat, first : Time, last : Time, until : Nat]
TypeOK ==
  /\ limiter \in {"guard", "throttle"} /\ faults \in Worlds
  /\ bucket \in [Ids -> Row]
  /\ now \in Time
  /\ admitted \in [Time -> Nat]
  /\ task \in [Tasks -> [pc : {"idle", "insert", "open", "track"}, id : Ids, read : Row]]

\* When requests do not overlap and the table answers, no stretch of time as
\* long as a window admits what two windows may: it can hold the end of one and
\* the start of the next, but not the first attempt of both (checkAndTrack,
\* consumeBucket).
PerWindow == IF limiter = "guard" THEN MaxAttempts - 1 ELSE MaxAttempts
AdmittedWithinMax ==
  faults = {} =>
    \A k \in Time :
      MapThenSumSet(LAMBDA j : admitted[j], {j \in Time : k =< j /\ j =< k + Window})
        < 2 * PerWindow
=============================================================================
