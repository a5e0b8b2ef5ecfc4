----------------------------- MODULE Idempotency -----------------------------
(***************************************************************************)
(* IdempotencyInterceptor: the two calls that create orders may carry a    *)
(* key of the client's choice, and a repeated key gets the answer of the   *)
(* first request instead of a second order.  The row of the key is also    *)
(* the lock (UNIQUE of user and key): it is inserted with status 0 before  *)
(* the handler runs, its status and body are stored after the answer has   *)
(* left, and it is deleted, also afterwards, if the handler fails.         *)
(*                                                                         *)
(* One user, one key; `call' has the requests that carry it.  A request    *)
(* that was answered may still have its last write to do.  The handler     *)
(* fails with no order, or inserts one and carries out its Bridge leg; a   *)
(* leg that fails has the order marked 'failed', and the handler fails.    *)
(*                                                                         *)
(* The failures of a behaviour are chosen in its first state: "insert"     *)
(* (the INSERT fails although the key is new), "unmarked" (the UPDATE that *)
(* marks an order failed does), "dbError" (the calls of the database for   *)
(* the key), "crash".                                                      *)
(***************************************************************************)
EXTENDS Naturals, FiniteSets

CONSTANTS
  Requests,  \* requests with the key
  None,
  Worlds     \* the sets of failures a behaviour may have

VARIABLES
  key,       \* the row: its status "none" (no row), "zero" or "stored", its order,
             \* and whether expires_at has passed
  call,      \* each request: where it is, what it answered and the order it named
  created,   \* the requests whose order is alive: inserted, and not failed by its leg
  faults

vars == <<key, call, created, faults>>

NoRow == [status |-> "none", order |-> None, expired |-> FALSE]

Init ==
  /\ faults \in Worlds
  /\ key = NoRow
  /\ call = [r \in Requests |-> [pc |-> "new", answer |-> "none", order |-> None]]
  /\ created = {}

At(r, pc) == call[r].pc = pc
Goto(r, pc) == call' = [call EXCEPT ![r].pc = pc]
Answer(r, pc, answer, order) ==
  call' = [call EXCEPT ![r] = [pc |-> pc, answer |-> answer, order |-> order]]
Fails == "dbError" \in faults

\* What a stored row answers; status 0 is none that HTTP has.
Replay(r) == IF key.status = "stored" THEN Answer(r, "gone", "created", key.order)
                                      ELSE Answer(r, "gone", "invalid", None)

(***************************************************************************)
(* Before the handler                                                      *)
(***************************************************************************)
\* A row that has not expired answers, whatever its status; an error reads as no row.
Lookup(r) ==
  /\ At(r, "new")
  /\ LET valid == key.status # "none" /\ ~key.expired IN
       \/ valid /\ Replay(r)
       \/ (~valid \/ Fails) /\ Goto(r, "insert")
  /\ UNCHANGED <<key, created, faults>>
\* Mutant: a row that is there is written over.
Upsert(r) ==
  /\ At(r, "insert")
  /\ key' = [NoRow EXCEPT !.status = "zero"]
  /\ Goto(r, "handler")
  /\ UNCHANGED <<created, faults>>
Insert(r) ==
  /\ At(r, "insert")
  /\ \/ /\ key.status = "none"
        /\ key' = [NoRow EXCEPT !.status = "zero"]
        /\ Goto(r, "handler")
     \/ key.status # "none" /\ Goto(r, "retry") /\ UNCHANGED key
     \/ "insert" \in faults /\ Goto(r, "unlocked") /\ UNCHANGED key
  /\ UNCHANGED <<created, faults>>
\* Half a second later: a stored answer, expired or not, or 409.
Retry(r) ==
  /\ At(r, "retry")
  /\ \/ key.status = "stored" /\ Replay(r)
     \/ (key.status # "stored" \/ Fails) /\ Answer(r, "gone", "conflict", None)
  /\ UNCHANGED <<key, created, faults>>

(***************************************************************************)
(* The handler, and what follows it                                        *)
(***************************************************************************)
Handle(r) ==
  /\ At(r, "handler")
  /\ \/ created' = created \cup {r} /\ Goto(r, "leg")
     \/ Answer(r, "delete", "failed", None) /\ UNCHANGED created
  /\ UNCHANGED <<key, faults>>
\* handleBridgeLegFailure: the error of its UPDATE is not looked at.
LegFails(r) == created' = created \ {r} \/ ("unmarked" \in faults /\ UNCHANGED created)
Leg(r) ==
  /\ At(r, "leg")
  /\ \/ Answer(r, "store", "created", r) /\ UNCHANGED created
     \/ Answer(r, "delete", "failed", None) /\ LegFails(r)
  /\ UNCHANGED <<key, faults>>
HandleUnlocked(r) ==
  /\ At(r, "unlocked")
  /\ \/ created' = created \cup {r} /\ Goto(r, "unlockedLeg")
     \/ Answer(r, "gone", "failed", None) /\ UNCHANGED created
  /\ UNCHANGED <<key, faults>>
UnlockedLeg(r) ==
  /\ At(r, "unlockedLeg")
  /\ \/ Answer(r, "gone", "created", r) /\ UNCHANGED created
     \/ Answer(r, "gone", "failed", None) /\ LegFails(r)
  /\ UNCHANGED <<key, faults>>
Store(r) ==
  /\ At(r, "store")
  /\ \/ key.status # "none" /\ key' = [key EXCEPT !.status = "stored", !.order = r]
     \/ (key.status = "none" \/ Fails) /\ UNCHANGED key
  /\ Goto(r, "gone")
  /\ UNCHANGED <<created, faults>>
Delete(r) ==
  /\ At(r, "delete")
  /\ key' = NoRow \/ (Fails /\ UNCHANGED key)
  /\ Goto(r, "gone")
  /\ UNCHANGED <<created, faults>>

\* 24 hours pass; nothing deletes the row.
Expire ==
  /\ key.status # "none" /\ ~key.expired
  /\ key' = [key EXCEPT !.expired = TRUE]
  /\ UNCHANGED <<call, created, faults>>
Crash(r) ==
  /\ "crash" \in faults
  /\ call[r].pc \notin {"new", "gone"}
  /\ Goto(r, "gone")
  /\ UNCHANGED <<key, created, faults>>

Next ==
  \/ \E r \in Requests :
       \/ Lookup(r) \/ Insert(r) \/ Retry(r)
       \/ Handle(r) \/ Leg(r) \/ HandleUnlocked(r) \/ UnlockedLeg(r)
       \/ Store(r) \/ Delete(r) \/ Crash(r)
  \/ Expire

Spec == Init /\ [][Next]_vars

(***************************************************************************)
(* Properties                                                              *)
(***************************************************************************)
\* Every variable has its type.
TypeOK ==
  /\ key \in [status : {"none", "zero", "stored"}, order : Requests \cup {None},
              expired : BOOLEAN]
  /\ call \in [Requests ->
                 [pc : {"new", "insert", "retry", "handler", "leg", "unlocked",
                        "unlockedLeg", "store", "delete", "gone"},
                  answer : {"none", "created", "invalid", "conflict", "failed"},
                  order : Requests \cup {None}]]
  /\ created \subseteq Requests
  /\ faults \in Worlds

\* However often a key is sent, and whatever overlaps, crashes or expires, one order of
\* it at most is alive, which is the one that every answer names (IdempotencyInterceptor).
\* A handler that failed frees its key, and the next request with it inserts an order of
\* its own: rows may be many, but those before are failed.  Two can be alive when the
\* INSERT of the key failed, and the request ran without it, or when the row of a failed
\* leg could not be marked.
KeyMakesOneOrder ==
  /\ \A r \in Requests : call[r].answer = "created" => call[r].order \in created
  /\ faults \cap {"insert", "unmarked"} = {} =>
       /\ Cardinality(created) <= 1
       /\ key.status = "stored" => key.order \in created
=============================================================================
