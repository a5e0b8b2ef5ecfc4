---------------------------- MODULE MobileUploads ----------------------------
(***************************************************************************)
(* A client photographs his documents with the telephone: the desktop asks *)
(* for a session (mobile_upload_tokens) that lists what is missing, the    *)
(* telephone uploads and ends it, and the desktop may upload all the same. *)
(* A document of a kind replaces those before it, "después de insertar el  *)
(* nuevo para no quedar sin ninguno".                                      *)
(*                                                                         *)
(* A task is one request, an action one call of the database; here every   *)
(* document is a draft of the client himself, and Storage answers (Dossier *)
(* has uploading with its failures, one request after the other).          *)
(*                                                                         *)
(* The failures of a behaviour are chosen in its first state: "overlap"    *)
(* (two requests at once), "dbError", "crash".                             *)
(***************************************************************************)
EXTENDS Naturals, FiniteSets

CONSTANTS
  Kinds,     \* document_type and subject_type of a document
  Docs,      \* rows of documents
  Sessions,  \* numbers of the sessions: a bound
  None, Tasks,
  Worlds     \* the sets of failures a behaviour may have

SessionsAssumption == Sessions \subseteq Nat /\ None \notin Kinds \cup Sessions

VARIABLES
  session,   \* "absent", "new" (no targets yet), "open", "completed" or "deleted"
  expired,   \* sessions older than half an hour
  listed,    \* mobile_upload_session_documents of each session
  marked,    \* those with uploaded_at
  finished,  \* history: sessions that the telephone ended
  docs,      \* the kind of each document, or None
  kept,      \* history: kinds uploaded and not discarded since
  faults,
  task

sessionVars == <<session, expired, listed, marked, finished>>
docVars == <<docs, kept>>
vars == <<sessionVars, docVars, faults, task>>

Idle == [pc |-> "idle", s |-> None, k |-> None, d |-> None, seen |-> {}]

Init ==
  /\ faults \in Worlds
  /\ session = [s \in Sessions |-> "absent"] /\ expired = {}
  /\ listed = [s \in Sessions |-> {}] /\ marked = [s \in Sessions |-> {}]
  /\ finished = {}
  /\ docs = [d \in Docs |-> None] /\ kept = {}
  /\ task = [t \in Tasks |-> Idle]

At(t, pc) == task[t].pc = pc
Goto(t, pc) == task' = [task EXCEPT ![t].pc = pc]
Done(t) == task' = [task EXCEPT ![t] = Idle]
AllIdle == \A t \in Tasks : At(t, "idle")
Starts(t) == At(t, "idle") /\ (AllIdle \/ "overlap" \in faults)
Fails == "dbError" \in faults
Live == {docs[d] : d \in Docs} \ {None}

(***************************************************************************)
(* The session, asked for at the desktop.                                  *)
(***************************************************************************)
\* The sessions before it are completed, even if the list is then refused because it
\* repeats a document.
CreateMobileToken(t) ==
  /\ Starts(t)
  /\ session' = [s \in Sessions |-> IF session[s] \in {"new", "open"} /\ s \notin expired
                                    THEN "completed" ELSE session[s]]
  /\ Goto(t, "session") \/ UNCHANGED task
  /\ UNCHANGED <<expired, listed, marked, finished, docVars, faults>>
InsertSession(t) ==
  /\ At(t, "session")
  /\ \/ \E s \in Sessions :
          /\ \A r \in Sessions : session[r] = "absent" <=> r >= s
          /\ session' = [session EXCEPT ![s] = "new"]
          /\ task' = [task EXCEPT ![t].pc = "targets", ![t].s = s]
     \/ Fails /\ Done(t) /\ UNCHANGED session
  /\ UNCHANGED <<expired, listed, marked, finished, docVars, faults>>
\* From here on the telephone may have the token.
InsertTargets(t) ==
  /\ At(t, "targets")
  /\ LET s == task[t].s IN
     \/ /\ \E wanted \in (SUBSET Kinds) \ {{}} : listed' = [listed EXCEPT ![s] = wanted]
        /\ session' = [session EXCEPT ![s] = IF @ = "new" THEN "open" ELSE @]
        /\ Done(t)
     \/ Fails /\ Goto(t, "undo") /\ UNCHANGED <<session, listed>>
  /\ UNCHANGED <<expired, marked, finished, docVars, faults>>
UndoSession(t) ==
  /\ At(t, "undo")
  /\ session' = [session EXCEPT ![task[t].s] = "deleted"] \/ (Fails /\ UNCHANGED session)
  /\ Done(t)
  /\ UNCHANGED <<expired, listed, marked, finished, docVars, faults>>
Expire(s) ==
  /\ session[s] = "open"
  /\ expired' = expired \cup {s}
  /\ UNCHANGED <<session, listed, marked, finished, docVars, faults, task>>

\* resolveMobileToken: what the telephone may use.
Resolved(s) == session[s] = "open" /\ s \notin expired

(***************************************************************************)
(* Uploading: from the telephone for a target of its session, from the     *)
(* desktop for any kind.                                                   *)
(***************************************************************************)
UploadMobileDocument(t, s, k) ==
  /\ Starts(t)
  /\ Resolved(s) /\ k \in listed[s]
  /\ task' = [task EXCEPT ![t] = [Idle EXCEPT !.pc = "insert", !.s = s, !.k = k]]
  /\ UNCHANGED <<sessionVars, docVars, faults>>
UploadAtDesktop(t, k) ==
  /\ Starts(t)
  /\ task' = [task EXCEPT ![t] = [Idle EXCEPT !.pc = "insert", !.k = k]]
  /\ UNCHANGED <<sessionVars, docVars, faults>>
Insert(t) ==
  /\ At(t, "insert")
  /\ \/ \E d \in Docs :
          /\ docs[d] = None /\ \A u \in Tasks : d \notin task[u].seen \cup {task[u].d}
          /\ docs' = [docs EXCEPT ![d] = task[t].k]
          /\ kept' = kept \cup {task[t].k}
          /\ task' = [task EXCEPT ![t].pc = "previous", ![t].d = d]
     \/ Fails /\ Done(t) /\ UNCHANGED docVars
  /\ UNCHANGED <<sessionVars, faults>>
\* Mutant: the document just inserted is among those it replaces.
PreviousOrNew(t) ==
  /\ At(t, "previous")
  /\ task' = [task EXCEPT ![t].pc = "retire", ![t].seen = {d \in Docs : docs[d] = task[t].k}]
  /\ UNCHANGED <<sessionVars, docVars, faults>>
Previous(t) ==
  /\ At(t, "previous")
  /\ task' = [task EXCEPT ![t].pc = "retire",
                          ![t].seen = {d \in Docs \ {task[t].d} : docs[d] = task[t].k}]
  /\ UNCHANGED <<sessionVars, docVars, faults>>
\* replacePreviousDocuments: deleted or, if that fails, superseded.
Retire(t) ==
  /\ At(t, "retire")
  /\ docs' = [d \in Docs |-> IF d \in task[t].seen THEN None ELSE docs[d]]
  /\ IF task[t].s = None THEN Done(t) ELSE Goto(t, "mark")
  /\ UNCHANGED <<sessionVars, kept, faults>>
Mark(t) ==
  /\ At(t, "mark")
  /\ marked' = [marked EXCEPT ![task[t].s] = @ \cup {task[t].k}] \/ (Fails /\ UNCHANGED marked)
  /\ Done(t)
  /\ UNCHANGED <<session, expired, listed, finished, docVars, faults>>
\* The client discards what he uploaded.
Discard(k) ==
  /\ AllIdle \/ "overlap" \in faults
  /\ k \in Live
  /\ docs' = [d \in Docs |-> IF docs[d] = k THEN None ELSE docs[d]]
  /\ kept' = kept \ {k}
  /\ UNCHANGED <<sessionVars, faults, task>>

(***************************************************************************)
(* The telephone ends the session.                                         *)
(***************************************************************************)
CompleteMobileToken(t, s) ==
  /\ Starts(t)
  /\ Resolved(s) /\ listed[s] # {} /\ listed[s] \subseteq marked[s]
  /\ task' = [task EXCEPT ![t] = [Idle EXCEPT !.pc = "complete", !.s = s]]
  /\ UNCHANGED <<sessionVars, docVars, faults>>
Complete(t) ==
  /\ At(t, "complete")
  /\ \/ /\ session' = [session EXCEPT ![task[t].s] = "completed"]
        /\ finished' = finished \cup {task[t].s}
     \/ Fails /\ UNCHANGED <<session, finished>>
  /\ Done(t)
  /\ UNCHANGED <<expired, listed, marked, docVars, faults>>

Crash(t) ==
  /\ "crash" \in faults /\ ~At(t, "idle")
  /\ Done(t)
  /\ UNCHANGED <<sessionVars, docVars, faults>>

Next ==
  \/ \E t \in Tasks :
       \/ CreateMobileToken(t) \/ InsertSession(t) \/ InsertTargets(t) \/ UndoSession(t)
       \/ Insert(t) \/ Previous(t) \/ Retire(t) \/ Mark(t) \/ Complete(t) \/ Crash(t)
       \/ \E k \in Kinds : UploadAtDesktop(t, k)
       \/ \E s \in Sessions : CompleteMobileToken(t, s)
       \/ \E s \in Sessions, k \in Kinds : UploadMobileDocument(t, s, k)
  \/ \E s \in Sessions : Expire(s)
  \/ \E k \in Kinds : Discard(k)

Spec == Init /\ [][Next]_vars

(***************************************************************************)
(* Properties                                                              *)
(***************************************************************************)
\* Every variable has its type.
TypeOK ==
  /\ session \in [Sessions -> {"absent", "new", "open", "completed", "deleted"}]
  /\ expired \subseteq Sessions /\ finished \subseteq Sessions
  /\ listed \in [Sessions -> SUBSET Kinds] /\ marked \in [Sessions -> SUBSET Kinds]
  /\ docs \in [Docs -> Kinds \cup {None}] /\ kept \subseteq Kinds
  /\ faults \in Worlds
  /\ \A t \in Tasks : task[t].pc \in {"idle", "session", "targets", "undo", "insert",
                                      "previous", "retire", "mark", "complete"}

\* A session that the telephone ended has each of its documents, whatever ran beside it
\* (completeMobileToken).  One request at a time, and whatever fails, the client is at
\* no moment without a document that he uploaded and did not discard (uploadDocument),
\* one session at most is open (createMobileToken), and one is never shown without its
\* list.
UploadsAreThere ==
  /\ \A s \in finished : listed[s] # {} /\ listed[s] \subseteq marked[s]
  /\ \A s \in Sessions : Resolved(s) => listed[s] # {}
  /\ "overlap" \notin faults =>
       kept \subseteq Live /\ Cardinality({s \in Sessions : Resolved(s)}) <= 1
=============================================================================
