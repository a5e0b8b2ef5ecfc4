------------------------------- MODULE Dossier -------------------------------
(***************************************************************************)
(* The dossier of a company: the people behind it (business_directors,     *)
(* business_ubos), their identity documents (rows of documents and objects *)
(* in Storage), the draft of the form and the KYB application.  A document *)
(* is uploaded as soon as it is chosen, for a person whose row may not     *)
(* exist yet (draft_key); saving the person claims it.  Staff who assist a *)
(* client run the same operations.                                         *)
(*                                                                         *)
(* A task is one request, an action one call of the database or of         *)
(* Storage; the form sends one request after the other.  Each person needs *)
(* one document of one type.  The failures of a behaviour are chosen in    *)
(* its first state: "dbError", "storage" (Storage removes nothing),        *)
(* "crash", "late" (the client edits and sends what he has sent) and       *)
(* "legacy" (the first state has two rows of a person, from when saving    *)
(* always inserted).                                                       *)
(***************************************************************************)
EXTENDS Naturals, FiniteSets

CONSTANTS
  People,  \* of the form; one row each, if all goes well
  Rep,     \* the legal representative among them
  Rows, Docs, None,
  Worlds   \* the sets of failures a behaviour may have

DossierAssumption ==
  /\ Rep \in People /\ None \notin People \cup Rows \cup Docs
  /\ IsFiniteSet(Rows) /\ People \cap Rows = {}

VARIABLES
  who,     \* the person of each row, or None
  known,   \* the rows with a bridge_associated_person_id
  doc,     \* the rows of documents: status, is_draft, subject_id or draft_key
  files,   \* the objects in Storage
  form,    \* onboarding_drafts: "none", "fresh" or "stale"
  app,     \* kyb_applications.status
  saved,   \* history: the persons saved since a document was chosen for them
  sent,    \* history: the documents of the application when it was sent
  faults,  \* the failures of this behaviour
  task

personVars == <<who, known>>
docVars == <<doc, files>>
historyVars == <<saved, sent>>
vars == <<personVars, docVars, form, app, historyVars, faults, task>>

Absent == [status |-> "absent", draft |-> FALSE, of |-> None]
\* What a call works on: a person or a row to upload for, a row, a document, what it
\* read, the drafts to delete and the documents to supersede, and what comes then.
Call == [pc |-> "idle", of |-> None, row |-> None, o |-> None, seen |-> {}, gone |-> {},
         old |-> {}, then |-> "idle"]
Pcs == {"idle", "insert", "undo", "previous", "remove", "delete", "supersede",
        "find", "covered", "take", "drop", "write", "orphans", "replaced", "claim",
        "form", "check", "submit", "sentDocs", "sentForm"}

RowsOf(p) == {r \in Rows : who[r] = p}
Registered == {r \in Rows : who[r] # None}
Active == {o \in Docs : doc[o].status = "pending"}
Of(s) == {o \in Active : doc[o].of = s}

\* In the first state of "legacy" saving has doubled the row of one person.
Doubled(p, r, s) ==
  /\ p # Rep /\ r # s
  /\ who = [x \in Rows |-> IF x \in {r, s} THEN p ELSE None]
  /\ \E o \in Docs :
       /\ files = {o}
       /\ doc = [[x \in Docs |-> Absent] EXCEPT
                   ![o] = [status |-> "pending", draft |-> TRUE, of |-> r]]
Init ==
  /\ faults \in Worlds
  /\ known = {} /\ form = "none" /\ app = "pending" /\ saved = {} /\ sent = {}
  /\ task = Call
  /\ IF "legacy" \in faults THEN \E p \in People, r, s \in Rows : Doubled(p, r, s)
     ELSE who = [r \in Rows |-> None] /\ doc = [o \in Docs |-> Absent] /\ files = {}

At(pc) == task.pc = pc
Goto(pc) == task' = [task EXCEPT !.pc = pc]
Done == task' = Call
Quiet == At("idle")
Edits == Quiet /\ (app \in {"pending", "needs_review"} \/ "late" \in faults)
Reads == UNCHANGED <<personVars, docVars, form, app, historyVars, faults>>
OnlyDocs == UNCHANGED <<personVars, files, form, app, historyVars, faults>>
OnlyFiles == UNCHANGED <<personVars, doc, form, app, historyVars, faults>>
OnlyPeople == UNCHANGED <<docVars, form, app, sent, faults>>

(***************************************************************************)
(* Uploading.                                                              *)
(***************************************************************************)
Upload(o, of) ==
  /\ Edits
  /\ o \notin files /\ doc[o] = Absent
  /\ of \in People \cup Registered
  /\ files' = files \cup {o}
  /\ saved' = saved \ {of}
  /\ task' = [Call EXCEPT !.pc = "insert", !.o = o, !.of = of]
  /\ UNCHANGED <<personVars, doc, form, app, sent, faults>>
Insert ==
  /\ At("insert")
  /\ \/ /\ doc' = [doc EXCEPT ![task.o] =
             [status |-> "pending", draft |-> TRUE, of |-> task.of]]
        /\ Goto("previous")
     \/ "dbError" \in faults /\ Goto("undo") /\ UNCHANGED doc
  /\ OnlyDocs
\* Mutant: the object of a document that has no row stays.
UndoNothing == At("undo") /\ Done /\ UNCHANGED files /\ OnlyFiles
Undo ==
  /\ At("undo")
  /\ files' = files \ {task.o} \/ ("storage" \in faults /\ UNCHANGED files)
  /\ Done
  /\ OnlyFiles
Retire(docs, then) ==
  LET gone == {o \in docs : doc[o].draft} IN
  task' = [task EXCEPT !.pc = "remove", !.gone = gone, !.old = docs \ gone, !.then = then]
Previous ==
  /\ At("previous")
  /\ Retire(Of(task.of) \ {task.o}, "idle")
  /\ Reads

(***************************************************************************)
(* Withdrawing: drafts are deleted, their objects first; what was sent     *)
(* becomes superseded, and so do the drafts that could not be deleted.     *)
(* deleteDraftDocument and deleteDraft only delete, and end if they fail.  *)
(***************************************************************************)
Erases == task.then \in {"end", "form"}
Fails ==
  IF Erases THEN Done
  ELSE task' = [task EXCEPT !.pc = "supersede", !.gone = {}, !.old = @ \cup task.gone]
Remove ==
  /\ At("remove")
  /\ \/ files' = files \ task.gone /\ Goto("delete")
     \/ "storage" \in faults /\ task.gone # {} /\ Fails /\ UNCHANGED files
  /\ OnlyFiles
Delete ==
  /\ At("delete")
  /\ \/ /\ doc' = [o \in Docs |-> IF o \in task.gone THEN Absent ELSE doc[o]]
        /\ CASE task.then = "end" -> Done
             [] task.then = "form" -> Goto("form")
             [] OTHER -> Goto("supersede")
     \/ "dbError" \in faults /\ task.gone # {} /\ Fails /\ UNCHANGED doc
  /\ OnlyDocs
Supersede ==
  /\ At("supersede")
  /\ \/ doc' = [o \in Docs |-> IF o \in task.old
                               THEN [doc[o] EXCEPT !.status = "superseded"] ELSE doc[o]]
     \/ "dbError" \in faults /\ UNCHANGED doc
  /\ IF task.then = "claim" THEN Goto("claim") ELSE Done
  /\ OnlyDocs
DeleteDraftDocument(o) ==
  /\ Edits
  /\ o \in Active /\ doc[o].draft
  /\ task' = [Call EXCEPT !.pc = "remove", !.gone = {o}, !.then = "end"]
  /\ Reads

(***************************************************************************)
(* Saving a person: his row is looked for, his doubles give it their       *)
(* documents and go, and it claims what was uploaded before it existed.    *)
(***************************************************************************)
Save(p) ==
  /\ Edits
  /\ task' = [Call EXCEPT !.pc = "find", !.of = p]
  /\ Reads
Keepers(p) == IF RowsOf(p) \cap known # {} THEN RowsOf(p) \cap known ELSE RowsOf(p)
Find ==
  /\ At("find")
  /\ LET p == task.of IN
     CASE RowsOf(p) = {} -> Goto("write")
       [] p = Rep /\ Cardinality(RowsOf(p)) > 1 -> Done
       [] OTHER -> \E keeper \in Keepers(p) :
            LET doubles == RowsOf(p) \ (known \cup {keeper}) IN
            task' = [task EXCEPT !.pc = IF doubles = {} THEN "write" ELSE "covered",
                                   !.row = keeper, !.old = doubles]
  /\ Reads
\* consolidateUboDocuments
Covered ==
  /\ At("covered")
  /\ LET theirs == {o \in Active : doc[o].of \in task.old} IN
     task' = [task EXCEPT !.pc = IF theirs = {} THEN "drop" ELSE "take",
                            !.seen = theirs, !.gone = Of(task.row)]
  /\ Reads
Take(o) ==
  /\ At("take") /\ o \in task.seen
  /\ LET left == task.seen \ {o}
         taken == IF task.gone = {} THEN [doc[o] EXCEPT !.of = task.row]
                  ELSE [doc[o] EXCEPT !.status = "superseded"] IN
     \/ /\ doc' = [doc EXCEPT ![o] = taken]
        /\ task' = [task EXCEPT !.pc = IF left = {} THEN "drop" ELSE "take",
                                  !.seen = left, !.gone = @ \cup {o}]
     \/ "dbError" \in faults /\ Done /\ UNCHANGED doc
  /\ OnlyDocs
Drop ==
  /\ At("drop")
  /\ \/ /\ who' = [r \in Rows |-> IF r \in task.old THEN None ELSE who[r]]
        /\ known' = known \ task.old
        /\ Goto("write")
     \/ "dbError" \in faults /\ Done /\ UNCHANGED personVars
  /\ UNCHANGED saved /\ OnlyPeople
\* The row is updated, or inserted under an id that nothing refers to.
Write(r) ==
  /\ At("write")
  /\ IF task.row = None THEN who[r] = None /\ \A o \in Docs : doc[o].of # r
     ELSE r = task.row
  /\ \/ /\ who' = [who EXCEPT ![r] = task.of]
        /\ task' = [task EXCEPT !.pc = "orphans", !.row = r]
     \/ "dbError" \in faults /\ Done /\ UNCHANGED who
  /\ UNCHANGED <<known, saved>> /\ OnlyPeople
Orphans ==
  /\ At("orphans")
  /\ LET orphans == Of(task.of) IN
     IF orphans = {} THEN Done /\ saved' = saved \cup {task.of}
     ELSE task' = [task EXCEPT !.pc = "replaced", !.seen = orphans] /\ UNCHANGED saved
  /\ UNCHANGED <<personVars, docVars, form, app, sent, faults>>
Replaced ==
  /\ At("replaced")
  /\ Retire(Of(task.row), "claim")
  /\ Reads
ClaimDraftDocuments ==
  /\ At("claim")
  /\ \/ /\ doc' = [o \in Docs |-> IF o \in task.seen
                                  THEN [doc[o] EXCEPT !.of = task.row] ELSE doc[o]]
        /\ saved' = saved \cup {task.of}
     \/ "dbError" \in faults /\ UNCHANGED <<doc, saved>>
  /\ Done
  /\ UNCHANGED <<personVars, files, form, app, sent, faults>>
RemovePerson(r) ==
  /\ Edits /\ who[r] # None
  /\ who' = [who EXCEPT ![r] = None] /\ known' = known \ {r}
  /\ UNCHANGED <<docVars, form, app, historyVars, faults, task>>

(***************************************************************************)
(* The draft.                                                              *)
(***************************************************************************)
SaveDraft ==
  /\ Edits /\ app \in {"pending", "needs_review"}
  /\ form' = "fresh"
  /\ UNCHANGED <<personVars, docVars, app, historyVars, faults, task>>
Age ==
  /\ form = "fresh" /\ form' = "stale"
  /\ UNCHANGED <<personVars, docVars, app, historyVars, faults, task>>
\* The client discards the draft, or the cron (purgeStaleDrafts) finds it stale.
DeleteDraft ==
  /\ Edits \/ (Quiet /\ form = "stale")
  /\ LET drafts == {o \in Docs : doc[o].draft} IN
     task' = [Call EXCEPT !.pc = IF drafts = {} THEN "form" ELSE "remove", !.gone = drafts,
                         !.then = "form"]
  /\ Reads
DeleteForm ==
  /\ At("form") \/ At("sentForm")
  /\ form' = "none" \/ ("dbError" \in faults /\ UNCHANGED form)
  /\ Done
  /\ UNCHANGED <<personVars, docVars, app, historyVars, faults>>

(***************************************************************************)
(* The application.                                                        *)
(***************************************************************************)
SubmitKybApplication ==
  /\ Edits /\ app # "submitted" /\ RowsOf(Rep) # {}
  /\ task' = [Call EXCEPT !.pc = "check", !.seen = Registered]
  /\ Reads
AssertIdentityDocumentsComplete ==
  /\ At("check")
  /\ IF \A r \in task.seen : Of(r) # {} THEN Goto("submit") ELSE Done
  /\ Reads
Submit ==
  /\ At("submit")
  /\ app' = "submitted"
  /\ sent' = sent \cup Active
  /\ Goto("sentDocs")
  /\ UNCHANGED <<personVars, docVars, form, saved, faults>>
\* Its errors are caught: what was sent stays sent.
MarkSubmitted ==
  /\ At("sentDocs")
  /\ \/ /\ doc' = [o \in Docs |-> [doc[o] EXCEPT !.draft = FALSE]]
        /\ Goto("sentForm")
     \/ "dbError" \in faults /\ Done /\ UNCHANGED doc
  /\ OnlyDocs
\* Staff send it to Bridge: without the image of a document nobody is sent.
HasImage(r) == \E o \in Of(r) : o \in files
Send ==
  /\ app = "submitted" /\ \A r \in Registered : HasImage(r)
  /\ known' = Registered
  /\ app' = "sent_to_bridge"
  /\ UNCHANGED <<who, docVars, form, historyVars, faults, task>>
RequestChanges ==
  /\ app \in {"submitted", "sent_to_bridge"}
  /\ app' = "needs_review"
  /\ UNCHANGED <<personVars, docVars, form, historyVars, faults, task>>
Crash ==
  /\ "crash" \in faults /\ ~Quiet
  /\ task' = Call
  /\ Reads

Next ==
  \/ Insert \/ Undo \/ Previous \/ Remove \/ Delete \/ Supersede
  \/ Find \/ Covered \/ Drop \/ Orphans \/ Replaced \/ ClaimDraftDocuments
  \/ SaveDraft \/ Age \/ DeleteDraft \/ DeleteForm
  \/ SubmitKybApplication \/ AssertIdentityDocumentsComplete \/ Submit \/ MarkSubmitted
  \/ Send \/ RequestChanges \/ Crash
  \/ \E p \in People : Save(p)
  \/ \E r \in Rows : Write(r) \/ RemovePerson(r)
  \/ \E o \in Docs : Take(o) \/ DeleteDraftDocument(o)
  \/ \E o \in Docs, of \in People \cup Rows : Upload(o, of)

Spec == Init /\ [][Next]_vars

(***************************************************************************)
(* Properties.                                                             *)
(***************************************************************************)
TypeOK ==
  /\ faults \in Worlds
  /\ who \in [Rows -> People \cup {None}] /\ known \subseteq Registered
  /\ doc \in [Docs -> [status : {"absent", "pending", "superseded"}, draft : BOOLEAN,
                       of : People \cup Rows \cup {None}]]
  /\ files \subseteq Docs /\ sent \subseteq Docs /\ saved \subseteq People
  /\ form \in {"none", "fresh", "stale"}
  /\ app \in {"pending", "submitted", "sent_to_bridge", "needs_review"}
  /\ task.pc \in Pcs

\* A person who was saved after his document was chosen has one row, with that
\* document: however often the form saves him, and whatever rows an earlier version
\* doubled, he can be sent (upsertUbo: "conservar la misma fila").
SavedIsDocumented ==
  Quiet /\ faults \subseteq {"late", "legacy"} =>
    \A p \in saved :
      \/ RowsOf(p) = {} \/ Cardinality(RowsOf(p) \cap known) > 1
      \/ /\ Cardinality(RowsOf(p)) = 1
         /\ (\E o \in Active : doc[o].of = p \/ doc[o].of \in RowsOf(p))
              => \A r \in RowsOf(p) : HasImage(r)

\* What was sent is superseded and never deleted ("lo ya enviado se reemplaza, nunca
\* se borra"), a document has its object and, unless Storage fails, an object its row
\* ("para no dejar huérfanos"); and an application that was sent has the documents of
\* everybody in it (assertIdentityDocumentsComplete).
DossierIsKept ==
  /\ faults \cap {"dbError", "crash"} = {} =>
       /\ \A o \in sent : doc[o] # Absent
       /\ Quiet => Active \subseteq files
  /\ Quiet /\ faults \cap {"storage", "crash"} = {} =>
       \A o \in files : doc[o] # Absent
  /\ Quiet /\ faults \subseteq {"legacy"} /\ app = "submitted" =>
       \A r \in Registered : HasImage(r)
=============================================================================
