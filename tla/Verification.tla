---------------------------- MODULE Verification ----------------------------
(***************************************************************************)
(* The verification of an application by Didit before staff decide on it:  *)
(* of the person of a KYC, or of the company, its representative and its   *)
(* UBOs of a KYB.  A run reads the application, the people and their       *)
(* documents, has every check answered by Didit or reuses the answer of    *)
(* the last verdict, and writes the verdict over it; meanwhile the client  *)
(* and the staff edit the data and upload documents anew.                  *)
(*                                                                         *)
(* "aml" stands for database_validation too and "face" for liveness, which *)
(* read the same.  The documents of one subject are one number that every  *)
(* upload raises, 0 when there are none; a run takes less than a day of    *)
(* the clock.  What Didit does not approve is bounded, like the edits;     *)
(* database_validation covers the country of everybody.                    *)
(* Without force a verdict that is there is returned and nothing is run.   *)
(*                                                                         *)
(* The failures of a behaviour are chosen in its first state: "replicas"   *)
(* (every task is in a process of its own), "crash", "dbError" (a verdict  *)
(* is not saved).                                                          *)
(***************************************************************************)
EXTENDS Naturals, Sequences, SequencesExt

CONSTANTS
  Ubos,
  None,
  MaxAge,     \* DIDIT_REUSE_APPROVED_MAX_AGE_DAYS
  Horizon,    \* a bound: the last day
  MaxRuns,    \* a bound: a failure takes the place of a run
  MaxEdits,   \* a bound
  MaxOdd,     \* a bound on the checks that Didit does not approve
  Tasks,
  Worlds      \* the sets of failures a behaviour may have

VARIABLES
  data,       \* the rows of the person, the company and its people
  papers,     \* their documents
  verdict,    \* screening.didit
  answered,   \* history: what Didit answered Approved, and when
  logged,     \* how many runs the audit log has
  today,
  edits,
  odd,        \* history: how many checks Didit did not approve
  begun,      \* history: how many runs began
  faults,
  task

vars == <<data, papers, verdict, answered, logged, today, edits, odd, begun, faults, task>>

Subjects == {"person", "company", "director"} \cup Ubos
Data == [number : {1, 2}, name : {1, 2}] \ {[number |-> 2, name |-> 2]}
Checks(s) == CASE s = "person"  -> {"id", "aml", "face", "poa"}
               [] s = "company" -> {"aml", "poa"}
               [] OTHER -> {"id", "aml", "face"}
Slots(S) == UNION {{<<s, c>> : c \in Checks(s)} : s \in S}
NoResults == [x \in {} |-> None]
\* What is kept of a check, and of a run: an answer with the seal of its inputs, and a
\* verdict with what its run read.
People == [Subjects -> Data \cup {None}]
Prints == [check : {"id", "aml", "face", "poa"}, of : Subjects \cup {None}, docs : Nat,
           who : Data \cup {None} \cup [number : {0}, name : {1, 2}]]
Result == [status : {"Approved", "Declined", "Failed", "Skipped"},
           print : Prints \cup {None}, day : Nat]
Results == UNION {[Slots(S) -> Result] : S \in SUBSET Subjects}
Verdicts == [overall : {"error", "declined", "approved", "needs_review"}, results : Results,
             count : Nat, day : Nat, read : People, seen : [Subjects -> Nat]]

AgesAssumption == MaxAge \in Nat /\ Horizon \in Nat
OwnersAssumption ==
  IsFiniteSet(Ubos) /\ Ubos \cap {"person", "company", "director"} = {}
NoneAssumption == None \notin Verdicts

Idle == [pc |-> "idle", was |-> None, read |-> None, seen |-> [s \in {} |-> 0], todo |-> <<>>,
         found |-> NoResults]

Init ==
  /\ faults \in Worlds
  /\ data \in {[s \in Subjects |-> IF s = "person" THEN [number |-> 1, name |-> 1] ELSE None]}
              \cup {[s \in Subjects |-> CASE s = "person" -> None
                                          [] s \in Ubos -> u
                                          [] s = "director" -> d
                                          [] OTHER -> [number |-> 1, name |-> 1]] :
                      u \in {None, [number |-> 1, name |-> 2], [number |-> 2, name |-> 1]},
                      d \in {None, [number |-> 1, name |-> 1]}}
  /\ papers = [s \in Subjects |-> IF data[s] = None THEN 0 ELSE 1]
  /\ verdict = None /\ answered = {} /\ logged = 0
  /\ today = 0 /\ edits = 0 /\ odd = 0 /\ begun = 0
  /\ task = [t \in Tasks |-> Idle]

At(t, pc) == task[t].pc = pc
Done(t) == task' = [task EXCEPT ![t] = Idle]
Kyb == data["company"] # None

(***************************************************************************)
(* A run                                                                   *)
(***************************************************************************)
\* inFlight: the applications a process has a run for.
InFlight(t) == \E u \in Tasks : ~At(u, "idle") /\ (u = t \/ "replicas" \notin faults)
\* runForReview or runForApplication, and the application with its last verdict.
Begin(t) ==
  /\ At(t, "idle") /\ ~InFlight(t)
  /\ begun + Cardinality(faults) < MaxRuns
  /\ begun' = begun + 1
  /\ task' = [task EXCEPT ![t].pc = "rows", ![t].was = verdict]
  /\ UNCHANGED <<data, papers, verdict, answered, logged, today, edits, odd, faults>>
Read(t, todo) ==
  /\ At(t, "rows")
  /\ task' = [task EXCEPT ![t].pc = "papers", ![t].read = data, ![t].todo = todo,
                          ![t].seen = [s \in Subjects |-> 0]]
  /\ UNCHANGED <<data, papers, verdict, answered, logged, today, edits, odd, begun, faults>>
\* runForKycReview
ReadPerson(t) == ~Kyb /\ Read(t, <<"person">>)
\* runForKybReview: the company, then its signer, then the UBOs
ReadBusiness(t) ==
  Kyb /\ Read(t, <<"company", "director">> \o SetToSeq({u \in Ubos : data[u] # None}))

\* The fingerprint of a check: its inputs as the run read them.
Fingerprint(s, c, who, docs) ==
  [check |-> c,
   of    |-> IF c = "aml" THEN None ELSE s,
   docs  |-> IF c = "aml" THEN 0 ELSE docs,
   who   |-> CASE c \in {"aml", "id"} -> who
               [] c = "poa" /\ s # "company" -> [number |-> 0, name |-> who.name]
               [] OTHER -> None]

\* Mutant: the answer of the last verdict is reused whatever has changed.
ReuseAnyInputs(old, print) ==
  old # None /\ old.status = "Approved" /\ today <= old.day + MaxAge
\* canReuse
CanReuse(old, print) ==
  /\ old # None /\ old.status = "Approved"
  /\ old.print = print
  /\ today <= old.day + MaxAge

\* The results of the last verdict for one subject.
Previous(was, s, c) ==
  IF was # None /\ <<s, c>> \in DOMAIN was.results THEN was.results[<<s, c>>] ELSE None

\* resolveCheck: a result that is reused keeps its seal, one of Didit gets it.
\* "Failed" is the null of a call that was rejected.
Resolve(old, print, status) ==
  IF CanReuse(old, print) THEN old
  ELSE [status |-> status,
        print |-> IF status \in {"Skipped", "Failed"} THEN None ELSE print,
        day |-> today]

\* isSamePerson: number stands for the document and the nationality.
IsSamePerson(s, read) ==
  s \in Ubos /\ read["director"] # None /\ read[s].number = read["director"].number

\* loadPersonDocuments, loadKybDocuments: of each type the last that is not superseded.
Documents(s) == papers[s]
\* runIdVerification to runProofOfAddress: what a check needs and the subject lacks.
Lacks(s, c) == c # "aml" /\ Documents(s) = 0
\* DiditApiClient: what a call ends with that is not Approved; a call that Didit
\* refuses, for want of credit say, or that times out throws.
Refusals == {"Declined", "Failed"}
\* buildPersonResult: the results of a subject beside those there are.
WithResults(found, s, result) ==
  [x \in DOMAIN found \cup Slots({s}) |-> IF x[1] = s THEN result[x[2]] ELSE found[x]]

\* A UBO who is the representative takes his results.
ShareChecks(t) ==
  LET s == Head(task[t].todo) IN
  /\ At(t, "papers") /\ task[t].todo # <<>>
  /\ IsSamePerson(s, task[t].read)
  /\ task' = [task EXCEPT
       ![t].todo = Tail(@),
       ![t].found = WithResults(@, s, [c \in Checks(s) |-> @[<<"director", c>>]])]
  /\ UNCHANGED <<data, papers, verdict, answered, logged, today, edits, odd, begun, faults>>

\* skippedPersonChecks: the company has no representative.
SkipChecks(t) ==
  LET s == Head(task[t].todo) IN
  /\ At(t, "papers") /\ task[t].todo # <<>>
  /\ task[t].read[s] = None
  /\ task' = [task EXCEPT
       ![t].todo = Tail(@),
       ![t].found = WithResults(@, s, [c \in Checks(s) |->
                      [status |-> "Skipped", print |-> None, day |-> today]])]
  /\ UNCHANGED <<data, papers, verdict, answered, logged, today, edits, odd, begun, faults>>

\* launchPersonChecks, or the checks of a company: what is not reused goes to Didit,
\* unless a document it takes is missing (one that does not load is skipped the same
\* way, and is left out).
Launch(t) ==
  LET s == Head(task[t].todo)
      who == task[t].read[s]
      print == [c \in Checks(s) |-> Fingerprint(s, c, who, Documents(s))]
      old == [c \in Checks(s) |-> Previous(task[t].was, s, c)]
      bare == {c \in Checks(s) : Lacks(s, c)}
      asked == {c \in Checks(s) \ bare : ~CanReuse(old[c], print[c])}
  IN
  /\ At(t, "papers") /\ task[t].todo # <<>>
  /\ who # None /\ ~IsSamePerson(s, task[t].read)
  /\ \E refused \in {{}} \cup {{c} : c \in asked}, how \in Refusals :
       /\ refused = {} => how = "Declined"
       /\ odd' = odd + Cardinality(refused) /\ odd' <= MaxOdd
       /\ task' = [task EXCEPT
            ![t].todo = Tail(@), ![t].seen[s] = Documents(s),
            ![t].found = WithResults(@, s, [c \in Checks(s) |->
                           Resolve(old[c], print[c], CASE c \in bare -> "Skipped"
                                                       [] c \in refused -> how
                                                       [] OTHER -> "Approved")])]
       /\ answered' = answered \cup
            {[input |-> print[c], day |-> today] : c \in asked \ refused}
  /\ UNCHANGED <<data, papers, verdict, logged, today, edits, begun, faults>>

\* computeOverall
Overall(found) ==
  LET results == {found[x] : x \in DOMAIN found} IN
  CASE \A r \in results : r.status = "Failed" -> "error"
    [] \E r \in results : r.status = "Declined" -> "declined"
    [] \A r \in results : r.status = "Approved" -> "approved"
    [] OTHER -> "needs_review"

\* buildVerdict, buildKybVerdict
Verdict(run) ==
  [overall |-> Overall(run.found), results |-> run.found,
   count |-> IF run.was = None THEN 1 ELSE run.was.count + 1,
   day |-> today, read |-> run.read, seen |-> run.seen]
\* persistVerdict, persistKybVerdict: written over the verdict there is now,
\* whatever it is; when that fails the run goes on.
Persist(t) ==
  /\ At(t, "papers") /\ task[t].todo = <<>>
  /\ \/ verdict' = Verdict(task[t])
     \/ "dbError" \in faults /\ UNCHANGED verdict
  /\ task' = [task EXCEPT ![t] = [Idle EXCEPT !.pc = "log"]]
  /\ UNCHANGED <<data, papers, answered, logged, today, edits, odd, begun, faults>>
\* logOutcome or logKybOutcome, then the application leaves inFlight.
Log(t) ==
  /\ At(t, "log")
  /\ logged' = logged + 1
  /\ Done(t)
  /\ UNCHANGED <<data, papers, verdict, answered, today, edits, odd, begun, faults>>

(***************************************************************************)
(* Meanwhile                                                               *)
(***************************************************************************)
\* The client or the staff change what is known of a subject; one of a KYB may be new.
Edit(s) ==
  /\ edits < MaxEdits
  /\ data[s] # None \/ (Kyb /\ s # "person")
  /\ \E d \in Data \ {data[s]} :
       data' = [data EXCEPT ![s] = d]
  /\ edits' = edits + 1
  /\ UNCHANGED <<papers, verdict, answered, logged, today, odd, begun, faults, task>>
\* A document is uploaded anew: the one before is superseded.
Upload(s) ==
  /\ edits < MaxEdits
  /\ data[s] # None
  /\ papers' = [papers EXCEPT ![s] = @ + 1]
  /\ edits' = edits + 1
  /\ UNCHANGED <<data, verdict, answered, logged, today, odd, begun, faults, task>>
Tick ==
  /\ today < Horizon
  /\ \A t \in Tasks : At(t, "idle")
  /\ today' = today + 1
  /\ UNCHANGED <<data, papers, verdict, answered, logged, edits, odd, begun, faults, task>>
\* A process ends with the runs it has; inFlight is in its memory.
Crash(t) ==
  /\ "crash" \in faults
  /\ ~At(t, "idle")
  /\ Done(t)
  /\ UNCHANGED <<data, papers, verdict, answered, logged, today, edits, odd, begun, faults>>

Next ==
  \/ \E t \in Tasks :
       Begin(t) \/ ReadPerson(t) \/ ReadBusiness(t) \/ ShareChecks(t) \/ SkipChecks(t)
       \/ Launch(t) \/ Persist(t) \/ Log(t) \/ Crash(t)
  \/ \E s \in Subjects : Edit(s) \/ Upload(s)
  \/ Tick

Spec == Init /\ [][Next]_vars

(***************************************************************************)
(* Properties                                                              *)
(***************************************************************************)
\* Every variable has its type.
TypeOK ==
  /\ data \in People
  /\ papers \in [Subjects -> 0..(1 + MaxEdits)]
  /\ verdict # None => verdict.overall \in {"error", "declined", "approved", "needs_review"}
  /\ \A a \in answered : a.day \in 0..Horizon
  /\ logged \in 0..MaxRuns /\ begun \in 0..MaxRuns
  /\ today \in 0..Horizon /\ edits \in 0..MaxEdits /\ odd \in 0..MaxOdd
  /\ \A t \in Tasks : task[t].pc \in {"idle", "rows", "papers", "log"}

\* A verdict is approved only if Didit approved every check of every subject the run
\* read, for the data and the documents it read (those of the representative for a UBO
\* who is him), within MaxAge days of the run: neither what is reused, again and again,
\* nor what is skipped, shared or failed leaves a gap (computeOverall, canReuse).
ApprovedIsChecked ==
  verdict # None /\ verdict.overall = "approved" =>
    LET read == verdict.read
        subjects == IF read["company"] = None THEN {"person"}
                    ELSE {"company", "director"} \cup {u \in Ubos : read[u] # None}
    IN \A s \in subjects :
         LET of == IF IsSamePerson(s, read) THEN "director" ELSE s IN
         /\ read[of] # None
         /\ \A c \in Checks(s) : \E a \in answered :
              /\ a.input = Fingerprint(of, c, read[of], verdict.seen[of])
              /\ verdict.day <= a.day + MaxAge

\* With one process and no failure no verdict is lost: run_count counts the runs that
\* were logged (inFlight keeps two clicks from reading the same verdict).
RunsAreCounted ==
  faults = {} =>
    (IF verdict = None THEN 0 ELSE verdict.count)
      = logged + (IF \E t \in Tasks : At(t, "log") THEN 1 ELSE 0)
=============================================================================
