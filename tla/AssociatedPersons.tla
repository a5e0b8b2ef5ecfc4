-------------------------- MODULE AssociatedPersons --------------------------
(***************************************************************************)
(* The people of a company as Bridge knows them.  Staff send the company:  *)
(* the first time POST /customers creates the customer with everybody,     *)
(* afterwards PUT /customers/{id} updates it without them.  Each time      *)
(* syncBusinessAssociatedPersons goes through the rows one by one, updates *)
(* the person of Bridge that the row is linked to, or has the name of, or  *)
(* creates it, and links the row.                                          *)
(*                                                                         *)
(* An action is one call of Bridge or of the database.  The failures of a  *)
(* behaviour are chosen in its first state: "refuse" (Bridge), "lost" (its *)
(* answer), "dbError", "crash", "overlap" (two sends at once), "rename"    *)
(* (the spelling of a person is corrected), "replace" (a row is removed    *)
(* and the person saved anew), "namesake" (the director and the owner have *)
(* one name and e-mail) and "legacy" (the first state has a customer from  *)
(* before rows had links).                                                 *)
(***************************************************************************)
EXTENDS Naturals, FiniteSets

CONSTANTS
  Directors, Ubos,  \* the rows of business_directors and business_ubos
  Ids,              \* of associated persons at Bridge
  None,
  MaxSpelling,      \* bounds the corrections of a name
  Tasks,
  Worlds            \* the sets of failures a behaviour may have

Rows == Directors \cup Ubos
RowsAssumption == Directors \cap Ubos = {} /\ None \notin Rows \cup Ids \cup {"namesake"}

VARIABLES
  spelling,  \* of the person of each row
  director,  \* business_ubos.director_id: the director an owner is, or None
  link,      \* bridge_associated_person_id, or None
  stored,    \* profiles.bridge_customer_id is set
  made,      \* Bridge has the customer
  persons,   \* the associated persons at Bridge: of which row's person, as spelled
  keyed,     \* what Bridge answered to the key associated-person-<table>-<id>
  synced,    \* history: the rows sent with their last spelling
  faults,    \* the failures of this behaviour
  task

rowVars == <<spelling, director, link>>
bridgeVars == <<made, persons, keyed>>
vars == <<rowVars, stored, bridgeVars, synced, faults, task>>

Nobody == [of |-> None, spelling |-> 1]
\* What a send holds: the rows still to do with their spellings and links as it read
\* them, the persons as Bridge listed them, those already matched, and its row.
NoSend == [pc |-> "idle", todo |-> {}, names |-> [r \in Rows |-> 1],
           links |-> [r \in Rows |-> None], seen |-> {}, matched |-> {}, row |-> None,
           id |-> None]
Pcs == {"idle", "post", "put", "build", "get", "person", "link", "store"}

Entry(r) == IF r \in Ubos /\ director[r] # None THEN director[r] ELSE r
\* The people a dossier names: buildAssociatedPersons merges an owner into the
\* director he is.
Entries == {Entry(r) : r \in Rows}
\* Name and e-mail tell people apart, except namesakes.
Person(r) == IF "namesake" \in faults THEN "namesake" ELSE Entry(r)
Made == {x \in Ids : persons[x].of # None}

\* One new person for each of `rows', spelled as in `names'.
Creates(rows, names) ==
  \E new \in [rows -> Ids \ Made] :
    /\ \A r, s \in rows : new[r] = new[s] => r = s
    /\ persons' = [x \in Ids |->
         IF \E r \in rows : new[r] = x
         THEN LET r == CHOOSE r \in rows : new[r] = x IN
              [of |-> Person(r), spelling |-> names[r]]
         ELSE persons[x]]

Init ==
  /\ faults \in Worlds
  /\ spelling = [r \in Rows |-> 1]
  /\ director \in [Ubos -> IF "namesake" \in faults THEN {None} ELSE Directors \cup {None}]
  /\ link = [r \in Rows |-> None] /\ keyed = [r \in Rows |-> None]
  /\ synced = {}
  /\ task = [t \in Tasks |-> NoSend]
  /\ IF "legacy" \in faults
     THEN /\ stored = TRUE /\ made = TRUE
          /\ \E new \in [Entries -> Ids] :
               /\ \A r, s \in Entries : new[r] = new[s] => r = s
               /\ persons = [x \in Ids |->
                    IF \E r \in Entries : new[r] = x
                    THEN [of |-> CHOOSE r \in Entries : new[r] = x, spelling |-> 1]
                    ELSE Nobody]
     ELSE stored = FALSE /\ made = FALSE /\ persons = [x \in Ids |-> Nobody]

At(t, pc) == task[t].pc = pc
Put(t, send) == task' = [task EXCEPT ![t] = send]
Goto(t, pc) == Put(t, [task[t] EXCEPT !.pc = pc])
Done(t) == Put(t, NoSend)
Quiet == \A t \in Tasks : At(t, "idle")
Refused(t) == "refuse" \in faults /\ Done(t)
Lost(t) == "lost" \in faults /\ Done(t)
OnlyBridge == UNCHANGED <<rowVars, stored, synced, faults>>

(***************************************************************************)
(* What the client and the staff do.                                       *)
(***************************************************************************)
\* sendToBridgeSubject and resendToBridge.
Start(t) ==
  /\ At(t, "idle") /\ ("overlap" \in faults \/ Quiet)
  /\ Put(t, [NoSend EXCEPT !.pc = IF stored THEN "put" ELSE "post", !.names = spelling])
  /\ UNCHANGED <<bridgeVars, rowVars, stored, synced, faults>>
\* updateDirector and upsertUbo: a merged owner is spelled like the director.
Rename(r) ==
  /\ "rename" \in faults /\ Quiet
  /\ r \in Entries /\ spelling[r] < MaxSpelling
  /\ spelling' = [spelling EXCEPT ![r] = @ + 1]
  /\ synced' = synced \ {r}
  /\ UNCHANGED <<director, link, stored, bridgeVars, faults, task>>
\* removeUbo or removeDirector, and the person saved again: a row with a new id.
Replace(r) ==
  /\ "replace" \in faults /\ Quiet
  /\ link[r] # None
  /\ link' = [link EXCEPT ![r] = None]
  /\ keyed' = [keyed EXCEPT ![r] = None]
  /\ synced' = synced \ {r}
  /\ UNCHANGED <<spelling, director, stored, made, persons, faults, task>>

(***************************************************************************)
(* The customer.  A second POST has the key of the first: Bridge answers   *)
(* with the customer it made, or refuses the key.                          *)
(***************************************************************************)
PostCustomer(t) ==
  /\ At(t, "post")
  /\ \/ /\ IF made THEN UNCHANGED persons ELSE Creates(Entries, task[t].names)
        /\ made' = TRUE
        /\ Goto(t, "build") \/ Lost(t)
     \/ Refused(t) /\ UNCHANGED <<made, persons>>
  /\ UNCHANGED keyed /\ OnlyBridge
PutCustomer(t) ==
  /\ At(t, "put")
  /\ Goto(t, "build") \/ Refused(t) \/ Lost(t)
  /\ UNCHANGED bridgeVars /\ OnlyBridge

(***************************************************************************)
(* syncBusinessAssociatedPersons.                                          *)
(***************************************************************************)
BuildAssociatedPersons(t) ==
  /\ At(t, "build")
  /\ Put(t, [task[t] EXCEPT !.pc = "get", !.todo = Entries, !.names = spelling,
                            !.links = link])
  /\ UNCHANGED bridgeVars /\ OnlyBridge
GetPersons(t) ==
  /\ At(t, "get")
  /\ \/ Put(t, [task[t] EXCEPT !.pc = "person",
                               !.seen = {<<x, persons[x]>> : x \in Made}])
     \/ Refused(t)
  /\ UNCHANGED bridgeVars /\ OnlyBridge

\* Mutant: what Bridge listed is not looked at.
MatchNobody(t, r) == {task[t].links[r]} \ {None}
\* The person the row is linked to, or else those with its e-mail and its name.
Candidates(t, r) ==
  IF task[t].links[r] # None THEN {task[t].links[r]}
  ELSE {x \in Ids \ task[t].matched :
          <<x, [of |-> Person(r), spelling |-> task[t].names[r]]>> \in task[t].seen}
IsNext(t, r) == r \in task[t].todo /\ (r \in Ubos => task[t].todo \cap Directors = {})
Matched(t, r, x) ==
  Put(t, [task[t] EXCEPT !.pc = "link", !.row = r, !.id = x, !.matched = @ \cup {x}])
PutPerson(t, r) ==
  /\ At(t, "person") /\ IsNext(t, r)
  /\ Cardinality(Candidates(t, r)) = 1
  /\ \E x \in Candidates(t, r) :
       \/ /\ persons' = [persons EXCEPT ![x].spelling = task[t].names[r]]
          /\ Matched(t, r, x) \/ Lost(t)
       \/ Refused(t) /\ UNCHANGED persons
  /\ UNCHANGED <<made, keyed>> /\ OnlyBridge
\* Two of one name and e-mail: for the staff to tell apart.
Ambiguous(t, r) ==
  /\ At(t, "person") /\ IsNext(t, r)
  /\ Cardinality(Candidates(t, r)) > 1
  /\ Done(t)
  /\ UNCHANGED bridgeVars /\ OnlyBridge
PostPerson(t, r) ==
  /\ At(t, "person") /\ IsNext(t, r)
  /\ Candidates(t, r) = {}
  /\ \/ \E x \in Ids :
          /\ IF keyed[r] = None
             THEN /\ x \notin Made
                  /\ persons' = [persons EXCEPT ![x] =
                                   [of |-> Person(r), spelling |-> task[t].names[r]]]
                  /\ keyed' = [keyed EXCEPT ![r] = x]
             ELSE x = keyed[r] /\ UNCHANGED <<persons, keyed>>
          /\ Matched(t, r, x) \/ Lost(t)
     \/ Refused(t) /\ UNCHANGED <<persons, keyed>>
  /\ UNCHANGED made /\ OnlyBridge

Table(r) == IF r \in Directors THEN Directors ELSE Ubos
\* The unique index is of one table.
Taken(r, x) == \E s \in Table(r) \ {r} : link[s] = x
LinkPerson(t) ==
  LET r == task[t].row
      todo == task[t].todo \ {r} IN
  /\ At(t, "link")
  /\ \/ /\ ~Taken(r, task[t].id)
        /\ link' = [link EXCEPT ![r] = task[t].id]
        /\ synced' = IF spelling[r] = task[t].names[r]
                     THEN synced \cup {r} ELSE synced
        /\ Put(t, [task[t] EXCEPT !.pc = IF todo = {} THEN "store" ELSE "person",
                                  !.todo = todo, !.row = None, !.id = None])
     \/ /\ "dbError" \in faults \/ Taken(r, task[t].id)
        /\ Done(t) /\ UNCHANGED <<link, synced>>
  /\ UNCHANGED <<spelling, director, stored, bridgeVars, faults>>
\* The error of this UPDATE is not looked at.
Store(t) ==
  /\ At(t, "store")
  /\ stored' = TRUE \/ ("dbError" \in faults /\ UNCHANGED stored)
  /\ Done(t)
  /\ UNCHANGED <<rowVars, bridgeVars, synced, faults>>
Crash ==
  /\ "crash" \in faults /\ ~Quiet
  /\ task' = [t \in Tasks |-> NoSend]
  /\ UNCHANGED bridgeVars /\ OnlyBridge

Next ==
  \/ \E t \in Tasks :
       \/ Start(t) \/ PostCustomer(t) \/ PutCustomer(t) \/ BuildAssociatedPersons(t)
       \/ GetPersons(t) \/ LinkPerson(t) \/ Store(t)
  \/ \E t \in Tasks, r \in Rows : PutPerson(t, r) \/ Ambiguous(t, r) \/ PostPerson(t, r)
  \/ \E r \in Rows : Rename(r) \/ Replace(r)
  \/ Crash

Spec == Init /\ [][Next]_vars

(***************************************************************************)
(* Properties.                                                             *)
(***************************************************************************)
TypeOK ==
  /\ faults \in Worlds
  /\ spelling \in [Rows -> 1 .. MaxSpelling] /\ synced \subseteq Rows
  /\ director \in [Ubos -> Directors \cup {None}]
  /\ link \in [Rows -> Ids \cup {None}] /\ keyed \in [Rows -> Ids \cup {None}]
  /\ stored \in BOOLEAN /\ made \in BOOLEAN
  /\ persons \in [Ids -> [of : Rows \cup {None, "namesake"}, spelling : 1 .. MaxSpelling]]
  /\ \A t \in Tasks : task[t].pc \in Pcs

Twice ==
  \E x, y \in Made : x # y /\ persons[x].of = persons[y].of

\* Whatever is lost, interrupted, sent twice or saved anew, Bridge has nobody twice
\* and a row is linked to its own person; when names are not corrected while a row
\* has no link (syncBusinessAssociatedPersons, "instead of duplicating a compliance
\* subject or attaching it to the wrong person").
NobodyTwice ==
  /\ faults \cap {"rename", "namesake"} = {} => ~Twice
  /\ \A r \in Rows : link[r] # None => persons[link[r]].of = Person(r)

\* The same for names corrected at any time: what the comment at the match promises,
\* "Reconcile them only on a unique email + full-name match, otherwise fail".
NeverDuplicated == "namesake" \notin faults => ~Twice

\* Between sends, when Bridge answers, a person that was sent since he was last
\* corrected is at Bridge as corrected: a send neither skips him nor puts an old name
\* back (updateCustomerInBridge, whose PUT may not carry associated_persons).
SyncedIsCurrent ==
  Quiet /\ faults \subseteq {"rename", "refuse", "replace", "legacy"} =>
    \A r \in synced :
      link[r] # None /\ persons[link[r]].spelling = spelling[r]
=============================================================================
