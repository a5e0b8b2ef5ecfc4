---------------------------- MODULE MCClients ----------------------------
(***************************************************************************)
(* The parts that keep what the program knows of a client and of those he  *)
(* pays.  As in MCServices a behaviour is one of the part chosen in its    *)
(* first state, the variables of the other parts keep the value 0, and the *)
(* configuration gives the constants small values.                         *)
(***************************************************************************)
EXTENDS Naturals, TLC

CONSTANTS
  Tasks, Nil,
  Contacts, ContactWorlds,
  Wallets, First, MaxOrders, WalletWorlds,
  Seats, Invited, Owner, Grants, MaxMembers, TeamWorlds,
  Holders, Rep, HolderRows, Papers, DossierWorlds,
  Directors, Shareholders, PersonIds, MaxSpelling, PersonWorlds,
  Owners, MaxAge, Horizon, MaxRuns, MaxEdits, MaxOdd, VerdictWorlds,
  Photos, PhotoRows, Links, PhotoWorlds,
  Codes, Internal, MaxChanges, IssueWorlds,
  Banks, MaxNumbers, MaxMonths, BankWorlds

VARIABLES part, faults, task,
          kind, pc, account, accountRow, address, addressRow, rows,
          wallet, compliance, decider, payable, active, orders, told, accepted,
          row, frozen, offered, served,
          who, known, doc, files, form, app, saved, sent,
          spelling, director, link, stored, made, persons, keyed, synced,
          data, papers, verdict, answered, logged, today, edits, odd, begun,
          session, expired, listed, marked, finished, docs, kept,
          wanted, inbox, shown, last, changes,
          bank, numbers, month, asked, answers, withdrawn

MCSymmetry == Permutations(Tasks) \cup Permutations(Seats) \cup Permutations(Invited)

\* Registering a beneficiary
SA == INSTANCE SupplierAccounts WITH Requests <- Contacts, Worlds <- ContactWorlds
accountsOwn == <<kind, pc, account, accountRow, address, addressRow, rows>>
accountsOff ==
  kind = 0 /\ pc = 0 /\ account = 0 /\ accountRow = 0 /\ address = 0 /\ addressRow = 0
  /\ rows = 0

\* The wallet of a beneficiary
BE == INSTANCE Beneficiaries WITH Addresses <- Wallets, Worlds <- WalletWorlds
walletOwn == <<wallet, compliance, decider, payable, active, orders, accepted>>
walletOff ==
  wallet = 0 /\ compliance = 0 /\ decider = 0 /\ payable = 0 /\ active = 0 /\ orders = 0
  /\ accepted = 0

\* The team of a client
AM == INSTANCE AccountMembers WITH
        Rows <- Seats, People <- Invited, None <- Nil, Worlds <- TeamWorlds
teamOwn == <<row, frozen, offered, served>>
teamOff == row = 0 /\ frozen = 0 /\ offered = 0 /\ served = 0

\* The dossier of a company
DO == INSTANCE Dossier WITH
        People <- Holders, Rows <- HolderRows, Docs <- Papers, None <- Nil,
        Worlds <- DossierWorlds
dossierOwn == <<who, known, doc, files, form, app, saved, sent>>
dossierOff ==
  who = 0 /\ known = 0 /\ doc = 0 /\ files = 0 /\ form = 0 /\ app = 0 /\ saved = 0
  /\ sent = 0

\* Its people at Bridge: directors and owners, who may be the same person
AP == INSTANCE AssociatedPersons WITH
        Ubos <- Shareholders, Ids <- PersonIds, None <- Nil, Worlds <- PersonWorlds
personsOwn == <<spelling, director, link, stored, made, persons, keyed, synced>>
personsOff ==
  spelling = 0 /\ director = 0 /\ link = 0 /\ stored = 0 /\ made = 0 /\ persons = 0
  /\ keyed = 0 /\ synced = 0

\* What Didit says of an application, of a person or of a company and its owners
VE == INSTANCE Verification WITH Ubos <- Owners, None <- Nil, Worlds <- VerdictWorlds
verdictOwn == <<data, papers, verdict, answered, logged, today, edits, odd, begun>>
verdictOff ==
  data = 0 /\ papers = 0 /\ verdict = 0 /\ answered = 0 /\ logged = 0 /\ today = 0
  /\ edits = 0 /\ odd = 0 /\ begun = 0

\* Uploading with the telephone and at the desktop
UD == INSTANCE MobileUploads WITH
        Kinds <- Photos, Docs <- PhotoRows, Sessions <- Links, None <- Nil,
        Worlds <- PhotoWorlds
uploadsOwn == <<session, expired, listed, marked, finished, docs, kept>>
uploadsOff ==
  session = 0 /\ expired = 0 /\ listed = 0 /\ marked = 0 /\ finished = 0 /\ docs = 0
  /\ kept = 0

\* What Bridge wants of him: documents, or checks of its own
BI == INSTANCE BridgeIssues WITH None <- Nil, Worlds <- IssueWorlds
issuesOwn == <<wanted, inbox, shown, last, changes>>
issuesOff == wanted = 0 /\ inbox = 0 /\ shown = 0 /\ last = 0 /\ changes = 0

\* The bank account he withdraws to
BK == INSTANCE BankAccounts WITH Ids <- Banks, None <- Nil, Worlds <- BankWorlds
bankOwn == <<bank, numbers, month, asked, answers, withdrawn>>
bankOff ==
  bank = 0 /\ numbers = 0 /\ month = 0 /\ asked = 0 /\ answers = 0 /\ withdrawn = 0

ASSUME InstancesAssumption ==
  BE!FirstAssumption /\ BE!MaxOrdersAssumption /\ AM!MembersAssumption
  /\ DO!DossierAssumption /\ AP!RowsAssumption /\ VE!AgesAssumption
  /\ VE!OwnersAssumption /\ VE!NoneAssumption
  /\ UD!SessionsAssumption /\ BI!CodesAssumption /\ BK!BoundsAssumption

Parts == {"accounts", "wallet", "team", "dossier", "persons", "verdict",
          "uploads", "issues", "bank"}

Init ==
  /\ part \in Parts
  /\ IF part = "accounts" THEN SA!Init /\ task = 0 ELSE accountsOff
  /\ IF part = "wallet" THEN BE!Init ELSE walletOff
  /\ IF part = "team" THEN AM!Init ELSE teamOff
  /\ IF part = "dossier" THEN DO!Init ELSE dossierOff
  /\ IF part = "persons" THEN AP!Init ELSE personsOff
  /\ IF part = "verdict" THEN VE!Init ELSE verdictOff
  /\ IF part = "uploads" THEN UD!Init ELSE uploadsOff
  /\ IF part = "issues" THEN BI!Init ELSE issuesOff
  /\ IF part = "bank" THEN BK!Init ELSE bankOff
  /\ part \in {"wallet", "issues"} \/ told = 0

Next ==
  /\ UNCHANGED part
  /\ IF part = "accounts" THEN SA!Next /\ UNCHANGED task ELSE UNCHANGED accountsOwn
  /\ IF part = "wallet" THEN BE!Next ELSE UNCHANGED walletOwn
  /\ IF part = "team" THEN AM!Next ELSE UNCHANGED teamOwn
  /\ IF part = "dossier" THEN DO!Next ELSE UNCHANGED dossierOwn
  /\ IF part = "persons" THEN AP!Next ELSE UNCHANGED personsOwn
  /\ IF part = "verdict" THEN VE!Next ELSE UNCHANGED verdictOwn
  /\ IF part = "uploads" THEN UD!Next ELSE UNCHANGED uploadsOwn
  /\ IF part = "issues" THEN BI!Next ELSE UNCHANGED issuesOwn
  /\ IF part = "bank" THEN BK!Next ELSE UNCHANGED bankOwn
  /\ part \in {"wallet", "issues"} \/ UNCHANGED told

vars == <<part, faults, task, accountsOwn, walletOwn, teamOwn, dossierOwn,
          personsOwn, verdictOwn, uploadsOwn, issuesOwn, bankOwn, told>>
Spec == Init /\ [][Next]_vars

\* Every variable has its type (see the module of each part).
TypeOK ==
  /\ part = "accounts" => SA!TypeOK
  /\ part = "wallet" => BE!TypeOK
  /\ part = "team" => AM!TypeOK
  /\ part = "dossier" => DO!TypeOK
  /\ part = "persons" => AP!TypeOK
  /\ part = "verdict" => VE!TypeOK
  /\ part = "uploads" => UD!TypeOK
  /\ part = "issues" => BI!TypeOK
  /\ part = "bank" => BK!TypeOK

\* Every row of a supplier's account or address has its counterpart, at Bridge or by
\* its review, and a request that failed leaves none behind (suppliers.service.ts).
RowsAreBacked == part = "accounts" => SA!RowsAreBacked /\ SA!FailedLeavesNothing

\* The verdict kept for a beneficiary's wallet is one about its current address, and no
\* order pays an address that was never cleared; what a rescreening blocks stops being
\* payable (updateSupplier, the screening gate, onBlocked).
VerdictIsOfAddress ==
  part = "wallet" =>
    BE!VerdictIsOfAddress /\ BE!OrdersPayScreened /\ BE!BlockIsCarriedOut

\* An open access to an account was offered after it was last revoked, to the one who
\* holds it, and, while the seats are counted one request after the other and the count
\* is answered, no more are taken than the account may have (accept, invite, reopen).
AccessIsOffered == part = "team" => AM!OpenAccessIsOffered /\ AM!TeamWithinLimit

\* What was sent is never deleted, no document loses its object nor an object its row,
\* an application is sent with everybody's documents, and a person saved after his
\* document was chosen has one row, with it (submitKybApplication, upsertUbo).
DossierIsKept == part = "dossier" => DO!DossierIsKept /\ DO!SavedIsDocumented

\* Bridge has nobody of a company twice and no row linked to somebody else, unless a
\* name was corrected, and it has the names as they were last sent
\* (syncBusinessAssociatedPersons, updateCustomerInBridge).
NobodyTwice == part = "persons" => AP!NobodyTwice /\ AP!SyncedIsCurrent

\* Nobody is at Bridge twice, corrected names included: the comment at the match says
\* the sync fails "instead of duplicating a compliance subject".
NeverDuplicated == part = "persons" => AP!NeverDuplicated

\* An approved verdict of Didit has no gap, however much of it is reused, and no run
\* is lost (runForKycReview, runForKybReview).
ApprovedIsChecked == part = "verdict" => VE!ApprovedIsChecked /\ VE!RunsAreCounted

\* Nobody is left without a document that he uploaded, and a session that the telephone
\* ended has all of its own (uploadDocument, completeMobileToken).
UploadsAreThere == part = "uploads" => UD!UploadsAreThere

\* The staff were told what Bridge said last (applyBridgeBlockingIssues).
IssuesAreTold == part = "issues" => BI!IssuesAreTold

\* No withdrawal goes to data that the staff have not approved, and every change a
\* client asks for waits or has one answer, unless requests of one side overlap
\* (approveChange, rejectChange, requestUpdate).
ChangesAreReviewed == part = "bank" => BK!ChangesAreReviewed
=============================================================================
