SPECIFICATION Spec
CONSTANTS
  Tasks = {t1, t2}
  Nil = nil
  Contacts = {r1, r2}
  ContactWorlds = {{"refuse", "insertFails"}, {"overlap", "insertFails", "refuse"},
    {"overlap", "insertFails", "refuse", "crash", "lost", "rowFails", "undoFails"},
    {"lostInsert"}}
  Wallets = {a1, a2}
  First = a1
  MaxOrders = 1
  WalletWorlds = {{"dbError"}, {"crash", "silent"}, {"overlap", "byHand"}}
  Seats = {m1, m2}
  Invited = {p1, p2}
  Owner = owner
  Grants = {caps}
  MaxMembers = 1
  TeamWorlds = {{"freeze"}, {"countError"}, {"overlap", "crash"}}
  Holders = {r1, r2}
  Rep = r1
  HolderRows = {m1, m2}
  Papers = {t1, t2}
  DossierWorlds = {{"storage"}, {"legacy"}, {"late"}, {"dbError"}, {"crash"}}
  Directors = {r1}
  Shareholders = {r2}
  PersonIds = {m1, m2, p1, p2}
  MaxSpelling = 2
  PersonWorlds = {{"refuse", "lost", "crash", "dbError"}, {"overlap", "lost"},
    {"replace", "lost", "dbError"}, {"legacy", "lost"}, {"rename", "refuse", "replace"},
    {"legacy", "rename"}, {"namesake"}}
  Owners = {"ubo"}
  MaxAge = 1
  Horizon = 2
  MaxRuns = 3
  MaxEdits = 1
  MaxOdd = 1
  VerdictWorlds = {{}, {"replicas"}, {"crash"}, {"dbError"}}
  Photos = {p1, p2}
  PhotoRows = {m1, m2}
  Links = {1, 2}
  PhotoWorlds = {{"dbError", "crash"}, {"overlap"}}
  Codes = {a1, a2}
  Internal = {a2}
  MaxChanges = 2
  IssueWorlds = {{}, {"crash"}, {"overlap", "reorder"}}
  Banks = {m1, m2}
  MaxNumbers = 3
  MaxMonths = 2
  BankWorlds = {{"crash"}, {"dbError"}, {"client", "staff"}}
INVARIANTS RowsAreBacked VerdictIsOfAddress AccessIsOffered
  DossierIsKept NobodyTwice ApprovedIsChecked UploadsAreThere IssuesAreTold
  ChangesAreReviewed
SYMMETRY MCSymmetry
CHECK_DEADLOCK FALSE
