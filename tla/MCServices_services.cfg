SPECIFICATION Spec
CONSTANTS
  Tasks = {t1, t2}
  Nil = nil
  first = d1
  second = d2
  Deposits = {d1}
  Net = 1
  DepositWorlds = {{}, {"repeat"},
    {"repeat", "overlap", "crash", "dbError", "reorder", "spend"}}
  Drains = {d1, d2}
  DrainOrders = {1, 2}
  SameAddress <- MCSameAddress
  SameAmount <- MCSameAmount
  DrainWorlds = {{"crash"}, {"reorder", "crash"}, {"repeat"}, {"overlap", "close"}}
  Reviews = {r1, r2}
  Overrides = {1}
  Amounts = {1, 2}
  MaxAmount = 1
  Hourly = 1
  MaxMade = 2
  AdmissionWorlds = {{"edits"}, {"overlap", "crash", "dbError"}, {"unmarked"}}
  Buckets = {1, 2}
  MaxAttempts = 2
  Window = 1
  Block = 1
  Horizon = 3
  LimitWorlds = {{}, {"overlap", "dbError"}}
  SlotOrders = {1, 2}
  Sources = {1, 2}
  Targets = {1, 2}
  SlotWorlds = {{"refuse"}, {"overlap", "lost", "crash"}}
  Accounts = {i1, i2, i3}
  Own = ownFee
  Others = {x1}
  Fees = {0, 1}
  MaxTotal = 2
  MaxExternal = 1
  AccountWorlds = {{"fees"}, {"dbError"}, {"refuse", "lost", "crash"}, {"overlap"}}
  Keyed = {r1, r2, k1}
  KeyWorlds = {{"dbError", "crash"}, {"insert", "unmarked"}}
INVARIANTS TypeOK ArrivalsPaidOnce OneOrderPerReview AdmittedWithinMax
  ChecksCoverIndexes RowsMatchBridge KeyMakesOneOrder
SYMMETRY MCSymmetry
CHECK_DEADLOCK FALSE
