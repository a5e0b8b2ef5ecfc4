SPECIFICATION Spec
CONSTANTS
  a = a
  b = b
  t1 = t1
  t2 = t2
  Orders <- One
  Tasks <- MCTasks
  Flow <- OneFiatBo
  Route <- OneRoute
  Amount <- OneAmount
  SameCurrency <- One
  Deposit = 3
  Deliveries <- Twice
  Ops = {"create", "createSkip", "approve", "reject", "clientCancel", "staffCancel", "noRefund", "fail", "markSent", "complete", "bridgeComplete", "bridgeFail", "bridgeRefund", "bridgeReturn"}
  Faults = {"refuse", "timeout", "crash", "overlap", "early", "reorder", "dbError"}
INVARIANTS LegExclusive PartsCoverAmount Reconciled
PROPERTY ChargesKept
CHECK_DEADLOCK FALSE
