SPECIFICATION Spec
CONSTANTS
  a = a
  b = b
  t1 = t1
  t2 = t2
  Orders <- Two
  Tasks <- MCTasks
  Flow <- PeruAndDirect
  Route <- TwoRoutes
  Amount <- TwoAmounts
  SameCurrency <- Two
  Deposit = 3
  Deliveries <- Twice
  Ops = {"create", "createSkip", "approve", "reject", "staffCancel", "fail", "markSent", "complete", "bridgeComplete", "bridgeRefund"}
  Faults = {"refuse"}
INVARIANTS ReserveMatchesOrders RefundsAnswerDebits
SYMMETRY MCSymmetry
CHECK_DEADLOCK FALSE
