\* TLC stops at the first of the two: take its line out to see the next.
SPECIFICATION Spec
CONSTANTS
  a = a
  b = b
  t1 = t1
  t2 = t2
  Orders <- One
  Tasks <- MCTasks
  Flow <- OneDirect
  Route <- OneRoute
  Amount <- OneAmount
  SameCurrency <- One
  Deposit = 3
  Deliveries <- Twice
  Ops = {"create", "approve", "clientCancel", "bridgeFail"}
  Faults = {}
INVARIANTS ReserveMatchesOrders ReleasedOnce
CHECK_DEADLOCK FALSE
