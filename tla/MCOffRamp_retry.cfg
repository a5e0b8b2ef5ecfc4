SPECIFICATION FairSpec
CONSTANTS
  a = a
  b = b
  t1 = t1
  t2 = t2
  Orders <- One
  Tasks <- MCTasks
  Flow <- OneDirect
  Route <- OneRoute
  Amount <- OneAmount
  SameCurrency <- One
  Deposit = 3
  Deliveries <- Once
  Ops = {"create", "approve", "bridgeComplete"}
  Faults = {"timeout"}
PROPERTY CompletedTransferSettles
CHECK_DEADLOCK FALSE
