SPECIFICATION FairSpec
CONSTANTS
  a = a
  b = b
  t1 = t1
  t2 = t2
  Orders <- Two
  Tasks <- MCTasks
  Flow <- FiatBoAndDirect
  Route <- SameRoute
  Amount <- TwoAmounts
  SameCurrency <- Two
  Deposit = 2
  Deliveries <- CompleteTwice
  Ops = {"create", "createSkip", "approve", "reject", "bridgeComplete", "bridgeFail"}
  Faults = {"refuse", "overlap"}

PROPERTY CompletedTransferSettles
CHECK_DEADLOCK FALSE
