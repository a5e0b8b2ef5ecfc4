SPECIFICATION Spec
CONSTANTS
  large = large
  small = small
  t1 = t1
  t2 = t2
  Payouts <- One
  Tasks <- MCTasks
  Cost <- LargeCost
  Large <- LargeOnes
  Deposit = 3
  MaxBalance = 3
  MaxLost = 1
  MaxDebits = 1
  Deliveries <- Once
  LinkChecked = FALSE
  Ops = {"create", "approve", "complete"}
  Faults = {}
INVARIANTS CompletedIsCharged
SYMMETRY MCSymmetry
CHECK_DEADLOCK FALSE
