SPECIFICATION Spec
CONSTANTS
  large = large
  small = small
  t1 = t1
  t2 = t2
  Payouts <- One
  Tasks <- MCTasks
  Cost <- LargeCost
  Large <- LargeOnes
  Deposit = 3
  MaxBalance = 5
  MaxLost = 2
  MaxDebits = 1
  Deliveries <- FailedTwice
  LinkChecked = FALSE
  Ops = {"create", "approve", "reject", "complete", "failed", "credit"}
  Faults = {"refuse", "lost", "rpcError", "noReview", "dbError", "crash", "overlap"}
INVARIANTS LargeIsReviewed FundsKept
SYMMETRY MCSymmetry
CHECK_DEADLOCK FALSE
