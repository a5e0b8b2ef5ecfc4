SPECIFICATION MCSpec
CONSTANTS
  large = large
  small = small
  t1 = t1
  t2 = t2
  Payouts <- Two
  Tasks <- MCTasks
  Cost <- MCCost
  Large <- LargeOnes
  Deposit = 3
  MaxBalance = 4
  MaxLost = 1
  MaxDebits = 3
  Deliveries <- Once
  LinkChecked = FALSE
  Ops = {"create", "approve", "reject", "complete", "failed", "credit"}
  Faults = {"refuse", "noReview"}
  MaxApps = 1
  MaxEvents = 2
  Handlers <- OneHandler
  ClientOps = {"create", "submit", "approve", "resend", "changes", "active", "rejected", "issues", "clear"}
  ClientFaults = {"refuse", "duplicate"}
INVARIANTS ReserveMatchesPayouts RejectedIsNotSent DebitedAtMostOnce TablesAgree
PROPERTIES DeliveredIsCompleted ActiveIsApproved
CHECK_DEADLOCK FALSE
