SPECIFICATION Spec
CONSTANTS
  t1 = t1
  t2 = t2
  MaxApps = 1
  MaxEvents = 2
  Tasks <- Two
  Ops = {"create", "submit", "resubmit", "approve", "resend", "resendClosed", "reject", "changes", "active", "rejected", "revoke", "issues", "clear"}
  Faults = {"refuse", "lost", "wallets", "duplicate", "reorder", "late", "overlap", "crash"}
INVARIANTS ApprovedByBridge
SYMMETRY MCSymmetry
CHECK_DEADLOCK FALSE
