SPECIFICATION Spec
CONSTANTS
  t1 = t1
  t2 = t2
  MaxApps = 1
  MaxEvents = 2
  Tasks <- One
  Ops = {"create", "submit", "approve", "resend", "issues", "clear"}
  Faults = {}
INVARIANT IssuesAreShown
CHECK_DEADLOCK FALSE
