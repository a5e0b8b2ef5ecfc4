SPECIFICATION FairSpec
CONSTANTS
  a = a
  b = b
  w1 = w1
  w2 = w2
  Events <- MCEvents
  Verified <- MCEvents
  Ticks <- MCTicks
  MaxRetries = 2
  Batch = 1
  Deliveries = 2
  ClaimStamps = TRUE
  Upsets = 1
  Faults = {"throw", "crash", "dbError", "slow", "queryError"}
INVARIANTS ClaimsAreExclusive GivenUpAfterRetries
PROPERTY Drains
CHECK_DEADLOCK FALSE
