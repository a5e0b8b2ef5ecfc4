\* TLC stops at the first of the three: take its line out to see the next.
SPECIFICATION Spec
CONSTANTS
  a = a
  b = b
  t1 = t1
  t2 = t2
  Orders <- Two
  Tasks <- MCTasks
  Flows = {"wallet_to_wallet", "wallet_to_world", "fiat_bo_to_bridge_wallet"}
  Deliveries <- Once
  Ops = {"create", "approve", "staffCancel", "fund", "bridgeFail", "confirm", "expire"}
  Faults = {"overlap"}
INVARIANTS AddressUnambiguous NothingToRelease ConfirmedHasTransfer
SYMMETRY MCSymmetry
CHECK_DEADLOCK FALSE
