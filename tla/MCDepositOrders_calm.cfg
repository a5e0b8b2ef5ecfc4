SPECIFICATION FairSpec
CONSTANTS
  a = a
  b = b
  t1 = t1
  t2 = t2
  Orders <- One
  Tasks <- MCTasks
  Flows = {"bolivia_to_world", "bolivia_to_wallet", "world_to_bolivia", "fiat_bo_to_bridge_wallet", "crypto_to_bridge_wallet", "wallet_to_wallet", "wallet_to_world"}
  Deliveries <- CompleteTwice
  Ops = {"create", "createSkip", "approve", "reject", "confirm", "clientCancel", "expire", "staffCancel", "fail", "markSent", "complete", "fund", "bridgeComplete", "bridgeFail", "bridgeRefund"}
  Faults = {"refuse", "noAddress", "noCredit", "early", "reorder"}
INVARIANTS CreditedOnce OrderFollowsTransfer
PROPERTY DeliveredIsCredited
CHECK_DEADLOCK FALSE
