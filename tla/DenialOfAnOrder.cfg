\* One request whose calls name two orders.
CONSTANTS
  Orders = {"A", "B"}
  OrderAmount <- MCOrderAmount
  Intents = {"i1"}
  AskedOrders = {"A", "B"}
  AskedAmounts = {3}
  ExplicitKeys = {}
  IdempotencyEnabled = FALSE
  FaultPlans <- MCFaultPlans
  DriftCents <- MCDriftCents
  StoreMayFail = FALSE
  MaxCalls = 2
  ReadTools = {}
  NoOrder = NoOrder
  NoKey = NoKey
  Mentions <- MCMentions
  ClaimedAmounts = {3}
  ClaimedCounts = {1}
SPECIFICATION Spec
CHECK_DEADLOCK FALSE
INVARIANT ContradictedDenialsConflict
