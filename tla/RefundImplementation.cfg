\* One order: a misrouted write has nowhere to go.  One request retried up
\* to four times.
CONSTANTS
  Orders = {"A"}
  OrderAmount <- MCOrderAmount
  Intents = {"i1"}
  AskedOrders = {"A"}
  AskedAmounts = {1, 3}
  ExplicitKeys = {k1}
  IdempotencyEnabled = TRUE
  FaultPlans <- MCFaultPlans
  DriftCents <- MCDriftCents
  StoreMayFail = TRUE
  MaxCalls = 4
  ReadTools = {}
  NoOrder = NoOrder
  NoKey = NoKey
SPECIFICATION Spec
CHECK_DEADLOCK FALSE
INVARIANT SafeRetryIsClean
PROPERTY ImplementsContract
