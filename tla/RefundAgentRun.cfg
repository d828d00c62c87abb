\* Two requests, two turns each, up to two calls in a response.
CONSTANTS
  Orders = {"A"}
  OrderAmount <- MCOrderAmount
  Intents = {"i1", "i2"}
  AskedOrders = {"A"}
  AskedAmounts = {0, 3}
  ExplicitKeys = {}
  IdempotencyEnabled = TRUE
  FaultPlans <- MCFaultPlans
  DriftCents <- MCDriftCents
  StoreMayFail = TRUE
  MaxCalls = 3
  ReadTools = {"lookup_order"}
  NoOrder = NoOrder
  NoKey = NoKey
  Requests <- MCRequests
  StopReasons = {"end_turn", "max_tokens"}
  MaxTurns = 2
  MaxCallsPerTurn = 2
  NoId = NoId
SPECIFICATION AgentSpec
CHECK_DEADLOCK FALSE
INVARIANTS
  TraceTellsTheRun
  SentConversationIsAcceptable
PROPERTIES
  AgentDrivesEnv
  RunEnds
