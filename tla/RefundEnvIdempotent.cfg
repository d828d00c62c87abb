\* An idempotent tool suite under every single fault.
CONSTANTS
  Orders = {"A", "B"}
  OrderAmount <- MCOrderAmount
  Intents = {"i1", "i2"}
  AskedOrders = {"A", "B", "Z"}
  AskedAmounts = {0, 1, 3}
  ExplicitKeys = {k1}
  IdempotencyEnabled = TRUE
  FaultPlans <- MCFaultPlans
  DriftCents <- MCDriftCents
  StoreMayFail = TRUE
  MaxCalls = 2
  ReadTools = {"lookup_order"}
  NoOrder = NoOrder
  NoKey = NoKey
SPECIFICATION Spec
CHECK_DEADLOCK FALSE
INVARIANTS
  TypeOK
  LedgerMirrorsRefunds
  SnapshotsChain
  AtMostOncePerKey
  AnswersMatchTheLedger
PROPERTIES
  HistoryIsNeverRewritten
