CONSTANTS
  Orders = {"A", "B"}
  OrderAmount <- MCOrderAmount
  Intents = {"i1", "i2"}
  AskedOrders = {"A", "B"}
  AskedAmounts = {0, 3}
  ExplicitKeys = {}
  IdempotencyEnabled = FALSE
  FaultPlans <- MCFaultPlans
  DriftCents <- MCDriftCents
  StoreMayFail = FALSE
  MaxCalls = 3
  ReadTools = {}
  NoOrder = NoOrder
  NoKey = NoKey
  Mentions <- MCMentions
  ClaimedAmounts = {3}
  ClaimedCounts = {1, 2}
SPECIFICATION Spec
CHECK_DEADLOCK FALSE
INVARIANTS
  DetectorsAgree
  TimeoutIsOnlyContext
  LabelTellsTheDatabase
  VerdictsTellTheTruth
  EvidenceIsEnough
  TemporalVerifierFindsRepeats
  BelievedLiesAreCaught
PROPERTIES
  BlameIsStable
