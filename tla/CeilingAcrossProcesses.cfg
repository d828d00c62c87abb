\* Two sessions at the same time on one ledger.
CONSTANTS
  Sessions = {s1, s2}
  Models = {m1}
  Texts = {a}
  Turns = 1
  MaxRetries = 0
  AttemptCost = 2
  LimitUsd = 3
  MaxStarts = 1
  NoModel = NoModel
  NoRecording = NoRecording
SPECIFICATION Spec
CHECK_DEADLOCK FALSE
INVARIANT CeilingHolds
