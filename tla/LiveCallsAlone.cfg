\* One session at a time on the ledger, killed and run again up to three times.
CONSTANTS
  Sessions = {s1}
  Models = {m1, m2}
  Texts = {a, b}
  Turns = 2
  MaxRetries = 1
  AttemptCost = 2
  LimitUsd = 7
  MaxStarts = 3
  NoModel = NoModel
  NoRecording = NoRecording
SPECIFICATION Spec
CHECK_DEADLOCK FALSE
INVARIANTS
  InFlightIsCovered
  SavedIsNeverPaidAgain
  RecordsAreSound
PROPERTIES
  PaidIsSaved
  SessionEnds
