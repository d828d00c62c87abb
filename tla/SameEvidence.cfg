\* Two cases, one frozen again, any two commands for two runs.
CONSTANTS
  Cases = {1, 2}
  RunIndices = {run0, run1}
  Recordings = {1, 2}
  FirstRecording = 1
  Contents <- MCContents
  Labels = {}
  Nobody = Nobody
  LedgerSeqs <- MCLedgerSeqs
  Proposed <- MCProposed
  Full <- MCFull
  NoTemporal <- MCNoTemporal
  Family <- MCFamily
  Completions <- MCCompletions
  Requests = {{1, 2}, {1}}
  MaxStarts = 2
  Refrozen = {1}
  MaxRewrites = 1
  MaxAttested = 2
  Nothing = Nothing
  Torn = Torn
SYMMETRY Symmetry
SPECIFICATION Spec
CHECK_DEADLOCK FALSE
INVARIANT SameEvidence
