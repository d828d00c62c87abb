\* Two cases, two reviewers, any two decisions, one case frozen again.
CONSTANTS
  Cases = {c1, c2}
  Reviewers = {r1, r2}
  Recordings = {1, 2}
  FirstRecording = 1
  LedgerSeqs <- MCLedgerSeqs
  Proposed <- MCProposed
  Amendments <- MCAmendments
  MaxDecisions = 2
  MaxRewrites = 1
  NoAmendment = NoAmendment
  NoSource = NoSource
  Absent = Absent
  Torn = Torn
SYMMETRY Symmetry
SPECIFICATION Spec
CHECK_DEADLOCK FALSE
INVARIANTS
  OnlyAttestedCounts
  AmendedTruthFits
PROPERTIES
  ReplacementIsNamed
  ImplementsReviewContract
