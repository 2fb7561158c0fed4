SPECIFICATION Spec
CONSTANTS
  Null = Null
  Cases <- MCCases
  Candidates <- MCCandidates
  Calibrations <- MCCalibrations
  Tested = {"relay"}
  Transactions = {1, 2, 3}
  Least = 2
  Score <- MCScore
  Slot <- MCSlot
  Threshold = 2
  Budget = 50
  Patterns <- MCPatterns
  Correlated <- MCCorrelated
  Reaches <- MCReaches
  MaxAttempts = 3
INVARIANTS
  OneScorer
  
PROPERTY
  ProvenanceIsKept
CHECK_DEADLOCK FALSE
