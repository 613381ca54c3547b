SPECIFICATION FairSpec
CONSTANTS
  Labels <- MCLabels
  Start <- MCStart
  Done <- MCDone
  Inputs <- MCInputs
CHECK_DEADLOCK FALSE
INVARIANTS
  PlacedOnce
  SameExecution
  FalseFollows
PROPERTIES
  GetsOn
  Terminates
