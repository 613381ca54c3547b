SPECIFICATION MCSpec
CONSTANTS
  W = 2
  TempCount = 3
  Temps <- MCTemps
  Labels <- MCLabels
  NoLabel <- MCNoLabel
  Programs <- MCPrograms
CHECK_DEADLOCK FALSE
INVARIANTS
  LeastSolution
  ExactlyLive
  NeverTooMuch
PROPERTIES
  ImplementsSets
  GetsOn
  Terminates
