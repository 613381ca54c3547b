SPECIFICATION Spec
CONSTANTS
  n1 = n1
  n2 = n2
  NULL = NULL
  Names <- MCNames
  Shadows <- VarsShadow
  MaxVars = 2
  MaxOpen = 5
CHECK_DEADLOCK FALSE
INVARIANTS
  CapturedEscapes
