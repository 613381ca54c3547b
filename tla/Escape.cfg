SPECIFICATION Spec
CONSTANTS
  n1 = n1
  n2 = n2
  NULL = NULL
  Names <- MCNames
  Shadows <- ParamsShadow
  MaxVars = 3
  MaxOpen = 6
SYMMETRY MCSymmetry
CHECK_DEADLOCK FALSE
INVARIANTS
  CapturedEscapes
  OnlyCapturedEscapes
