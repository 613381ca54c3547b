SPECIFICATION Spec
CONSTANTS
  Programs <- MCPrograms
INVARIANTS
  Verdict
  NeverUndefined
  TreeAnnotated
CHECK_DEADLOCK FALSE
