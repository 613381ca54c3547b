SPECIFICATION Spec
CONSTANTS
  Programs <- MCConditionPrograms
  Variables <- MCVariables
  Replies <- MCReplies
  Rounds_ = 4
  MaxList = 100
INVARIANTS
  ConditionsHaveValues
CHECK_DEADLOCK FALSE
