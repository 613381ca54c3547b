SPECIFICATION Spec
CONSTANTS
  Programs <- MCPrograms
  Variables <- MCVariables
  Replies <- MCReplies
  Rounds_ = 4
  MaxList = 100
INVARIANTS
  TreeMeansProgram
  ListMeansTree
  JumpsDefined
  Canonical
  InstructionsMeanList
CHECK_DEADLOCK FALSE
