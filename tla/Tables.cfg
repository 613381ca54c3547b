SPECIFICATION MCSpec
CONSTANTS
  k1 = k1
  k2 = k2
  k3 = k3
  v1 = v1
  NULL = NULL
  Keys <- MCKeys
  Vals <- MCVals
  Size <- MCSize
  Hash <- MCHash
  MaxUndo = 4
  MaxTemps = 4
  MaxFrames = 2
  MaxParams = 2
  MaxAccesses = 3
  NoName = NoName
  Garbage = Garbage
  Names <- MCNames
  MaxLabels = 6
INVARIANTS
  ChainsOK
  UndoComplete
  SlotsOK
  LinkOK
  RegsOK
  LabelsApart
PROPERTIES
  ImplementsScopedEnv
  ExitReturns
  RolesKept
CHECK_DEADLOCK FALSE
