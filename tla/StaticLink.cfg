SPECIFICATION Spec
CONSTANTS
  MaxFuncs = 5
  MaxActs = 6
INVARIANTS
  DepthsAgree
  LinksMeant
  ReachesMeant
