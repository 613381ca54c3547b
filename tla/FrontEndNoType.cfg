SPECIFICATION FrontEndSpec
CONSTANTS
  MaxList = 2
  Texts <- NoReturnType
  Garbage <- MCGarbage
  MaxGarbage = 2
  MaxFull = 1
  MaxSingle = 1
  MaxFew = 1
INVARIANT NoTypeIsNull
