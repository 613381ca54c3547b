SPECIFICATION FrontEndSpec
CONSTANTS
  MaxList = 2
  Texts <- MCTexts
  Garbage <- MCGarbage
  MaxGarbage = 2
  MaxFull = 7
  MaxSingle = 10
  MaxFew = 17
INVARIANTS TypeOK TokensRead Spelled Binds NotPastTheEnd NothingLegalRejected
PROPERTY Terminates
