SPECIFICATION JCSpec
CONSTANTS
  Obj = {d1, d2, d3, d4}
  NULL = NULL
  MaxLen = 4
INVARIANTS
  JCInv
  TargetsSurvive
  JunkExact
PROPERTY
  JunkReturns
