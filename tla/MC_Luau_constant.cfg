SPECIFICATION LiftSpec
CONSTANTS
  Instructions = 11
  Obj <- MCObj
  NULL = NULL
  MaxLen = 0
  AnyUnits = 2
  MaxUnits = 2
  Common = {}
  Plain = {"LOP_MOVE"}
  Jumps = {}
  Compares = {"LOP_JUMPXEQKNIL"}
INVARIANT
  FlowPreserved
