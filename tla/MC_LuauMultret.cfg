SPECIFICATION MultretSpec
CONSTANTS
  Calls = {"function", "method"}
  Statements = {"call", "return"}
  Bases = {1, 2}
  MaxValues = 2
  Depth = 1
INVARIANTS
  MultretInv
  ArgumentsCounted
  OpenReturnEnds
