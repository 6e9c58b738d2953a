SPECIFICATION LiftSpec
CONSTANTS
  Instructions = 16
  Obj <- MCObj
  NULL = NULL
  MaxLen = 0
  AnyUnits = 2
  MaxUnits = 3
  Common = {"LOP_MOVE", "LOP_NAMECALL self", "LOP_FORGLOOP", "LOP_JUMPIFLE"}
  Plain = {"LOP_MOVE", "LOP_NOP", "LOP_NAMECALL", "LOP_NAMECALL self"}
  Jumps = {"LOP_JUMP", "LOP_JUMPX", "LOP_JUMPBACK", "LOP_FORNPREP", "LOP_FORNLOOP", "LOP_FORGPREP", "LOP_FORGLOOP"}
  Compares = {"LOP_JUMPIF", "LOP_JUMPIFNOT", "LOP_JUMPIFEQ", "LOP_JUMPIFLE", "LOP_JUMPIFLT", "LOP_JUMPIFNOTEQ"}
INVARIANTS LayoutInv LiftInv EditsLand NeverFails InstructionsInPlace FlowPreserved ComparesKept
PROPERTY LiftReturns
