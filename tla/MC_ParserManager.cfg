SPECIFICATION PMSpec
CONSTANTS
  b1 = b1
  b2 = b2
  b3 = b3
  d1 = d1
  d2 = d2
  Obj <- MCObj
  NULL = NULL
  Base <- MCBase
  Callbacks = 1
SYMMETRY Symmetry
INVARIANTS
  EditInv
  EditsOnTarget
PROPERTY
  ImplementsEditSpec
CHECK_DEADLOCK FALSE
