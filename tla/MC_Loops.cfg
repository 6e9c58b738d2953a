SPECIFICATION Spec
CONSTANTS
  MaxSize = 7
  Traps = {}
  Parenthesis = FALSE
  ArithAssignment = TRUE
INVARIANTS EveryLiveVisited LoopsRecovered LoopsMeaningKept
CHECK_DEADLOCK FALSE
