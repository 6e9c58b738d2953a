SPECIFICATION Spec
CONSTANTS
  Functions <- MCFunctions
  MaxSize = 7
  Traps = {}
  Parenthesis = FALSE
  ArithAssignment = TRUE
INVARIANTS LinesMeaningKept CallsKept
CHECK_DEADLOCK FALSE
