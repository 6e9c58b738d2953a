SPECIFICATION Spec
CONSTANTS
  Functions <- MCFunctions
  MaxSize = 4
  Traps = {"two_arguments"}
  Parenthesis = FALSE
  ArithAssignment = TRUE
INVARIANT CallsKept
CHECK_DEADLOCK FALSE
