SPECIFICATION Spec
CONSTANTS
  MaxSize = 3
  Traps = {}
  Parenthesis = FALSE
  ArithAssignment = TRUE
INVARIANT WhileConditionKept
CHECK_DEADLOCK FALSE
