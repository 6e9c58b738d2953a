SPECIFICATION Spec
CONSTANTS
  Syntaxes = {"lua", "luau"}
  Names <- MCNames
  Numbers <- MCNumbers
  ArithKinds = {"sub_", "pow_", "or_", "shl_"}
  CompareKinds = {"lt_"}
  UnaryKinds = {"not_", "minus_", "bitnot_"}
  MaxNodes = 3
  MaxList = 2
INVARIANTS RoundTrip OnlyDelimited
CHECK_DEADLOCK FALSE
