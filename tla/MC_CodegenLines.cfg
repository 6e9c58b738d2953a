SPECIFICATION Spec
CONSTANTS
  Syntaxes = {"luau"}
  Formats <- MCFormats
  Kinds = {"settable", "setother", "call", "local", "add", "if", "elseif", "else", "repeat", "comment", "expandable"}
  MaxLines = 4
  MaxCalls = 2
INVARIANTS ProgramKept Indented CommentsOnce 
CHECK_DEADLOCK FALSE
