-------------------------------- MODULE Lexer --------------------------------
(***************************************************************************)
(* The IL lexer (il/lexer): what an instruction is (its kind) and what     *)
(* each of its operands stands for.  An instruction of the IL is a record  *)
(* with its opcode op and the sequence ops of its operands, which are      *)
(* integers: a register, a count, an index or a distance.  Every pass over *)
(* the AST and the IR lifter find an operand by its kind, never by its     *)
(* place, so a kind the lexer gives wrong is read as something else.       *)
(***************************************************************************)
EXTENDS Integers, Sequences, FiniteSets, TLC

Branches == {"OP_JUMP", "OP_JUMPBACK"}
JumpIfs == {"OP_JUMPIF", "OP_JUMPIFNOT", "OP_JUMPIFEQUAL", "OP_JUMPIFNOTEQUAL", "OP_JUMPIFLESS",
            "OP_JUMPIFLESSEQUAL", "OP_JUMPIFGREATER", "OP_JUMPIFGREATEREQUAL"}
SetIfs == {"OP_SETIF", "OP_SETIFNOT", "OP_SETIFEQUAL", "OP_SETIFNOTEQUAL", "OP_SETIFLESS",
           "OP_SETIFLESSEQUAL", "OP_SETIFGREATER", "OP_SETIFGREATEREQUAL"}
Ariths  == {"OP_ADD", "OP_SUB", "OP_MUL", "OP_DIV", "OP_MOD", "OP_POW", "OP_AND", "OP_XOR",
            "OP_SHL", "OP_SHR", "OP_IDIV", "OP_OR"}
ArithKs == {"OP_ADDK", "OP_SUBK", "OP_MULK", "OP_DIVK", "OP_MODK", "OP_POWK", "OP_ANDK",
            "OP_XORK", "OP_SHLK", "OP_SHRK", "OP_IDIVK", "OP_ORK"}
ArithNs == {"OP_ADDN", "OP_SUBN", "OP_MULN", "OP_DIVN", "OP_MODN", "OP_POWN", "OP_ANDN",
            "OP_XORN", "OP_SHLN", "OP_SHRN", "OP_IDIVN", "OP_ORN"}
Unaries == {"OP_LEN", "OP_NOT", "OP_MINUS", "OP_BITNOT", "OP_PLUS"}

Same(ops, kind, operands) == [op \in ops |-> [kind |-> kind, operands |-> operands]]

ControlKinds ==
  Same({"OP_NOP"}, "nothing", <<>>) @@
  Same({"OP_RETURN"}, "return_", <<"reg", "value">>) @@
  Same(JumpIfs, "branch_condition", <<"jmpaddr">>) @@
  Same(Branches, "branch", <<"jmpaddr">>)

CompareKinds ==
  Same({"OP_CMP"}, "compare", <<"compare", "compare">>) @@
  Same({"OP_CMPK"}, "compare", <<"compare", "kvalue">>) @@
  Same({"OP_CMPN"}, "compare", <<"compare", "integer">>) @@
  Same({"OP_CMPNONE", "OP_CMPS"}, "compare", <<"compare">>) @@
  Same({"OP_CMPSK"}, "compare", <<"kvalue">>) @@
  Same({"OP_CMPSN"}, "compare", <<"value">>) @@
  Same({"OP_CMPSNONE"}, "compare", <<>>) @@
  Same(SetIfs, "compare_dest", <<"dest">>)

ArithKinds ==
  Same(Ariths, "arith", <<"dest", "source", "source">>) @@
  Same(ArithKs, "arith", <<"dest", "source", "kvalue">>) @@
  Same(ArithNs, "arith", <<"dest", "source", "integer">>)

LoadKinds ==
  Same({"OP_LOADINT"}, "load", <<"dest", "integer">>) @@
  Same({"OP_GETTABUPVALUE", "OP_LOADKVAL"}, "load", <<"dest", "kvalue_embeded">>) @@
  Same({"OP_LOADATTR"}, "load", <<"dest", "value", "value">>) @@
  Same({"OP_LOADNONE"}, "load", <<"dest">>) @@
  Same({"OP_LOADBOOL"}, "load", <<"dest", "value">>) @@
  Same({"OP_LOADGLOBAL"}, "get_global", <<"dest", "kvalue">>) @@
  Same({"OP_SETGLOBAL"}, "set_global", <<"source", "kvalue">>) @@
  Same({"OP_SETATTR", "OP_ADDATTR"}, "set_attr", <<"source", "value", "value">>) @@
  Same({"OP_MOVE"}, "expression", <<"dest", "source">>) @@
  Same({"OP_GETUPVALUE"}, "upvalue_gs", <<"dest", "upvalue">>) @@
  Same({"OP_SETUPVALUE"}, "upvalue_gs", <<"source", "upvalue">>) @@
  Same({"OP_DESTROYUPVALUES"}, "expression", <<>>) @@
  Same({"OP_DESTROYUPVALUESA"}, "expression", <<"reg">>)

TableKinds ==
  Same({"OP_GETTABLE"}, "table_get", <<"dest", "source", "table_reg">>) @@
  Same({"OP_SETTABLE"}, "table_set", <<"source", "reg", "table_reg">>) @@
  Same({"OP_GETTABLEK"}, "table_get", <<"dest", "source", "kvalue">>) @@
  Same({"OP_SETTABLEK"}, "table_set", <<"source", "reg", "kvalue">>) @@
  Same({"OP_GETTABLEN"}, "table_get", <<"dest", "source", "table_idx">>) @@
  Same({"OP_SETTABLEN"}, "table_set", <<"source", "reg", "table_idx">>) @@
  Same({"OP_NEWCLOSURE"}, "expression", <<"dest", "closure">>) @@
  Same({"OP_SELF"}, "expression", <<"dest", "source", "kvalue">>) @@
  Same({"OP_CONCAT"}, "expression", <<"dest", "source", "source">>) @@
  Same(Unaries, "unary", <<"dest", "source">>) @@
  Same({"OP_NEWTABLE", "OP_NEWTABLEA"}, "new_table", <<"dest", "value", "value">>) @@
  Same({"OP_REFTABLE", "OP_REFTABLEA"}, "new_table", <<"dest", "kvalue">>) @@
  Same({"OP_SETLIST"}, "set_table", <<"dest", "source", "value", "value">>)

LoopKinds ==
  Same({"OP_POPARG"}, "special_flag", <<"reg">>) @@
  Same({"OP_INITFORLOOPN", "OP_INITFORLOOPG", "OP_INITFORLOOPSPECIAL"}, "for_", <<"jmpaddr">>) @@
  Same({"OP_FORLOOPG"}, "for_", <<"source", "value", "jmpaddr">>) @@
  Same({"OP_FORLOOPN"}, "for_", <<"source", "source", "source", "jmpaddr">>) @@
  Same({"OP_GETVARARGS"}, "expression", <<"dest", "value">>) @@
  Same({"OP_REFCLOSURE"}, "expression", <<"dest", "kvalue">>) @@
  Same({"OP_RESUME", "OP_POPTOP"}, "expression", <<>>) @@
  Same({"OP_ADDUPVALUE"}, "capture", <<"upvalue_kind", "source">>)

\* Every opcode whose kinds depend on the opcode alone.
Lexemes == ControlKinds @@ CompareKinds @@ ArithKinds @@ LoadKinds @@ TableKinds @@ LoopKinds

\* A call that leaves a result writes its first register, one that leaves
\* none only reads it; its counts of arguments and of results are a value
\* and an integer.
\* A call without results has a register in place of the destination.
lexer(op, ops) ==
  IF op # "OP_CCALL" THEN Lexemes[op]
  ELSE [ kind |-> "ccall",
         operands |-> <<IF ops[Len(ops)] # 0 THEN "dest" ELSE "reg", "value", "integer">> ]
Lexed(i) == [op |-> i.op, ops |-> i.ops, lex |-> lexer(i.op, i.ops)]

----------------------------------------------------------------------------
(* Of an instruction with its lexeme.                                      *)

Kinds(i) == i.lex.operands
Kind(i)  == i.lex.kind

\* lexeme: has_operand_kind and operand_kind, the operands of one kind in
\* their order.
has_operand_kind(i, kind) == \E o \in DOMAIN Kinds(i) : Kinds(i)[o] = kind
Picked(s, places) == [p \in DOMAIN places |-> s[places[p]]]
Operands(i, kinds) ==
  Picked(i.ops, SelectSeq([o \in DOMAIN Kinds(i) |-> o], LAMBDA o : Kinds(i)[o] \in kinds))
operand_kind(i, kind) == Operands(i, {kind})
\* The first operand of a kind, which the code takes with front().
First(i, kind) ==
  i.ops[CHOOSE o \in DOMAIN Kinds(i) :
          Kinds(i)[o] = kind /\ \A before \in 1..(o - 1) : Kinds(i)[before] # kind]
=============================================================================
