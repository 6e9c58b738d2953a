------------------------------ MODULE IRLifter ------------------------------
(***************************************************************************)
(* The IR lifter (ir/lifter/lifter/lifter.cpp): it walks over the marked   *)
(* nodes of the AST in the order of their addresses, keeps for every       *)
(* register the expression that its value would be written as, and writes  *)
(* a line of the decompiled program where an instruction has an effect or  *)
(* the passes made its register a variable.                                *)
(*                                                                         *)
(* An expression is a record: k its kind, n a number (a constant, an index *)
(* or the name of a variable), a its parts.  Only the objects that the     *)
(* code changes after a line has them are shared here: sub_data, the text  *)
(* of a table or the call of several results.  A register knows the lines  *)
(* that hold its sub_data (on), and what changes it changes them.          *)
(*                                                                         *)
(* Left out: what nothing reads (inside_expr), comments, the debug output, *)
(* closures and upvalues, the marks that no pass sets for such functions   *)
(* (stat_if, stat_elseif, stat_else, stat_for_iv_start,                    *)
(* conditional_expression_end, condition_emit_next,                        *)
(* desc_dest_mutate_condition_flag), and that reading a register creates   *)
(* it.                                                                     *)
(***************************************************************************)
EXTENDS LocVars

CONSTANTS
  Parenthesis,     \* optimizations->compare.parenthesis
  ArithAssignment  \* assignments like += are written where the syntax has them

VARIABLES
  nodes,   \* what visit_all returns, with the marks of the passes
  lifter,  \* [regs, lines, scope_id]: the registers of each scope, the lines
  at       \* how many nodes were lifted
lvars == <<nodes, lifter, at>>

V(k, n, a) == [k |-> k, n |-> n, a |-> a]
Nothing == V("nothing", 0, <<>>)
flag_compare == -1
flag_multret == -2
flag_pop     == -4
flag_cmp     == -5

FreshReg == [ type |-> "nothing", data |-> Nothing, sub |-> Nothing, on |-> {},
              exprs |-> <<>>, cmp |-> <<>>, pops |-> {} ]
Line(kind, what, lvalue, rvalue) ==
  [kind |-> kind, what |-> what, lvalue |-> lvalue, rvalue |-> rvalue, scope |-> 0]

----------------------------------------------------------------------------
(* Registers and scopes.                                                   *)

Top(m) == Last(m.regs)
reg_exists(m, r) == r \in DOMAIN Top(m)
Reg(m, r) == IF reg_exists(m, r) THEN Top(m)[r] ELSE FreshReg
Data(m, r) == Reg(m, r).data
Put(m, r, reg) == [m EXCEPT !.regs[Len(m.regs)] = (r :> reg) @@ @]
\* set<tt, true> and set_datatype_var: new objects, whoever has the old.
SetData(m, r, type, data) == Put(m, r, [Reg(m, r) EXCEPT !.type = type, !.data = data])
SetVar(m, r, name) == SetData(m, r, "var", V("var", name, <<>>))

\* clone of a scope: the flags of a register stay behind.
CloneScope(scope) ==
  [r \in DOMAIN scope |-> [FreshReg EXCEPT !.type = scope[r].type, !.data = scope[r].data,
                                           !.sub = scope[r].sub]]
PushScope(m) == [m EXCEPT !.regs = Append(@, CloneScope(Last(@)))]
PopScope(m)  == [m EXCEPT !.regs = SubSeq(@, 1, Len(@) - 1)]
new_(m, r)   == Put(m, r, [FreshReg EXCEPT !.type = Reg(m, r).type])

\* The object of sub_data is changed in place.
SetSub(m, r, sub) ==
  LET reg == Reg(m, r)
      put == Put(m, r, [reg EXCEPT !.sub = sub])
  IN  [put EXCEPT !.lines = [l \in DOMAIN @ |-> IF l \in reg.on
                                                THEN [@[l] EXCEPT !.rvalue = <<sub>>] ELSE @[l]]]
AppendSub(m, r, part) ==
  SetSub(m, r, [Reg(m, r).sub EXCEPT !.k = "table", !.a = Append(@, part)])
\* clear: the objects are reset in place.
clear(m, r) == LET reset == SetSub(m, r, Nothing)
               IN  Put(reset, r, [FreshReg EXCEPT !.on = Reg(m, r).on])

Write(m, line) == [m EXCEPT !.lines = Append(@, [line EXCEPT !.scope = m.scope_id])]
Assign(m, lvalue, rvalue) == Write(m, Line("statement", "set", lvalue, <<rvalue>>))

\* The end of nearly every opcode: a register that is a variable is
\* assigned, one that becomes a variable is declared, any other remembers
\* the expression.
Store(m, node, r, data) ==
  IF Reg(m, r).type \in {"var", "arg"} THEN Assign(m, <<Data(m, r)>>, data)
  ELSE IF has_elem(node, "stat_locvar")
       THEN Write(SetVar(m, r, node.name),
                  Line("statement", "local", <<V("var", node.name, <<>>)>>, <<data>>))
  ELSE SetData(m, r, "expr", data)
\* The same with the object of sub_data, which the line keeps.
StoreSub(m, node, r) ==
  LET done == Store(m, node, r, Reg(m, r).sub)
  IN  IF Len(done.lines) = Len(m.lines) THEN done
      ELSE Put(done, r, [Reg(done, r) EXCEPT !.on = @ \cup {Len(done.lines)}])

----------------------------------------------------------------------------
(* Elements of a node, before its instruction.                             *)

\* A condition is the list of its comparisons with the operators and the
\* parentheses between them, as they are written one after another.
Piece(kind) == V(kind, 0, <<>>)
Entries(data) == IF data.k = "compares" THEN data.a ELSE <<>>
Comparison(m, node) == V(node.bin_kind, 0, Reg(m, flag_cmp).cmp)

\* The condition of a while or an until: what was collected, and the
\* comparison of the node where it has compare operands.
CompareLine(m, node, what) ==
  LET tail  == IF has_operand_kind(node, "compare") THEN <<Comparison(m, node)>> ELSE <<>>
      all   == Entries(Data(m, flag_compare)) \o tail
      whole == IF Parenthesis THEN <<Piece("open")>> \o all \o <<Piece("close")>> ELSE all
  IN  new_(Write(m, Line("expression", what, <<>>, whole)), flag_compare)

\* The variables and the iterators of a loop, whose registers its closing
\* instruction (the node loop_op) names.
\* Loop variables are named by a prefix of their own.
LoopName(reg) == -10 - reg
Iterators(m, rs) == SelectSeq([i \in DOMAIN rs |-> Data(m, rs[i])],
                              LAMBDA d : d.k \notin {"none", "nothing"})
ForStart(m, loop) ==
  LET in    == PushScope([m EXCEPT !.scope_id = @ + 1])
      begin == First(loop, "source")
      vars  == [i \in 1..First(loop, "value") |-> begin + 2 + i]
      named == FoldLeft(LAMBDA acc, r : SetVar(acc, r, LoopName(r)), in, vars)
  IN  Write(named, Line("expression", "for_", [i \in DOMAIN vars |-> Data(named, vars[i])],
                        Iterators(named, <<begin, begin + 1, begin + 2>>)))
ForNStart(m, loop) ==
  LET in     == PushScope([m EXCEPT !.scope_id = @ + 1])
      source == operand_kind(loop, "source")
      start  == source[1]
      inc    == Last(source)
      named  == SetVar(in, start, LoopName(start))
      step   == IF reg_exists(named, inc) /\ Data(named, inc) # V("int", 1, <<>>)
                THEN <<Data(named, inc)>> ELSE <<>>
  IN  Write(named, Line("expression", "for_numeric", <<Data(named, start)>>,
                        <<Data(in, start), Data(in, source[2])>> \o step))

Opened(m) == [m EXCEPT !.scope_id = @ + 1]
Closed(m) == [m EXCEPT !.scope_id = @ - 1]
Bare(m, what) == Write(m, Line("expression", what, <<>>, <<>>))

\* The first start of a table in a node resets what the register holds.
TableStart(m, node, again) ==
  LET r     == First(node, "dest")
      typed == Put(m, r, [Reg(m, r) EXCEPT !.type = "expr"])
  IN  AppendSub(IF again THEN typed ELSE SetSub(typed, r, Nothing), r, V("table_new", 0, <<>>))

Element(m, node, p) ==
  LET e == node.expr[p]
  IN  CASE e = "stat_repeat"     -> Bare(PushScope(Opened(m)), "repeat_")
        [] e = "stat_scope_end"  -> Bare(PopScope(Closed(m)), "end_")
        [] e = "stat_loop_break" -> Bare(m, "break_")
        [] e = "stat_while"      -> PushScope(CompareLine(Opened(m), node, "while_"))
        [] e = "stat_repeat_end" -> PopScope(CompareLine(Closed(m), node, "until"))
        [] e = "stat_for_start"  -> ForStart(m, node.loop_op)
        [] e = "stat_for_n_start" -> ForNStart(m, node.loop_op)
        \* A value, where the condition is written from the comparisons.
        [] e = "condition_true"  -> SetData(m, flag_compare, "expr", V("bool", 1, <<>>))
        [] e = "table_start"     -> TableStart(m, node, Contains(SubSeq(node.expr, 1, p - 1), e))
        [] OTHER -> m
Elements(m, node) ==
  FoldLeft(LAMBDA acc, p : Element(acc, node, p), m, [p \in DOMAIN node.expr |-> p])

----------------------------------------------------------------------------
(* Instructions.                                                           *)

LoadOps == {"OP_LOADNONE", "OP_LOADINT", "OP_LOADBOOL", "OP_LOADKVAL", "OP_GETTABUPVALUE",
            "OP_LOADGLOBAL"}
Loaded(node) ==
  CASE node.op = "OP_LOADNONE"      -> V("none", 0, <<>>)
    [] node.op = "OP_LOADINT"       -> V("int", First(node, "integer"), <<>>)
    [] node.op = "OP_LOADBOOL"      -> V("bool", First(node, "value"), <<>>)
    [] node.op = "OP_LOADKVAL"      -> V("kvalue", First(node, "kvalue_embeded"), <<>>)
    [] node.op = "OP_GETTABUPVALUE" -> V("import", First(node, "kvalue_embeded"), <<>>)
    [] node.op = "OP_LOADGLOBAL"    -> V("global", First(node, "kvalue"), <<>>)
Load(m, node) == Store(m, node, First(node, "dest"), Loaded(node))

\* An instruction that takes one of the results of a call: the first and
\* those between only remember their target, the last writes the line with
\* the call of flag_multret and clears it.
Multret(node) == Counted(node, {"call_multret_start", "call_multret_member",
                                "call_multret_end"}) > 0
TakeResult(m, node, target) ==
  LET mul   == Reg(m, flag_multret)
      taken == Put(m, flag_multret, [mul EXCEPT !.exprs = Append(@, target)])
      line  == Assign(taken, Append(mul.exprs, target), mul.sub)
      last  == Len(line.lines)
      held  == Put(line, flag_multret, [Reg(line, flag_multret) EXCEPT !.on = @ \cup {last}])
  IN  IF has_elem(node, "call_multret_end") THEN clear(held, flag_multret) ELSE taken

Move(m, node) ==
  LET dest == First(node, "dest")
  IN  IF Multret(node) THEN TakeResult(m, node, Data(m, dest))
      ELSE Store(m, node, dest, Data(m, First(node, "source")))
SetOuter(m, node, target) ==
  IF Multret(node) THEN TakeResult(m, node, target)
  ELSE Assign(m, <<target>>, Data(m, First(node, "source")))
SetGlobal(m, node) == SetOuter(m, node, V("global", First(node, "kvalue"), <<>>))

\* An arithmetic instruction with a number looks for a value operand, which
\* the lexer does not give it: the last of an empty list.
ArithOperands(m, node) ==
  LET source == operand_kind(node, "source")
  IN  <<Data(m, source[1]),
        CASE node.op \in Ariths  -> Data(m, Last(source))
          [] node.op \in ArithKs -> V("kvalue", First(node, "kvalue"), <<>>)
          [] node.op \in ArithNs -> V("undefined", 0, <<>>)>>
\* A mutant: an assignment to any variable is compound.
ArithCompound(m, node) ==
  LET dest == First(node, "dest")
      two  == ArithOperands(m, node)
  IN  IF Reg(m, dest).type \in {"var", "arg"} /\ ArithAssignment
      THEN Write(m, Line("statement", node.bin_kind, <<Data(m, dest)>>, <<two[2]>>))
      ELSE Store(m, node, dest, V(node.bin_kind, 0, two))
Arith(m, node) ==
  LET dest == First(node, "dest")
      two  == ArithOperands(m, node)
  IN  IF /\ Reg(m, dest).type \in {"var", "arg"} /\ ArithAssignment
         /\ dest = First(node, "source")
      THEN Write(m, Line("statement", node.bin_kind, <<two[1]>>, <<two[2]>>))
      ELSE Store(m, node, dest, V(node.bin_kind, 0, two))
Unary(m, node) ==
  Store(m, node, First(node, "dest"),
        V(node.bin_kind, 0, <<Data(m, First(node, "source"))>>))
Concat(m, node) ==
  LET source == operand_kind(node, "source")
  IN  Store(m, node, First(node, "dest"),
            V("concat", 0, [i \in 1..(source[2] - source[1] + 1) |->
                              Data(m, source[1] + i - 1)]))
Self(m, node) ==
  Store(m, node, First(node, "dest"),
        V("self", First(node, "kvalue"), <<Data(m, First(node, "source"))>>))

\* A call without results is a line, one with several declares them in one
\* line or waits in flag_multret for the instructions that take them.
PopArg(m, node) ==
  Put(m, flag_pop, [Reg(m, flag_pop) EXCEPT !.pops = @ \cup {First(node, "reg")}])
Call(m, node) ==
  LET call   == node.ops[1]
      retn   == node.ops[3]
      args   == SelectSeq([i \in 1..node.ops[2] |-> i - 1],
                          LAMBDA i : i \notin Reg(m, flag_pop).pops)
      data   == V("call", 0, <<Data(m, call)>>
                               \o [i \in DOMAIN args |-> Data(m, args[i] + 1 + call)])
      popped == Put(m, flag_pop, [Reg(m, flag_pop) EXCEPT !.pops = {}])
      \* The names of the results are read beyond their end where the pass
      \* gave the call none.
      Name(i) == IF i \in DOMAIN node.multret_names THEN node.multret_names[i] ELSE -1
      named  == FoldLeft(LAMBDA acc, i : SetVar(acc, call + i - 1, Name(i)), popped,
                         [i \in 1..retn |-> i])
      waits  == SetData(popped, call, "expr", data)
  IN  IF retn = 0 THEN Write(popped, Line("expression", "call", <<>>, <<data>>))
      ELSE IF retn > 1
      THEN IF has_elem(node, "stat_locvar")
           THEN Write(named, Line("statement", "local",
                                  [i \in 1..retn |-> Data(named, call + i - 1)], <<data>>))
           ELSE Put(waits, flag_multret,
                    [Reg(waits, flag_multret) EXCEPT !.sub = data, !.on = {}])
      ELSE Store(popped, node, call, data)

\* The return at the end of the main function is left out.  Every value
\* that is returned is the first.
Return(m, node) ==
  LET val  == First(node, "value")
      dest == First(node, "reg")
  IN  IF ~has_next_inst(nodes, node.address, "OP_RETURN") THEN m
      ELSE Write(m, Line("expression", "return_", <<>>,
                         [i \in 1..(IF val < 0 THEN 0 ELSE val) |-> Data(m, dest)]))

\* Comparisons: the operands wait in flag_cmp.
CompareOps == {"OP_CMP", "OP_CMPN", "OP_CMPK", "OP_CMPNONE", "OP_CMPS", "OP_CMPSN", "OP_CMPSK",
               "OP_CMPSNONE"}
Compared(m, node) ==
  LET regs == [i \in DOMAIN operand_kind(node, "compare") |->
                 Data(m, operand_kind(node, "compare")[i])]
  IN  CASE node.op \in {"OP_CMP", "OP_CMPS"} -> regs
        [] node.op = "OP_CMPN"     -> Append(regs, V("int", First(node, "integer"), <<>>))
        [] node.op \in {"OP_CMPK", "OP_CMPSK"} ->
             Append(regs, V("kvalue", First(node, "kvalue"), <<>>))
        [] node.op \in {"OP_CMPNONE", "OP_CMPSNONE"} -> Append(regs, V("none", 0, <<>>))
        [] node.op = "OP_CMPSN"    -> <<V("undefined", 0, <<>>)>>
Compare(m, node) == Put(m, flag_cmp, [Reg(m, flag_cmp) EXCEPT !.cmp = Compared(m, node)])

\* A conditional jump adds the comparison to what flag_compare collected,
\* with the operators and parentheses that the passes found around it,
\* unless it was written with the statement that starts or ends here.
Before(node) == SelectSeq(node.expr, LAMBDA e : e = "condition_start_scope")
After(node)  == SelectSeq(node.expr, LAMBDA e : e \in {"condition_and", "condition_or",
                                                       "condition_end_scope"})
Entry(e) == Piece(CASE e = "condition_start_scope" -> "open" [] e = "condition_and" -> "and_"
                   [] e = "condition_or" -> "or_" [] e = "condition_end_scope" -> "close")
JumpIf(m, node) ==
  LET Marks(s) == [p \in DOMAIN s |-> Entry(s[p])]
      entries  == Entries(Data(m, flag_compare)) \o Marks(Before(node))
                    \o <<Comparison(m, node)>> \o Marks(After(node))
  IN  IF Counted(node, {"stat_while", "stat_repeat_end"}) > 0 THEN m
      ELSE Put(m, flag_compare, [Reg(m, flag_compare) EXCEPT !.data = V("compares", 0, entries)])
SetIf(m, node) ==
  new_(Store(m, node, First(node, "dest"), Comparison(m, node)), flag_compare)

GetTable(m, node) ==
  LET index == CASE node.op = "OP_GETTABLEN" -> V("int", First(node, "table_idx"), <<>>)
                 [] node.op = "OP_GETTABLEK" -> V("kvalue", First(node, "kvalue"), <<>>)
                 [] node.op = "OP_GETTABLE"  -> Data(m, First(node, "table_reg"))
  IN  Store(m, node, First(node, "dest"), V("idx", 0, <<Data(m, First(node, "source")), index>>))

NewTable(m, node) ==
  LET r     == First(node, "dest")
      ended == FoldLeft(LAMBDA acc, i : AppendSub(acc, r, V("table_end", 0, <<>>)), m,
                        [i \in 1..count_elem(node, "table_end") |-> i])
  IN  StoreSub(ended, node, r)
SetList(m, node) ==
  LET r     == First(node, "dest")
      start == First(node, "source")
      filled == FoldLeft(LAMBDA acc, i : AppendSub(acc, r, Data(acc, start + i - 1)), m,
                         [i \in 1..First(node, "value") |-> i])
  IN  NewTable(filled, node)

Varargs(m, node) ==
  LET dest == First(node, "dest")
      val  == IF First(node, "value") = 0 THEN 1 ELSE First(node, "value")
  IN  FoldLeft(LAMBDA acc, i : Store(acc, node, dest + i - 1, V("vararg", 0, <<>>)), m,
               [i \in 1..val |-> i])

\* A member that the table constructor does not hold is assigned.
SetTable(m, node) ==
  LET index == CASE node.op = "OP_SETTABLEN" -> V("int", First(node, "table_idx"), <<>>)
                 [] node.op = "OP_SETTABLEK" -> V("kvalue", First(node, "kvalue"), <<>>)
                 [] node.op = "OP_SETTABLE"  -> Data(m, First(node, "table_reg"))
  IN  SetOuter(m, node, V("idx", 0, <<Data(m, First(node, "reg")), index>>))

Skip(m, node) == m

----------------------------------------------------------------------------
(* lift_ast and lift_blocks: one node for each step.                       *)

\* The arguments of the function are variables of the only scope.
Lifter(args) ==
  [ regs |-> <<[r \in 0..(args - 1) |-> [FreshReg EXCEPT !.type = "arg",
                                                        !.data = V("var", r, <<>>)]]>>,
    lines |-> <<>>, scope_id |-> 0 ]

Lifted(m, node, Op(_, _)) == IF has_elem(node, "desc_dead_instruction") THEN m ELSE Op(m, node)
Instruction(ops, Op(_, _)) ==
  /\ at < Len(nodes)
  /\ nodes[at + 1].op \in ops
  /\ LET node == nodes[at + 1]
     IN  /\ lifter' = Lifted(Elements(lifter, node), node, Op)
         /\ at' = IF /\ has_elem(node, "desc_exit_post")
                     /\ ~has_elem(node, "desc_dead_instruction")
                  THEN Len(nodes) ELSE at + 1
  /\ UNCHANGED nodes

ForOps == {"OP_INITFORLOOPN", "OP_INITFORLOOPG", "OP_INITFORLOOPSPECIAL", "OP_FORLOOPG",
           "OP_FORLOOPN"}

LiftLoad     == Instruction(LoadOps, Load)
LiftMove     == Instruction({"OP_MOVE"}, Move)
LiftGlobal   == Instruction({"OP_SETGLOBAL"}, SetGlobal)
LiftArith    == Instruction(Ariths \cup ArithKs \cup ArithNs, Arith)
LiftUnary    == Instruction(Unaries, Unary)
LiftConcat   == Instruction({"OP_CONCAT"}, Concat)
LiftSelf     == Instruction({"OP_SELF"}, Self)
LiftPopArg   == Instruction({"OP_POPARG"}, PopArg)
LiftCall     == Instruction({"OP_CCALL"}, Call)
LiftReturn   == Instruction({"OP_RETURN"}, Return)
LiftCompare  == Instruction(CompareOps, Compare)
LiftJumpIf   == Instruction(JumpIfs, JumpIf)
LiftSetIf    == Instruction(SetIfs, SetIf)
LiftGetTable == Instruction({"OP_GETTABLE", "OP_GETTABLEK", "OP_GETTABLEN"}, GetTable)
LiftSetTable == Instruction({"OP_SETTABLE", "OP_SETTABLEK", "OP_SETTABLEN"}, SetTable)
LiftNewTable == Instruction({"OP_NEWTABLE", "OP_NEWTABLEA", "OP_REFTABLE", "OP_REFTABLEA"},
                            NewTable)
LiftSetList  == Instruction({"OP_SETLIST"}, SetList)
LiftVarargs  == Instruction({"OP_GETVARARGS"}, Varargs)
LiftNothing  == Instruction(Branches \cup ForOps \cup {"OP_NOP", "OP_RESUME"}, Skip)
=============================================================================
