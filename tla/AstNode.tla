------------------------------- MODULE AstNode -------------------------------
(***************************************************************************)
(* Nodes of the AST and the queries on them (ast/ast.hpp).  A node holds   *)
(* one IL instruction and the list of element kinds that the passes of the *)
(* AST hang on it; "lex" is the place holder of a node nothing has marked. *)
(* An AST is here the sequence that visit_all returns, the nodes of every  *)
(* block it reaches in the order of their addresses.  An element that the  *)
(* code keeps with a count stands here as often as it counts.  The IL      *)
(* lifters number the instructions one by one, so that the length of each  *)
(* is one.                                                                 *)
(***************************************************************************)
EXTENDS Lexer, SequencesExt

nullptr == [address |-> -1]

\* set_bin_kinds (transformers/nodes.cpp): the operation of an opcode, with
\* whatever operands.
Kinded ==
  LET Same3(op, kind) == {op, op \o "K", op \o "N"} \X {kind}
      Compares(op, kind) == {"OP_JUMPIF" \o op, "OP_SETIF" \o op} \X {kind}
  IN  UNION {
        Same3("OP_ADD", "add_"), Same3("OP_SUB", "sub_"), Same3("OP_MUL", "mul_"),
        Same3("OP_DIV", "div_"), Same3("OP_MOD", "mod_"), Same3("OP_POW", "pow_"),
        Same3("OP_AND", "and_"), Same3("OP_XOR", "xor_"), Same3("OP_SHL", "shl_"),
        Same3("OP_SHR", "shr_"), Same3("OP_IDIV", "idiv_"), Same3("OP_OR", "or_"),
        {<<"OP_LEN", "len_">>, <<"OP_NOT", "not_">>, <<"OP_MINUS", "minus_">>,
         <<"OP_BITNOT", "bitnot_">>, <<"OP_PLUS", "plus_">>},
        Compares("EQUAL", "eq_"), Compares("NOTEQUAL", "ne_"), Compares("LESS", "lt_"),
        Compares("LESSEQUAL", "lte_"), Compares("GREATER", "gt_"),
        Compares("GREATEREQUAL", "gte_")}
BinKind(op) == LET kinds == {p[2] : p \in {p \in Kinded : p[1] = op}}
               IN  IF kinds = {} THEN "nothing" ELSE CHOOSE k \in kinds : TRUE

NoLoop == [op |-> "OP_NOP", ops |-> <<>>]
NewNode(op, ops, address) ==
  [ op |-> op, ops |-> ops, lex |-> lexer(op, ops), bin_kind |-> BinKind(op),
    address |-> address, expr |-> <<"lex">>,
    name |-> -1, multret_names |-> <<>>, call_pop |-> {},
    \* Of the first node of a loop: the instruction that closes the loop,
    \* and the registers of the loop.
    loop_op |-> NoLoop, loop_regs |-> {}, loop_end |-> 0 ]
Nodes(code) == <<>> \o [p \in DOMAIN code |-> NewNode(code[p].op, code[p].ops, p - 1)]

----------------------------------------------------------------------------
(* Elements of a node.                                                     *)

has_elem(node, type) == Contains(node.expr, type)
count_elem(node, type) == Cardinality({p \in DOMAIN node.expr : node.expr[p] = type})

\* The place holder at the front is replaced, wherever the element goes.
add_elem(node, type) ==
  [node EXCEPT !.expr = IF Head(@) = "lex" THEN <<type>> \o Tail(@) ELSE Append(@, type)]
add_elem_front(node, type) ==
  [node EXCEPT !.expr = IF Head(@) = "lex" THEN <<type>> \o Tail(@) ELSE <<type>> \o @]
add_safe(node, type) == IF has_elem(node, type) THEN node ELSE add_elem(node, type)
add_safe_front(node, type) ==
  IF has_elem(node, type) THEN node ELSE add_elem_front(node, type)
\* The first element of the kind goes; the only element becomes the place
\* holder again.
remove_elem(node, type) ==
  IF ~has_elem(node, type) THEN node
  ELSE [node EXCEPT !.expr = IF Len(@) = 1 THEN <<"lex">> ELSE RemoveFirst(@, type)]

----------------------------------------------------------------------------
(* Registers that an instruction reads and writes beyond its operands.     *)

Upto(a, n) == {a + i : i \in 0..(n - 1)}

\* A call is taken to write as many registers as its last value operand
\* says, which for a call is the count of its arguments.
extract_dest_regs(node, loop) ==
  loop \cup
  CASE node.op = "OP_RETURN" -> Upto(First(node, "reg"), First(node, "value"))
    [] node.op = "OP_GETVARARGS" ->
         Upto(First(node, "dest"), IF First(node, "value") = 0 THEN 1 ELSE First(node, "value"))
    [] node.op = "OP_CCALL" ->
         Upto(node.ops[1], Last(operand_kind(node, "value")))
           \cup (IF node.ops[1] \in node.call_pop THEN {node.ops[1] + 1} ELSE {})
    [] OTHER -> Range(operand_kind(node, "dest"))

extract_source_regs(node) ==
  CASE Kind(node) = "for_" -> {}
    [] node.op = "OP_RETURN" -> Upto(First(node, "reg"), First(node, "value"))
    [] node.op = "OP_CCALL" ->
         {node.ops[1] + 1 + i : i \in Upto(0, First(node, "value")) \ node.call_pop}
    [] OTHER -> Range(Operands(node, {"source", "reg", "compare", "table_reg"}))

----------------------------------------------------------------------------
(* Visits.                                                                 *)

Where(all, Test(_)) == SelectSeq(all, Test)
\* What Op makes of each node.  (The concatenation is there for TLC, which
\* forgets the EXCEPTs of a function it has not evaluated yet.)
Each(all, Op(_)) == <<>> \o [p \in DOMAIN all |-> Op(all[p])]
FirstOf(s) == IF s = <<>> THEN nullptr ELSE Head(s)

visit_addr(all, addr) == FirstOf(Where(all, LAMBDA i : i.address = addr))
visit_next(all, node) == visit_addr(all, node.address + 1)
visit_previous_addr(all, addr) == FirstOf(Where(all, LAMBDA i : i.address + 1 = addr))
visit_inst(all, op) == Where(all, LAMBDA i : i.op = op)
visit_expr(all, type) == Where(all, LAMBDA i : has_elem(i, type))
has_next_inst(all, addr, op) == \E p \in DOMAIN all : all[p].address > addr /\ all[p].op = op

\* The nodes after an address, and with it.
visit_rest(all, addr) == Where(all, LAMBDA i : i.address > addr)
visit_rest_current(all, addr) == Where(all, LAMBDA i : i.address >= addr)
visit_range(all, start, end) == Where(all, LAMBDA i : start < i.address /\ i.address < end)
visit_range_current(all, start, end) ==
  Where(all, LAMBDA i : start <= i.address /\ i.address <= end)

\* The nearest instruction before an address that writes a register with
\* its first operand; the code throws where there is none.
visit_previous_dest_register(all, addr, target) ==
  LET before == Where(all, LAMBDA i : /\ i.address < addr
                                      /\ Kinds(i) # <<>> /\ Kinds(i)[1] = "dest"
                                      /\ i.ops[1] = target)
  IN  IF before = <<>> THEN nullptr ELSE Last(before)

\* What opens and what closes a scope of the decompiled program.
Openers == {"stat_repeat", "stat_while", "stat_for_start", "stat_for_iv_start",
            "stat_for_n_start", "stat_if"}
Counted(node, types) == Cardinality({p \in DOMAIN node.expr : node.expr[p] \in types})
ScopeStep(node) == Counted(node, Openers) - count_elem(node, "stat_scope_end")

\* The nodes up to the first at which more scopes were closed than opened.
\* A repeat counts as opened, and what closes it does not count.
ScopeOf(rest) ==
  LET depth[i \in 0..Len(rest)] == IF i = 0 THEN 0 ELSE depth[i - 1] + ScopeStep(rest[i])
      out == {i \in 1..Len(rest) : depth[i] < 0}
  IN  IF out = {} THEN rest
      ELSE SubSeq(rest, 1, (CHOOSE i \in out : \A j \in out : i <= j) - 1)
visit_rest_scope_addr(all, addr) == ScopeOf(visit_rest(all, addr))
visit_inst_scope(all, addr, op) == visit_inst(visit_rest_scope_addr(all, addr), op)
visit_next_expr_scope(all, addr, type) == visit_expr(visit_rest_scope_addr(all, addr), type)

\* The node with the element target that closes the opener at an address.
visit_relative_next_expr_scope_current(all, addr, opener, target) ==
  LET rest == visit_rest_current(all, addr)
      open[i \in 0..Len(rest)] ==
        IF i = 0 THEN 0
        ELSE open[i - 1] + count_elem(rest[i], opener) - count_elem(rest[i], target)
      ends == {i \in 1..Len(rest) : has_elem(rest[i], target) /\ open[i] <= 0}
  IN  IF ends = {} THEN nullptr ELSE rest[CHOOSE i \in ends : \A j \in ends : i <= j]

\* Maximal runs of a target element and the close that follows it: a new
\* target before the close moves the beginning.
visit_expr_routine(all, target, close) ==
  LET Step(acc, i) ==
        LET begin  == IF has_elem(i, target) THEN i ELSE acc.begin
            inside == acc.inside \/ has_elem(i, target)
        IN  IF inside /\ has_elem(i, close)
            THEN [begin |-> begin, inside |-> FALSE, out |-> Append(acc.out, <<begin, i>>)]
            ELSE [acc EXCEPT !.begin = begin, !.inside = inside]
  IN  FoldLeft(Step, [begin |-> nullptr, inside |-> FALSE, out |-> <<>>], all).out
=============================================================================
