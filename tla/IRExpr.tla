------------------------------- MODULE IRExpr -------------------------------
(***************************************************************************)
(* Expressions of the IR (struct expression_data, ir/ir.hpp): the emitters *)
(* that fill one and build, which renders it as text; and the lines that   *)
(* are made of them.                                                       *)
(*                                                                         *)
(* Expressions are shared by pointer: they live in a heap, a sequence of   *)
(* records, and refer to each other by index; nullptr is 0.  Strings are   *)
(* text as in Format.  An expression only ever refers to older ones.       *)
(***************************************************************************)
EXTENDS Integers, Sequences, TLC, Emit

nullptr == 0

\* A new expression_data; the fields of the kinds of data are one, data, for
\* each emitter that sets the kind sets its field as well.
Fresh == [ constant |-> "nothing", unary |-> <<>>, kind |-> "nothing",
           concat_e |-> "nothing", operation |-> "nothing",
           lvalue |-> nullptr, rvalue |-> nullptr, data |-> <<>>,
           function |-> nullptr, args |-> <<>>, members |-> <<>>,
           table_members |-> <<>>, vars |-> <<>>, iterator |-> <<>>,
           returns |-> <<>>, compares |-> <<>> ]
reset(e) == Fresh
clone(e) == e

\* constants::compare, in the order of the struct.
Compare(operator_only, open, close, operation, lvalue, rvalue) ==
  [ operator_only |-> operator_only, open |-> open, close |-> close,
    operation |-> operation, lvalue |-> lvalue, rvalue |-> rvalue ]

-----------------------------------------------------------------------------
(* emitters *)

emitter_constant_do(e) == [e EXCEPT !.constant = "do_"]
emitter_constant_break(e) == [e EXCEPT !.constant = "break_"]
emitter_constant_repeat(e) == [e EXCEPT !.constant = "repeat_"]
emitter_constant_else(e) == [e EXCEPT !.constant = "else_"]
emitter_constant_end(e) == [e EXCEPT !.constant = "end_"]
emitter_constant_if(e) == [e EXCEPT !.constant = "if_"]
emitter_constant_while(e) == [e EXCEPT !.constant = "while_"]
emitter_constant_until(e) == [e EXCEPT !.constant = "until"]
emitter_constant_elseif(e) == [e EXCEPT !.constant = "elseif_"]
emitter_datatype_for_var(e, integer, var) ==
  [e EXCEPT !.constant = IF integer THEN "for_numeric" ELSE "for_",
            !.vars = Append(@, var)]
emitter_datatype_for_iterator(e, integer, iter) ==
  [e EXCEPT !.constant = IF integer THEN "for_numeric" ELSE "for_",
            !.iterator = Append(@, iter)]

\* The new operator becomes the first of the list.
emitter_expr_unary(e, unary) == [e EXCEPT !.unary = <<unary>> \o @]
emitter_expr_arith(e, kind, lvalue, rvalue) ==
  [e EXCEPT !.kind = "concat_exprs", !.concat_e = "arith", !.operation = kind,
            !.lvalue = lvalue, !.rvalue = rvalue]
emitter_logical_compare(e, operation, lvalue, rvalue) ==
  [e EXCEPT !.kind = "concat_exprs", !.concat_e = "compare", !.operation = operation,
            !.lvalue = lvalue, !.rvalue = rvalue]
emitter_expr_table_idx(e, table, index) ==
  [e EXCEPT !.kind = "idx", !.lvalue = table, !.rvalue = index]
emitter_expr_table_idx_generic(e, table, index) ==
  [e EXCEPT !.kind = "idx_generic", !.lvalue = table, !.rvalue = index]
emitter_self(e, lvalue, rvalue) ==
  [e EXCEPT !.kind = "selfcall", !.lvalue = lvalue, !.rvalue = rvalue]
emitter_expr_call(e, call) == [e EXCEPT !.kind = "call", !.function = call]
emitter_expr_call_arg(e, arg) == [e EXCEPT !.args = Append(@, arg)]

TableMember(start, end, index, value) ==
  [table_start |-> start, table_end |-> end, index |-> index, value |-> value]
AddMember(e, member) ==
  [e EXCEPT !.kind = "concat_exprs", !.concat_e = "table",
            !.table_members = Append(@, member)]
emitter_expr_table_new(e) == AddMember(e, TableMember(TRUE, FALSE, nullptr, nullptr))
emitter_expr_table_end(e) == AddMember(e, TableMember(FALSE, TRUE, nullptr, nullptr))
emitter_expr_table_member(e, value, index) ==
  AddMember(e, TableMember(FALSE, FALSE, index, value))

emitter_datatype_arg(e, arg) == [e EXCEPT !.kind = "arg", !.data = arg]
emitter_datatype_upvalue(e, upvalue) == [e EXCEPT !.kind = "upvalue", !.data = upvalue]
emitter_datatype_vararg_list(e, vararg) == [e EXCEPT !.kind = "vararg", !.data = vararg]
emitter_datatype_global(e, global) == [e EXCEPT !.kind = "global", !.data = global]
emitter_datatype_var(e, var) == [e EXCEPT !.kind = "var", !.data = var]
emitter_datatype_kval(e, kval) == [e EXCEPT !.kind = "kval", !.data = kval]
emitter_datatype_string(e, string) == [e EXCEPT !.kind = "string", !.data = string]
emitter_datatype_none(e) == [e EXCEPT !.kind = "none"]
emitter_datatype_boolean(e, boolean) == [e EXCEPT !.kind = "boolean", !.data = boolean]

\* std::to_string keeps six digits after the point.  A number is counted in
\* tenths of the last of them, so that the text of n is its tenth, rounded;
\* the zeros and the point it ends in are erased.
Magnitude(n) == IF n < 0 THEN -n ELSE n
NumberText(n) ==
  (IF n < 0 THEN <<"-">> ELSE <<>>) \o <<ToString((Magnitude(n) + 5) \div 10)>>
emitter_datatype_integer(e, number) ==
  [e EXCEPT !.kind = "integer", !.data = NumberText(number)]

emitter_datatype_kvalue(e, type, value) ==
  CASE type = "string" -> emitter_datatype_string(e, value)
    [] type = "integer" -> emitter_datatype_integer(e, value)
    [] type = "boolean" -> emitter_datatype_boolean(e, value)
    [] OTHER -> emitter_datatype_kval(e, value)

-----------------------------------------------------------------------------
(* build *)

\* The texts of a list of expressions.
Texts(text, ids) == [i \in 1..Len(ids) |-> text[ids[i]]]
Concatenated(texts) ==
  LET from[i \in 1..Len(texts) + 1] ==
        IF i > Len(texts) THEN <<>> ELSE texts[i] \o from[i + 1]
  IN from[1]

\* constants::build_expression: the entries of a condition one after another.
build_expression(e, text, syn, fmt) ==
  LET entry(c) ==
        CASE c.operator_only ->
               IF c.operation = "nothing" THEN <<>> ELSE emit_operator(syn, c.operation, fmt)
          [] ~c.operator_only /\ c.lvalue = nullptr /\ c.rvalue = nullptr ->
               (IF c.open THEN emit_logical_compare_parenthesis(syn, TRUE, fmt) ELSE <<>>)
                 \o (IF c.close THEN emit_logical_compare_parenthesis(syn, FALSE, fmt)
                     ELSE <<>>)
          [] ~c.operator_only /\ c.lvalue # nullptr /\ c.rvalue = nullptr ->
               emit_single_logical_operation(syn, text[c.lvalue], fmt, c.open, c.close)
          [] ~c.operator_only /\ c.rvalue # nullptr ->
               emit_logical_compare(syn, c.operation, text[c.lvalue], text[c.rvalue],
                                    fmt, c.open, c.close)
  IN Concatenated([i \in 1..Len(e.compares) |-> entry(e.compares[i])])

build_concat_exprs(e, text, syn, fmt) ==
  CASE e.concat_e = "arith" ->
         emit_arith(syn, e.operation, text[e.lvalue], text[e.rvalue], fmt)
    [] e.concat_e = "compare" ->
         emit_logical_compare(syn, e.operation, text[e.lvalue],
                              IF e.rvalue = nullptr THEN <<>> ELSE text[e.rvalue],
                              fmt, TRUE, TRUE)
    [] e.concat_e = "table" ->
         LET of(id) == IF id = nullptr THEN <<>> ELSE text[id]
         IN emit_table(syn, [i \in 1..Len(e.table_members) |->
                 [e.table_members[i] EXCEPT !.index = of(@), !.value = of(@)]], fmt)
    [] OTHER -> <<Throw>>

build_data(e, text, syn, fmt) ==
  CASE e.kind = "idx" -> emit_index(syn, text[e.lvalue], text[e.rvalue], fmt)
    [] e.kind = "idx_generic" -> emit_index_generic(syn, text[e.lvalue], text[e.rvalue])
    [] e.kind = "concat_exprs" -> build_concat_exprs(e, text, syn, fmt)
    [] e.kind = "selfcall" -> emit_selfcall(syn, text[e.lvalue], text[e.rvalue])
    [] e.kind = "call" -> emit_call(syn, text[e.function], Texts(text, e.args), fmt)
    [] e.kind = "concat" -> emit_concat(syn, Texts(text, e.members), fmt)
    [] e.kind = "vararg" -> emit_vararg(syn)
    [] e.kind = "arg" -> emit_arg(syn, e.data)
    [] e.kind = "var" -> emit_var(syn, e.data)
    [] e.kind = "kval" -> emit_kval(syn, e.data)
    [] e.kind = "integer" -> emit_integer(syn, e.data)
    [] e.kind = "global" -> emit_global(syn, e.data)
    [] e.kind = "upvalue" -> emit_upvalue(syn, e.data)
    [] e.kind = "boolean" -> emit_boolean(syn, e.data)
    [] e.kind = "none" -> emit_none(syn)
    [] e.kind = "string" -> emit_string(syn, e.data)
    [] e.kind = "nothing" -> emit_nothing(syn)
    [] OTHER -> <<Throw>>

build_constant(e, text, syn, fmt) ==
  CASE e.constant = "break_" -> emit_loop_break(syn)
    [] e.constant = "end_" -> emit_scope_end(syn)
    [] e.constant = "do_" -> emit_do(syn, fmt)
    [] e.constant = "repeat_" -> emit_repeat(syn)
    [] e.constant = "while_" ->
         emit_while_pre(syn, build_expression(e, text, syn, fmt), fmt)
    [] e.constant = "until" ->
         emit_until_pre(syn, build_expression(e, text, syn, fmt), fmt)
    [] e.constant = "if_" -> emit_if_pre(syn, build_expression(e, text, syn, fmt), fmt)
    [] e.constant = "elseif_" ->
         emit_elseif_pre(syn, build_expression(e, text, syn, fmt), fmt)
    [] e.constant = "else_" -> emit_else(syn, fmt)
    [] e.constant = "return_" -> emit_return(syn, Texts(text, e.returns), fmt)
    [] e.constant \in {"for_", "for_numeric"} ->
         emit_for(syn, e.constant = "for_numeric", Texts(text, e.vars),
                  Texts(text, e.iterator), fmt)
    [] e.constant = "function_" -> <<>>
    [] OTHER -> <<Throw>>

\* The unary operators are put before the text one after another while it
\* is still empty, so that the first of the list ends up next to the operand.
build_unary(e, syn, fmt) ==
  LET upto[i \in 0..Len(e.unary)] ==
        IF i = 0 THEN <<>> ELSE emit_unary(syn, upto[i - 1], e.unary[i], fmt)
  IN upto[Len(e.unary)]

\* The text of every expression of the heap, the oldest first.
Built(heap, syn, fmt) ==
  LET upto[n \in 0..Len(heap)] ==
        IF n = 0 THEN <<>>
        ELSE LET text == upto[n - 1]
                 e == heap[n]
             IN Append(text, build_unary(e, syn, fmt)
                  \o (IF e.constant = "nothing" THEN build_data(e, text, syn, fmt)
                      ELSE build_constant(e, text, syn, fmt)))
  IN upto[Len(heap)]
build(heap, id, syn, fmt) == Built(heap, syn, fmt)[id]

-----------------------------------------------------------------------------
(* Lines (struct line and class lines, ir/ir.hpp): what the IR lifter      *)
(* fills and generate reads.  A line is a record; scope_id is left out:    *)
(* nothing reads it.                                                       *)

FreshLine == [ line_type |-> "expression", expression |-> nullptr,
               is_function |-> FALSE, is_arith |-> FALSE, arith |-> "nothing",
               new_variable |-> FALSE, name |-> <<>>, hidden |-> <<>>,
               lvalue |-> <<>>, rvalue |-> <<>>, comment |-> <<>> ]

\* line::set<kind>: a null expression leaves the one that is there.
set_line(line, kind, expression) ==
  [line EXCEPT !.line_type = kind,
               !.expression = IF expression = nullptr THEN @ ELSE expression]

\* statement::set<true>(lvalue, rvalue, name) and set(lvalue, rvalue).
set_new_variable(line, rvalue, name) ==
  [line EXCEPT !.new_variable = TRUE, !.name = Append(@, name), !.rvalue = Append(@, rvalue)]
set_assignment(line, lvalue, rvalue) ==
  [line EXCEPT !.lvalue = IF lvalue = nullptr THEN <<>> ELSE <<lvalue>>,
               !.rvalue = Append(@, rvalue)]
\* statement::set<clear>(kind, lvalue, rvalue).
set_arith(line, kind, lvalue, rvalue) ==
  [line EXCEPT !.lvalue = Append(@, lvalue), !.rvalue = Append(@, rvalue),
               !.is_arith = TRUE, !.arith = kind]
\* statement::set({lvalue}, rvalue).
set_assignments(line, lvalues, rvalue) ==
  [line EXCEPT !.lvalue = lvalues, !.rvalue = Append(@, rvalue)]
set_closure(line) == [line EXCEPT !.is_function = TRUE]
set_hidden(line, lvalue) == [line EXCEPT !.hidden = <<lvalue>>]
append_hidden(line, lvalue) == [line EXCEPT !.hidden = Append(@, lvalue)]
set_comment(line, text) == [line EXCEPT !.comment = text]
append_comment(line, text) == [line EXCEPT !.comment = @ \o text]

\* lines::line_data_map: text put before the line of that index.
key_exist(line_data_map, pos) == pos \in DOMAIN line_data_map
insert_map(line_data_map, pos, data) ==
  [p \in DOMAIN line_data_map \cup {pos} |->
     CASE p # pos -> line_data_map[p]
       [] p = pos /\ key_exist(line_data_map, pos) -> line_data_map[pos] \o data
       [] p = pos /\ ~key_exist(line_data_map, pos) -> data]
=============================================================================
