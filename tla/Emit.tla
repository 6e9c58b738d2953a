-------------------------------- MODULE Emit --------------------------------
(***************************************************************************)
(* Code generation for a target syntax (il/code/generation/common): every  *)
(* emitter hands its arguments to the emitter of that name of the syntax,  *)
(* and throws for a syntax that has none.                                  *)
(***************************************************************************)
LOCAL INSTANCE Sequences
LOCAL INSTANCE Naturals
Lua == INSTANCE EmitLua
Luau == INSTANCE EmitLuau

Throw == Luau!Throw
LineBreak == Luau!LineBreak
Quote == Luau!Quote
Throws(text) == \E i \in 1..Len(text) : text[i] = Throw

\* The switch on the syntax every emitter below starts with.
OneOf(syn, lua, luau) ==
  CASE syn = "lua" -> lua [] syn = "luau" -> luau [] OTHER -> <<Throw>>

-----------------------------------------------------------------------------
emit_call(syn, call, args, fmt) ==
  OneOf(syn, Lua!emit_call(call, args, fmt), Luau!emit_call(call, args, fmt))
emit_concat(syn, members, fmt) ==
  OneOf(syn, Lua!emit_concat(members, fmt), Luau!emit_concat(members, fmt))
emit_arg(syn, data) == OneOf(syn, Lua!emit_arg(data), Luau!emit_arg(data))
emit_var(syn, data) == OneOf(syn, Lua!emit_var(data), Luau!emit_var(data))
emit_global(syn, data) ==
  OneOf(syn, Lua!emit_global(data), Luau!emit_global(data))
emit_upvalue(syn, data) ==
  OneOf(syn, Lua!emit_upvalue(data), Luau!emit_upvalue(data))
emit_string(syn, data) ==
  OneOf(syn, Lua!emit_string(data), Luau!emit_string(data))
emit_vararg(syn) == OneOf(syn, Lua!emit_vararg, Luau!emit_vararg)
emit_boolean(syn, b) == OneOf(syn, Lua!emit_boolean(b), Luau!emit_boolean(b))
emit_integer(syn, data) ==
  OneOf(syn, Lua!emit_integer(data), Luau!emit_integer(data))
emit_kval(syn, data) == OneOf(syn, Lua!emit_kval(data), Luau!emit_kval(data))
emit_none(syn) == OneOf(syn, Lua!emit_none, Luau!emit_none)
emit_nothing(syn) == OneOf(syn, Lua!emit_nothing, Luau!emit_nothing)
emit_operator(syn, op, fmt) ==
  OneOf(syn, Lua!emit_operator(op, fmt), Luau!emit_operator(op, fmt))
emit_logical_operation(syn, op, lvalue, rvalue, fmt) ==
  OneOf(syn, Lua!emit_logical_operation(op, lvalue, rvalue, fmt),
             Luau!emit_logical_operation(op, lvalue, rvalue, fmt))
emit_single_logical_operation(syn, lvalue, fmt, open, close) ==
  OneOf(syn, Lua!emit_single_logical_operation(lvalue, fmt, open, close),
             Luau!emit_single_logical_operation(lvalue, fmt, open, close))
emit_logical_compare(syn, op, lvalue, rvalue, fmt, open, close) ==
  OneOf(syn, Lua!emit_logical_compare(op, lvalue, rvalue, fmt, open, close),
             Luau!emit_logical_compare(op, lvalue, rvalue, fmt, open, close))
emit_logical_compare_parenthesis(syn, open, fmt) ==
  OneOf(syn, Lua!emit_logical_compare_parenthesis(open, fmt),
             Luau!emit_logical_compare_parenthesis(open, fmt))
emit_selfcall(syn, lvalue, rvalue) ==
  OneOf(syn, Lua!emit_selfcall(lvalue, rvalue),
             Luau!emit_selfcall(lvalue, rvalue))
emit_index(syn, table, index, fmt) ==
  OneOf(syn, Lua!emit_index(table, index, fmt),
             Luau!emit_index(table, index, fmt))
emit_index_generic(syn, table, index) ==
  OneOf(syn, Lua!emit_index_generic(table, index),
             Luau!emit_index_generic(table, index))
emit_table(syn, data, fmt) ==
  OneOf(syn, Lua!emit_table(data, fmt), Luau!emit_table(data, fmt))
emit_unary(syn, buffer, unary, fmt) ==
  OneOf(syn, Lua!emit_unary(buffer, unary, fmt),
             Luau!emit_unary(buffer, unary, fmt))
emit_if(syn, op, lvalue, rvalue, fmt) ==
  OneOf(syn, Lua!emit_if(op, lvalue, rvalue, fmt),
             Luau!emit_if(op, lvalue, rvalue, fmt))
emit_if_pre(syn, compiled, fmt) ==
  OneOf(syn, Lua!emit_if_pre(compiled, fmt), Luau!emit_if_pre(compiled, fmt))
emit_elseif(syn, op, lvalue, rvalue, fmt) ==
  OneOf(syn, Lua!emit_elseif(op, lvalue, rvalue, fmt),
             Luau!emit_elseif(op, lvalue, rvalue, fmt))
emit_elseif_pre(syn, compiled, fmt) ==
  OneOf(syn, Lua!emit_elseif_pre(compiled, fmt),
             Luau!emit_elseif_pre(compiled, fmt))
emit_else(syn, fmt) == OneOf(syn, Lua!emit_else(fmt), Luau!emit_else(fmt))
emit_scope_end(syn) == OneOf(syn, Lua!emit_scope_end, Luau!emit_scope_end)
emit_for(syn, numeric, vars, iterator, fmt) ==
  OneOf(syn, Lua!emit_for(numeric, vars, iterator, fmt),
             Luau!emit_for(numeric, vars, iterator, fmt))
emit_do(syn, fmt) == OneOf(syn, Lua!emit_do(fmt), Luau!emit_do(fmt))
emit_repeat(syn) == OneOf(syn, Lua!emit_repeat, Luau!emit_repeat)
emit_loop_break(syn) == OneOf(syn, Lua!emit_loop_break, Luau!emit_loop_break)
emit_loop_continue(syn) ==
  OneOf(syn, Lua!emit_loop_continue, Luau!emit_loop_continue)
emit_while(syn, op, lvalue, rvalue, fmt) ==
  OneOf(syn, Lua!emit_while(op, lvalue, rvalue, fmt),
             Luau!emit_while(op, lvalue, rvalue, fmt))
emit_while_pre(syn, compiled, fmt) ==
  OneOf(syn, Lua!emit_while_pre(compiled, fmt),
             Luau!emit_while_pre(compiled, fmt))
emit_until(syn, op, lvalue, rvalue, fmt) ==
  OneOf(syn, Lua!emit_until(op, lvalue, rvalue, fmt),
             Luau!emit_until(op, lvalue, rvalue, fmt))
emit_until_pre(syn, compiled, fmt) ==
  OneOf(syn, Lua!emit_until_pre(compiled, fmt),
             Luau!emit_until_pre(compiled, fmt))
emit_return(syn, values, fmt) ==
  OneOf(syn, Lua!emit_return(values, fmt), Luau!emit_return(values, fmt))
emit_linebreak(syn, amt) ==
  OneOf(syn, Lua!emit_linebreak(amt), Luau!emit_linebreak(amt))
emit_semicolon(syn, fmt) ==
  OneOf(syn, Lua!emit_semicolon(fmt), Luau!emit_semicolon(fmt))
emit_arith(syn, kind, lvalue, rvalue, fmt) ==
  OneOf(syn, Lua!emit_arith(kind, lvalue, rvalue, fmt),
             Luau!emit_arith(kind, lvalue, rvalue, fmt))
initial_assignment(syn, lvalue, rvalue, fmt) ==
  OneOf(syn, Lua!initial_assignment(lvalue, rvalue, fmt),
             Luau!initial_assignment(lvalue, rvalue, fmt))
assignment(syn, lvalue, rvalue, fmt, keyword) ==
  OneOf(syn, Lua!assignment(lvalue, rvalue, fmt, keyword),
             Luau!assignment(lvalue, rvalue, fmt, keyword))
expandable_comment(syn, src, current_amt, pre_amt, post_amt, linebreak) ==
  OneOf(syn, Lua!expandable_comment(src, current_amt, pre_amt, post_amt, linebreak),
             Luau!expandable_comment(src, current_amt, pre_amt, post_amt, linebreak))
comment(syn, src, current_amt, linebreak) ==
  OneOf(syn, Lua!comment(src, current_amt, linebreak),
             Luau!comment(src, current_amt, linebreak))
-----------------------------------------------------------------------------
\* Only Luau has an assignment that does arithmetic.
emit_arith_assignment(syn, op, lvalue, rvalue, fmt) ==
  IF syn = "luau" THEN Luau!emit_arith_assignment(op, lvalue, rvalue, fmt)
  ELSE <<Throw>>
supported_arith_assignment(syn, kind) ==
  CASE syn = "lua" -> kind \in Lua!supported_arith_assignment
    [] syn = "luau" -> kind \in Luau!supported_arith_assignment
    [] OTHER -> FALSE
=============================================================================
