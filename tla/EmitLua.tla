------------------------------ MODULE EmitLua -------------------------------
(***************************************************************************)
(* The emitters of Lua text (il/code/generation/lang/lua).  The files were *)
(* copied from Luau's and most of them still say the same: what is defined *)
(* by Luau's operator is such a copy, and the rest is where they differ.   *)
(***************************************************************************)
LOCAL INSTANCE Format
LOCAL INSTANCE Naturals
Luau == INSTANCE EmitLuau

\* lua_langkeyword_arith_*: and and or are the bitwise operators here.
ArithKeyword == [ add_ |-> "+", sub_ |-> "-", mul_ |-> "*", div_ |-> "/",
                  mod_ |-> "%", pow_ |-> "^", and_ |-> "&", or_ |-> "|",
                  shl_ |-> "<<", shr_ |-> ">>", idiv_ |-> "//", xor_ |-> "~" ]
emit_arith_operation(kind, lvalue, rvalue, fmt) ==
  lvalue
    \o (IF kind \in DOMAIN ArithKeyword THEN format_arith(fmt, ArithKeyword[kind])
        ELSE <<Luau!Throw>>)
    \o rvalue
emit_arith(kind, lvalue, rvalue, fmt) ==
  format_parenthesis_ref(fmt, "(", emit_arith_operation(kind, lvalue, rvalue, fmt), ")")
\* The closing parenthesis that Luau's drops is appended here.
emit_single_logical_operation(lvalue, fmt, open, close) ==
  (IF open THEN format_parenthesis_open(fmt, "(") ELSE <<>>) \o lvalue
    \o (IF close THEN format_parenthesis_open(fmt, ")") ELSE <<>>)
\* No assignment does arithmetic.
supported_arith_assignment == {"nothing"}

-----------------------------------------------------------------------------
emit_call(call, args, fmt) == Luau!emit_call(call, args, fmt)
emit_concat(members, fmt) == Luau!emit_concat(members, fmt)
emit_arg(data) == Luau!emit_arg(data)
emit_var(data) == Luau!emit_var(data)
emit_global(data) == Luau!emit_global(data)
emit_upvalue(data) == Luau!emit_upvalue(data)
emit_string(data) == Luau!emit_string(data)
emit_vararg == Luau!emit_vararg
emit_boolean(b) == Luau!emit_boolean(b)
emit_integer(data) == Luau!emit_integer(data)
emit_kval(data) == Luau!emit_kval(data)
emit_none == Luau!emit_none
emit_nothing == Luau!emit_nothing
emit_operator(op, fmt) == Luau!emit_operator(op, fmt)
emit_logical_operation(op, lvalue, rvalue, fmt) ==
  Luau!emit_logical_operation(op, lvalue, rvalue, fmt)
emit_logical_compare(op, lvalue, rvalue, fmt, open, close) ==
  Luau!emit_logical_compare(op, lvalue, rvalue, fmt, open, close)
emit_logical_compare_parenthesis(open, fmt) ==
  Luau!emit_logical_compare_parenthesis(open, fmt)
emit_selfcall(lvalue, rvalue) == Luau!emit_selfcall(lvalue, rvalue)
emit_index(table, index, fmt) == Luau!emit_index(table, index, fmt)
emit_index_generic(table, index) == Luau!emit_index_generic(table, index)
emit_table(data, fmt) == Luau!emit_table(data, fmt)
emit_unary(buffer, unary, fmt) == Luau!emit_unary(buffer, unary, fmt)

emit_if(op, lvalue, rvalue, fmt) == Luau!emit_if(op, lvalue, rvalue, fmt)
emit_if_pre(compiled, fmt) == Luau!emit_if_pre(compiled, fmt)
emit_elseif(op, lvalue, rvalue, fmt) == Luau!emit_elseif(op, lvalue, rvalue, fmt)
emit_elseif_pre(compiled, fmt) == Luau!emit_elseif_pre(compiled, fmt)
emit_else(fmt) == Luau!emit_else(fmt)
emit_scope_end == Luau!emit_scope_end
emit_for(numeric, vars, iterator, fmt) == Luau!emit_for(numeric, vars, iterator, fmt)
emit_do(fmt) == Luau!emit_do(fmt)
emit_repeat == Luau!emit_repeat
emit_loop_break == Luau!emit_loop_break
emit_loop_continue == Luau!emit_loop_continue
emit_while(op, lvalue, rvalue, fmt) == Luau!emit_while(op, lvalue, rvalue, fmt)
emit_while_pre(compiled, fmt) == Luau!emit_while_pre(compiled, fmt)
emit_until(op, lvalue, rvalue, fmt) == Luau!emit_until(op, lvalue, rvalue, fmt)
emit_until_pre(compiled, fmt) == Luau!emit_until_pre(compiled, fmt)
emit_return(values, fmt) == Luau!emit_return(values, fmt)

emit_linebreak(amt) == Luau!emit_linebreak(amt)
emit_semicolon(fmt) == Luau!emit_semicolon(fmt)
initial_assignment(lvalue, rvalue, fmt) == Luau!initial_assignment(lvalue, rvalue, fmt)
assignment(lvalue, rvalue, fmt, keyword) == Luau!assignment(lvalue, rvalue, fmt, keyword)
expandable_comment(src, current_amt, pre_amt, post_amt, linebreak) ==
  Luau!expandable_comment(src, current_amt, pre_amt, post_amt, linebreak)
comment(src, current_amt, linebreak) == Luau!comment(src, current_amt, linebreak)
=============================================================================
