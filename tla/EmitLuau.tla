------------------------------ MODULE EmitLuau ------------------------------
(***************************************************************************)
(* The emitters of Luau text (il/code/generation/lang/luau).  Each takes   *)
(* the texts of the operands and returns what it appends to the buffer.    *)
(* An exception is the token Throw: it stays in the text it is part of.    *)
(***************************************************************************)
EXTENDS Format, Naturals, FiniteSets

Throw == "throw"
LineBreak == "\n"
Quote == "\""                         \* luau_langkeyword_string_start and _end

\* luau_langkeyword_*: the spelling of each kind of operator.
ArithKeyword == [ add_ |-> "+", sub_ |-> "-", mul_ |-> "*", div_ |-> "/",
                  mod_ |-> "%", pow_ |-> "^", and_ |-> "and", or_ |-> "or" ]
CompareKeyword == [ and_ |-> "and", or_ |-> "or", lt_ |-> "<", lte_ |-> "<=",
                    eq_ |-> "==", ne_ |-> "~=", gt_ |-> ">", gte_ |-> ">=" ]
UnaryKeyword == [ not_ |-> "not", len_ |-> "#", minus_ |-> "-", bitnot_ |-> "~" ]

\* The members of a list with a separator between two of them.
Joined(texts, separator) ==
  LET from[i \in 1..Len(texts) + 1] ==
        IF i > Len(texts) THEN <<>>
        ELSE texts[i] \o (IF i < Len(texts) THEN separator ELSE <<>>) \o from[i + 1]
  IN from[1]

-----------------------------------------------------------------------------
(* expression *)

emit_arith_operation(kind, lvalue, rvalue, fmt) ==
  lvalue
    \o (IF kind \in DOMAIN ArithKeyword THEN format_arith(fmt, ArithKeyword[kind])
        ELSE <<Throw>>)
    \o rvalue

emit_call(call, args, fmt) ==
  call \o format_call_parameter_open(fmt, "(")
       \o Joined(args, format_parameter_seperator(fmt, ","))
       \o format_call_parameter_close(fmt, ")")

\* The dots are spaced as the separator of parameters is.
emit_concat(members, fmt) == Joined(members, format_parameter_seperator(fmt, ".."))

emit_arg(data) == data
emit_var(data) == data
emit_global(data) == data
emit_upvalue(data) == data
\* The text of a string gets the quotes it misses.
emit_string(data) ==
  (IF Head(data) = Quote THEN <<>> ELSE <<Quote>>) \o data
    \o (IF data[Len(data)] = Quote THEN <<>> ELSE <<Quote>>)
emit_vararg == <<"...">>
emit_boolean(b) == IF b THEN <<"true">> ELSE <<"false">>
emit_integer(data) == data
emit_kval(data) == data
emit_none == <<"nil">>
emit_nothing == <<>>

\* An operator without a keyword emits nothing.
emit_operator(op, fmt) ==
  IF op \in DOMAIN CompareKeyword
  THEN format_logical_operation(fmt, CompareKeyword[op]) ELSE <<>>
emit_logical_operation(op, lvalue, rvalue, fmt) ==
  lvalue \o emit_operator(op, fmt) \o rvalue
\* The closing parenthesis is formatted but never appended.
emit_single_logical_operation(lvalue, fmt, open, close) ==
  (IF open THEN format_parenthesis_open(fmt, "(") ELSE <<>>) \o lvalue
emit_logical_compare(op, lvalue, rvalue, fmt, open, close) ==
  (IF open THEN format_parenthesis_open(fmt, "(") ELSE <<>>)
    \o emit_logical_operation(op, lvalue, rvalue, fmt)
    \o (IF close THEN format_parenthesis_open(fmt, ")") ELSE <<>>)
emit_logical_compare_parenthesis(open, fmt) ==
  format_parenthesis_open(fmt, IF open THEN "(" ELSE ")")

emit_selfcall(lvalue, rvalue) == lvalue \o <<":">> \o rvalue

emit_index(table, index, fmt) == table \o format_index_ref(fmt, "[", index, "]")
emit_index_generic(table, index) == table \o <<".">> \o index

\* A table is a flat list of members; a member opens a table, closes one or
\* is a value of one, and is followed by a comma unless it opens a table or
\* the table it is in ends right after it.
emit_table(data, fmt) ==
  LET separate(i) ==
        /\ i < Len(data)
        /\ data[i].table_end \/ data[i].value # <<>>
        /\ ~data[i + 1].table_end
      member(i) ==
        (IF data[i].table_end THEN format_table_end(fmt, "}") ELSE <<>>)
          \o (IF data[i].table_start THEN format_table_start(fmt, "{") ELSE <<>>)
          \o (IF data[i].index = <<>> THEN <<>>
              ELSE format_table_index(fmt, "[", data[i].index, "]", "="))
          \o data[i].value
          \o (IF separate(i) THEN format_table_seperator(fmt, ",") ELSE <<>>)
  IN Joined([i \in 1..Len(data) |-> member(i)], <<>>)

\* A mutant: put behind it.
emit_unary_behind(buffer, unary, fmt) ==
  buffer \o (IF unary = "not_" THEN format_unary_not(fmt, UnaryKeyword.not_)
             ELSE <<UnaryKeyword[unary]>>)
\* Put before what the buffer already holds.
emit_unary(buffer, unary, fmt) ==
  (CASE unary = "not_" -> format_unary_not(fmt, UnaryKeyword.not_)
     [] unary = "len_" -> format_unary_length(fmt, UnaryKeyword.len_)
     [] unary = "minus_" -> format_unary_minus(fmt, UnaryKeyword.minus_)
     [] unary = "bitnot_" -> format_unary_bitnot(fmt, UnaryKeyword.bitnot_)
     [] OTHER -> <<Throw>>) \o buffer

-----------------------------------------------------------------------------
(* constant *)

Parenthesised(op, lvalue, rvalue, fmt) ==
  format_parenthesis_ref(fmt, "(", emit_logical_operation(op, lvalue, rvalue, fmt), ")")

emit_if(op, lvalue, rvalue, fmt) ==
  format_compare(fmt, "if") \o Parenthesised(op, lvalue, rvalue, fmt)
    \o format_scope_begin(fmt, <<"then">>)
emit_if_pre(compiled, fmt) ==
  format_compare(fmt, "if") \o compiled \o format_scope_begin(fmt, <<"then">>)
emit_elseif(op, lvalue, rvalue, fmt) ==
  format_compare(fmt, "elseif") \o Parenthesised(op, lvalue, rvalue, fmt)
    \o format_scope_begin(fmt, <<"then">>)
emit_elseif_pre(compiled, fmt) ==
  format_compare(fmt, "elseif") \o compiled \o format_scope_begin(fmt, <<"then">>)
emit_else(fmt) == format_compare(fmt, "else") \o format_scope_begin(fmt, <<>>)
emit_scope_end == <<"end">>

\* The spacing of a for loop does not ask whether spacing is disabled.
emit_for(numeric, vars, iterator, fmt) ==
  <<"for">> \o Spacing.forloop
    \o Joined(vars, format_parameter_seperator(fmt, ","))
    \o Spacing.forloop \o <<IF numeric THEN "=" ELSE "in">> \o Spacing.forloop
    \o Joined(iterator, format_parameter_seperator(fmt, ","))
    \o Spacing.forloop \o <<"do">>

emit_do(fmt) == format_while_scope_start(fmt, "do")
emit_repeat == <<"repeat">>
emit_loop_break == <<"break">>
emit_loop_continue == <<"continue">>
emit_while(op, lvalue, rvalue, fmt) ==
  format_compare(fmt, "while") \o Parenthesised(op, lvalue, rvalue, fmt)
    \o format_scope_begin(fmt, <<>>)
emit_while_pre(compiled, fmt) ==
  format_while(fmt, "while") \o compiled \o emit_do(fmt) \o format_scope_begin(fmt, <<>>)
emit_until(op, lvalue, rvalue, fmt) ==
  format_until(fmt, "until") \o Parenthesised(op, lvalue, rvalue, fmt)
emit_until_pre(compiled, fmt) == format_until(fmt, "until") \o compiled

emit_return(values, fmt) ==
  format_return(fmt, "return", values # <<>>)
    \o Joined(values, format_parameter_seperator(fmt, ","))

-----------------------------------------------------------------------------
(* line and statement *)

emit_linebreak(amt) == [i \in 1..amt |-> LineBreak]
emit_semicolon(fmt) == format_semicolon(fmt, ";")

\* A mutant: without its parentheses.
emit_arith_bare(kind, lvalue, rvalue, fmt) == emit_arith_operation(kind, lvalue, rvalue, fmt)
emit_arith(kind, lvalue, rvalue, fmt) ==
  format_parenthesis_ref(fmt, "(", emit_arith_operation(kind, lvalue, rvalue, fmt), ")")

initial_assignment(lvalue, rvalue, fmt) ==
  format_assignment_initial_datatype(fmt, "local")
    \o Joined(lvalue, format_assignment_initial_lvalue(fmt, ","))
    \o format_assignment_initial(fmt, "=")
    \o Joined(rvalue, format_assignment_initial_rvalue(fmt, ","))
assignment(lvalue, rvalue, fmt, keyword) ==
  Joined(lvalue, format_assignment_lvalue(fmt, ","))
    \o format_assignment(fmt, keyword)
    \o Joined(rvalue, format_assignment_rvalue(fmt, ","))
ArithAssignmentKeyword == [ add_ |-> "+=", sub_ |-> "-=", mul_ |-> "*=",
                            div_ |-> "/=", mod_ |-> "%=", pow_ |-> "^=" ]
emit_arith_assignment(op, lvalue, rvalue, fmt) ==
  IF op \in DOMAIN ArithAssignmentKeyword
  THEN assignment(lvalue, rvalue, fmt, ArithAssignmentKeyword[op]) ELSE <<Throw>>
supported_arith_assignment == {"add_", "sub_", "mod_", "div_", "mul_", "pow_"}

\* The line break after a comment is left out when its text ends in one.
Closing(src, amt, linebreak) ==
  IF linebreak /\ src[Len(src)] # LineBreak THEN emit_linebreak(amt) ELSE <<>>
expandable_comment(src, current_amt, pre_amt, post_amt, linebreak) ==
  <<"--[[">> \o (IF linebreak THEN emit_linebreak(pre_amt) ELSE <<>>) \o src
    \o (IF linebreak THEN emit_linebreak(post_amt) ELSE <<>>) \o <<"]]--">>
    \o Closing(src, current_amt, linebreak)
comment(src, current_amt, linebreak) ==
  <<"--", " ">> \o src \o Closing(src, current_amt, linebreak)
=============================================================================
