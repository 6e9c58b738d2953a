------------------------------ MODULE Generate ------------------------------
(***************************************************************************)
(* Text of a list of IR lines (ir/ir.cpp) and the blank lines put between  *)
(* them (features/formatting/smart_formatting.cpp).                        *)
(*                                                                         *)
(* Indentation is a sequence of the token Tab.  An option of the format or *)
(* of the optimizations is a field of fmt where it changes what is emitted *)
(* in more than an amount; Indents and Linebreaks hold the defaults of the amounts.       *)
(***************************************************************************)
EXTENDS IRExpr

Tab == "   "                          \* indent.indent_space

Defaults == [ spacing_disabled |-> FALSE, indent_disabled |-> FALSE,
              indent_format_scope_end |-> 1, linebreak_disable |-> FALSE,
              comments_disabled |-> FALSE, disable_comments |-> FALSE,
              collapse_disabled |-> FALSE, concat_disabled |-> FALSE,
              comment_optimized |-> TRUE, optimizations_disabled |-> FALSE,
              semicolon_disable |-> FALSE, smart_disabled |-> FALSE,
              min_threshold |-> 2, max_threshold |-> 0 ]
Indents == [ indent_start |-> 0, pre |-> 0, post |-> 1, indent_end |-> 0, comment |-> 1 ]
Linebreaks == [ start_linebreak_amount |-> 1, pre |-> 0, post |-> 0,
                comment_pre |-> 1, comment_post |-> 1, group_newlines |-> 1 ]
Tabs(n) == [i \in 1..n |-> Tab]

-----------------------------------------------------------------------------
(* ir_format::global: a static, kept from one call to the next *)

GlobalInit == [ indent |-> <<>>, linebreak |-> 0, linebreak_changed |-> FALSE,
                indent_vect |-> <<<<>>>>, linebreak_vect |-> <<0>> ]

Popped(vect, amt) == SubSeq(vect, 1, Len(vect) - (IF amt > Len(vect) THEN Len(vect) ELSE amt))
Back(vect) == vect[Len(vect)]

indent_post(g, amt) ==
  LET indent == g.indent \o Tabs(amt)
  IN [g EXCEPT !.indent = indent, !.indent_vect[Len(g.indent_vect)] = indent]
indent_dec(g, amt) ==
  LET vect == Popped(g.indent_vect, amt)
  IN [g EXCEPT !.indent_vect = vect, !.indent = Back(vect)]
indent_inc(g, amt) ==
  LET indent == g.indent \o Tabs(amt)
  IN [g EXCEPT !.indent = indent, !.indent_vect = Append(@, indent)]

Changed(g, linebreak) ==
  [g EXCEPT !.linebreak = linebreak, !.linebreak_changed = linebreak # g.linebreak]
linebreak_post(g, amt) ==
  LET linebreak == g.linebreak + amt
  IN [Changed(g, linebreak) EXCEPT !.linebreak_vect[Len(g.linebreak_vect)] = linebreak]
\* A mutant: one level too many.
linebreak_dec_two(g, amt) ==
  LET vect == Popped(g.linebreak_vect, amt + 1)
  IN [Changed(g, Back(vect)) EXCEPT !.linebreak_vect = vect]
linebreak_dec(g, amt) ==
  LET vect == Popped(g.linebreak_vect, amt)
  IN [Changed(g, Back(vect)) EXCEPT !.linebreak_vect = vect]
linebreak_inc(g, amt) ==
  LET linebreak == g.linebreak + amt
  IN [Changed(g, linebreak) EXCEPT !.linebreak_vect = Append(@, linebreak)]

\* Disabled indents keep the global one.
indent(g, fmt, global_indent, amount) ==
  (IF global_indent THEN g.indent ELSE <<>>)
    \o (IF fmt.indent_disabled THEN <<>> ELSE Tabs(amount))
\* The indent before the text and after every line break of it.
format_string(g, fmt, global_indent, amount, text) ==
  LET indent_str == indent(g, fmt, global_indent, amount)
  IN indent_str \o Concatenated([i \in 1..Len(text) |->
        IF text[i] = LineBreak THEN <<LineBreak>> \o indent_str ELSE <<text[i]>>])

-----------------------------------------------------------------------------
(* generate *)

\* The locals of a call: the text so far and the comments not yet emitted.
CallInit(g, fmt) ==
  [ g |-> [linebreak_inc(indent_inc(g, Indents.indent_start),
                         Linebreaks.start_linebreak_amount) EXCEPT !.linebreak_changed = FALSE],
    code |-> <<>>, comment_concat |-> FALSE, comment_amt |-> 0, comment_data |-> <<>> ]

Emit_(s, text) == [s EXCEPT !.code = @ \o text]
Breaks(text) == Len(SelectSeq(text, LAMBDA t : t = LineBreak))
single_comment(s, syn, fmt, data) ==
  Emit_(s, comment(syn, format_string(s.g, fmt, FALSE, Indents.comment, data),
                   s.g.linebreak, ~fmt.linebreak_disable))
scoped_comment(s, syn, fmt, data) ==
  Emit_(s, expandable_comment(syn, format_string(s.g, fmt, TRUE, Indents.comment, data),
                              s.g.linebreak, Linebreaks.comment_pre, Linebreaks.comment_post,
                              ~fmt.linebreak_disable))

\* A mutant: the cache is not cleared.
FlushedKept(s, line, syn, fmt) ==
  IF ~s.comment_concat \/ line.line_type = "comment" \/ fmt.disable_comments THEN s
  ELSE [scoped_comment(s, syn, fmt, s.comment_data) EXCEPT !.comment_concat = FALSE]
\* The comments cached so far, before the first line that is none.  Their
\* number is never reset.
Flushed(s, line, syn, fmt) ==
  IF ~s.comment_concat \/ line.line_type = "comment" \/ fmt.disable_comments THEN s
  ELSE LET single == \/ fmt.collapse_disabled
                     \/ /\ ~fmt.optimizations_disabled /\ fmt.comment_optimized
                        /\ s.comment_amt = 1
                        /\ Breaks(s.comment_data) < 2
                        /\ Back(s.comment_data) = LineBreak
           emitted == IF single THEN single_comment(s, syn, fmt, s.comment_data)
                      ELSE scoped_comment(s, syn, fmt, s.comment_data)
       IN [emitted EXCEPT !.comment_concat = FALSE, !.comment_data = <<>>]

CommentLine(s, line, syn, fmt) ==
  IF fmt.disable_comments THEN s
  ELSE IF fmt.comments_disabled
  THEN [single_comment(s, syn, fmt, line.comment) EXCEPT !.comment_data = <<>>]
  ELSE [s EXCEPT !.comment_data = @ \o line.comment
                   \o (IF fmt.collapse_disabled \/ fmt.linebreak_disable THEN <<>>
                       ELSE emit_linebreak(syn, 1)),
                 !.comment_concat = ~fmt.concat_disabled,
                 !.comment_amt = @ + 1]
ExpandableLine(s, line, syn, fmt) ==
  [scoped_comment(s, syn, fmt, line.comment) EXCEPT !.comment_data = <<>>]

Opens(constant) == constant \in {"for_", "for_numeric", "do_", "repeat_", "while_", "if_",
                                 "function_"}
Closes(constant) == constant \in {"end_", "until"}
Alternative(constant) == constant \in {"elseif_", "else_"}

\* What a keyword does to the indentation before it is emitted ...
AdjustPre(g, constant, fmt) ==
  CASE Opens(constant) -> linebreak_inc(indent_inc(g, Indents.pre), Linebreaks.pre)
    [] Alternative(constant) -> indent_dec(g, 1)
    [] Closes(constant) /\ fmt.indent_format_scope_end = 1 -> indent_dec(g, 1)
    [] Closes(constant) /\ fmt.indent_format_scope_end = 3 -> indent_inc(g, Indents.indent_end)
    [] OTHER -> g
\* A mutant: what follows an alternative is not indented.
AdjustPostFlat(g, constant, fmt) ==
  CASE Opens(constant) -> linebreak_post(indent_post(g, Indents.post), Linebreaks.post)
    [] Alternative(constant) -> linebreak_inc(indent_inc(g, 0), Linebreaks.post)
    [] Closes(constant) -> linebreak_dec(g, 1)
    [] OTHER -> g
\* ... and after.
AdjustPost(g, constant, fmt) ==
  CASE Opens(constant) -> linebreak_post(indent_post(g, Indents.post), Linebreaks.post)
    [] Alternative(constant) ->
         linebreak_inc(indent_inc(g, Indents.post), Linebreaks.post)
    [] Closes(constant) ->
         linebreak_dec(CASE fmt.indent_format_scope_end = 0 -> indent_dec(g, 1)
                         [] fmt.indent_format_scope_end = 4 -> indent_inc(g, Indents.indent_end)
                         [] OTHER -> g, 1)
    [] OTHER -> g
Ended(constant) == constant \in {"nothing", "until", "break_", "return_"}

ExpressionLine(s, line, heap, text, syn, fmt) ==
  LET constant == heap[line.expression].constant
      pre == AdjustPre(s.g, constant, fmt)
      post == AdjustPost(pre, constant, fmt)
      linebreak(g) == IF fmt.linebreak_disable THEN <<>> ELSE emit_linebreak(syn, g.linebreak)
  IN [Emit_(s, (IF pre.linebreak_changed THEN linebreak(pre) ELSE <<>>)
        \o format_string(pre, fmt, TRUE, 0, text[line.expression])
        \o (IF Ended(constant) /\ ~fmt.optimizations_disabled /\ ~fmt.semicolon_disable
            THEN emit_semicolon(syn, fmt) ELSE <<>>)
        \o linebreak(post)) EXCEPT !.g = post]

StatementLine(s, line, text, syn, fmt) ==
  LET lvalue == IF line.new_variable THEN line.name ELSE Texts(text, line.lvalue)
      rvalue == Texts(text, line.rvalue)
      buffer == CASE line.new_variable -> initial_assignment(syn, lvalue, rvalue, fmt)
                  [] line.is_arith /\ ~line.new_variable ->
                       emit_arith_assignment(syn, line.arith, lvalue, rvalue, fmt)
                  [] OTHER -> assignment(syn, lvalue, rvalue, fmt, "=")
  IN IF line.is_function THEN s
     ELSE Emit_(s, format_string(s.g, fmt, TRUE, 0, buffer)
            \o (IF fmt.semicolon_disable THEN <<>> ELSE emit_semicolon(syn, fmt))
            \o (IF fmt.linebreak_disable THEN <<>> ELSE emit_linebreak(syn, s.g.linebreak)))

GenerateLine(s, i, line, line_data_map, heap, text, syn, fmt) ==
  LET mapped == IF key_exist(line_data_map, i) THEN Emit_(s, line_data_map[i]) ELSE s
      flushed == Flushed(mapped, line, syn, fmt)
  IN CASE line.line_type = "expandable_comment" -> ExpandableLine(flushed, line, syn, fmt)
       [] line.line_type = "comment" -> CommentLine(flushed, line, syn, fmt)
       [] line.line_type = "expression" -> ExpressionLine(flushed, line, heap, text, syn, fmt)
       [] line.line_type = "statement" -> StatementLine(flushed, line, text, syn, fmt)
       [] OTHER -> flushed

\* A call: the text, what the static is left as and the comments left over.
generate(g, syn, data, line_data_map, heap, fmt) ==
  LET text == Built(heap, syn, fmt)
      upto[i \in 0..Len(data)] ==
        IF i = 0 THEN CallInit(g, fmt)
        ELSE LET s == upto[i - 1]
             IN GenerateLine(s, i, data[i], line_data_map, heap, text, syn, fmt)
  IN upto[Len(data)]

-----------------------------------------------------------------------------
(* smart_format *)

\* A mutant: the count starts at one.
SettableCounted(line_data_map) ==
  [map |-> line_data_map, on |-> FALSE, start |-> 1, start_idx |-> 0, data |-> nullptr]
SettableInit(line_data_map) ==
  [map |-> line_data_map, on |-> FALSE, start |-> 0, start_idx |-> 0, data |-> nullptr]
IsIndex(e) == e.kind \in {"idx", "idx_generic"}

\* One line of the loop on s, the run of assignments to the same table it is
\* in and the map.
SmartLine(s, i, line, heap, text, syn, fmt) ==
  LET lvalue == heap[line.lvalue[1]]
      newlines == emit_linebreak(syn, Linebreaks.group_newlines)
      same == IsIndex(lvalue) /\ (s.data = nullptr \/ text[s.data] = text[lvalue.lvalue])
      first == [s EXCEPT !.start_idx = IF s.data = nullptr THEN i ELSE @,
                         !.data = IF s.data = nullptr THEN lvalue.lvalue ELSE @,
                         !.start = IF fmt.min_threshold = 0 THEN @ ELSE @ + 1]
      over == /\ fmt.max_threshold # 0
              /\ first.start > fmt.max_threshold
      reached == fmt.min_threshold = 0 \/ first.start >= fmt.min_threshold
      on == [first EXCEPT !.on = TRUE,
               !.map = IF ~s.on /\ ~key_exist(s.map, first.start_idx)
                       THEN insert_map(s.map, first.start_idx, newlines) ELSE @]
      end(r) == [ on |-> FALSE, start |-> IF IsIndex(lvalue) THEN 1 ELSE 0,
                  start_idx |-> IF IsIndex(lvalue) THEN i ELSE 0,
                  data |-> IF IsIndex(lvalue) THEN lvalue.lvalue ELSE nullptr,
                  map |-> IF r.on THEN insert_map(r.map, i - 1, newlines) ELSE r.map ]
  IN CASE ~same -> end(s)
       [] same /\ reached /\ over -> end(first)
       [] same /\ reached /\ ~over -> on
       [] same /\ ~reached -> first

smart_format(syn, lines, line_data_map, heap, fmt) ==
  LET text == Built(heap, syn, fmt)
      upto[i \in 0..Len(lines)] ==
        IF i = 0 THEN SettableInit(line_data_map)
        ELSE LET s == upto[i - 1]
                 line == lines[i]
             IN IF line.line_type # "statement" \/ line.lvalue = <<>> THEN s
                ELSE SmartLine(s, i, line, heap, text, syn, fmt)
  IN IF fmt.smart_disabled THEN line_data_map ELSE upto[Len(lines)].map
=============================================================================
