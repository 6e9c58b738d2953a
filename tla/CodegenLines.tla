---------------------------- MODULE CodegenLines ----------------------------
(***************************************************************************)
(* From IR lines to a program: the lifter appends lines, smart_format puts *)
(* blank lines between them and generate writes the text, which is read    *)
(* back here as the target's compiler does, comments and indents apart.    *)
(***************************************************************************)
EXTENDS Generate, FiniteSets

CONSTANTS Syntaxes,     \* the target syntaxes
          Formats,      \* the formats tried, records as Defaults
          Kinds,        \* the names of the lines tried, of Line below
          MaxLines,     \* bound on the lines
          MaxCalls      \* bound on the calls of generate

ASSUME CodegenLinesAssumption ==
  /\ Syntaxes \subseteq {"lua", "luau"}
  /\ {MaxLines, MaxCalls} \subseteq Nat
  /\ \A f \in Formats : {f.min_threshold, f.max_threshold} \subseteq Nat

VARIABLES syn, fmt,      \* of this run
          kinds,         \* the names of the lines lifted so far
          open,          \* the scopes that are still open (a stack)
          line_data_map, \* of the lines
          formatted,     \* smart_format returned
          global,        \* the static of generate
          calls,         \* calls of generate so far
          code           \* what the last one returned
vars == <<syn, fmt, kinds, open, line_data_map, formatted, global, calls, code>>

\* The expressions the lines refer to.
condition(e) == [e EXCEPT !.compares = <<Compare(FALSE, TRUE, TRUE, "lt_", 1, 2)>>]
Heap == << emitter_datatype_var(Fresh, <<"a">>),
           emitter_datatype_var(Fresh, <<"t">>),
           emitter_expr_table_idx(Fresh, 2, 1),
           emitter_expr_table_idx_generic(Fresh, 1, 2),
           emitter_expr_call_arg(emitter_expr_call(Fresh, 1), 2),
           condition(emitter_constant_if(Fresh)),
           condition(emitter_constant_elseif(Fresh)),
           emitter_constant_else(Fresh),
           emitter_constant_end(Fresh),
           condition(emitter_constant_while(Fresh)),
           emitter_constant_repeat(Fresh),
           condition(emitter_constant_until(Fresh)),
           emitter_constant_break(Fresh),
           emitter_datatype_for_iterator(
              emitter_datatype_for_var(Fresh, FALSE, 1), FALSE, 2),
           emitter_constant_do(Fresh) >>

Expression(id) == set_line(FreshLine, "expression", id)
Statement == set_line(FreshLine, "statement", nullptr)
\* Each line with the tokens it must be read as; cond is (a < t).
cond == <<"(", "a", "<", "t", ")">>
Line(n) ==
  CASE n = "assign" -> set_assignment(Statement, 1, 2)
    [] n = "settable" -> set_assignment(Statement, 3, 1)
    [] n = "setother" -> set_assignment(Statement, 4, 1)
    [] n = "add" -> set_arith(Statement, "add_", 1, 2)
    [] n = "local" -> set_new_variable(Statement, 1, <<"v">>)
    [] n = "call" -> Expression(5) [] n = "if" -> Expression(6)
    [] n = "elseif" -> Expression(7) [] n = "else" -> Expression(8)
    [] n = "end" -> Expression(9) [] n = "while" -> Expression(10)
    [] n = "repeat" -> Expression(11) [] n = "until" -> Expression(12)
    [] n = "break" -> Expression(13) [] n = "for" -> Expression(14)
    [] n = "do" -> Expression(15)
    [] n = "comment" -> set_comment(set_line(FreshLine, "comment", nullptr), <<"note">>)
    [] n = "expandable" ->
         set_comment(set_line(FreshLine, "expandable_comment", nullptr), <<"note">>)
Reads == [ assign |-> <<"a", "=", "t">>, settable |-> <<"t", "[", "a", "]", "=", "a">>,
           setother |-> <<"a", ".", "t", "=", "a">>, add |-> <<"a", "+=", "t">>,
           local |-> <<"local", "v", "=", "a">>, call |-> <<"a", "(", "t", ")">>,
           if |-> <<"if">> \o cond \o <<"then">>, elseif |-> <<"elseif">> \o cond \o <<"then">>,
           else |-> <<"else">>, end |-> <<"end">>, while |-> <<"while">> \o cond \o <<"do">>,
           repeat |-> <<"repeat">>, until |-> <<"until">> \o cond, break |-> <<"break">>,
           for |-> <<"for", "a", "in", "t", "do">>, do |-> <<"do">> ]

\* The scope a line opens and the one it closes.
Scope == [ if |-> "if", while |-> "end", for |-> "end", do |-> "end", repeat |-> "until" ]
Comments == {"comment", "expandable"}
ASSUME KindsAssumption == Kinds \subseteq DOMAIN Reads \cup Comments

Lines == [i \in 1..Len(kinds) |->
            LET line == Line(kinds[i]) IN
            IF kinds[i] \in Comments THEN set_comment(line, <<"note" \o ToString(i)>>) ELSE line]

-----------------------------------------------------------------------------
Init ==
  /\ syn \in Syntaxes /\ fmt \in Formats
  /\ kinds = <<>> /\ open = <<>>
  /\ line_data_map = <<>> /\ formatted = FALSE
  /\ global = GlobalInit /\ calls = 0 /\ code = <<>>

\* The lifter appends a line; what it appends is well nested.
Lift(n) ==
  LET inner == open # <<>>
      top == open[Len(open)]
      rest == SubSeq(open, 1, Len(open) - 1)
  IN /\ ~formatted /\ Len(kinds) + Len(open) < MaxLines
     /\ n = "add" => supported_arith_assignment(syn, "add_")
     /\ \/ n \in DOMAIN Scope /\ Len(kinds) + Len(open) + 1 < MaxLines
                              /\ open' = Append(open, Scope[n])
        \/ n = "elseif" /\ inner /\ top = "if" /\ UNCHANGED open
        \/ n = "else" /\ inner /\ top = "if" /\ open' = Append(rest, "end")
        \/ n \notin DOMAIN Scope \cup {"elseif", "else", "end", "until"} /\ UNCHANGED open
     /\ kinds' = Append(kinds, n)
     /\ UNCHANGED <<syn, fmt, line_data_map, formatted, global, calls, code>>
\* The line that closes the innermost scope.
Close ==
  LET top == open[Len(open)]
  IN /\ ~formatted /\ open # <<>>
     /\ kinds' = Append(kinds, IF top = "until" THEN "until" ELSE "end")
     /\ open' = SubSeq(open, 1, Len(open) - 1)
     /\ UNCHANGED <<syn, fmt, line_data_map, formatted, global, calls, code>>

SmartFormat ==
  /\ ~formatted /\ open = <<>> /\ kinds # <<>>
  /\ formatted' = TRUE
  /\ line_data_map' = smart_format(syn, Lines, line_data_map, Heap, fmt)
  /\ UNCHANGED <<syn, fmt, kinds, open, global, calls, code>>

Generated ==
  /\ formatted /\ calls < MaxCalls
  /\ LET s == generate(global, syn, Lines, line_data_map, Heap, fmt)
     IN code' = s.code /\ global' = s.g
  /\ calls' = calls + 1
  /\ UNCHANGED <<syn, fmt, kinds, open, line_data_map, formatted>>

Next == (\E n \in Kinds : Lift(n)) \/ Close \/ SmartFormat \/ Generated
Spec == Init /\ [][Next]_vars

-----------------------------------------------------------------------------
(* Reading the text back *)

\* mode is where the reader is: in the program, in a comment that ends with
\* the line, or in one that ends with "]]--", which starts one of the former.
ReadInit == [mode |-> "program", lines |-> <<>>, tabs |-> 0, tokens |-> <<>>, notes |-> <<>>]
ReadToken(r, t) ==
  LET eol == [r EXCEPT !.mode = "program", !.tabs = 0, !.tokens = <<>>,
                !.lines = IF r.tokens = <<>> THEN @
                          ELSE Append(@, [tabs |-> r.tabs, tokens |-> r.tokens])]
  IN CASE r.mode = "block" /\ t = "]]--" -> [r EXCEPT !.mode = "line"]
       [] r.mode # "block" /\ t = LineBreak -> eol
       [] r.mode # "program" /\ t \in {Tab, " ", LineBreak} -> r
       [] r.mode # "program" /\ t \notin {Tab, " ", LineBreak, "]]--"} ->
            [r EXCEPT !.notes = Append(@, t)]
       [] r.mode = "program" /\ t = "--" -> [r EXCEPT !.mode = "line"]
       [] r.mode = "program" /\ t = "--[[" -> [r EXCEPT !.mode = "block"]
       [] r.mode = "program" /\ t = Tab ->
            [r EXCEPT !.tabs = IF r.tokens = <<>> THEN @ + 1 ELSE @]
       [] r.mode = "program" /\ t \in {" ", ";"} -> r
       [] OTHER -> [r EXCEPT !.tokens = Append(@, t)]
Read ==
  LET upto[i \in 0..Len(code)] ==
        IF i = 0 THEN ReadInit ELSE LET r == upto[i - 1] IN ReadToken(r, code[i])
      r == upto[Len(code)]
  IN IF r.tokens = <<>> THEN r ELSE ReadToken(r, LineBreak)

Program == SelectSeq(kinds, LAMBDA n : n \notin Comments)
Depths ==
  LET shift(n) == IF n \in DOMAIN Scope THEN 1 ELSE IF n \in {"end", "until"} THEN -1 ELSE 0
      before[i \in 1..Len(Program) + 1] ==
        IF i = 1 THEN 0 ELSE before[i - 1] + shift(Program[i - 1])
  IN [i \in 1..Len(Program) |->
        before[i] - (IF Program[i] \in {"else", "elseif", "end", "until"} THEN 1 ELSE 0)]

-----------------------------------------------------------------------------
(* Properties *)

\* Each line of the program stands alone on a line of the text and is read as
\* what it was: no comment, blank line or indent hides or splits one
\* (generate).  That holds for each of the calls, though the static that the
\* first left is where the next one starts.
ProgramKept ==
  calls > 0 =>
    LET lines == Read.lines
    IN  [i \in DOMAIN lines |-> lines[i].tokens] = [i \in 1..Len(Program) |-> Reads[Program[i]]]

\* A line is indented by the scopes around it; the keywords that end a scope
\* and those of an alternative as the line that opened it
\* (indent_mut and indent_format_scope_end).
Indented ==
  (calls > 0 /\ fmt.indent_format_scope_end \in {0, 1}) =>
    LET lines == Read.lines
        depths == Depths
    IN  \A i \in DOMAIN lines :
          lines[i].tabs = depths[i] + (IF /\ fmt.indent_format_scope_end = 0
                                          /\ Program[i] \in {"end", "until"}
                                       THEN 1 ELSE 0)

\* Every comment before a line of the program is in the text once, in order;
\* those after the last one are dropped (the cache of generate).
CommentsOnce ==
  calls > 0 =>
    LET kept(i) == /\ kinds[i] \in Comments
                   /\ \/ kinds[i] = "expandable"
                      \/ /\ ~fmt.disable_comments
                         /\ fmt.comments_disabled \/ \E j \in i + 1..Len(kinds) :
                                                       kinds[j] # "comment"
        note(i) == "note" \o ToString(i)
    IN Read.notes = [k \in 1..Cardinality({i \in DOMAIN kinds : kept(i)}) |->
                       note(CHOOSE i \in DOMAIN kinds :
                              kept(i) /\ Cardinality({j \in 1..i : kept(j)}) = k)]

\* The lines that assign something, in a set, and the tables they assign to a
\* member of, <<>> for the others.
NextOf(assigns, i) == {j \in assigns : j > i /\ \A k \in assigns : k > i => k >= j}
Between(assigns, i, j) == {k \in assigns : i <= k /\ k <= j}
\* From i to j to members of one table; so, and neither end can be moved; and
\* of as many lines.
Run(assigns, table, i, j) ==
  table[i] # <<>> /\ \A k \in Between(assigns, i, j) : table[k] = table[i]
Longest(assigns, table, i, j) ==
  /\ Run(assigns, table, i, j)
  /\ \A k \in NextOf(assigns, j) : ~Run(assigns, table, i, k)
  /\ \A h \in assigns : NextOf(assigns, h) = {i} => ~Run(assigns, table, h, j)
LongRuns(assigns, table, threshold) ==
  {p \in assigns \X assigns :
     /\ p[1] <= p[2] /\ Longest(assigns, table, p[1], p[2])
     /\ Cardinality(Between(assigns, p[1], p[2])) >= threshold}

Assigns == {i \in DOMAIN Lines : Lines[i].lvalue # <<>>}
TableOf(i, text) == LET lvalue == Heap[Lines[i].lvalue[1]]
                    IN IF IsIndex(lvalue) THEN text[lvalue.lvalue] ELSE <<>>

\* The runs that reach the threshold, as pairs of their first and last lines.
Runs == LET text == Built(Heap, syn, fmt)
        IN LongRuns(Assigns, [i \in Assigns |-> TableOf(i, text)], fmt.min_threshold)
\* What smart_format made of the lines, where no maximum cuts runs in two.
Spacing == /\ formatted /\ calls = 0 /\ ~fmt.smart_disabled
           /\ fmt.max_threshold = 0 /\ fmt.min_threshold > 1

\* Blank lines before the lines of that set: one before each run; none inside
\* of it, but before the last line when an assignment follows that directly
\* (RunsUnbroken denies it); one behind it, if there are lines before the
\* assignment that ends it; and no other.
Spaced(assigns, runs, blanks) ==
  /\ \A p \in runs :
       /\ p[1] \in blanks
       /\ \A k \in p[1] + 1..p[2] :
            k \in blanks => k = p[2] /\ NextOf(assigns, p[2]) = {p[2] + 1}
       /\ \A n \in NextOf(assigns, p[2]) :
            n > p[2] + 1 => Cardinality((p[2] + 1..n - 1) \cap blanks) = 1
  /\ \A k \in blanks : \E p \in runs :
       k = p[1] \/ \E n \in NextOf(assigns, p[2]) : k \in p[2]..n - 1

\* Each run of assignments to members of one table that reaches the threshold
\* is set apart from what is before it, and from the lines up to the one that
\* ends it; no other line is; none twice (smart_format: start_idx, found lines
\* before it is known whether the run gets long, and i - 1, over the lines that
\* assign nothing and do not end a run).
RunsSpaced ==
  Spacing => /\ Spaced(Assigns, Runs, DOMAIN line_data_map)
             /\ \A k \in DOMAIN line_data_map : Len(line_data_map[k]) = 1

\* The layouts of formatting.hpp:769-900 differ in where blank lines are, but
\* all have them around runs: no two lines of a run are set apart.  The code
\* does, when an assignment ends the run directly; no run checks it.
RunsUnbroken ==
  Spacing => \A p \in Runs : \A k \in p[1] + 1..p[2] : ~key_exist(line_data_map, k)
=============================================================================
