------------------------------- MODULE Format -------------------------------
(***************************************************************************)
(* How the code generator spaces the tokens of the text it emits           *)
(* (ir/data/features/formatting.hpp).                                      *)
(*                                                                         *)
(* Text is a sequence of tokens and " " is the token that separates two    *)
(* of them; a refrence_string and a std::string are both text.  The marks  *)
(* of a refrence_string are left out: every caller of build passes an      *)
(* empty list of references, so that no mark is ever set.                  *)
(***************************************************************************)
EXTENDS Sequences

Blank == <<" ">>

\* The defaults of format->spacing that a formatter below reads; an option
\* whose default is "" is left out where it stands.
Spacing == [ param_post |-> Blank, param_pre |-> <<>>,
             table_seperator_post |-> Blank, index_assignment |-> Blank,
             arith |-> Blank, concat |-> Blank, logical_operator |-> Blank,
             assignment |-> Blank, list |-> Blank, forloop |-> Blank,
             compare |-> Blank, then |-> Blank, loop |-> Blank, not |-> Blank,
             initial_datatype |-> Blank, return |-> Blank ]

\* One formatter: the keyword with its spacing, or alone when spacing is
\* disabled.
Spaced(fmt, pre, keyword, post) ==
  IF fmt.spacing_disabled THEN <<keyword>> ELSE pre \o <<keyword>> \o post

-----------------------------------------------------------------------------
format_unary_not(fmt, keyword) == Spaced(fmt, <<>>, keyword, Spacing.not)
format_unary_minus(fmt, keyword) == Spaced(fmt, <<>>, keyword, <<>>)
format_unary_bitnot(fmt, keyword) == Spaced(fmt, <<>>, keyword, <<>>)
format_unary_length(fmt, keyword) == Spaced(fmt, <<>>, keyword, <<>>)

format_parenthesis_open(fmt, keyword) == Spaced(fmt, <<>>, keyword, <<>>)
format_parenthesis_close(fmt, keyword) == Spaced(fmt, <<>>, keyword, <<>>)
format_parenthesis_ref(fmt, open, text, close) ==
  format_parenthesis_open(fmt, open) \o text \o format_parenthesis_close(fmt, close)

format_index_ref(fmt, open, text, close) ==
  Spaced(fmt, <<>>, open, <<>>) \o text \o Spaced(fmt, <<>>, close, <<>>)

format_call_parameter_open(fmt, keyword) == Spaced(fmt, <<>>, keyword, <<>>)
format_call_parameter_close(fmt, keyword) == Spaced(fmt, <<>>, keyword, <<>>)
format_parameter_seperator(fmt, keyword) ==
  Spaced(fmt, Spacing.param_pre, keyword, Spacing.param_post)

format_table_seperator(fmt, keyword) ==
  Spaced(fmt, <<>>, keyword, Spacing.table_seperator_post)
format_table_start(fmt, keyword) == Spaced(fmt, <<>>, keyword, <<>>)
format_table_end(fmt, keyword) == Spaced(fmt, <<>>, keyword, <<>>)
format_table_index(fmt, open, text, close, equal) ==
  <<open>> \o text \o <<close>>
    \o Spaced(fmt, Spacing.index_assignment, equal, Spacing.index_assignment)

format_arith(fmt, keyword) == Spaced(fmt, Spacing.arith, keyword, Spacing.arith)
format_logical_operation(fmt, keyword) ==
  Spaced(fmt, Spacing.logical_operator, keyword, Spacing.logical_operator)

format_compare(fmt, keyword) == Spaced(fmt, <<>>, keyword, Spacing.compare)
format_while(fmt, keyword) == Spaced(fmt, <<>>, keyword, Spacing.loop)
format_until(fmt, keyword) == Spaced(fmt, <<>>, keyword, Spacing.loop)
\* Without values the template argument ignores the spacing.
format_return(fmt, keyword, values) ==
  IF values THEN Spaced(fmt, <<>>, keyword, Spacing.return) ELSE <<keyword>>
format_while_scope_start(fmt, keyword) == Spaced(fmt, Spacing.loop, keyword, <<>>)
\* An empty keyword leaves its spacing.
format_scope_begin(fmt, keyword) ==
  (IF fmt.spacing_disabled THEN <<>> ELSE Spacing.then) \o keyword
format_semicolon(fmt, keyword) == Spaced(fmt, <<>>, keyword, <<>>)

format_assignment(fmt, keyword) ==
  Spaced(fmt, Spacing.assignment, keyword, Spacing.assignment)
format_assignment_lvalue(fmt, keyword) == Spaced(fmt, Spacing.list, keyword, Spacing.list)
format_assignment_rvalue(fmt, keyword) == Spaced(fmt, Spacing.list, keyword, Spacing.list)
format_assignment_initial(fmt, keyword) ==
  Spaced(fmt, Spacing.assignment, keyword, Spacing.assignment)
format_assignment_initial_lvalue(fmt, keyword) ==
  Spaced(fmt, Spacing.list, keyword, Spacing.list)
format_assignment_initial_rvalue(fmt, keyword) ==
  Spaced(fmt, Spacing.list, keyword, Spacing.list)
format_assignment_initial_datatype(fmt, keyword) ==
  Spaced(fmt, <<>>, keyword, Spacing.initial_datatype)
=============================================================================
