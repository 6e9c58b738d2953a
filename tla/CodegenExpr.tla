---------------------------- MODULE CodegenExpr ----------------------------
(***************************************************************************)
(* Expressions are built by the emitters of IRExpr, in any order the IR    *)
(* lifter may call them, and rendered by build.  What an expression means  *)
(* is compared with what the text is read as by LuaGrammar.                *)
(***************************************************************************)
EXTENDS IRExpr, FiniteSets

CONSTANTS Syntaxes,     \* the target syntaxes
          Names,        \* names of variables, arguments, globals and upvalues
          Numbers,      \* values of number literals, counted as in IRExpr
          ArithKinds, CompareKinds, UnaryKinds,   \* operators tried
          MaxNodes,     \* bound on the heap
          MaxList       \* bound on the lists of one expression

ASSUME CodegenExprAssumption ==
  /\ Syntaxes \subseteq {"lua", "luau"}
  /\ Numbers \subseteq Int
  /\ {MaxNodes, MaxList} \subseteq Nat

Grammar == INSTANCE LuaGrammar

VARIABLES heap,      \* the expressions made so far
          literal    \* the value a number literal was made from (a history)
vars == <<heap, literal>>

fmt == [spacing_disabled |-> FALSE]

Init == heap = <<>> /\ literal = <<>>

-----------------------------------------------------------------------------
(* What the lifter calls *)

IsTable(e) == e.kind = "concat_exprs" /\ e.concat_e = "table"
Opened(e) == Cardinality({i \in DOMAIN e.table_members : e.table_members[i].table_start})
Closed(e) == Cardinality({i \in DOMAIN e.table_members : e.table_members[i].table_end})
\* A table is finished before the next expression is made.
Make(e, number) ==
  /\ Len(heap) < MaxNodes
  /\ heap # <<>> => Opened(heap[Len(heap)]) = Closed(heap[Len(heap)])
  /\ heap' = Append(heap, e)
  /\ literal' = Append(literal, number)
New(e) == Make(e, 0)
Ids == 1..Len(heap)
Mutate(id, e) == heap' = [heap EXCEPT ![id] = e] /\ UNCHANGED literal

\* The kinds of data that build treats as it treats another one are tried
\* for the first expression only: that bounds the number of heaps.
First == heap = <<>>
NewName ==
  \E n \in Names :
    \/ New(emitter_datatype_var(Fresh, <<n>>))
    \/ First /\ New(emitter_datatype_arg(Fresh, <<n>>))
    \/ First /\ New(emitter_datatype_global(Fresh, <<n>>))
    \/ First /\ New(emitter_datatype_upvalue(Fresh, <<n>>))
    \/ First /\ New(emitter_datatype_kvalue(Fresh, "name", <<n>>))
NewLiteral ==
  \/ First /\ New(emitter_datatype_none(Fresh))
  \/ \E b \in BOOLEAN : First /\ New(emitter_datatype_kvalue(Fresh, "boolean", b))
  \/ First /\ New(emitter_datatype_vararg_list(Fresh, <<"...">>))
  \/ \E n \in Names, quoted \in BOOLEAN :
       /\ First
       /\ New(emitter_datatype_kvalue(Fresh, "string",
                                      IF quoted THEN <<Quote, n, Quote>> ELSE <<n>>))
NewNumber ==
  \E n \in Numbers :
    /\ First \/ n = CHOOSE m \in Numbers : m > 0 /\ m % 10 = 0
    /\ Make(emitter_datatype_kvalue(Fresh, "integer", n), n)
NewOperation ==
  \E l, r \in Ids :
    \/ \E k \in ArithKinds : New(emitter_expr_arith(Fresh, k, l, r))
    \/ \E k \in CompareKinds : New(emitter_logical_compare(Fresh, k, l, r))
NewIndex ==
  \E t, i \in Ids :
    \/ New(emitter_expr_table_idx(Fresh, t, i))
    \/ New(emitter_expr_table_idx_generic(Fresh, t, i))
    \/ New(emitter_self(Fresh, t, i))
NewCall == \E f \in Ids : New(emitter_expr_call(Fresh, f))
\* OP_CONCAT of the lifter: the data of two or more registers.
NewConcat ==
  \E n \in 2..MaxList : \E ids \in [1..n -> Ids] :
    New([Fresh EXCEPT !.kind = "concat", !.members = ids])
NewTable == New(emitter_expr_table_new(Fresh))
\* The lifter clones the data of a register before it adds an operator.
Unary ==
  \E id \in Ids, u \in UnaryKinds :
    /\ Len(heap[id].unary) < MaxList
    /\ Make(emitter_expr_unary(clone(heap[id]), u), literal[id])

\* Arguments and members are added to the expression made last.
CallArg ==
  LET id == Len(heap) IN
  \E arg \in 1..id - 1 :
    /\ heap[id].kind = "call" /\ Len(heap[id].args) < MaxList
    /\ Mutate(id, emitter_expr_call_arg(heap[id], arg))
TableMembers ==
  LET id == Len(heap) IN
  /\ heap # <<>> /\ IsTable(heap[id]) /\ Opened(heap[id]) > Closed(heap[id])
  /\ \/ /\ Len(heap[id].table_members) <= MaxList
        /\ \/ Mutate(id, emitter_expr_table_new(heap[id]))
           \/ \E value \in 1..id - 1, index \in {nullptr, id - 1} :
                Mutate(id, emitter_expr_table_member(heap[id], value, index))
     \/ Mutate(id, emitter_expr_table_end(heap[id]))

Next == \/ NewName \/ NewLiteral \/ NewNumber \/ NewOperation \/ NewIndex
        \/ NewCall \/ NewConcat \/ NewTable \/ Unary \/ CallArg \/ TableMembers
Spec == Init /\ [][Next]_vars

-----------------------------------------------------------------------------
(* What an expression means: a tree as LuaGrammar builds it. *)

ArithOperator(syn) ==
  [ add_ |-> "+", sub_ |-> "-", mul_ |-> "*", div_ |-> "/", mod_ |-> "%",
    pow_ |-> "^", and_ |-> IF syn = "lua" THEN "&" ELSE "and",
    or_ |-> IF syn = "lua" THEN "|" ELSE "or",
    shl_ |-> "<<", shr_ |-> ">>", idiv_ |-> "//", xor_ |-> "~" ]
CompareOperator ==
  [ and_ |-> "and", or_ |-> "or", lt_ |-> "<", lte_ |-> "<=", eq_ |-> "==",
    ne_ |-> "~=", gt_ |-> ">", gte_ |-> ">=" ]
UnaryOperator == [ not_ |-> "not", len_ |-> "#", minus_ |-> "-", bitnot_ |-> "~" ]

\* A flat list of members from the ith on, as the fields of the table it is
\* in and the index after its end.
TableFields(members, tree) ==
  LET from[i \in 1..Len(members) + 1] ==
        IF i > Len(members) THEN <<<<>>, i>>
        ELSE LET m == members[i]
                 nested == from[i + 1]
                 rest == IF m.table_start THEN from[nested[2]] ELSE from[i + 1]
                 key == IF m.index = nullptr THEN Grammar!NoTree ELSE tree[m.index]
             IN IF m.table_end THEN <<<<>>, i + 1>>
                ELSE IF m.table_start
                THEN <<<< <<Grammar!NoTree, <<"table", nested[1]>>>> >> \o rest[1], rest[2]>>
                ELSE <<<< <<key, tree[m.value]>> >> \o rest[1], rest[2]>>
  IN from[2][1]

\* The operator emitted last is applied last: the head of the list is outermost.
Applied(unary, tree) ==
  LET from[i \in 1..Len(unary) + 1] ==
        IF i > Len(unary) THEN tree ELSE <<"un", UnaryOperator[unary[i]], from[i + 1]>>
  IN from[1]

Meanings(syn) ==
  LET trees(ids, tree) == [i \in 1..Len(ids) |-> tree[ids[i]]]
      concatenation(ids, tree) ==
        LET from[i \in 1..Len(ids)] ==
              IF i = Len(ids) THEN tree[ids[i]]
              ELSE <<"bin", "..", tree[ids[i]], from[i + 1]>>
        IN from[1]
      number(n) == IF n < 0 THEN <<"un", "-", <<"num", -n>>>> ELSE <<"num", n>>
      data(id, tree) ==
        LET e == heap[id] IN
        CASE e.kind \in {"arg", "var", "global", "upvalue", "kval"} -> <<"name", e.data[1]>>
          [] e.kind = "integer" -> number(literal[id])
          [] e.kind = "string" -> <<"str", IF Len(e.data) = 3 THEN e.data[2] ELSE e.data[1]>>
          [] e.kind = "boolean" -> IF e.data THEN <<"true">> ELSE <<"false">>
          [] e.kind = "none" -> <<"nil">>
          [] e.kind = "vararg" -> <<"...">>
          [] e.kind = "idx" -> <<"idx", tree[e.lvalue], tree[e.rvalue]>>
          [] e.kind = "idx_generic" ->
               IF tree[e.rvalue][1] = "name"
               THEN <<"idx", tree[e.lvalue], <<"str", tree[e.rvalue][2]>>>>
               ELSE Grammar!NoTree
          [] e.kind = "concat" -> concatenation(e.members, tree)
          [] e.kind = "selfcall" ->
               IF tree[e.rvalue][1] = "name"
               THEN <<"self", tree[e.lvalue], tree[e.rvalue][2]>> ELSE Grammar!NoTree
          [] e.kind = "call" ->
               LET f == tree[e.function] IN
               IF f[1] = "self" THEN <<"method", f[2], f[3], trees(e.args, tree)>>
               ELSE <<"call", f, trees(e.args, tree)>>
          [] IsTable(e) -> <<"table", TableFields(e.table_members, tree)>>
          [] e.concat_e = "arith" ->
               <<"bin", ArithOperator(syn)[e.operation], tree[e.lvalue], tree[e.rvalue]>>
          [] e.concat_e = "compare" ->
               <<"bin", CompareOperator[e.operation], tree[e.lvalue], tree[e.rvalue]>>
      upto[n \in 0..Len(heap)] ==
        IF n = 0 THEN <<>>
        ELSE LET tree == upto[n - 1]
             IN Append(tree, Applied(heap[n].unary, data(n, tree)))
  IN upto[Len(heap)]

-----------------------------------------------------------------------------
(* Where the emitters leave the parentheses out, the operands must bind    *)
(* tightly enough by themselves.                                           *)

Negative(id) == heap[id].kind = "integer" /\ literal[id] < 0
Plain(id) == heap[id].unary = <<>> /\ ~Negative(id)
\* A concatenation is the only text with an operator at its top and no
\* parentheses; a unary operator or a sign binds tighter, the rest is closed.
Loose(id) == heap[id].kind = "concat" /\ heap[id].unary = <<>>
IsName(id) == heap[id].unary = <<>> /\ heap[id].kind \in {"arg", "var", "global", "upvalue", "kval"}
IsPrefix(id) ==
  /\ heap[id].unary = <<>>
  /\ \/ heap[id].kind \in {"arg", "var", "global", "upvalue", "kval", "idx", "idx_generic", "call"}
     \/ heap[id].kind = "concat_exprs" /\ heap[id].concat_e \in {"arith", "compare"}
EndsInNumber(id) ==
  LET ends[i \in Ids] ==
        \/ heap[i].kind = "integer"
        \/ heap[i].kind = "concat" /\ ends[heap[i].members[Len(heap[i].members)]]
  IN ends[id]

Lower(op) == op \in {"and", "or", "<", "<=", "==", "~=", ">", ">=", "|", "~", "&", "<<", ">>"}
OperandsDelimited(op, l, r) ==
  /\ op = "^" => Plain(l)
  /\ Loose(l) \/ Loose(r) => Lower(op)

Delimited(syn) ==
  LET all(ids, ok(_)) == \A i \in 1..Len(ids) : ok(ids[i])
      unary(e, id) ==
        LET u == e.unary IN
        /\ \A i \in 1..Len(u) : UnaryOperator[u[i]] \in Grammar!UnaryTokens(syn)
        /\ \A i \in 1..Len(u) : u[i] = u[Len(u) + 1 - i]
        /\ \A i \in 2..Len(u) : ~(u[i - 1] = "minus_" /\ u[i] = "minus_")
        /\ Len(u) > 0 => /\ e.kind # "concat"
                         /\ u[Len(u)] = "minus_" => ~Negative(id)
      data(e, id, ok) ==
        CASE e.kind = "integer" -> literal[id] % 10 = 0
          [] e.kind \in {"arg", "var", "global", "upvalue", "kval", "string",
                         "boolean", "none", "vararg"} -> TRUE
          [] e.kind = "idx" -> IsPrefix(e.lvalue) /\ ok[e.lvalue] /\ ok[e.rvalue]
          [] e.kind = "idx_generic" -> IsPrefix(e.lvalue) /\ ok[e.lvalue] /\ IsName(e.rvalue)
          [] e.kind = "selfcall" -> FALSE
          [] e.kind = "call" ->
               LET f == heap[e.function]
                   selfcall == f.kind = "selfcall" /\ f.unary = <<>>
               IN /\ IF selfcall THEN IsPrefix(f.lvalue) /\ ok[f.lvalue] /\ IsName(f.rvalue)
                     ELSE IsPrefix(e.function) /\ ok[e.function]
                  /\ all(e.args, LAMBDA i : ok[i])
          [] e.kind = "concat" ->
               LET m == e.members IN
               /\ all(m, LAMBDA i : ok[i])
               /\ \A i \in 1..Len(m) - 1 : ~Loose(m[i]) /\ ~EndsInNumber(m[i])
          [] IsTable(e) ->
               /\ Opened(e) = Closed(e)
               /\ \A i \in 1..Len(e.table_members) :
                    LET m == e.table_members[i] IN
                    /\ m.value # nullptr => ok[m.value]
                    /\ m.index # nullptr => ok[m.index]
          [] OTHER ->
               LET op == IF e.concat_e = "arith" THEN ArithOperator(syn)[e.operation]
                         ELSE CompareOperator[e.operation]
               IN /\ op \in DOMAIN Grammar!Priority(syn)
                  /\ OperandsDelimited(op, e.lvalue, e.rvalue)
                  /\ ok[e.lvalue] /\ ok[e.rvalue]
      upto[n \in 0..Len(heap)] ==
        IF n = 0 THEN <<>>
        ELSE LET ok == upto[n - 1]
             IN Append(ok, unary(heap[n], n) /\ data(heap[n], n, ok))
  IN upto[Len(heap)]

-----------------------------------------------------------------------------
(* Properties *)

\* The type invariant: expressions refer to older ones only, and a number
\* keeps the value it was made from.
ExprTypeOK ==
  /\ Len(literal) = Len(heap)
  /\ \A id \in Ids :
       LET e == heap[id] IN
       /\ {e.lvalue, e.rvalue, e.function} \subseteq 0..id - 1
       /\ \A i \in 1..Len(e.args) : e.args[i] \in 1..id - 1
       /\ \A i \in 1..Len(e.table_members) :
            {e.table_members[i].index, e.table_members[i].value} \subseteq 0..id - 1

\* An expression whose operands bind tightly enough is rendered as a text that
\* the compiler of the target reads as that expression, in either syntax: the
\* parentheses, separators and blanks of build lose nothing.
RoundTrip ==
  \A syn \in Syntaxes :
    LET text == Built(heap, syn, fmt)
        delimited == Delimited(syn)
        meaning == Meanings(syn)
    IN \A id \in Ids : delimited[id] => Grammar!Parse(text[id], syn) = meaning[id]

\* And only then: where an operand is left open, build never closes it, and
\* the text is read as another expression or not at all.
OnlyDelimited ==
  \A syn \in Syntaxes :
    LET text == Built(heap, syn, fmt)
        delimited == Delimited(syn)
        meaning == Meanings(syn)
    IN \A id \in Ids :
         /\ ~delimited[id]
         /\ meaning[id] # Grammar!NoTree
         => Grammar!Parse(text[id], syn) # meaning[id]
=============================================================================
