------------------------------ MODULE LoopMeaning ------------------------------
(***************************************************************************)
(* The source of functions with loops, and what it and the lines of such a *)
(* function mean: the reference that the passes over loops and the IR      *)
(* lifter are checked against.  Source and lines are executed              *)
(* symbolically, each loop twice, so that a value of the first round can   *)
(* reach the second.                                                       *)
(***************************************************************************)
EXTENDS IRLifter

g == 9       \* the global that is written
number == 5  \* a constant of the constant table

----------------------------------------------------------------------------
(* The source: a statement is a record with its kind and, of the ends of   *)
(* some loops, a condition.                                                *)

\* A condition is a tree over globals, one local and one comparison.
And(l, r) == V("and_", 0, <<l, r>>)
Or(l, r)  == V("or_", 0, <<l, r>>)
Test(n)   == V("global", n, <<>>)
Equals    == V("eq_", 4, <<>>)
Local     == V("local", 0, <<>>)
Forever   == V("true", 0, <<>>)

S(kind, cond) == [kind |-> kind, cond |-> cond]
Loops == {"for_numeric", "for_", "while_", "repeat_"}
Ends  == {"end_", "until"}
\* The loops that are open behind some statements, the innermost last.
OpenLoops(stats) ==
  FoldLeft(LAMBDA open, s : IF s.kind \in Loops THEN Append(open, s.kind)
                            ELSE IF s.kind \in Ends THEN Front(open) ELSE open, <<>>, stats)
\* How many variables each open scope holds; a loop has its own.
Scoped(stats) ==
  FoldLeft(LAMBDA counts, s :
             CASE s.kind = "local" -> [counts EXCEPT ![Len(counts)] = @ + 1]
               [] s.kind \in {"for_numeric", "for_"} -> Append(counts, 1)
               [] s.kind \in {"while_", "repeat_"} -> Append(counts, 0)
               [] s.kind \in Ends -> Front(counts)
               [] OTHER -> counts, <<0>>, stats)
Variables(stats) == FoldLeft(LAMBDA a, b : a + b, 0, Scoped(stats))

----------------------------------------------------------------------------
(* Conditions.                                                             *)

\* A condition as the list of its tests and the sets of tests (by number)
\* that make it true.  One that is not well formed has no tests.
Truth(tests, Holds(_)) ==
  [tests |-> tests, sets |-> {t \in SUBSET DOMAIN tests : Holds(t)}]
RECURSIVE Tests(_), HoldsTree(_, _, _), HoldsText(_, _)
Tests(c) == IF c.k \in {"and_", "or_"} THEN Tests(c.a[1]) \o Tests(c.a[2]) ELSE <<c>>
HoldsTree(c, t, from) ==
  LET right == from + Len(Tests(c.a[1]))
  IN  CASE c.k = "and_" -> HoldsTree(c.a[1], t, from) /\ HoldsTree(c.a[2], t, right)
        [] c.k = "or_"  -> HoldsTree(c.a[1], t, from) \/ HoldsTree(c.a[2], t, right)
        [] OTHER -> from \in t
TestText(c) ==
  CASE c.k = "global" -> V("nothing", 0, <<V("global", c.n, <<>>)>>)
    [] c.k = "local"  -> V("nothing", 0, <<V("var", 0, <<>>)>>)
    [] c.k = "eq_"    -> V("eq_", 0, <<V("global", c.n, <<>>), V("kvalue", number, <<>>)>>)
OfSource(c) ==
  LET tests == Tests(c)
  IN  Truth([p \in DOMAIN tests |-> TestText(tests[p])], LAMBDA t : HoldsTree(c, t, 1))

\* The text of a condition: tests (with their numbers), operators and
\* parentheses; "or" binds weaker than "and".
IsTest(e) == e.k \notin {"open", "close"} /\ e.a # <<>>
Depth(s, p) == Cardinality({o \in 1..p : s[o].k = "open"})
                 - Cardinality({o \in 1..p : s[o].k = "close"})
Operator(s, kind) == {p \in DOMAIN s : s[p].k = kind /\ s[p].a = <<>> /\ Depth(s, p) = 0}
HoldsText(s, t) ==
  LET At_(kind) == CHOOSE p \in Operator(s, kind) : \A o \in Operator(s, kind) : p <= o
      L(p) == HoldsText(SubSeq(s, 1, p - 1), t)
      R(p) == HoldsText(SubSeq(s, p + 1, Len(s)), t)
  IN  CASE s = <<>> -> FALSE
        [] s # <<>> /\ Operator(s, "or_") # {} -> L(At_("or_")) \/ R(At_("or_"))
        [] s # <<>> /\ Operator(s, "or_") = {} /\ Operator(s, "and_") # {} ->
             L(At_("and_")) /\ R(At_("and_"))
        [] Len(s) = 1 /\ IsTest(s[1]) -> s[1].n \in t
        [] Len(s) > 2 /\ s[1].k = "open" /\ Last(s).k = "close"
             /\ Operator(s, "or_") \cup Operator(s, "and_") = {} ->
             HoldsText(SubSeq(s, 2, Len(s) - 1), t)
        [] OTHER -> FALSE
OfText(entries) ==
  LET tests == SelectSeq(entries, IsTest)
      Number(p) == Cardinality({o \in 1..p : IsTest(entries[o])})
      numbered == [p \in DOMAIN entries |-> IF IsTest(entries[p])
                                            THEN [entries[p] EXCEPT !.n = Number(p)]
                                            ELSE entries[p]]
  IN  Truth(tests, LAMBDA t : HoldsText(numbered, t))

----------------------------------------------------------------------------
(* The order in which statements are executed, each loop twice.            *)

\* The stack holds what was executed in each open loop so far.
Twice(kinds) ==
  LET Add(stack, s) == [stack EXCEPT ![Len(stack)] = @ \o s]
      Step(stack, p) ==
        LET whole == Append(Last(stack), p)
        IN  CASE kinds[p] \in Loops -> Append(stack, <<p>>)
              [] kinds[p] \in Ends  -> Add(Front(stack), whole \o whole)
              [] OTHER -> Add(stack, <<p>>)
  IN  FoldLeft(Step, << <<>> >>, <<>> \o [p \in DOMAIN kinds |-> p])[1]

\* env holds the scopes that are open, the events so far and how many loops
\* were begun; a variable of a loop has a value that nothing else has.
StartLoops == [scopes |-> << <<>> >>, trace |-> <<>>, begun |-> 0]
Happens(env, kind, a) == [env EXCEPT !.trace = Append(@, V(kind, 0, a))]
Begin(env, scope) == [env EXCEPT !.scopes = Append(@, scope), !.begun = @ + 1]
LoopValue(env) == V("loop", env.begun, <<>>)
Leave(env) == [env EXCEPT !.scopes = Front(@)]

\* A scope of the source is the sequence of its variables.
ExecStat(env, s) ==
  LET depth == Len(env.scopes)
      all   == FlattenSeq(env.scopes)
  IN  CASE s.kind = "set"    -> Happens(env, "set", <<V("int", 7, <<>>)>>)
        [] s.kind = "local"  -> [env EXCEPT !.scopes[depth] = Append(@, V("int", 7, <<>>))]
        [] s.kind = "use"    -> Happens(env, "set", <<Last(all)>>)
        [] s.kind = "assign" ->
             [env EXCEPT !.scopes[1] = <<V("add_", 0, <<Head(@), V("kvalue", number, <<>>)>>)>>
                                         \o Tail(@)]
        [] s.kind = "for_numeric" ->
             Begin(Happens(env, "head",
                           <<V("int", 1, <<>>), V("int", 8, <<>>), V("int", 2, <<>>)>>),
                   <<LoopValue(env)>>)
        [] s.kind = "for_" ->
             Begin(Happens(env, "head", <<V("global", 1, <<>>), V("global", 2, <<>>)>>),
                   <<LoopValue(env)>>)
        [] s.kind \in {"while_", "repeat_"} -> Begin(env, <<>>)
        [] s.kind = "until"  -> Happens(Leave(env), "until", <<OfSource(s.cond)>>)
        [] s.kind = "end_"   -> Leave(env)
        [] OTHER -> env
MeaningOfSource(stats) ==
  LET order == Twice(<<>> \o [p \in DOMAIN stats |-> stats[p].kind])
  IN  FoldLeft(LAMBDA env, p : ExecStat(env, stats[p]), StartLoops, order).trace

\* A scope of the lines maps names to values.
ScopesWith(env, name) == {d \in DOMAIN env.scopes : name \in DOMAIN env.scopes[d]}
Innermost(ds) == CHOOSE d \in ds : \A e \in ds : e <= d
ValueOf(env, e) ==
  CASE e.k # "var" -> e
    [] e.k = "var" /\ ScopesWith(env, e.n) # {} ->
         env.scopes[Innermost(ScopesWith(env, e.n))][e.n]
    [] OTHER -> V("undeclared", 0, <<>>)
\* Of a test, the values that it compares.
ValueIn(env, e) ==
  [ValueOf(env, e) EXCEPT !.a = IF e.k = "var" THEN @
                                ELSE [p \in DOMAIN @ |-> ValueOf(env, @[p])]]
Declared(env, name, val) == [env EXCEPT !.scopes[Len(env.scopes)] = (name :> val) @@ @]
AssignedIn(env, name, val) ==
  LET ds == ScopesWith(env, name)
  IN  IF ds = {} THEN Happens(env, "undeclared", <<>>)
      ELSE [env EXCEPT !.scopes[Innermost(ds)] = (name :> val) @@ @]
ExecLine(env, line) ==
  LET vals == [p \in DOMAIN line.rvalue |-> ValueIn(env, line.rvalue[p])]
      to   == Head(line.lvalue)
  IN  CASE line.what = "local" -> Declared(env, to.n, vals[1])
        [] line.what = "set" /\ to.k = "global" -> Happens(env, "set", vals)
        [] line.what = "set" /\ to.k = "var" -> AssignedIn(env, to.n, vals[1])
        [] line.what = "add_" ->
             AssignedIn(env, to.n, V("add_", 0, <<ValueIn(env, to)>> \o vals))
        [] line.what \in {"for_numeric", "for_"} ->
             Begin(Happens(env, "head", vals), to.n :> LoopValue(env))
        [] line.what \in {"while_", "repeat_"} -> Begin(env, <<>>)
        [] line.what = "until" -> Happens(Leave(env), "until", <<OfText(vals)>>)
        [] line.what = "end_"  -> Leave(env)
        [] OTHER -> env
MeaningOfLines(lines) ==
  LET order == Twice(<<>> \o [p \in DOMAIN lines |-> lines[p].what])
  IN  FoldLeft(LAMBDA env, p : ExecLine(env, lines[p]), StartLoops, order).trace
=============================================================================
