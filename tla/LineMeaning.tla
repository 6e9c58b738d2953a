----------------------------- MODULE LineMeaning -----------------------------
(***************************************************************************)
(* What a function without jumps does, and what the lines it is decompiled *)
(* to do: the reference that the AST passes and the IR lifter are checked  *)
(* against.  Both are executed symbolically.  What can be observed is the  *)
(* trace of calls, of writes to globals and to members and of the return;  *)
(* the value of a global or a member is known by the number of events that *)
(* were before it was read, since any of them may have changed it.         *)
(* Operators have no effect on their own (no metamethods).                 *)
(***************************************************************************)
EXTENDS IRLifter

SumInts(s) == FoldLeft(LAMBDA a, b : a + b, 0, s)

CONSTANT Functions  \* the globals that hold functions and are never written

Event(env, kind, n, a) == [env EXCEPT !.trace = Append(@, V(kind, n, a))]
Now(env) == Len(env.trace)
Global(env, k) == V("global", k, <<V("at", IF k \in Functions THEN 0 ELSE Now(env), <<>>)>>)
Member(env, t, index) == V("idx", Now(env), <<t, index>>)
SetReg(env, r, v) == [env EXCEPT !.regs = (r :> v) @@ @]
\* A new table is known by how many were made before.
Made(env, r) == [SetReg(env, r, V("table", env.tables, <<>>)) EXCEPT !.tables = @ + 1]

----------------------------------------------------------------------------
(* Instructions: env has the registers, what was compared and the trace.   *)

ExecTable(env, i) ==
  CASE i.op = "OP_NEWTABLE"  -> Made(env, i.ops[1])
    [] i.op = "OP_SETLIST"   ->
         SetReg(env, i.ops[1], [env.regs[i.ops[1]] EXCEPT
                                  !.a = [j \in 1..i.ops[3] |-> env.regs[i.ops[2] + j - 1]]])
    [] i.op = "OP_GETTABLEK" -> SetReg(env, i.ops[1],
                                       Member(env, env.regs[i.ops[2]], V("kvalue", i.ops[3], <<>>)))
    [] i.op = "OP_GETTABLEN" -> SetReg(env, i.ops[1],
                                       Member(env, env.regs[i.ops[2]], V("int", i.ops[3], <<>>)))
    [] i.op = "OP_GETTABLE"  -> SetReg(env, i.ops[1],
                                       Member(env, env.regs[i.ops[2]], env.regs[i.ops[3]]))
    [] i.op \in {"OP_SETTABLEK", "OP_SETTABLEN", "OP_SETTABLE"} ->
         Event(env, "set", 0,
               <<env.regs[i.ops[2]],
                 CASE i.op = "OP_SETTABLEK" -> V("kvalue", i.ops[3], <<>>)
                   [] i.op = "OP_SETTABLEN" -> V("int", i.ops[3], <<>>)
                   [] i.op = "OP_SETTABLE"  -> env.regs[i.ops[3]],
                 env.regs[i.ops[1]]>>)

ExecCall(env, i) ==
  LET args == [j \in 1..i.ops[2] |-> env.regs[i.ops[1] + j]]
      done == Event(env, "call", 0, <<env.regs[i.ops[1]]>> \o args)
      Result(j) == V("result", Now(done), <<V("int", j, <<>>)>>)
  IN  FoldLeft(LAMBDA acc, j : SetReg(acc, i.ops[1] + j - 1, Result(j)),
               done, [j \in 1..i.ops[3] |-> j])

Exec(env, i) ==
  CASE i.op \in {"OP_LOADINT", "OP_LOADBOOL", "OP_LOADNONE", "OP_LOADKVAL"} ->
         SetReg(env, i.ops[1], Loaded(i))
    [] i.op = "OP_LOADGLOBAL" -> SetReg(env, i.ops[1], Global(env, i.ops[2]))
    [] i.op = "OP_MOVE"       -> SetReg(env, i.ops[1], env.regs[i.ops[2]])
    [] i.op = "OP_SETGLOBAL"  -> Event(env, "set", i.ops[2], <<env.regs[i.ops[1]]>>)
    [] i.op \in Ariths  ->
         SetReg(env, i.ops[1], V(i.bin_kind, 0, <<env.regs[i.ops[2]], env.regs[i.ops[3]]>>))
    [] i.op \in ArithKs ->
         SetReg(env, i.ops[1],
                V(i.bin_kind, 0, <<env.regs[i.ops[2]], V("kvalue", i.ops[3], <<>>)>>))
    [] i.op \in Unaries -> SetReg(env, i.ops[1], V(i.bin_kind, 0, <<env.regs[i.ops[2]]>>))
    [] i.op = "OP_CONCAT"  ->
         SetReg(env, i.ops[1], V("concat", 0, [j \in 1..(i.ops[3] - i.ops[2] + 1) |->
                                                 env.regs[i.ops[2] + j - 1]]))
    [] i.op \in CompareOps -> [env EXCEPT !.cmp = Compared([regs |-> <<[r \in DOMAIN env.regs |->
                                            [FreshReg EXCEPT !.data = env.regs[r]]]>>], i)]
    [] i.op \in SetIfs     -> SetReg(env, i.ops[1], V(i.bin_kind, 0, env.cmp))
    [] i.op = "OP_SELF"    -> SetReg(SetReg(env, i.ops[1] + 1, env.regs[i.ops[2]]), i.ops[1],
                                     V("self", i.ops[3], <<env.regs[i.ops[2]]>>))
    [] i.op = "OP_CCALL"   -> ExecCall(env, i)
    [] i.op = "OP_RETURN"  ->
         [(IF i.ops[2] = 0 THEN env
           ELSE Event(env, "return", 0, [j \in 1..i.ops[2] |-> env.regs[i.ops[1] + j - 1]]))
            EXCEPT !.over = TRUE]
    [] i.op = "OP_GETVARARGS" -> SetReg(env, i.ops[1], V("vararg", 0, <<>>))
    [] i.op \in {"OP_NEWTABLE", "OP_SETLIST", "OP_GETTABLEK", "OP_GETTABLEN", "OP_GETTABLE",
                 "OP_SETTABLEK", "OP_SETTABLEN", "OP_SETTABLE"} -> ExecTable(env, i)
    [] OTHER -> env

Start == [regs |-> << >>, cmp |-> <<>>, trace |-> <<>>, tables |-> 0, over |-> FALSE]
Meaning(code) ==
  FoldLeft(LAMBDA env, i : IF env.over THEN env ELSE Exec(env, i), Start, code).trace

----------------------------------------------------------------------------
(* Lines: env has the variables in place of the registers.  Eval returns   *)
(* the value of an expression and the events of evaluating it.             *)

Operators == {p[2] : p \in Kinded} \cup {"concat", "nothing"}

RECURSIVE Eval(_, _), EvalAll(_, _)
Eval(env, e) ==
  LET parts == EvalAll(env, e.a)
      \* The text of a table is a beginning, the members and an end.
      made  == EvalAll([env EXCEPT !.tables = @ + 1],
                       IF Len(e.a) > 2 THEN SubSeq(e.a, 2, Len(e.a) - 1) ELSE <<>>)
      then  == parts.env
      vals  == parts.vals
      \* The parameter that a method passes by itself is written nowhere.
      self  == IF vals # <<>> /\ vals[1].k = "self" THEN vals[1].a ELSE <<>>
      call  == Event(then, "call", 0, <<vals[1]>> \o self \o Tail(vals))
  IN  CASE e.k = "var" -> [env |-> env, val |-> IF e.n \in DOMAIN env.regs THEN env.regs[e.n]
                                                ELSE V("undeclared", 0, <<>>)]
        [] e.k = "global" -> [env |-> env, val |-> Global(env, e.n)]
        [] e.k = "idx"    -> [env |-> then, val |-> Member(then, vals[1], vals[2])]
        [] e.k = "self"   -> [env |-> then, val |-> V("self", e.n, vals)]
        [] e.k = "call"   -> [env |-> call, val |-> V("result", Now(call), <<V("int", 1, <<>>)>>)]
        [] e.k = "table"  -> [env |-> made.env, val |-> V("table", env.tables, made.vals)]
        [] e.k \in Operators -> [env |-> then, val |-> V(e.k, 0, vals)]
        [] OTHER -> [env |-> env, val |-> e]
EvalAll(env, s) ==
  FoldLeft(LAMBDA acc, e : LET one == Eval(acc.env, e)
                           IN  [env |-> one.env, vals |-> Append(acc.vals, one.val)],
           [env |-> env, vals |-> <<>>], s)

Assigned(env, target, val) ==
  CASE target.k = "var"    -> SetReg(env, target.n, val)
    [] target.k = "global" -> Event(env, "set", target.n, <<val>>)
    [] target.k = "idx"    -> Event(env, "set", 0, target.a \o <<val>>)
\* The parts of a target are evaluated before what is assigned to it.
TargetOf(env, target) ==
  IF target.k # "idx" THEN [env |-> env, target |-> target]
  ELSE LET parts == EvalAll(env, target.a)
       IN  [env |-> parts.env, target |-> V("idx", 0, parts.vals)]
Run(env, line) ==
  CASE line.what = "local" ->
         LET one == Eval(env, line.rvalue[1]) IN SetReg(one.env, line.lvalue[1].n, one.val)
    [] line.what = "set" ->
         LET to  == TargetOf(env, line.lvalue[1])
             one == Eval(to.env, line.rvalue[1])
         IN  Assigned(one.env, to.target, one.val)
    [] line.what = "call" -> Eval(env, line.rvalue[1]).env
    [] line.what = "return_" ->
         LET all == EvalAll(env, line.rvalue) IN Event(all.env, "return", 0, all.vals)
    [] line.what \in Operators ->
         LET two == EvalAll(env, line.lvalue \o line.rvalue)
         IN  Assigned(two.env, line.lvalue[1], V(line.what, 0, two.vals))
LinesMeaning(lines) == FoldLeft(Run, Start, lines).trace

RECURSIVE Calls(_)
\* The calls written in an expression.
Calls(e) == SumInts([p \in DOMAIN e.a |-> Calls(e.a[p])]) + (IF e.k = "call" THEN 1 ELSE 0)
CallsOf(lines) ==
  SumInts([l \in DOMAIN lines |-> SumInts([p \in DOMAIN lines[l].rvalue |->
                                             Calls(lines[l].rvalue[p])])
                                  + SumInts([p \in DOMAIN lines[l].lvalue |->
                                               Calls(lines[l].lvalue[p])])])
=============================================================================
