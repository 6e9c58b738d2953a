--------------------------------- MODULE Loops ---------------------------------
(***************************************************************************)
(* From the IL of a function with loops to its lines: set_blocks, the      *)
(* passes of the AST and the IR lifter, over what the Luau compiler makes  *)
(* of nested loops.  The function is built first, one statement of the     *)
(* source for each action; Compiled lays it out as the compiler does, and  *)
(* the lines are compared with the source.                                 *)
(*                                                                         *)
(* Of the passes those are left out that do nothing where there is no call *)
(* and no function inside, and those whose marks the lifter does not read. *)
(***************************************************************************)
EXTENDS AstLoops, LoopMeaning

CONSTANTS
  MaxSize,  \* size of a function
  Traps     \* what the functions have that is known to be lifted wrong
ASSUME LoopsAssumption ==
  /\ MaxSize \in Nat
  /\ Traps \subseteq {"break_in_for", "return_in_loop", "empty_body", "forever", "while_two",
                      "mixed", "compare_inside", "local_condition", "break_first", "while_first",
                      "unused_local"}

VARIABLES
  phase,   \* "build", then "lift"
  source,  \* the statements of the function
  size     \* what they weigh
vars == <<phase, source, size, lvars>>

----------------------------------------------------------------------------
(* The code of a function.                                                 *)

I(op, ops) == [op |-> op, ops |-> ops]
\* What a condition becomes: code that falls through or jumps to skip, when
\* it is true or (truth = FALSE) when it is not.
RECURSIVE Length(_), Cond(_, _, _, _, _)
Length(c) == CASE c.k \in {"and_", "or_"} -> Length(c.a[1]) + Length(c.a[2])
               [] c.k \in {"global", "eq_"} -> 3
               [] c.k = "local" -> 2
               [] c.k = "true" -> 0
Cond(c, from, truth, skip, r) ==
  LET right == from + Length(c.a[1])
      after == from + Length(c)
      jump  == I(IF truth THEN "OP_JUMPIF" ELSE "OP_JUMPIFNOT", <<skip>>)
  IN  CASE c.k \in {"and_", "or_"} /\ truth = (c.k = "and_") ->
             Cond(c.a[1], from, ~truth, after, r) \o Cond(c.a[2], right, truth, skip, r)
        [] c.k \in {"and_", "or_"} /\ truth # (c.k = "and_") ->
             Cond(c.a[1], from, truth, skip, r) \o Cond(c.a[2], right, truth, skip, r)
        [] c.k = "global" -> <<I("OP_LOADGLOBAL", <<r, c.n>>), I("OP_CMPS", <<r>>), jump>>
        [] c.k = "local"  -> <<I("OP_CMPS", <<0>>), jump>>
        [] c.k = "eq_"    -> <<I("OP_LOADGLOBAL", <<r, c.n>>), I("OP_CMPK", <<r, number>>),
                               I(IF truth THEN "OP_JUMPIFEQUAL" ELSE "OP_JUMPIFNOTEQUAL",
                                 <<skip>>)>>
        [] c.k = "true"   -> <<>>

\* free is the first register that is free, frames the loops around with the
\* places of the jumps that leave them.  A jump holds the address it leads
\* to until the end.
Patched(code, places, to) ==
  [p \in DOMAIN code |-> IF p \in places
                         THEN [code[p] EXCEPT !.ops[Len(code[p].ops)] = to] ELSE code[p]]
Emit(c, chunk) == [c EXCEPT !.code = @ \o chunk]
Open(c, kind, chunk, take, exits) ==
  LET code == c.code \o chunk
  IN  [c EXCEPT !.code = code, !.free = @ + take, !.locals = Append(@, <<>>),
                !.frames = Append(@, [kind |-> kind, from |-> Len(c.code), start |-> Len(code),
                                      base |-> c.free, exits |-> exits])]
Close(c, chunk) ==
  LET loop == Last(c.frames)
      code == c.code \o chunk
  IN  [c EXCEPT !.code = Patched(code, loop.exits, Len(code)), !.frames = Front(@),
                !.free = loop.base, !.locals = Front(@)]
Named(c, reg) == [c EXCEPT !.locals[Len(c.locals)] = Append(@, reg)]
AllLocals(c) == FlattenSeq(c.locals)

CompileStat(c, s) ==
  LET n    == Len(c.code)
      free == c.free
      loop == Last(c.frames)
  IN  CASE s.kind = "set"    -> Emit(c, <<I("OP_LOADINT", <<free, 7>>),
                                          I("OP_SETGLOBAL", <<free, g>>)>>)
        [] s.kind = "use"    -> Emit(c, <<I("OP_SETGLOBAL", <<Last(AllLocals(c)), g>>)>>)
        [] s.kind = "assign" -> Emit(c, <<I("OP_ADDK", <<AllLocals(c)[1], AllLocals(c)[1],
                                                         number>>)>>)
        [] s.kind = "local"  -> [Named(Emit(c, <<I("OP_LOADINT", <<free, 7>>)>>), free) EXCEPT
                                   !.free = @ + 1]
        [] s.kind = "return_" -> Emit(c, <<I("OP_RETURN", <<0, 0>>)>>)
        [] s.kind = "break_" ->
             [Emit(c, <<I("OP_JUMP", <<0>>)>>) EXCEPT
                !.frames[Len(c.frames)].exits = @ \cup {n + 1}]
        [] s.kind = "for_numeric" ->
             Named(Open(c, s.kind,
                        <<I("OP_LOADINT", <<free + 2, 1>>), I("OP_LOADINT", <<free, 8>>),
                          I("OP_LOADINT", <<free + 1, 2>>), I("OP_INITFORLOOPN", <<0>>)>>,
                        3, {n + 4}), free + 2)
        [] s.kind = "for_" ->
             Named(Open(c, s.kind,
                        <<I("OP_LOADGLOBAL", <<free, 1>>), I("OP_LOADGLOBAL", <<free + 1, 2>>),
                          I("OP_LOADNONE", <<free + 2>>), I("OP_INITFORLOOPG", <<0>>)>>,
                        4, {}), free + 3)
        [] s.kind = "while_" ->
             LET chunk == Cond(s.cond, n, FALSE, -1, free)
             IN  Open(c, s.kind, chunk, 0,
                      {n + p : p \in {p \in DOMAIN chunk : chunk[p].ops = <<-1>>}})
        [] s.kind = "repeat_" -> Open(c, s.kind, <<>>, 0, {})
        [] s.kind = "end_" /\ loop.kind = "for_numeric" ->
             Close(c, <<I("OP_FORLOOPN", <<loop.base + 2, loop.base, loop.base + 1, loop.start>>)>>)
        [] s.kind = "end_" /\ loop.kind = "for_" ->
             LET closed == Close(c, <<I("OP_FORLOOPG", <<loop.base, 1, loop.start>>)>>)
             IN  [closed EXCEPT !.code = Patched(@, {loop.start}, n)]
        [] s.kind = "end_" /\ loop.kind = "while_" -> Close(c, <<I("OP_JUMPBACK", <<loop.from>>)>>)
        [] s.kind = "until"  ->
             Close(c, Append(Cond(s.cond, n, TRUE, n + Length(s.cond) + 1, free),
                             I("OP_JUMPBACK", <<loop.from>>)))

\* The jumps are by distance.
Compiled(stats) ==
  LET code == FoldLeft(CompileStat, [code |-> <<>>, frames |-> <<[exits |-> {}]>>, free |-> 0,
                                     locals |-> << <<>> >>], stats).code
                \o <<I("OP_RETURN", <<0, 0>>)>>
  IN  Each(Nodes(code), LAMBDA i : IF ~has_operand_kind(i, "jmpaddr") THEN i
                                   ELSE [i EXCEPT !.ops[Len(i.ops)] = @ - i.address])

----------------------------------------------------------------------------
(* Building the function.                                                  *)

Behind(kinds) == source # <<>> /\ Last(source).kind \in kinds
Statement(s, weight) ==
  /\ phase = "build"
  /\ ~Behind({"break_", "return_"}) \/ s.kind \in Ends
  /\ "unused_local" \in Traps \/ ~Behind({"local"}) \/ s.kind = "use"
  /\ source' = Append(source, s)
  /\ size' = size + weight
  /\ size' <= MaxSize
  /\ UNCHANGED <<phase, lvars>>

Set == Statement(S("set", Nothing), 1)
\* A local that nothing uses takes its register for the next condition.
DeclareLocal == Statement(S("local", Nothing), 1)
UseLocal == Variables(source) > 0 /\ Statement(S("use", Nothing), 1)
AssignLocal == Scoped(source)[1] > 0 /\ Statement(S("assign", Nothing), 1)
OpenFor == \E kind \in {"for_numeric", "for_"} : Statement(S(kind, Nothing), 2)
\* Is the next code right behind the condition of a while?
BehindCondition ==
  \E p \in DOMAIN source : /\ source[p].kind = "while_"
                           /\ \A q \in (p + 1)..Len(source) : source[q].kind = "repeat_"
OpenWhile ==
  /\ "while_first" \in Traps \/ ~BehindCondition
  /\ \E c \in {Test(1)} \cup (IF "while_two" \in Traps THEN {And(Test(1), Test(2))} ELSE {})
               \cup (IF "forever" \in Traps THEN {Forever} ELSE {}) :
       Statement(S("while_", c), 2)
OpenRepeat == Statement(S("repeat_", Nothing), 2)
Open_(kinds) == OpenLoops(source) # <<>> /\ Last(OpenLoops(source)) \in kinds
CloseLoop ==
  /\ Open_({"for_numeric", "for_", "while_"})
  /\ "empty_body" \in Traps \/ ~Behind(Loops)
  /\ Statement(S("end_", Nothing), 0)
Conditions ==
  {Test(1), Equals, And(Test(1), Test(2)), Or(Test(1), Test(2))}
    \cup (IF "mixed" \in Traps
          THEN {And(Test(1), Or(Test(2), Test(3))), Or(And(Test(1), Test(2)), Test(3)),
                And(Or(Test(1), Test(2)), Test(3)), Or(Test(1), And(Test(2), Test(3))),
                And(And(Test(1), Test(2)), Test(3)), Or(Or(Test(1), Test(2)), Test(3))} ELSE {})
    \cup (IF "compare_inside" \in Traps THEN {And(Equals, Test(2))} ELSE {})
    \cup (IF "local_condition" \in Traps /\ Scoped(source)[1] > 0 THEN {Local} ELSE {})
CloseRepeat ==
  /\ Open_({"repeat_"})
  /\ "empty_body" \in Traps \/ ~Behind(Loops)
  /\ \E c \in Conditions : Statement(S("until", c), 0)
BreakOut ==
  /\ Open_(Loops)
  /\ "break_in_for" \in Traps \/ Open_({"while_", "repeat_"})
  /\ "break_first" \in Traps \/ ~Behind({"repeat_"})
  /\ Statement(S("break_", Nothing), 1)
ReturnEarly ==
  /\ Open_(Loops)
  /\ \/ "return_in_loop" \in Traps
     \/ "while_" \in Range(OpenLoops(source)) /\ "repeat_" \notin Range(OpenLoops(source))
  /\ Statement(S("return_", Nothing), 1)

\* The passes in their order.
Analyzed(all) ==
  sort_loops(set_lv(set_loop_startend_routines(set_branch_safety_analyzer(set_for_routines(
    set_returns(set_exit_exprs(visit_all(all)))))), 0))

gen_ast ==
  /\ phase = "build" /\ OpenLoops(source) = <<>> /\ ~Behind({"local"})
  /\ phase' = "lift"
  /\ nodes' = Analyzed(Compiled(source))
  /\ lifter' = Lifter(0)
  /\ at' = 0
  /\ UNCHANGED <<source, size>>

Lift ==
  /\ phase = "lift"
  /\ \/ LiftLoad \/ LiftGlobal \/ LiftArith \/ LiftReturn \/ LiftCompare \/ LiftJumpIf
     \/ LiftNothing
  /\ UNCHANGED <<phase, source, size>>

Init ==
  /\ phase = "build" /\ source = <<>> /\ size = 0
  /\ nodes = <<>> /\ lifter = Lifter(0) /\ at = 0
Next ==
  \/ Set \/ DeclareLocal \/ UseLocal \/ AssignLocal \/ OpenFor \/ OpenWhile \/ OpenRepeat
  \/ CloseLoop \/ CloseRepeat \/ BreakOut \/ ReturnEarly \/ gen_ast \/ Lift
Spec == Init /\ [][Next]_vars

Done == phase = "lift" /\ at = Len(nodes)

----------------------------------------------------------------------------
(* Properties.                                                             *)

(* Control flow of the code: where a node leads to.                        *)
Leads(node, last) ==
  (IF has_operand_kind(node, "jmpaddr") THEN {Target(node)} ELSE {})
    \cup (IF Kind(node) \in {"branch", "return_"} \/ node.address = last THEN {}
          ELSE {node.address + 1})
Reachable(code) ==
  LET last == Len(code) - 1
      upto[n \in 0..Len(code)] ==
        IF n = 0 THEN {0}
        ELSE LET known == upto[n - 1]
             IN  known \cup UNION {Leads(code[addr + 1], last) : addr \in known}
  IN  upto[Len(code)]

\* set_blocks and visit_all: the passes and the lifter see every instruction
\* that control can reach, although a block is only cut behind a branch, a
\* jump into the middle of one is followed into nothing, and blocks are
\* linked by looking them up in a map that is still being filled.
EveryLiveVisited ==
  phase = "lift" /\ at = 0 =>
    LET visited == {nodes[p].address : p \in DOMAIN nodes}
    IN  Reachable(Compiled(source)) \subseteq visited

\* The statements that make the shape of a function, in their order.
Shape == Loops \cup Ends \cup {"break_", "return_"}
ShapeOf(kinds) == SelectSeq(kinds, LAMBDA k : k \in Shape)
SameShape == ShapeOf([l \in DOMAIN lifter.lines |-> lifter.lines[l].what])
               = ShapeOf([p \in DOMAIN source |-> source[p].kind])
\* The loops come back as they were nested, with their kinds, their breaks
\* and their returns, although all that is left of them in the code are
\* jumps (set_for_routines, set_loop_startend_routines, sort_loops): loops
\* that start at one instruction are opened from the outermost inwards, an
\* until and a break are not taken for each other.
LoopsRecovered == Done => SameShape

\* What a function does is done by its lines: in every round the same values
\* are written to globals, the same variables are read and changed, and an
\* until ends the loop in the same cases, whatever operators and negations
\* the compiler made of its condition (process_nested, JUMPIF of the lifter).
LoopsMeaningKept == Done /\ SameShape => MeaningOfLines(lifter.lines) = MeaningOfSource(source)

\* lifter.cpp:733 says of stat_while "Has compare **Compile compare too get
\* emitted**": a while is written with the comparison that it was left by.
WhileConditionKept ==
  \A l \in DOMAIN lifter.lines : lifter.lines[l].what = "while_" => lifter.lines[l].rvalue # <<>>
=============================================================================
