------------------------------- MODULE AstLoops -------------------------------
(***************************************************************************)
(* The passes over the AST that find loops and what their conditions are   *)
(* made of (transformers/loops.cpp and branches.cpp).  A loop of the       *)
(* source is left in the nodes as elements: on its first node one that     *)
(* opens a scope, on its last one that closes it, on the conditional jumps *)
(* of a condition the operators and parentheses between them.              *)
(*                                                                         *)
(* Left out: the marks that nothing reads (stat_for_prep,                  *)
(* condition_concat_member, conditional_break, desc_conditional_jumpout,   *)
(* desc_conditional_routine, branches.opposite), and the search for values *)
(* that a while compares, which looks for compare operands at conditional  *)
(* jumps, where the lexer gives none.                                      *)
(***************************************************************************)
EXTENDS AstRoutines

AddAt(all, addr, type) == [all EXCEPT ![At(all, addr)] = add_elem(@, type)]
AddFrontAt(all, addr, type) == [all EXCEPT ![At(all, addr)] = add_elem_front(@, type)]

----------------------------------------------------------------------------
(* set_for_routines.                                                       *)

\* What the first node of a loop knows of the last, and the registers that
\* are the loop's.
Linked(node, forloop, start_reg, end_reg) ==
  [node EXCEPT !.loop_op = [op |-> forloop.op, ops |-> forloop.ops, lex |-> forloop.lex],
               !.loop_regs = start_reg..end_reg, !.loop_end = end_reg]

ForGeneric(all, forloop) ==
  LET start  == Target(forloop)
      reg    == First(forloop, "source")
      iv     == all[At(all, start)].op = "OP_INITFORLOOPSPECIAL"
      opened == AddAt(all, start, IF iv THEN "stat_for_iv_start" ELSE "stat_for_start")
      closed == AddAt(AddAt(opened, forloop.address, IF iv THEN "stat_for_iv_end"
                                                     ELSE "stat_for_end"),
                      forloop.address, "stat_scope_end")
  IN  [closed EXCEPT ![At(all, start)] = Linked(@, forloop, reg, reg + 4)]
\* The last register of a loop over numbers is the first and the number of
\* its value operands, of which it has none.
ForNumeric(all, forloop) ==
  LET start  == Target(forloop)
      reg    == First(forloop, "source")
      opened == AddAt(all, start, "stat_for_n_start")
      closed == AddAt(AddAt(opened, forloop.address, "stat_scope_end"),
                      forloop.address, "stat_for_n_end")
  IN  [closed EXCEPT ![At(all, start)] =
         Linked(@, forloop, reg, reg + Len(operand_kind(forloop, "value")))]
set_for_routines(all) ==
  FoldLeft(ForNumeric, FoldLeft(ForGeneric, all, visit_inst(all, "OP_FORLOOPG")),
           visit_inst(all, "OP_FORLOOPN"))

----------------------------------------------------------------------------
(* set_branch_safety_analyzer: where the computation of each conditional   *)
(* jump's operands starts.  The walk looks for what writes the operands of *)
(* the next comparison, in the order of all comparisons.                   *)

\* The operands of the comparison with a number, as a set.
TargetsOf(compares, idx) == Range(operand_kind(compares[idx], "compare"))

\* A write to an operand starts the computation; a second one before a read
\* starts it again from nothing.
Written(w, node) ==
  LET dest == First(node, "dest")
  IN  IF w.routine # 0 \/ ~has_operand_kind(node, "dest") THEN w
      ELSE IF dest \notin w.targets THEN w
      ELSE IF dest \in w.used THEN [w EXCEPT !.used = {}, !.start = -1, !.over = TRUE]
      ELSE [w EXCEPT !.used = @ \cup {dest},
                     !.start = IF @ = -1 THEN node.address ELSE @]
Safety(compares, w, node) ==
  LET regs    == Range(Operands(node, {"source", "reg"}))
      read    == [w EXCEPT !.used = @ \ regs, !.over = FALSE,
                           !.start = IF w.targets \cap regs # {} THEN -1 ELSE @]
      written == Written([read EXCEPT !.routine = @ + RoutineStep(node)], node)
      start   == IF written.start = -1 THEN node.address ELSE written.start
      marked  == AddAt(AddAt(written.all, start, "desc_conditional_routine_start"),
                       node.address, "desc_conditional_routine_end")
  IN  IF written.over \/ Kind(node) # "branch_condition" THEN written
      ELSE IF w.idx > Len(compares) THEN [written EXCEPT !.all = marked, !.start = start]
      ELSE [written EXCEPT !.all = marked, !.start = -1, !.used = {}, !.idx = @ + 1,
                           !.targets = TargetsOf(compares, w.idx)]
set_branch_safety_analyzer(all) ==
  LET compares == visit_inst_kinds(all, "compare")
  IN  IF compares = <<>> THEN all
      ELSE FoldLeft(LAMBDA w, node : Safety(compares, w, node),
                    [ all |-> all, idx |-> 2, targets |-> TargetsOf(compares, 1),
                      used |-> {}, start |-> -1, routine |-> 0, over |-> FALSE ], all).all

----------------------------------------------------------------------------
(* process_nested_logical_conditions, as the loops call it: from the first *)
(* node of a condition to its last, with the addresses behind the          *)
(* condition (dead).                                                       *)

\* c.scopes holds the targets of the jumps that are pending and whether a
\* parenthesis was opened for them, c.seen the targets so far.
CloseOpen(node, c) ==
  IF c.scopes # <<>> /\ Last(c.scopes)[2] THEN add_elem(node, "condition_end_scope") ELSE node
NestedStep(c, node, end, dead, last) ==
  LET to      == Target(node)
      again   == to \in c.seen
      scopes  == IF c.scopes = <<>> THEN << <<to, FALSE>> >> ELSE c.scopes
      open    == [c EXCEPT !.scopes = scopes]
      top     == Last(scopes)
      pending == \E s \in Range(scopes) : s[1] = to
      Done(mark, left) == [c EXCEPT !.node = mark, !.scopes = left]
      \* The jump leaves the condition as a whole.
      Out     == LET closed == CloseOpen(node, c)
                 IN  Done(IF last THEN closed
                          ELSE replace_next(add_elem(closed, "condition_or"),
                                            "condition_or", "condition_and"), c.scopes)
      \* It leads behind what is dead.
      Over    == Done(IF last THEN CloseOpen(node, open) ELSE add_elem(node, "condition_or"),
                      scopes)
      \* What is pending ends here.
      Ends    == LET closed == CloseOpen(node, open)
                     left   == Front(scopes)
                 IN  Done(IF left = <<>> THEN closed
                          ELSE add_elem(closed, IF again THEN "condition_or"
                                                ELSE "condition_and"), left)
      \* It leads into the condition, to before the end of what is pending.
      Nested  == Done(add_elem(IF has_elem(node, "condition_or")
                               THEN replace_next(node, "condition_or", "condition_and")
                               ELSE add_elem(node, "condition_and"),
                               "condition_start_scope"),
                      Append(scopes, <<to, TRUE>>))
      Inside  == Done(add_elem(node, IF to \in {end, end + 1} \/ (top[1] # to /\ pending)
                                     THEN "condition_or" ELSE "condition_and"), scopes)
  IN  IF to \in dead THEN Out
      ELSE IF \A d \in dead : to > d THEN Over
      ELSE IF top[1] = node.address + 1 THEN Ends
      ELSE IF top[1] > to THEN Nested
      ELSE Inside

process_nested_logical_conditions(all, begin, end, dead) ==
  LET conditions == visit_range_type_current(all, begin, end, "branch_condition")
      last == Last(conditions).address
      Step(c, node) ==
        LET done == NestedStep([c EXCEPT !.node = node], node, end, dead, node.address = last)
        IN  IF ~IsBranch(node) THEN c
            ELSE [done EXCEPT !.all[At(all, node.address)] = done.node,
                              !.seen = @ \cup {Target(node)}]
  IN  FoldLeft(Step, [all |-> all, scopes |-> <<>>, seen |-> {}, node |-> nullptr],
               visit_range_current(all, begin, end)).all

----------------------------------------------------------------------------
(* set_loop_startend_routines.                                             *)

\* A jump back that follows a conditional jump ends a repeat, any other a
\* while; so does a conditional jump that leads back.
MarkEnds(all) ==
  LET Ended(acc, back) ==
        IF Kind(visit_previous_addr(all, back.address)) = "branch_condition"
        THEN AddAt(acc, back.address, "stat_repeat_end")
        ELSE AddAt(AddAt(acc, back.address, "stat_scope_end"), back.address, "stat_while_end")
      Back(acc, cond) ==
        IF jmp(cond) < 0 THEN AddAt(acc, cond.address, "stat_repeat_end") ELSE acc
  IN  FoldLeft(Back, FoldLeft(Ended, all, visit_inst(all, "OP_JUMPBACK")),
               visit_inst_kinds(all, "branch_condition"))

\* A loop that has no condition is written as a repeat.
Unconditional(all, start, back) ==
  AddFrontAt(AddAt(all, start, "stat_repeat"), back.address, "condition_true")
\* A mutant: the jump back belongs to the condition.
ConditionBehind(all, cond, dead) ==
  process_nested_logical_conditions(
    AddAt(AddAt(all, cond[1].address, "condition_concat_start"),
          cond[2].address, "condition_concat_end"),
    cond[1].address, cond[2].address, {d + 1 : d \in dead})
Condition(all, cond, dead) ==
  process_nested_logical_conditions(
    AddAt(AddAt(all, cond[1].address, "condition_concat_start"),
          cond[2].address, "condition_concat_end"),
    cond[1].address, cond[2].address, dead)

\* The condition of a repeat is the last in it, the one of a while the
\* first; it is one only if it leaves the loop.
RepeatLoop(all, start, back, conds) ==
  LET opened == AddAt(all, start, "stat_repeat")
      cond   == Last(conds)
  IN  IF conds = <<>> THEN Unconditional(all, start, back)
      ELSE IF Target(cond[2]) <= back.address
      THEN AddFrontAt(opened, back.address, "condition_true")
      ELSE IF has_elem(opened[At(all, cond[1].address)], "condition_concat_start") THEN opened
      ELSE Condition(opened, cond, {back.address})
WhileLoop(all, start, back, conds) ==
  LET cond == Head(conds)
  IN  IF conds = <<>> \/ Target(cond[2]) <= back.address THEN Unconditional(all, start, back)
      ELSE process_nested_logical_conditions(
             AddAt(AddAt(AddAt(all, cond[1].address, "condition_concat_start"),
                         cond[2].address, "condition_concat_end"),
                   cond[2].address, "stat_while"),
             cond[1].address, cond[2].address, {back.address, back.address + 1})

\* A jump out of a loop is a break.
MarkBreaks(all, start, back) ==
  Each(all, LAMBDA i : IF /\ Kind(i) = "branch" /\ start <= i.address /\ i.address <= back.address
                          /\ Target(i) > back.address
                       THEN add_safe(i, "stat_loop_break") ELSE i)

LoopStartEnd(all, addr) ==
  LET back  == visit_addr(all, addr)
      start == Target(back)
      conds == visit_expr_routine_range_touching(all, "desc_conditional_routine_start",
                                                 "desc_conditional_routine_end", start, addr)
  IN  MarkBreaks(IF has_elem(back, "stat_repeat_end") THEN RepeatLoop(all, start, back, conds)
                 ELSE WhileLoop(all, start, back, conds), start, back)

set_loop_startend_routines(all) ==
  LET ended == MarkEnds(all)
      backs == visit_inst(all, "OP_JUMPBACK")
                 \o Where(all, LAMBDA i : Kind(i) = "branch_condition" /\ jmp(i) < 0)
  IN  FoldLeft(LoopStartEnd, ended, [b \in DOMAIN backs |-> backs[b].address])

----------------------------------------------------------------------------
(* sort_loops: where several loops start at one node, the outermost is the *)
(* one that jumps back from the farthest.                                  *)

Pairs == << <<"stat_while_end", "stat_while">>, <<"stat_repeat_end", "stat_repeat">>,
            <<"stat_for_end", "stat_for_start">>, <<"stat_for_n_end", "stat_for_n_start">>,
            <<"stat_for_iv_end", "stat_for_iv_start">> >>
\* The element that opens what a node closes; a place holder is appended
\* where the node has none.
Reopen(acc, label) ==
  LET pairs == SelectSeq(Pairs, LAMBDA p : has_elem(label, p[1]))
      type  == pairs[1][2]
  IN  IF pairs = <<>> THEN acc
      ELSE [ node  |-> remove_elem(acc.node, type),
             exprs |-> Append(acc.exprs, IF has_elem(acc.node, type) THEN type ELSE "lex") ]
\* A mutant: the jumps stay in their order.
SortLabelForward(node, gotos) ==
  LET done == FoldLeft(Reopen, [node |-> node, exprs |-> <<>>], gotos)
  IN  FoldLeft(add_elem, done.node, done.exprs)
SortLabel(node, gotos) ==
  LET done == FoldLeft(Reopen, [node |-> node, exprs |-> <<>>], Reverse(gotos))
  IN  FoldLeft(add_elem, done.node, done.exprs)

sort_loops(all) ==
  LET labels == visit_all_goto(all)
  IN  IF Cardinality(DOMAIN labels) = 1 THEN all
      ELSE Each(all, LAMBDA i : IF i.address \in DOMAIN labels
                                THEN SortLabel(i, labels[i.address]) ELSE i)
=============================================================================
