------------------------------- MODULE LocVars -------------------------------
(***************************************************************************)
(* Which registers become local variables (transformers/registers.cpp and  *)
(* locvars.cpp): the pass that decides whether the decompiled program      *)
(* names a value or repeats the expression where the value is used.        *)
(***************************************************************************)
EXTENDS AstRoutines

\* What the walk over the rest of the nodes knows.  dest is the address of
\* the instruction that wrote the register last, -1 once it was read;
\* dest_nm is the same and keeps it.
WalkStart(start) ==
  [ routine |-> 0, scope |-> 0, iter_count |-> 0, used_dest |-> TRUE, used_source |-> FALSE,
    no_locvar |-> TRUE, return_ |-> FALSE, dest |-> start.address, dest_nm |-> start.address,
    dest_scope |-> 0, set_scope |-> 0, stop |-> FALSE ]

Read(w) == [w EXCEPT !.used_source = TRUE, !.used_dest = FALSE, !.dest_scope = 0, !.dest = -1]

\* check_usage for each operand of the node that is the register: read
\* twice, or read inside of a routine, with the value of start still there.
Usages(node, target) ==
  SelectSeq(operand_kind(node, "source") \o operand_kind(node, "compare")
              \o operand_kind(node, "reg") \o operand_kind(node, "table_reg"),
            LAMBDA r : r = target)
\* A mutant: only what is read inside of a routine counts.
CheckUsageInside(w, start) ==
  IF w.dest_nm = start.address /\ w.routine # 0
  THEN [w EXCEPT !.no_locvar = FALSE, !.stop = TRUE] ELSE Read(w)
CheckUsage(w, start) ==
  IF w.dest_nm = start.address /\ (w.used_source \/ w.routine # 0)
  THEN [w EXCEPT !.no_locvar = FALSE, !.stop = TRUE] ELSE Read(w)

Overwritten(w, node, target, start) ==
  IF ~has_operand_kind(node, "dest") \/ First(node, "dest") # target THEN w
  ELSE IF w.routine # 0 THEN [w EXCEPT !.no_locvar = TRUE, !.stop = TRUE]
  ELSE IF w.used_dest /\ w.set_scope = w.scope
       THEN [w EXCEPT !.stop = TRUE,
                      !.no_locvar = /\ w.dest # start.address
                                    /\ w.dest_scope > w.scope /\ w.scope >= 0]
  ELSE [w EXCEPT !.used_dest = TRUE, !.used_source = FALSE, !.dest = node.address,
                 !.dest_nm = node.address, !.set_scope = w.scope, !.dest_scope = w.scope]

\* Every operand that is the register, then the arguments of a call.
UsedBy(w, node, start, target) ==
  FoldLeft(LAMBDA acc, r : IF acc.stop THEN acc ELSE CheckUsage(acc, start),
           w, Usages(node, target))
PassedTo(w, node, target) == IF reg_arg(node, target) /\ ~w.stop THEN Read(w) ELSE w
WrittenBy(w, node, target, start) == IF w.stop THEN w ELSE Overwritten(w, node, target, start)
Visited(w, node, start, target) ==
  IF w.dest_scope > w.scope /\ w.scope >= 0
  THEN [w EXCEPT !.no_locvar = FALSE, !.stop = TRUE]
  ELSE IF w.scope < 0 \/ (w.scope = 0 /\ Kind(node) = "return_")
  THEN [w EXCEPT !.return_ = target \in extract_source_regs(node), !.stop = TRUE]
  ELSE IF Kind(node) = "capture" /\ First(node, "source") = target
  THEN [w EXCEPT !.no_locvar = w.dest # start.address, !.stop = TRUE]
  ELSE WrittenBy(PassedTo(UsedBy([w EXCEPT !.routine = @ + RoutineStep(node)],
                                 node, start, target), node, target), node, target, start)
Walk(w, node, start, target) ==
  IF w.stop THEN w
  ELSE Visited([w EXCEPT !.iter_count = @ + 1, !.scope = @ + ScopeStep(node)],
               node, start, target)

\* Is the register overwritten by the variables of a later loop?
LoopTakes(all, start, target) ==
  \E i \in Range(visit_rest_scope_addr(all, start.address)) :
    /\ Counted(i, {"stat_for_start", "stat_for_iv_start", "stat_for_n_start"}) > 0
    /\ target \in i.loop_regs

Logical(w, start, next) ==
  /\ ~w.return_
  /\ \/ ~w.used_source /\ w.dest = start.address
     \/ /\ ~w.no_locvar
        /\ ~(next # nullptr /\ Kind(next) = "return_" /\ w.iter_count = 1)
logical_dest_register(all, start, target) ==
  /\ ~LoopTakes(all, start, target)
  /\ Logical(FoldLeft(LAMBDA acc, node : Walk(acc, node, start, target),
                      WalkStart(start), visit_rest(all, start.address)),
             start, visit_next(all, start))

----------------------------------------------------------------------------
\* make_locvar_alphabetical_name writes each digit of the number of the
\* register as a letter of its own: other registers, other names.
VariableName(reg) == reg

\* node_var.  What counts as results is the last value operand of a call.
Results(node) == IF Kind(node) = "ccall" THEN Last(operand_kind(node, "value")) ELSE 0
Claimed(node) == IF Results(node) > 1 THEN Results(node) ELSE 1
SetVariable(node, dest, results) ==
  IF results > 1
  THEN [add_safe(add_safe(node, "stat_locvar"), "stat_locvar_multret") EXCEPT
          !.multret_names = [i \in 1..results |-> VariableName(dest + i - 1)]]
  ELSE [add_safe(node, "stat_locvar") EXCEPT !.name = VariableName(dest)]

\* Does a later call or concatenation in the scope write the register?
WrittenInside(all, node, reg, opener, close) ==
  \E s \in Range(visit_next_expr_scope(all, node.address, opener)) :
    LET end == visit_relative_next_expr_scope_current(all, s.address, opener, close).address
    IN  \E i \in Range(visit_range(all, s.address, end)) : reg \in Range(operand_kind(i, "dest"))

\* A later SETLIST that takes its members from the register.
CapturedByList(all, node, dest) ==
  /\ \E i \in Range(visit_inst_scope(all, node.address, "OP_SETLIST")) : First(i, "source") = dest
  /\ logical_dest_register(all, node, dest)

IsVariable(all, node, dest, top) ==
  \/ CapturedByList(all, node, dest)
  \/ /\ ~WrittenInside(all, node, top, "desc_call_routine_start", "desc_call_routine_end")
     /\ ~WrittenInside(all, node, top, "desc_concat_routine_start", "desc_concat_routine_end")
     /\ \E r \in Upto(dest, Claimed(node)) : logical_dest_register(all, node, r)

\* The counts of registers that are variables, one for each open scope,
\* after the ends and the starts that a node marks.
Popped(stack, node) == SubSeq(stack, 1, Len(stack) - count_elem(node, "stat_scope_end"))
Pushed(stack, node) ==
  IF Counted(node, {"stat_for_start", "stat_for_n_start", "stat_for_iv_start"}) > 0
  THEN Append(stack, node.loop_end + 1)
  ELSE IF Counted(node, {"stat_if", "stat_repeat", "stat_while"}) > 0
  THEN Append(stack, Last(stack)) ELSE stack

\* acc is what is known behind the marks of a node and before its variable.
Declares(acc, node) ==
  /\ acc.routine = 0
  /\ IF has_operand_kind(node, "dest")
     THEN IsVariable(acc.out, node, First(node, "dest"), Last(acc.stack))
     ELSE has_elem(node, "table_end")
Declare_(acc, node) ==
  IF ~Declares(acc, node) THEN acc
  ELSE [acc EXCEPT !.out[At(acc.out, node.address)] = SetVariable(@, node.ops[1], Results(node)),
                   !.stack[Len(acc.stack)] =
                     @ + IF Kind(node) = "ccall" THEN Results(node) ELSE 1]
set_lv(all, args) ==
  FoldLeft(LAMBDA acc, node :
             Declare_([acc EXCEPT !.stack = Pushed(Popped(@, node), node),
                                  !.routine = @ + RoutineStep(node)
                                                + count_elem(node, "condition_concat_start")
                                                - count_elem(node, "condition_concat_end")], node),
           [stack |-> <<args>>, routine |-> 0, out |-> all], all).out
=============================================================================
