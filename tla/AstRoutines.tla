----------------------------- MODULE AstRoutines -----------------------------
(***************************************************************************)
(* The passes over the AST that find the instructions of one expression:   *)
(* a call with its arguments, a concatenation with its members, a call of  *)
(* several results with the assignments that take them                     *)
(* (transformers/calls.cpp, concats.cpp, flags.cpp, returns.cpp, and of    *)
(* tables.cpp the tables without keyed members).  Each takes the nodes of  *)
(* the AST and returns them with the elements it adds.                     *)
(***************************************************************************)
EXTENDS AstBlocks

At(all, addr) == CHOOSE p \in DOMAIN all : all[p].address = addr
Mark(all, addr, type) == [all EXCEPT ![At(all, addr)] = add_safe(@, type)]

\* How many expressions a node is inside of: routine_inc_lv and
\* routine_dec_lv.
RoutineStarts == {"desc_concat_routine_start", "desc_call_routine_start", "table_start",
                  "conditional_expression_start"}
RoutineEnds   == {"desc_concat_routine_end", "desc_call_routine_end", "table_end",
                  "conditional_expression_end"}
RoutineStep(node) == Counted(node, RoutineStarts) - Counted(node, RoutineEnds)

----------------------------------------------------------------------------
\* What follows a return that no jump is pending over is dead.
set_exit_exprs(all) ==
  LET Step(acc, node) ==
        LET ahead  == IF IsBranch(node) /\ jmp(node) >= 0 THEN {Target(node)} ELSE {}
            scopes == (acc.scopes \cup ahead) \ {node.address}
            marked == IF acc.dead THEN add_safe(node, "desc_exit_dead") ELSE node
            exits  == scopes = {} /\ Kind(node) = "return_"
        IN  [ scopes |-> scopes, dead |-> acc.dead \/ exits,
              out |-> Append(acc.out, IF exits THEN add_safe(marked, "desc_exit_post")
                                      ELSE marked) ]
  IN  FoldLeft(Step, [scopes |-> {}, dead |-> FALSE, out |-> <<>>], all).out

set_returns(all) ==
  Each(all, LAMBDA i : IF Kind(i) = "return_" THEN add_safe(i, "desc_return") ELSE i)

\* The arguments popped since the last call are those of the next call.
set_pops(all) ==
  LET Step(acc, node) ==
        CASE node.op = "OP_POPARG" ->
               [regs |-> acc.regs \cup {First(node, "reg")}, out |-> Append(acc.out, node)]
          [] node.op = "OP_CCALL" ->
               [regs |-> {}, out |-> Append(acc.out, [node EXCEPT !.call_pop = acc.regs])]
          [] OTHER -> [acc EXCEPT !.out = Append(@, node)]
  IN  FoldLeft(Step, [regs |-> {}, out |-> <<>>], all).out

\* Where the routine of a call starts: at the instruction that loaded the
\* function; at the first argument, where that instruction is next to the
\* call although the call has arguments; for a method, at what loaded the
\* object or at its first argument.
CallStart(all, node) ==
  LET call == node.ops[1]
      args == First(node, "value")
      prev == visit_previous_dest_register(all, node.address, call)
  IN  IF prev.op = "OP_SELF"
      THEN IF First(prev, "dest") = First(prev, "source")
           THEN visit_previous_dest_register(all, prev.address, call)
           ELSE IF args - 1 # 0 THEN visit_previous_dest_register(all, node.address, call + 2)
           ELSE prev
      ELSE IF visit_next(all, prev) = node /\ args # 0
           THEN visit_previous_dest_register(all, prev.address, call + 1)
      ELSE prev

set_call_routines(all) ==
  FoldLeft(LAMBDA acc, node :
             Mark(Mark(acc, CallStart(acc, acc[At(acc, node.address)]).address,
                       "desc_call_routine_start"),
                  node.address, "desc_call_routine_end"),
           all, visit_inst(all, "OP_CCALL"))

set_string_routines(all) ==
  FoldLeft(LAMBDA acc, node :
             Mark(Mark(acc,
                       visit_previous_dest_register(acc, node.address,
                                                    First(node, "source")).address,
                       "desc_concat_routine_start"),
                  node.address, "desc_concat_routine_end"),
           all, visit_inst(all, "OP_CONCAT"))

\* Table constructors without keyed members (tables.cpp).  set_size: room
\* for nothing is a start and an end; room for n members starts a table,
\* which the next SETLIST ends.  What the SETLIST subtracts from the room is
\* the number of its register, read as a count.
set_size(acc, p) ==
  LET node  == acc.out[p]
      array == acc.array - First(node, "dest")
      outer == SubSeq(acc.stack, 1, Len(acc.stack) - 1)
  IN  CASE node.op \in {"OP_NEWTABLE", "OP_NEWTABLEA"} /\ Tail(node.ops) = <<0, 0>> ->
             [acc EXCEPT !.out[p] = add_elem(add_elem(@, "table_start"), "table_end")]
        [] node.op \in {"OP_NEWTABLE", "OP_NEWTABLEA"} /\ Tail(node.ops) # <<0, 0>> ->
             [acc EXCEPT !.out[p] = add_safe(@, "table_start"), !.count = @ + 1,
                         !.array = Last(node.ops), !.stack = Append(@, Last(node.ops))]
        [] node.op = "OP_SETLIST" /\ acc.stack = <<>> -> [acc EXCEPT !.array = array]
        [] node.op = "OP_SETLIST" /\ acc.stack # <<>> ->
             [acc EXCEPT !.out[p] = add_elem(@, "table_end"), !.count = @ - 1,
                         !.ends = @ \cup {node.address}, !.stack = outer,
                         !.array = IF outer = <<>> THEN array ELSE Last(outer)]
        [] OTHER -> acc

\* From a table that has members the walk goes on behind its end, over the
\* tables after it, and those that have members are not visited again.
set_list_routines(all) ==
  LET Stopped(sized, p) ==
        IF sized.array # 0 \/ sized.count # 1 THEN sized
        ELSE [sized EXCEPT !.out[p] = add_elem(@, "table_end"), !.stop = TRUE,
                           !.ends = @ \cup {sized.out[p].address}]
      Behind(acc, p) == IF acc.stop THEN acc ELSE Stopped(set_size(acc, p), p)
      Walked(sized, p) ==
        IF sized.array = 0 THEN [sized EXCEPT !.ends = @ \cup {sized.out[p].address}]
        ELSE FoldLeft(Behind, sized, [i \in 1..(Len(all) - p) |-> p + i])
      Sized(acc, p) ==
        set_size([acc EXCEPT !.array = 0, !.count = 0, !.stack = <<>>, !.stop = FALSE], p)
      Table(acc, p) ==
        IF \/ Kind(acc.out[p]) # "new_table"
           \/ \E end \in acc.ends : acc.out[p].address <= end
        THEN acc ELSE Walked(Sized(acc, p), p)
  IN  FoldLeft(Table, [out |-> all, ends |-> {}, array |-> 0, count |-> 0, stack |-> <<>>,
                       stop |-> FALSE], [p \in DOMAIN all |-> p]).out

\* The instructions that take the results of a call of several results.
\* What is counted as results is the last value operand of the call, which
\* the lexer gives to its arguments.
set_multret_routines(all) ==
  LET Take(acc, reg) ==
        IF reg \notin acc.check THEN acc
        ELSE [acc EXCEPT !.check = @ \ {reg}, !.first = FALSE,
                         !.node = add_elem(@, IF acc.first THEN "call_multret_start"
                                              ELSE IF Cardinality(acc.check) = 1
                                              THEN "call_multret_end"
                                              ELSE "call_multret_member")]
      Step(acc, node) ==
        LET routine == acc.routine + RoutineStep(node)
            retn    == IF Kind(node) = "ccall" THEN Last(operand_kind(node, "value")) ELSE 0
            opens   == routine = 0 /\ Kind(node) = "ccall" /\ ~has_elem(node, "stat_locvar")
                       /\ retn > 1
            start   == [routine |-> routine, first |-> acc.first \/ opens, out |-> acc.out,
                        check |-> acc.check \cup (IF opens THEN Upto(node.ops[1], retn) ELSE {}),
                        node |-> node]
            done    == FoldLeft(Take, start, operand_kind(node, "source"))
        IN  [done EXCEPT !.out = Append(@, done.node)]
  IN  FoldLeft(Step, [routine |-> 0, first |-> FALSE, check |-> {}, out |-> <<>>,
                      node |-> nullptr], all).out

\* Is a register an argument of a call that has a result?  The register
\* behind the last argument counts too.
reg_arg(node, target) ==
  /\ Kind(node) = "ccall" /\ has_operand_kind(node, "dest")
  /\ LET dest == First(node, "dest")
         arg  == First(node, "value")
     IN  arg # 0 /\ 1 + dest <= target /\ target <= 1 + dest + arg
=============================================================================
