------------------------------- MODULE AstBlocks -------------------------------
(***************************************************************************)
(* The blocks of a function with jumps (set_blocks, ast/ast.cpp) and the   *)
(* queries of ast/ast.hpp that deal with them.  A node that no block       *)
(* reached from the body holds is in nothing that is analysed or lifted.   *)
(*                                                                         *)
(* A block is named by the address it starts at and by whether it is in    *)
(* block_map; dead code gets a block that is not.  The copy of the ends of *)
(* branches stays empty (it is written past its size, which is zero), so   *)
(* that a block is only cut behind a branch, never where one leads to.     *)
(***************************************************************************)
EXTENDS AstNode

\* A distance is resolved to an address (ref_addr).
jmp(node)    == First(node, "jmpaddr")
Target(node) == node.address + jmp(node)
IsBranch(node) == Kind(node) \in {"branch", "branch_condition"}

\* init_current_block: from a pc to the next branch or to the end.
BlockEnd(all, pc) ==
  CHOOSE e \in pc..(Len(all) - 1) :
    /\ IsBranch(all[e + 1]) \/ e = Len(all) - 1
    /\ \A o \in pc..(e - 1) : ~IsBranch(all[o + 1])
LinearBlocks(all) ==
  {0} \cup {e \in 1..(Len(all) - 1) : IsBranch(all[e])}
\* What a jump into the middle of a linear block gets is an empty block.
BlockNodes(all, pc) == IF pc \in LinearBlocks(all) THEN pc..BlockEnd(all, pc) ELSE {}

\* find_block_addr, of the blocks in block_map.
Containing(all, map, addr) ==
  {start \in map : start \in LinearBlocks(all) /\ addr \in BlockNodes(all, start)}

\* What a block branches to besides the target of its last node.
\* A mutant: any jump falls through, a conditional one does not.
PassedByJump(last) == IF Kind(last) = "branch" THEN {last.address + 1} ELSE {}
Passed(last) == IF Kind(last) = "branch_condition" THEN {last.address + 1} ELSE {}

\* One turn of the loop that assembles the blocks.  branches holds pairs of
\* a block and one it branches to.  Where the block before dead code is in
\* no map the code dereferences null, and nothing comes of the function.
Assemble(all, acc, pc) ==
  LET last    == all[BlockEnd(all, pc) + 1]
      to      == Target(last)
      current == <<pc, pc \in acc.map>>
      before  == {<<b, TRUE>> : b \in Containing(all, acc.map, pc - 1)}
      taken   == IF jmp(last) > 0 \/ to \notin {b \in LinearBlocks(all) : b <= pc}
                 THEN {to} ELSE {}
  IN  IF ~IsBranch(last) THEN acc
      ELSE [ map      |-> acc.map \cup taken \cup Passed(last),
             branches |-> acc.branches
                            \cup {<<current, <<b, TRUE>>>> : b \in taken \cup Passed(last)}
                            \cup (IF current[2] THEN {} ELSE before \X {current}),
             failed   |-> acc.failed \/ (~current[2] /\ before = {}) ]

set_blocks(all) ==
  FoldLeft(LAMBDA acc, pc : Assemble(all, acc, pc),
           [map |-> {0}, branches |-> {}, failed |-> FALSE],
           SelectSeq(<<>> \o [p \in DOMAIN all |-> p - 1], LAMBDA pc : pc \in LinearBlocks(all)))

\* visit_all: the nodes of the body and of every block that branches lead
\* to from it, in the order of their addresses.  Those of blocks outside of
\* block_map are marked.
Reached(blocks) ==
  LET from[n \in 0..Cardinality(blocks.branches)] ==
        IF n = 0 THEN {<<0, TRUE>>}
        ELSE LET known == from[n - 1]
             IN  known \cup {b[2] : b \in {e \in blocks.branches : e[1] \in known}}
  IN  from[Cardinality(blocks.branches)]
visit_all(all) ==
  LET blocks  == set_blocks(all)
      reached == Reached(blocks)
      live    == UNION {BlockNodes(all, b[1]) : b \in reached}
      dead    == UNION {BlockNodes(all, e[1][1]) : e \in {e \in blocks.branches : ~e[1][2]}}
      marked  == Each(all, LAMBDA i : IF i.address \in dead
                                     THEN add_elem(i, "desc_bad_instruction") ELSE i)
  IN  IF blocks.failed THEN <<>>
      ELSE SelectSeq(marked, LAMBDA node : node.address \in live)

----------------------------------------------------------------------------
(* Queries.                                                                *)

replace_next(node, target, type) ==
  IF ~has_elem(node, target) THEN node
  ELSE [node EXCEPT !.expr[SelectInSeq(node.expr, LAMBDA e : e = target)] = type]

visit_inst_kinds(all, kind) == Where(all, LAMBDA i : Kind(i) = kind)
visit_range_type_current(all, begin, end, kind) ==
  visit_inst_kinds(visit_range_current(all, begin, end), kind)

visit_expr_routine_range(all, target, close, start, end) ==
  SelectSeq(visit_expr_routine(all, target, close),
            LAMBDA r : start <= r[1].address /\ r[2].address <= end)
\* Routines that touch are one.
visit_expr_routine_range_touching(all, target, close, start, end) ==
  FoldLeft(LAMBDA acc, r :
             IF acc # <<>> /\ Last(acc)[2].address + 1 = r[1].address
             THEN Front(acc) \o << <<Last(acc)[1], r[2]>> >>
             ELSE Append(acc, r),
           <<>>, visit_expr_routine_range(all, target, close, start, end))

\* visit_all_goto: the addresses that are jumped to, each with the nodes
\* that jump there.
visit_all_goto(all) ==
  LET jumps == Where(all, LAMBDA i : has_operand_kind(i, "jmpaddr"))
  IN  [addr \in {Target(jumps[j]) : j \in DOMAIN jumps} |->
         Where(jumps, LAMBDA i : Target(i) = addr)]
=============================================================================
