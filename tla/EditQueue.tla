----------------------------- MODULE EditQueue -----------------------------
(***************************************************************************)
(* The queue of edits that parser_manager (il/lifter/parser/parser.hpp)    *)
(* and resolver_manager (il/lifter/resolver/resolver.hpp) keep.            *)
(*                                                                         *)
(* Callbacks look at the committed vector and queue edits of the pending   *)
(* one.  An edit is queued with the position it will have once the edits   *)
(* queued before it are made: the index the callback names plus sync_idx,  *)
(* a running count of insertions less removals, from 1.                    *)
(***************************************************************************)
EXTENDS ILang

(* pos is the position the code queues; at, the index the callback named,  *)
(* is kept to state what the edit was meant for.                           *)
Edit == [act : {"add", "remove", "remove_ptr"}, pos : Int, at : Nat, d : Ptr]

Managers == [queue : Seq(Edit), sync : Int]

(* A manager with nothing queued.                                          *)
EmptyManager == [queue |-> << >>, sync |-> 1]

-----------------------------------------------------------------------------
(***************************************************************************)
(* The second argument of each operator is the index the callback passes,  *)
(* counted from 0.                                                         *)
(***************************************************************************)

(* Mutant: an insertion is not counted.                                    *)
QueueAddUncounted(m, idx, d) ==
  [queue |-> Append(m.queue, [act |-> "add", pos |-> idx + m.sync,
                              at |-> idx, d |-> d]),
   sync  |-> m.sync]

(* append: idx + sync_idx++.                                               *)
QueueAdd(m, idx, d) ==
  [queue |-> Append(m.queue, [act |-> "add", pos |-> idx + m.sync,
                              at |-> idx, d |-> d]),
   sync  |-> m.sync + 1]

(* remove(idx): idx + --sync_idx.                                          *)
QueueRemove(m, idx) ==
  [queue |-> Append(m.queue, [act |-> "remove", pos |-> idx + m.sync - 1,
                              at |-> idx, d |-> NULL]),
   sync  |-> m.sync - 1]

(* Mutant: a removal is not counted.                                       *)
QueueRemovePtrUncounted(m, idx, d) ==
  [queue |-> Append(m.queue, [act |-> "remove_ptr", pos |-> 0,
                              at |-> idx, d |-> d]),
   sync  |-> m.sync]

(* remove(disassembly): the queued index, 0, is not looked at.             *)
QueueRemovePtr(m, idx, d) ==
  [queue |-> Append(m.queue, [act |-> "remove_ptr", pos |-> 0,
                              at |-> idx, d |-> d]),
   sync  |-> m.sync - 1]

(* What run() does with the queued edit e.                                 *)
MakeEdit(e) ==
  \/ e.act = "add"        /\ AppendDisAt(e.d, e.pos)
  \/ e.act = "remove"     /\ RemoveDisAt(e.pos)
  \/ e.act = "remove_ptr" /\ RemoveDis(e.d)
=============================================================================
