------------------------------ MODULE EditSpec ------------------------------
(***************************************************************************)
(* What a client of parser_manager or resolver_manager is promised: edits  *)
(* are addressed by position in the vector as it was committed, and one    *)
(* run makes them all at once.                                             *)
(*                                                                         *)
(* There is no index arithmetic here: an edit belongs to the original      *)
(* instruction it names, whatever was inserted or removed before it.       *)
(***************************************************************************)
EXTENDS Integers, Sequences, SequencesExt

CONSTANT Value

VARIABLES
  vec,     (* The committed vector.                                      *)
  slots    (* For each position: is it kept, and what comes after it.    *)

Untouched(n) == [i \in 1..n |-> [keep |-> TRUE, after |-> << >>]]

(* All edits at once: each kept instruction, then what was put after it.   *)
Edited ==
  FlattenSeq([i \in 1..Len(vec) |->
     (IF slots[i].keep THEN <<vec[i]>> ELSE << >>) \o slots[i].after])

Init ==
  /\ vec \in Seq(Value)
  /\ slots = Untouched(Len(vec))

PutAfter(i, d) ==
  /\ slots' = [slots EXCEPT ![i].after = Append(@, d)]
  /\ UNCHANGED vec

Drop(i) ==
  /\ slots' = [slots EXCEPT ![i].keep = FALSE]
  /\ UNCHANGED vec

Run ==
  /\ vec' = Edited
  /\ slots' = Untouched(Len(vec'))

Next ==
  \/ \E i \in 1..Len(vec), d \in Value : PutAfter(i, d)
  \/ \E i \in 1..Len(vec) : Drop(i)
  \/ Run

Spec == Init /\ [][Next]_<<vec, slots>>
=============================================================================
