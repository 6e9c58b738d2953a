-------------------------- MODULE MC_ParserManager --------------------------
(* Up to three committed instructions, two to insert, any number of runs. *)
EXTENDS ParserManager, TLC

CONSTANTS b1, b2, b3, d1, d2

MCBase == <<b1, b2, b3>>
MCObj == {b1, b2, b3, d1, d2}

(* The instructions a callback inserts are interchangeable.                *)
Symmetry == Permutations({d1, d2})
=============================================================================
