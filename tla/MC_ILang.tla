------------------------------ MODULE MC_ILang ------------------------------
(* Any client of the container, with three instructions to allocate.       *)
EXTENDS ILang, TLC

Symmetry == Permutations(Obj)
=============================================================================
