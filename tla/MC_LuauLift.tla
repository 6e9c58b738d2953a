---------------------------- MODULE MC_LuauLift ----------------------------
(* Every function of up to MaxUnits units and a final RETURN.              *)
EXTENDS LuauLayout

CONSTANT Instructions   (* How many instructions can be allocated.         *)

MCObj == 1..Instructions
=============================================================================
