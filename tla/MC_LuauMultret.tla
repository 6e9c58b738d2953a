-------------------------- MODULE MC_LuauMultret --------------------------
(* Every statement with up to MaxValues values and calls nested twice.    *)
EXTENDS LuauMultret
=============================================================================
