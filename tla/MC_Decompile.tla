---------------------------- MODULE MC_Decompile ----------------------------
EXTENDS Decompile
MCFunctions == {f, k}
=============================================================================
