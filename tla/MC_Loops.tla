------------------------------- MODULE MC_Loops -------------------------------
EXTENDS Loops
=============================================================================
