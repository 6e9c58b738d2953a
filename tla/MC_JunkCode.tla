---------------------------- MODULE MC_JunkCode ----------------------------
(* junk_code on every lifted container of up to MaxLen instructions.       *)
EXTENDS JunkCode
=============================================================================
