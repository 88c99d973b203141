-------------------------- MODULE MCRecorderSelect --------------------------
(* One family, a budget in which a segment is folded before a roll-up.     *)
EXTENDS Recorder
=============================================================================
