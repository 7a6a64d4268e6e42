---------------------------- MODULE MC_Keyboard -----------------------------
(* The keys of the run are given in its cfg. *)
EXTENDS Keyboard
=============================================================================
