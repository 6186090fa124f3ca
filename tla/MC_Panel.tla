------------------------------ MODULE MC_Panel ------------------------------
(* Instances of Panel for TLC.                                              *)
EXTENDS Panel
=============================================================================
