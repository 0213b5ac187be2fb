------------------------------- MODULE MCPanel -------------------------------
(* Panel for TLC: the bounds are given in Panel.cfg.                       *)
EXTENDS Panel
=============================================================================
