--------------------------- MODULE MCReliableLink ---------------------------
(***************************************************************************)
(* ReliableLink for TLC: the instance is in LinkDelivery.cfg.  One property *)
(* of it is liveness, so no symmetry is declared.                          *)
(***************************************************************************)
EXTENDS ReliableLink
=============================================================================
