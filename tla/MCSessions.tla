---------------------------- MODULE MCSessions ----------------------------
(***************************************************************************)
(* Sessions for TLC: the instances are in Sessions.cfg and SessionsBan.cfg. *)
(* Their properties are temporal, so no symmetry is declared.              *)
(***************************************************************************)
EXTENDS Sessions
=============================================================================
