--------------------------- MODULE MCPeerSession ---------------------------
(***************************************************************************)
(* Instances of PeerSession for TLC: the messages of a session carry its   *)
(* number, so the payloads are those numbers.                              *)
(***************************************************************************)
EXTENDS PeerSession
=============================================================================
