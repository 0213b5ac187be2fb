---------------------------- MODULE MCPeerThreads ----------------------------
(* PeerThreads for TLC: the bounds are given in PeerThreads.cfg.  Three    *)
(* places in the queue hold an arrival with what was sent before it, two   *)
(* payloads let one be returned while the other is handed over.            *)
EXTENDS PeerThreads
=============================================================================
