------------------------------ MODULE MCLobby ------------------------------
(***************************************************************************)
(* Instances of Lobby for TLC.  The runs switch features on and off by the *)
(* sets of inputs: no game names means no games, and so on.                *)
(***************************************************************************)
EXTENDS Lobby, TLC

(* Connections and chat objects are interchangeable: no operator of Lobby  *)
(* tells one from another.                                                 *)
Symmetry == Permutations(Conns) \cup Permutations(ChatObjs)

(* The service thread calls updatePos every second.                        *)
FairSpec == Spec /\ WF_vars(UpdatePos)
=============================================================================
