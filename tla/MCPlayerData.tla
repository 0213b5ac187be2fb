---------------------------- MODULE MCPlayerData ----------------------------
(* Instances of PlayerData for TLC.                                        *)
EXTENDS PlayerData, TLC

(* Save slots may be exchanged.                                            *)
Symmetric == Permutations(Slots)
=============================================================================
