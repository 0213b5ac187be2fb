------------------------------ MODULE MCGuilds ------------------------------
(* Instances of Guilds for TLC.                                            *)
EXTENDS Guilds, TLC

(* Players may be exchanged, and guilds.                                   *)
Symmetric == Permutations(Names) \cup Permutations(GuildNames)
=============================================================================
