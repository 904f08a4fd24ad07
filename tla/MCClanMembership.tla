--------------------------- MODULE MCClanMembership ---------------------------
(***************************************************************************)
(* Instances of ClanMembership for TLC.                                     *)
(***************************************************************************)
EXTENDS ClanMembership, TLC

AlikePlayersAndClients == Permutations(Player) \cup Permutations(Client)
=============================================================================
