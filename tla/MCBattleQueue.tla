--------------------------- MODULE MCBattleQueue ---------------------------
(***************************************************************************)
(* Instances of BattleQueue for TLC.                                        *)
(***************************************************************************)
EXTENDS BattleQueue, TLC

OneVersion == [p \in Player |-> 1]

Interchangeable == Permutations(Player) \cup Permutations(Client)
============================================================================
