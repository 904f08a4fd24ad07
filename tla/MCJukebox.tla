----------------------------- MODULE MCJukebox -----------------------------
(***************************************************************************)
(* Instances of Jukebox for TLC.                                            *)
(***************************************************************************)
EXTENDS Jukebox, TLC

Interchangeable == Permutations(Player) \cup Permutations(Slot) \cup Permutations(Box)
============================================================================
