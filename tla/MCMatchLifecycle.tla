-------------------------- MODULE MCMatchLifecycle --------------------------
(***************************************************************************)
(* Instances of MatchLifecycle for TLC.                                     *)
(***************************************************************************)
EXTENDS MatchLifecycle, TLC

CONSTANTS p1, p2, cA, cB

OneEach   == [t \in Side |-> IF t = "A" THEN <<p1>> ELSE <<p2>>]
Clans     == [t \in Side |-> IF t = "A" THEN cA ELSE cB]


Interchangeable == Permutations(Slot)
============================================================================
