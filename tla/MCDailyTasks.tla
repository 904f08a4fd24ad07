---------------------------- MODULE MCDailyTasks ----------------------------
(***************************************************************************)
(* Instances of DailyTasks for TLC.                                         *)
(***************************************************************************)
EXTENDS DailyTasks

PoolOfTwo == <<"ui", "motto">>
=============================================================================
