-------------------------- MODULE MCTaskScheduler --------------------------
(***************************************************************************)
(* TaskScheduler on small instances: the model is finite as it is, for a   *)
(* member of Tasks is scheduled at most once.                              *)
(***************************************************************************)
EXTENDS TaskScheduler, TLC

Symmetry == Permutations(Tasks)
=============================================================================
