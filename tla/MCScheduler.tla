----------------------------- MODULE MCScheduler -----------------------------
(***************************************************************************)
(* A small instance of Scheduler for TLC: the task slots are interchange-  *)
(* able, the two processors are not (only the BSP creates and ticks).      *)
(***************************************************************************)
EXTENDS Scheduler, TLC

TaskSymmetry == Permutations(Tasks)
==============================================================================
