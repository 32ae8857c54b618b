---------------------------- MODULE MCKernelMutex ----------------------------
(* A small instance of KernelMutex: tasks, CPUs and mutexes are model values. *)
EXTENDS KernelMutex
==============================================================================
