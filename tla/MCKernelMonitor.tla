--------------------------- MODULE MCKernelMonitor ---------------------------
(***************************************************************************)
(* A small kernel for the model checker.                                   *)
(***************************************************************************)
EXTENDS KernelMonitor, TLC

Symmetry == Permutations(Threads \ ReturningThreads)

=============================================================================
