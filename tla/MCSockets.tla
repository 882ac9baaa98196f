------------------------------ MODULE MCSockets ------------------------------
(***************************************************************************)
(* A few sockets for the model checker.                                    *)
(***************************************************************************)
EXTENDS Sockets, TLC

Symmetry ==
  Permutations(Threads) \cup Permutations(Fids) \cup
  Permutations(SCBs) \cup Permutations(Requests)

=============================================================================
