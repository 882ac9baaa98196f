---------------------------- MODULE MCRemoteServer ----------------------------
(***************************************************************************)
(* A small server for the model checker, which also checks the operators   *)
(* that describe programs.                                                 *)
(***************************************************************************)
EXTENDS RemoteServer, MCPrograms

\* A lost update needs two connections, and a wrong count must not wrap to
\* a right one.
ASSUME SizesAssumption ==
  Cardinality(Clients) >= 2 /\ SIZE_MAX > 2 * Cardinality(Clients)

Symmetry == Permutations(Clients)

=============================================================================
