------------------------------- MODULE MCPipe -------------------------------
(***************************************************************************)
(* Small pipes for the model checker.                                      *)
(***************************************************************************)
EXTENDS Pipe

\* What the length of a write tells apart, and the wrap of the positions.
ASSUME SizesAssumption == MaxSize >= 2 /\ PIPE_BUFFER_SIZE > 1

=============================================================================
