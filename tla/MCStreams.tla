------------------------------ MODULE MCStreams ------------------------------
(***************************************************************************)
(* Small file tables for the model checker.                                *)
(***************************************************************************)
EXTENDS Streams, TLC

\* The threads are interchangeable, and so are the processes but init.
Symmetry == Permutations(Threads) \cup Permutations(Procs \ {InitProc})

\* Both the descriptors of a process and the FCBs can run out, and two
\* reservations can succeed.
ASSUME SizesAssumption == MAX_FILES >= MAX_FILEID /\ MAX_FILEID >= 2

=============================================================================
