----------------------------- MODULE MCProcesses -----------------------------
(***************************************************************************)
(* Small process tables for the model checker.                             *)
(***************************************************************************)
EXTENDS Processes, TLC

\* The threads are interchangeable, but for the one that boots.
Symmetry == Permutations(Threads \ {InitThread})

\* A full table, threads that are all in use and PCBs that are reused out of
\* order go with one thread per process: three generations of processes under
\* init and every order of reuse, or threads side by side, but not both.  A
\* process without a task keeps its PCB for good: one is enough, and has no part
\* in what the threads of another process do to each other.
RoomForThreads ==
  /\ Cardinality(taskless) <= 2
  /\ (\E p \in Pids : Cardinality(ptcb_list[p]) > 1) =>
       /\ taskless = {0} /\ \E t \in Threads : Unallocated(t)
       /\ \E p \in Pids : pstate[p] = "FREE"
       /\ \A p \in Pids : pstate[p] = "FREE" /\ parent[p] # NULL => p < parent[p]

=============================================================================
