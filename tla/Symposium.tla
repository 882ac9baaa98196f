------------------------------ MODULE Symposium ------------------------------
(***************************************************************************)
(* The dining philosophers of symposium.c: a monitor in which every        *)
(* philosopher waits at a condition variable of its own, and the host that *)
(* creates the philosophers (threads, or processes that share the table),  *)
(* waits for them all and frees the table.                                 *)
(*                                                                         *)
(* Grain.  A section under the mutex mx, up to its end or to Cond_Wait(),  *)
(* is a step.                                                              *)
(***************************************************************************)
EXTENDS Naturals

CONSTANTS N, bites

ASSUME SymposiumAssumption ==
  /\ N \in Nat \ {0, 1}
  /\ bites \in Nat

Phils == 0 .. (N - 1)

VARIABLES
  state,      \* of SymposiumTable
  pc,         \* "none" before it is created, "arrives", "thinks", "asleep" in
              \* Cond_Wait(), "woken" from there, "eats", or "gone"
  j,          \* bites eaten
  created,    \* the number of philosophers the host has created
  freed       \* the table is

vars == <<state, pc, j, created, freed>>

PHIL == {"NOTHERE", "THINKING", "HUNGRY", "EATING"}

TypeOK ==
  /\ state \in [Phils -> PHIL]
  /\ pc \in [Phils -> {"none", "arrives", "thinks", "asleep", "woken", "eats", "gone"}]
  /\ j \in [Phils -> 0..bites]
  /\ created \in 0..N
  /\ freed \in BOOLEAN

\* SymposiumTable_init().
Init ==
  /\ state = [i \in Phils |-> "NOTHERE"]
  /\ pc = [i \in Phils |-> "none"]
  /\ j = [i \in Phils |-> 0]
  /\ created = 0
  /\ freed = FALSE

(***************************************************************************)
(* Definitions named Bug... are mistakes one could make in the definition  *)
(* that follows them.  Nothing uses them.                                  *)
(***************************************************************************)

LEFT(i) == (i + 1) % N
RIGHT(i) == (i + N - 1) % N

\* trytoeat(i) on the table s.
BugAfterYou(s, i) ==
  s[i] = "HUNGRY" /\ \A k \in {LEFT(i), RIGHT(i)} : s[k] \notin {"HUNGRY", "EATING"}
CanEat(s, i) ==
  s[i] = "HUNGRY" /\ s[LEFT(i)] # "EATING" /\ s[RIGHT(i)] # "EATING"

trytoeat(s, i) == IF CanEat(s, i) THEN [s EXCEPT ![i] = "EATING"] ELSE s

\* Both of its neighbours try.
BugOneNeighbour(s, i) == trytoeat(s, LEFT(i))
NeighboursTry(s, i) == trytoeat(trytoeat(s, LEFT(i)), RIGHT(i))

-----------------------------------------------------------------------------
(***************************************************************************)
(* SymposiumTable_philosopher().                                           *)
(***************************************************************************)
Arrives(i) ==
  /\ pc[i] = "arrives"
  /\ pc' = [pc EXCEPT ![i] = "thinks"]
  /\ state' = [state EXCEPT ![i] = "THINKING"]
  /\ UNCHANGED <<j, created, freed>>

GetsHungry(i) ==
  /\ pc[i] = "thinks" /\ j[i] < bites
  /\ state' = trytoeat([state EXCEPT ![i] = "HUNGRY"], i)
  /\ pc' = [pc EXCEPT ![i] = IF state'[i] = "HUNGRY" THEN "asleep" ELSE "eats"]
  /\ UNCHANGED <<j, created, freed>>

\* Cond_Wait() returns, and the loop tests again.
WakesUp(i) ==
  /\ pc[i] = "woken"
  /\ pc' = [pc EXCEPT ![i] = IF state[i] = "HUNGRY" THEN "asleep" ELSE "eats"]
  /\ UNCHANGED <<state, j, created, freed>>

\* It signals the neighbours that begin to eat.
StopsEating(i) ==
  /\ pc[i] = "eats"
  /\ state' = NeighboursTry([state EXCEPT ![i] = "THINKING"], i)
  /\ pc' = [k \in Phils |->
              IF k = i THEN "thinks"
              ELSE IF pc[k] = "asleep" /\ state[k] # state'[k] THEN "woken" ELSE pc[k]]
  /\ j' = [j EXCEPT ![i] = @ + 1]
  /\ UNCHANGED <<created, freed>>

Leaves(i) ==
  /\ pc[i] = "thinks" /\ j[i] = bites
  /\ pc' = [pc EXCEPT ![i] = "gone"]
  /\ state' = [state EXCEPT ![i] = "NOTHERE"]
  /\ UNCHANGED <<j, created, freed>>

Philosopher(i) ==
  Arrives(i) \/ GetsHungry(i) \/ WakesUp(i) \/ StopsEating(i) \/ Leaves(i)

-----------------------------------------------------------------------------
(***************************************************************************)
(* The host.                                                               *)
(***************************************************************************)
Creates ==
  /\ created < N
  /\ created' = created + 1
  /\ pc' = [pc EXCEPT ![created] = "arrives"]
  /\ UNCHANGED <<state, j, freed>>

\* It has waited for all of them.
Frees ==
  /\ created = N /\ \A i \in Phils : pc[i] = "gone"
  /\ ~ freed /\ freed' = TRUE
  /\ UNCHANGED <<state, pc, j, created>>

Next == Creates \/ Frees \/ \E i \in Phils : Philosopher(i)

Spec == Init /\ [][Next]_vars

(***************************************************************************)
(* Fairness.  The scheduler runs every thread that is ready, and the mutex *)
(* is held for short sections.                                             *)
(***************************************************************************)
FairSpec ==
  /\ Spec
  /\ WF_vars(Creates) /\ WF_vars(Frees)
  /\ \A i \in Phils : WF_vars(Philosopher(i))

-----------------------------------------------------------------------------
(***************************************************************************)
(* Neighbours never eat at the same time, and who goes on to eat has been  *)
(* let to (the assertion at symposium.c:113), also when a neighbour has    *)
(* set its state while it slept.                                           *)
(***************************************************************************)
NeighboursApart ==
  \A i \in Phils : state[i] = "EATING" =>
    state[LEFT(i)] # "EATING" /\ state[RIGHT(i)] # "EATING"

EatersMay == \A i \in Phils : pc[i] \in {"eats", "woken"} => state[i] = "EATING"

ForksExact == NeighboursApart /\ EatersMay

(***************************************************************************)
(* Nobody waits for nothing: a philosopher sleeps while it is hungry only, *)
(* and then a neighbour eats, who will look at it when done.               *)
(***************************************************************************)
HungryWaitForNeighbours ==
  \A i \in Phils : pc[i] = "asleep" =>
    /\ state[i] = "HUNGRY"
    /\ \E k \in {LEFT(i), RIGHT(i)} : state[k] = "EATING" /\ pc[k] \in {"eats", "woken"}

\* Both, of the same table.
TableExact == ForksExact /\ HungryWaitForNeighbours

(***************************************************************************)
(* Every philosopher gets all its bites, and the host frees the table.     *)
(***************************************************************************)
SymposiumEnds == <>freed

=============================================================================
