----------------------------- MODULE MCScheduler -----------------------------
(***************************************************************************)
(* A small machine for the model checker.                                  *)
(***************************************************************************)
EXTENDS Scheduler

\* Two threads can sleep with deadlines that are in either order, and a clock
\* that passes the later one.
ASSUME DeadlinesAssumption ==
  \E d \in Timeouts : \E e \in Timeouts : d < e /\ e <= MaxTime

-----------------------------------------------------------------------------
(***************************************************************************)
(* The lists that hold the queues, against sequences: every heap of four   *)
(* nodes.  rlist_pop_back() is the odd one: it does what rlist_remove()    *)
(* does to the list itself, which loses all it held (nobody calls it).     *)
(***************************************************************************)
Lists == INSTANCE RingLists

Heaps ==
  LET Perms == {f \in [1..4 -> 1..4] : \A a, b \in 1..4 : f[a] = f[b] => a = b}
  IN  {[next |-> f, prev |-> [a \in 1..4 |-> CHOOSE b \in 1..4 : f[b] = a]] : f \in Perms}

Apart(L, a, b) == b \notin Lists!Ring(L, a)

ASSUME ListsAreSequences ==
  \A L \in Heaps : \A a, b \in 1..4 :
    LET A == Lists!Content(L, a)
        B == Lists!Content(L, b)
        Is(M, list, s) == Lists!IsHeap(M) /\ Lists!Content(M, list) = s
        popped == Lists!rlist_pop_front(L, a)
    IN  /\ Is(Lists!rlist_reverse(L, a), a, Reverse(A))
        /\ IF A = << >> THEN popped = L
           ELSE Is(popped, a, Tail(A)) /\ Lists!IsSingleton(popped, A[1])
        /\ Lists!rlist_find(L, a, {b}, 0) = IF b \in Range(A) THEN b ELSE 0
        /\ Is(Lists!rlist_pop_back(L, a), a, << >>)
        /\ Lists!IsSingleton(Lists!rlist_remove(L, a), a)
        /\ Apart(L, a, b) =>
             /\ Is(Lists!rlist_push_back(L, a, b), a, A \o B \o <<b>>)
             /\ Is(Lists!rlist_push_front(L, a, b), a, B \o <<b>> \o A)
             /\ Is(Lists!rlist_append(L, a, b), a, A \o B)
             /\ Is(Lists!rlist_prepend(L, a, b), a, B \o A)
             /\ Lists!IsSingleton(Lists!rlist_append(L, a, b), b)
             /\ \A pred \in SUBSET (1..4) :
                  LET M == Lists!rlist_select(L, a, b, pred)
                  IN  /\ Is(M, a, SelectSeq(A, LAMBDA n : n \notin pred))
                      /\ Is(M, b, B \o SelectSeq(A, LAMBDA n : n \in pred))

=============================================================================
