------------------------------ MODULE RingLists ------------------------------
(***************************************************************************)
(* The intrusive lists of util.h.  A heap L of nodes is a pair of pointer  *)
(* functions; a list is a node and the ring after it.  rl_splice() is the  *)
(* one operation that writes pointers, but for rlnode_new() and            *)
(* rlist_reverse().                                                        *)
(***************************************************************************)
EXTENDS Naturals, Sequences, FiniteSets

Nodes(L) == DOMAIN L.next

\* Every node is in one ring, and prev leads back.
IsHeap(L) ==
  /\ L = [next |-> L.next, prev |-> L.prev]
  /\ L.next \in [Nodes(L) -> Nodes(L)] /\ L.prev \in [Nodes(L) -> Nodes(L)]
  /\ \A a \in Nodes(L) : L.prev[L.next[a]] = a /\ L.next[L.prev[a]] = a

IsSingleton(L, a) == L.next[a] = a /\ L.prev[a] = a

is_rlist_empty(L, a) == a = L.next[a]

rlnode_new(L, p) == [next |-> [L.next EXCEPT ![p] = p], prev |-> [L.prev EXCEPT ![p] = p]]

\* The two swaps, one after the other; the first reads the old next.
rl_splice(L, a, b) ==
  LET an == L.next[a]
      bn == L.next[b]
  IN  [next |-> [L.next EXCEPT ![a] = bn, ![b] = an],
       prev |-> [L.prev EXCEPT ![an] = L.prev[bn], ![bn] = L.prev[an]]]

rlist_remove(L, a) == rl_splice(L, a, L.prev[a])
rlist_push_front(L, list, node) == rl_splice(L, list, node)
rlist_push_back(L, list, node) == rl_splice(L, L.prev[list], node)
rlist_pop_front(L, list) == rl_splice(L, list, L.next[list])
rlist_pop_back(L, list) == rl_splice(L, list, L.prev[list])

rlist_append(L, ldest, lsrc) == rlist_remove(rlist_push_back(L, ldest, lsrc), lsrc)
rlist_prepend(L, ldest, lsrc) == rlist_remove(rlist_push_front(L, ldest, lsrc), lsrc)

-----------------------------------------------------------------------------
(***************************************************************************)
(* Loops over a list.                                                      *)
(***************************************************************************)

\* The node k steps after a.
After(L, a) ==
  LET walk[k \in 0 .. Cardinality(Nodes(L))] == IF k = 0 THEN a ELSE L.next[walk[k - 1]]
  IN  walk

rlist_len(L, list) ==
  CHOOSE k \in 0 .. (Cardinality(Nodes(L)) - 1) :
    /\ After(L, list)[k + 1] = list
    /\ \A i \in 1..k : After(L, list)[i] # list

\* What the list holds.
Content(L, list) == [k \in 1 .. rlist_len(L, list) |-> After(L, list)[k]]

\* The first node in hits, those with the key.
rlist_find(L, list, hits, fail) ==
  LET found == {k \in 1 .. rlist_len(L, list) : Content(L, list)[k] \in hits}
  IN  IF found = {} THEN fail
      ELSE Content(L, list)[CHOOSE k \in found : \A l \in found : k <= l]

Ring(L, a) == {a} \cup {Content(L, a)[k] : k \in 1 .. rlist_len(L, a)}

rlist_reverse(L, l) ==
  [next |-> [a \in Nodes(L) |-> IF a \in Ring(L, l) THEN L.prev[a] ELSE L.next[a]],
   prev |-> [a \in Nodes(L) |-> IF a \in Ring(L, l) THEN L.next[a] ELSE L.prev[a]]]

\* Every round passes a node or moves it.
rlist_select(L, Lsrc, Ldest, pred) ==
  LET step(S) ==
        LET n == S.heap.next[S.at]
        IN  IF n = Lsrc THEN S
            ELSE IF n \in pred
                 THEN [S EXCEPT !.heap = rlist_push_back(rlist_remove(S.heap, n), Ldest, n)]
                 ELSE [S EXCEPT !.at = n]
      run[k \in 0 .. Cardinality(Nodes(L))] ==
        IF k = 0 THEN [heap |-> L, at |-> Lsrc] ELSE step(run[k - 1])
  IN  run[Cardinality(Nodes(L))].heap

=============================================================================
