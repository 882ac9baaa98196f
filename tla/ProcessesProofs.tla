--------------------------- MODULE ProcessesProofs ---------------------------
(***************************************************************************)
(* For every number of PCBs and threads: the process tree, the free list,  *)
(* the threads of a process and who waits for whom.                        *)
(*                                                                         *)
(* All theorems are about programs in which no thread waits for a child    *)
(* that another one of its process waits for (ConcurrentWaits is FALSE):   *)
(* in others a PCB may be reaped twice (finding double_reap).              *)
(***************************************************************************)
EXTENDS Processes, ListLemmas, FiniteSetTheorems

(***************************************************************************)
(* The strengthening.  The process tree: processes 0 and 1 have no parent  *)
(* and are never FREE, and every other one descends from process 1.        *)
(***************************************************************************)
RootsInv ==
  /\ parent[0] = NULL /\ parent[1] = NULL
  /\ pstate[0] = "ALIVE" /\ pstate[1] # "FREE"

Used(p) == p > 1 /\ pstate[p] # "FREE"

IsRank(rank) ==
  /\ rank \in [Pids -> Nat] /\ rank[1] = 0
  /\ \A p \in Pids : Used(p) => rank[parent[p]] < rank[p]

(***************************************************************************)
(* The free list: a list of the FREE PCBs that begins with pcb_freelist,   *)
(* and in which every PCB is the parent of the one before it.              *)
(***************************************************************************)
FreePids == {p \in Pids : pstate[p] = "FREE"}

IsFreelist(f) ==
  /\ f \in Seq(Pids) /\ IsInjective(f)
  /\ ToSet(f) = FreePids
  /\ pcb_freelist = IF f = << >> THEN NULL ELSE f[1]
  /\ \A i \in DOMAIN f : parent[f[i]] = IF i = Len(f) THEN NULL ELSE f[i + 1]

FreelistInv ==
  /\ \E f \in Seq(Pids) : IsFreelist(f)
  /\ process_count = Cardinality(Pids \ FreePids)

ProcessTypes ==
  /\ pstate \in [Pids -> {"FREE", "ALIVE", "ZOMBIE"}]
  /\ parent \in [Pids -> Pids \cup {NULL}]
  /\ children_list \in [Pids -> SUBSET Pids]
  /\ exited_list \in [Pids -> Seq(Pids)]
  /\ pcb_freelist \in Pids \cup {NULL}

TreeInv ==
  /\ ProcessTypes
  /\ RootsInv
  /\ TreeExact
  /\ \E rank \in [Pids -> Nat] : IsRank(rank)
  /\ FreelistInv

(***************************************************************************)
(* The threads: process 0 has none.                                        *)
(***************************************************************************)
ThreadTypes ==
  /\ ptcb_list \in [Pids -> SUBSET Threads]
  /\ thread_count \in [Pids -> Nat]
  /\ owner_pcb \in [Threads -> Pids \cup {NULL}]
  /\ exited \in [Threads -> BOOLEAN]
  /\ detached \in [Threads -> BOOLEAN]
  /\ taskless \subseteq Pids

ThreadsInv ==
  /\ ThreadTypes
  /\ \A t \in Threads : owner_pcb[t] # 0
  /\ ThreadsExact

JoinsInv == refcount \in [Threads -> Nat] /\ JoinsExact

(***************************************************************************)
(* The threads that wait for a child: they still are the parent of that    *)
(* child, and nobody else of their process waits for it.  Who has the      *)
(* kernel between two children is in the loop of the init process.         *)
(***************************************************************************)
WaitsInv ==
  /\ kernel \in Threads \cup {NULL}
  /\ at \in [Threads -> At]
  /\ target \in [Threads -> Threads \cup Pids \cup {NULL}]
  /\ woken \in [Threads -> BOOLEAN]
  /\ \A t \in Threads : at[t] = "child" =>
       target[t] \in Pids /\ target[t] \in children_list[owner_pcb[t]]
  /\ \A t, u \in Threads :
       at[t] = "child" /\ t # u /\ owner_pcb[u] = owner_pcb[t] =>
         at[u] \notin {"any", "last"} /\ (at[u] = "child" => target[u] # target[t])
  /\ \A t \in Threads : at[t] = "last" => owner_pcb[t] = 1
  /\ kernel # NULL => at[kernel] = "last"

IInv ==
  /\ TreeInv
  /\ ThreadsInv
  /\ JoinsInv
  /\ WaitsInv
  /\ SleepersHaveReason
  /\ exitval \in [Pids -> {"own", "stale"}]

-----------------------------------------------------------------------------
(***************************************************************************)
(* What is known before a step.                                            *)
(***************************************************************************)
LEMMA ConstantsTyped ==
  /\ 0 \in Pids /\ 1 \in Pids /\ Pids \subseteq Nat
  /\ NULL \notin Pids /\ NULL \notin Threads
  /\ InitThread \in Threads /\ IsFiniteSet(Threads)
  /\ IsFiniteSet(Pids) /\ Cardinality(Pids) = MAX_PROC /\ MAX_PROC \in Nat
<1>1. /\ MAX_PROC \in Nat /\ MAX_PROC >= 2 /\ IsFiniteSet(Threads)
      /\ InitThread \in Threads /\ NULL \notin Threads /\ NULL \notin Nat
  BY ConstantsAssumption
<1>2. 0 \in Pids /\ 1 \in Pids /\ Pids \subseteq Nat
  BY <1>1 DEF Pids
<1>3. IsFiniteSet(0..(MAX_PROC - 1)) /\ Cardinality(0..(MAX_PROC - 1)) = MAX_PROC
  <2>1. /\ IsFiniteSet(0..(MAX_PROC - 1))
        /\ Cardinality(0..(MAX_PROC - 1)) =
             IF 0 > MAX_PROC - 1 THEN 0 ELSE (MAX_PROC - 1) - 0 + 1
    BY <1>1, FS_Interval
  <2> QED
    BY <2>1, <1>1
<1> QED
  BY <1>1, <1>2, <1>3 DEF Pids

LEMMA PidOrder ==
  ASSUME NEW p \in Pids
  PROVE  /\ p \in Nat
         /\ p > 0 <=> p # 0
         /\ p > 1 <=> p # 0 /\ p # 1
<1>1. p \in Nat
  BY ConstantsTyped
<1> QED
  BY <1>1

LEMMA Typed ==
  ASSUME IInv
  PROVE  /\ pstate \in [Pids -> {"FREE", "ALIVE", "ZOMBIE"}]
         /\ parent \in [Pids -> Pids \cup {NULL}]
         /\ children_list \in [Pids -> SUBSET Pids]
         /\ exited_list \in [Pids -> Seq(Pids)]
         /\ ptcb_list \in [Pids -> SUBSET Threads]
         /\ thread_count \in [Pids -> Nat]
         /\ exitval \in [Pids -> {"own", "stale"}]
         /\ taskless \subseteq Pids
         /\ pcb_freelist \in Pids \cup {NULL}
         /\ kernel \in Threads \cup {NULL}
         /\ owner_pcb \in [Threads -> Pids \cup {NULL}]
         /\ exited \in [Threads -> BOOLEAN]
         /\ detached \in [Threads -> BOOLEAN]
         /\ refcount \in [Threads -> Nat]
         /\ at \in [Threads -> At]
         /\ target \in [Threads -> Threads \cup Pids \cup {NULL}]
         /\ woken \in [Threads -> BOOLEAN]
BY DEF IInv, TreeInv, ThreadsInv, JoinsInv, WaitsInv, ProcessTypes, ThreadTypes

LEMMA CountTyped ==
  ASSUME FreelistInv
  PROVE  process_count \in 0..MAX_PROC
<1>1. /\ IsFiniteSet(Pids \ FreePids)
      /\ Cardinality(Pids \ FreePids) <= Cardinality(Pids)
  <2>1. (Pids \ FreePids) \subseteq Pids
    OBVIOUS
  <2> QED
    BY <2>1, ConstantsTyped, FS_Subset
<1>2. Cardinality(Pids \ FreePids) \in Nat
  BY <1>1, FS_CardinalityType
<1>3. process_count = Cardinality(Pids \ FreePids)
  BY DEF FreelistInv
<1> QED
  BY <1>1, <1>2, <1>3, ConstantsTyped

LEMMA TypeFollows == IInv => TypeOK
<1> SUFFICES ASSUME IInv PROVE TypeOK
  OBVIOUS
<1>1. process_count \in 0..MAX_PROC
  BY CountTyped DEF IInv, TreeInv
<1> QED
  BY <1>1, Typed DEF TypeOK

\* A thread that has a TCB.
LEMMA CallerFacts ==
  ASSUME IInv, NEW t \in Threads, at[t] # "none"
  PROVE  /\ owner_pcb[t] \in Pids /\ owner_pcb[t] > 0
         /\ pstate[owner_pcb[t]] = "ALIVE"
         /\ t \in ThreadsOf(owner_pcb[t]) /\ t \in ptcb_list[owner_pcb[t]]
         /\ ~ exited[t]
<1>1. owner_pcb[t] \in Pids /\ owner_pcb[t] # 0
  BY Typed DEF IInv, ThreadsInv, ThreadsExact
<1>2. t \in ThreadsOf(owner_pcb[t]) /\ owner_pcb[t] > 0
  BY <1>1, PidOrder DEF ThreadsOf
<1>3. pstate[owner_pcb[t]] = "ALIVE" /\ t \in ptcb_list[owner_pcb[t]]
  BY <1>1, <1>2 DEF IInv, ThreadsInv, ThreadsExact, HasTask
<1>4. ~ exited[t]
  BY <1>1, <1>3, ConstantsTyped DEF IInv, ThreadsInv, ThreadsExact
<1> QED
  BY <1>1, <1>2, <1>3, <1>4

\* A process that is the child of another one.
LEMMA ChildFacts ==
  ASSUME IInv, NEW p \in Pids, NEW q \in Pids, p \in children_list[q]
  PROVE  /\ p > 1 /\ p # q /\ parent[p] = q /\ q # 0
         /\ pstate[p] \in {"ALIVE", "ZOMBIE"} /\ pstate[q] = "ALIVE"
<1>1. p > 1 /\ pstate[p] # "FREE" /\ parent[p] = q /\ q # 0 /\ pstate[q] = "ALIVE"
  BY DEF IInv, TreeInv, TreeExact, ChildOf
<1>2. PICK rank \in [Pids -> Nat] : IsRank(rank)
  BY DEF IInv, TreeInv
<1>3. rank[q] < rank[p] /\ rank[q] \in Nat /\ rank[p] \in Nat
  BY <1>1, <1>2 DEF IsRank, Used
<1>4. p # q
  BY <1>3
<1> QED
  BY <1>1, <1>4, Typed

\* Whoever is in use descends from process 1, which is alive till the last
\* of them is gone.
LEMMA OldestChild ==
  ASSUME IInv, NEW x \in Pids, Used(x)
  PROVE  children_list[1] # {} /\ pstate[1] = "ALIVE"
<1>1. PICK rank \in [Pids -> Nat] : IsRank(rank)
  BY DEF IInv, TreeInv
<1> DEFINE R == {rank[p] : p \in {p \in Pids : Used(p)}}
<1>2. R \subseteq Nat /\ R # {}
  OBVIOUS
<1>3. PICK r \in R : \A s \in R : r <= s
  BY <1>2, NatMinimum
<1>4. PICK p \in Pids : Used(p) /\ rank[p] = r
  BY <1>3
<1>5. \A q \in Pids : Used(q) => rank[p] <= rank[q]
  BY <1>3, <1>4
<1>6. parent[p] \in Pids /\ parent[p] # 0 /\ pstate[parent[p]] = "ALIVE"
  BY <1>4, Typed DEF IInv, TreeInv, TreeExact, Used
<1>7. rank[parent[p]] < rank[p] /\ rank[p] \in Nat /\ rank[parent[p]] \in Nat
  BY <1>1, <1>4, <1>6 DEF IsRank
<1>8. ~ Used(parent[p])
  BY <1>5, <1>6, <1>7
<1>9. parent[p] = 1
  BY <1>6, <1>8, PidOrder DEF Used
<1>10. p \in children_list[1]
  BY <1>4, <1>9, ConstantsTyped DEF IInv, TreeInv, TreeExact, ChildOf, Used
<1> QED
  BY <1>6, <1>9, <1>10

\* The free list, and what is in it.
LEMMA FreelistFacts ==
  ASSUME IInv, pcb_freelist # NULL
  PROVE  pcb_freelist \in Pids /\ pcb_freelist > 1 /\ pstate[pcb_freelist] = "FREE"
<1>1. PICK f \in Seq(Pids) : IsFreelist(f)
  BY DEF IInv, TreeInv, FreelistInv
<1>2. f # << >> /\ pcb_freelist = f[1]
  BY <1>1 DEF IsFreelist
<1>3. f[1] \in ToSet(f)
  BY <1>2, PopFront
<1>4. f[1] \in Pids /\ pstate[f[1]] = "FREE"
  BY <1>1, <1>3 DEF IsFreelist, FreePids
<1>5. f[1] # 0 /\ f[1] # 1
  BY <1>4 DEF IInv, TreeInv, RootsInv
<1> QED
  BY <1>2, <1>4, <1>5, PidOrder

\* rlist_remove() from a list.
LEMMA WithoutFacts ==
  ASSUME NEW S, NEW s \in Seq(S), IsInjective(s), NEW e
  PROVE  /\ Without(s, e) \in Seq(S) /\ IsInjective(Without(s, e))
         /\ ToSet(Without(s, e)) = ToSet(s) \ {e}
         /\ e \notin ToSet(s) => Without(s, e) = s
<1>1. CASE \E i \in DOMAIN s : s[i] = e
  <2> PICK i : i = CHOOSE j \in DOMAIN s : s[j] = e
    OBVIOUS
  <2>1. i \in DOMAIN s /\ s[i] = e
    BY <1>1
  <2>2. Without(s, e) = RemoveAt(s, i)
    BY <1>1 DEF Without
  <2>3. e \in ToSet(s)
    BY <1>1 DEF ToSet
  <2> QED
    BY <2>1, <2>2, <2>3, Unlink
<1>2. CASE ~ \E i \in DOMAIN s : s[i] = e
  <2>1. Without(s, e) = s
    BY <1>2 DEF Without
  <2>2. e \notin ToSet(s)
    BY <1>2 DEF ToSet
  <2> QED
    BY <2>1, <2>2
<1> QED
  BY <1>1, <1>2

-----------------------------------------------------------------------------
(***************************************************************************)
(* The steps of the process tree and of the free list.                     *)
(***************************************************************************)
tree == <<pstate, parent, children_list, exited_list, taskless, pcb_freelist,
          process_count>>

LEMMA TreeStays ==
  ASSUME IInv, UNCHANGED tree
  PROVE  TreeInv'
<1> USE DEF tree
<1>1. TreeInv
  BY DEF IInv
<1>2. ProcessTypes' /\ RootsInv'
  BY <1>1 DEF TreeInv, ProcessTypes, RootsInv
<1>3. TreeExact'
  BY <1>1 DEF TreeInv, TreeExact, ChildOf
<1>4. \E rank \in [Pids -> Nat] : IsRank(rank)'
  BY <1>1 DEF TreeInv, IsRank, Used
<1>5. FreelistInv'
  <2>1. FreePids' = FreePids
    BY DEF FreePids
  <2>2. \A f : IsFreelist(f)' <=> IsFreelist(f)
    BY <2>1 DEF IsFreelist
  <2>3. FreelistInv
    BY <1>1 DEF TreeInv
  <2> QED
    BY <2>1, <2>2, <2>3, Zenon DEF FreelistInv
<1> QED
  BY <1>2, <1>3, <1>4, <1>5 DEF TreeInv

\* Nothing is taken from the free list and nothing is put into it.
LEMMA FreelistStays ==
  ASSUME IInv, UNCHANGED <<pcb_freelist, process_count>>,
         \A p \in Pids : pstate'[p] = "FREE" <=> pstate[p] = "FREE",
         \A p \in Pids : pstate[p] = "FREE" => parent'[p] = parent[p]
  PROVE  FreelistInv'
<1>1. FreePids' = FreePids
  BY DEF FreePids
<1>2. PICK f \in Seq(Pids) : IsFreelist(f)
  BY DEF IInv, TreeInv, FreelistInv
<1>3. \A i \in DOMAIN f : f[i] \in FreePids
  BY <1>2 DEF IsFreelist, ToSet
<1>4. \A i \in DOMAIN f : parent'[f[i]] = parent[f[i]]
  BY <1>3 DEF FreePids
<1>5. IsFreelist(f)'
  BY <1>1, <1>2, <1>4 DEF IsFreelist
<1>6. process_count = Cardinality(Pids \ FreePids)
  BY DEF IInv, TreeInv, FreelistInv
<1> QED
  BY <1>1, <1>5, <1>6, Zenon DEF FreelistInv

\* acquire_PCB(), and the parent of the new process.
LEMMA AcquireFreelist ==
  ASSUME IInv, NEW q \in Pids, acquire_PCB,
         parent' = [parent EXCEPT ![pcb_freelist] = q]
  PROVE  FreelistInv' /\ pcb_freelist' \in Pids \cup {NULL}
<1> PICK p : p = pcb_freelist
  OBVIOUS
<1>1. /\ p \in Pids /\ pstate[p] = "FREE" /\ pcb_freelist = p
      /\ pstate' = [pstate EXCEPT ![p] = "ALIVE"]
      /\ pcb_freelist' = parent[p]
      /\ process_count' = process_count + 1
      /\ parent' = [parent EXCEPT ![p] = q]
  BY FreelistFacts DEF acquire_PCB
<1>2. PICK f \in Seq(Pids) : IsFreelist(f)
  BY DEF IInv, TreeInv, FreelistInv
<1>3. f # << >> /\ p = f[1] /\ IsInjective(f) /\ ToSet(f) = FreePids
  BY <1>1, <1>2, ConstantsTyped DEF IsFreelist
<1>4. /\ Tail(f) \in Seq(Pids) /\ IsInjective(Tail(f))
      /\ ToSet(Tail(f)) = FreePids \ {p}
  BY <1>3, PopFront
<1>5. FreePids' = FreePids \ {p}
  BY <1>1, Typed DEF FreePids
<1>6. /\ Len(Tail(f)) = Len(f) - 1 /\ Len(f) \in Nat
      /\ DOMAIN f = 1..Len(f) /\ DOMAIN Tail(f) = 1..Len(Tail(f))
      /\ \A i \in 1..Len(Tail(f)) : Tail(f)[i] = f[i + 1]
      /\ Len(f) # 0
      /\ Tail(f) = << >> <=> Len(Tail(f)) = 0
  BY <1>3, <1>4, HeadTailProperties, LenProperties, EmptySeq
<1>7. pcb_freelist' = IF Tail(f) = << >> THEN NULL ELSE Tail(f)[1]
  <2>1. parent[p] = IF 1 = Len(f) THEN NULL ELSE f[2]
    <3>1. 1 \in DOMAIN f /\ 1 + 1 = 2
      BY <1>6
    <3> QED
      BY <1>2, <1>3, <3>1 DEF IsFreelist
  <2>2. CASE Len(f) = 1
    BY <2>1, <2>2, <1>1, <1>6
  <2>3. CASE Len(f) # 1
    <3>1. 1 \in 1..Len(Tail(f)) /\ Tail(f) # << >>
      BY <2>3, <1>6
    <3> QED
      BY <2>1, <2>3, <3>1, <1>1, <1>6
  <2> QED
    BY <2>2, <2>3
<1>8. ASSUME NEW i \in DOMAIN Tail(f)
      PROVE  parent'[Tail(f)[i]] = IF i = Len(Tail(f)) THEN NULL ELSE Tail(f)[i + 1]
  <2>1. i + 1 \in DOMAIN f /\ Tail(f)[i] = f[i + 1]
    BY <1>6
  <2>2. f[i + 1] # p /\ f[i + 1] \in Pids
    <3>1. Tail(f)[i] \in ToSet(Tail(f))
      BY DEF ToSet
    <3> QED
      BY <3>1, <2>1, <1>4 DEF FreePids
  <2>3. parent'[f[i + 1]] = parent[f[i + 1]]
    BY <2>2, <1>1, Typed
  <2>4. parent[f[i + 1]] = IF i + 1 = Len(f) THEN NULL ELSE f[(i + 1) + 1]
    BY <2>1, <1>2 DEF IsFreelist
  <2>5. CASE i = Len(Tail(f))
    <3>1. i + 1 = Len(f)
      BY <2>5, <1>6
    <3> QED
      BY <2>1, <2>3, <2>4, <2>5, <3>1
  <2>6. CASE i # Len(Tail(f))
    <3>1. i + 1 # Len(f) /\ i + 1 \in 1..Len(Tail(f))
      BY <2>6, <1>6
    <3>2. Tail(f)[i + 1] = f[(i + 1) + 1]
      BY <3>1, <1>6
    <3> QED
      BY <2>1, <2>3, <2>4, <2>6, <3>1, <3>2
  <2> QED
    BY <2>5, <2>6
<1>9. IsFreelist(Tail(f))'
  BY <1>4, <1>5, <1>7, <1>8 DEF IsFreelist
<1>10. process_count' = Cardinality((Pids \ FreePids)')
  <2>1. (Pids \ FreePids)' = (Pids \ FreePids) \cup {p}
    BY <1>1, <1>5
  <2>2. p \notin Pids \ FreePids
    BY <1>1 DEF FreePids
  <2>3. IsFiniteSet(Pids \ FreePids)
    <3>1. (Pids \ FreePids) \subseteq Pids
      OBVIOUS
    <3> QED
      BY <3>1, ConstantsTyped, FS_Subset
  <2>4. Cardinality((Pids \ FreePids) \cup {p}) = Cardinality(Pids \ FreePids) + 1
    BY <2>2, <2>3, FS_AddElement
  <2>5. process_count = Cardinality(Pids \ FreePids)
    BY DEF IInv, TreeInv, FreelistInv
  <2> QED
    BY <1>1, <2>1, <2>4, <2>5, Zenon
<1>11. parent[p] \in Pids \cup {NULL}
  BY <1>1, Typed
<1> QED
  BY <1>1, <1>4, <1>9, <1>10, <1>11, Zenon DEF FreelistInv

\* release_PCB()
LEMMA ReleaseFreelist ==
  ASSUME IInv, NEW c \in Pids, pstate[c] = "ZOMBIE", Reap(c)
  PROVE  FreelistInv'
<1>1. /\ pstate' = [pstate EXCEPT ![c] = "FREE"]
      /\ parent' = [parent EXCEPT ![c] = pcb_freelist]
      /\ pcb_freelist' = c
      /\ process_count' = process_count - 1
  BY DEF Reap, NextFree
<1>2. PICK f \in Seq(Pids) : IsFreelist(f)
  BY DEF IInv, TreeInv, FreelistInv
<1>3. c \notin FreePids /\ FreePids' = FreePids \cup {c}
  BY <1>1, Typed DEF FreePids
<1> DEFINE g == <<c>> \o f
<1>4. /\ <<c>> \in Seq(Pids) /\ ToSet(<<c>>) = {c} /\ IsInjective(<<c>>)
      /\ Len(<<c>>) = 1 /\ <<c>>[1] = c
  BY DEF ToSet, IsInjective
<1>5. /\ g \in Seq(Pids) /\ IsInjective(g)
      /\ ToSet(g) = FreePids'
  <2>1. IsInjective(f) /\ ToSet(f) = FreePids
    BY <1>2 DEF IsFreelist
  <2>2. ToSet(<<c>>) \cap ToSet(f) = {}
    BY <2>1, <1>3, <1>4
  <2>3. /\ g \in Seq(Pids) /\ IsInjective(g)
        /\ ToSet(g) = ToSet(<<c>>) \cup ToSet(f)
    BY <2>1, <2>2, <1>4, Concat
  <2>4. ToSet(<<c>>) \cup ToSet(f) = FreePids'
    BY <2>1, <1>3, <1>4
  <2> QED
    BY <2>3, <2>4
<1>6. /\ Len(g) = Len(f) + 1 /\ Len(f) \in Nat
      /\ DOMAIN f = 1..Len(f) /\ DOMAIN g = 1..Len(g)
      /\ g[1] = c
      /\ \A i \in 1..Len(f) : g[i + 1] = f[i]
      /\ f = << >> <=> Len(f) = 0
      /\ g # << >>
  <2>1. /\ Len(g) = 1 + Len(f) /\ Len(f) \in Nat
        /\ \A i \in 1..(1 + Len(f)) : g[i] = IF i <= 1 THEN <<c>>[i] ELSE f[i - 1]
        /\ DOMAIN f = 1..Len(f) /\ DOMAIN g = 1..Len(g)
    BY <1>4, <1>5, ConcatProperties, LenProperties
  <2> HIDE DEF g
  <2>2. g[1] = c
    BY <2>1, <1>4
  <2>3. ASSUME NEW i \in 1..Len(f) PROVE g[i + 1] = f[i]
    <3>1. i + 1 \in 1..(1 + Len(f)) /\ ~ (i + 1 <= 1) /\ (i + 1) - 1 = i
      BY <2>1
    <3> QED
      BY <2>1, <3>1
  <2>4. g # << >>
    BY <2>1, EmptySeq
  <2> QED
    BY <2>1, <2>2, <2>3, <2>4, EmptySeq
<1> HIDE DEF g
<1>7. ASSUME NEW i \in DOMAIN g
      PROVE  parent'[g[i]] = IF i = Len(g) THEN NULL ELSE g[i + 1]
  <2>1. CASE i = 1
    <3>1. parent'[g[i]] = pcb_freelist
      BY <2>1, <1>1, <1>6, Typed
    <3>2. pcb_freelist = IF f = << >> THEN NULL ELSE f[1]
      BY <1>2 DEF IsFreelist
    <3>3. CASE f = << >>
      BY <2>1, <3>1, <3>2, <3>3, <1>6
    <3>4. CASE f # << >>
      <4>1. 1 \in 1..Len(f) /\ i # Len(g)
        BY <2>1, <3>4, <1>6
      <4>2. g[1 + 1] = f[1]
        BY <4>1, <1>6
      <4> QED
        BY <2>1, <3>1, <3>2, <3>4, <4>1, <4>2
    <3> QED
      BY <3>3, <3>4
  <2>2. CASE i # 1
    <3> PICK j : j = i - 1
      OBVIOUS
    <3>1. j \in 1..Len(f) /\ i = j + 1
      BY <2>2, <1>6
    <3>2. g[i] = f[j] /\ f[j] \in FreePids
      BY <3>1, <1>2, <1>6 DEF IsFreelist, ToSet
    <3>3. parent'[g[i]] = parent[f[j]]
      BY <3>2, <1>1, <1>3, Typed DEF FreePids
    <3>4. parent[f[j]] = IF j = Len(f) THEN NULL ELSE f[j + 1]
      BY <3>1, <1>2, <1>6 DEF IsFreelist
    <3>5. CASE j = Len(f)
      <4>1. i = Len(g)
        BY <3>1, <3>5, <1>6
      <4> QED
        BY <3>3, <3>4, <3>5, <4>1
    <3>6. CASE j # Len(f)
      <4>1. i # Len(g) /\ j + 1 \in 1..Len(f)
        BY <3>1, <3>6, <1>6
      <4>2. g[i + 1] = f[j + 1]
        BY <3>1, <4>1, <1>6
      <4> QED
        BY <3>3, <3>4, <3>6, <4>1, <4>2
    <3> QED
      BY <3>5, <3>6
  <2> QED
    BY <2>1, <2>2
<1>8. IsFreelist(g)'
  BY <1>1, <1>5, <1>6, <1>7 DEF IsFreelist
<1>9. process_count' = Cardinality((Pids \ FreePids)')
  <2>1. (Pids \ FreePids)' = (Pids \ FreePids) \ {c} /\ c \in Pids \ FreePids
    BY <1>3
  <2>2. IsFiniteSet(Pids \ FreePids)
    <3>1. (Pids \ FreePids) \subseteq Pids
      OBVIOUS
    <3> QED
      BY <3>1, ConstantsTyped, FS_Subset
  <2>3. Cardinality((Pids \ FreePids) \ {c}) = Cardinality(Pids \ FreePids) - 1
    BY <2>1, <2>2, FS_RemoveElement
  <2>4. process_count = Cardinality(Pids \ FreePids)
    BY DEF IInv, TreeInv, FreelistInv
  <2> QED
    BY <1>1, <2>1, <2>3, <2>4, Zenon
<1> QED
  BY <1>5, <1>8, <1>9, Zenon DEF FreelistInv

\* sys_Exec() by a thread of process q.
LEMMA ExecTree ==
  ASSUME IInv, NEW q \in Pids, q # 0, pstate[q] = "ALIVE", acquire_PCB,
         parent' = [parent EXCEPT ![pcb_freelist] = q],
         children_list' = [children_list EXCEPT ![q] = @ \cup {pcb_freelist}],
         exited_list' = exited_list
  PROVE  TreeInv'
<1> PICK p : p = pcb_freelist
  OBVIOUS
<1>1. /\ p \in Pids /\ p > 1 /\ pstate[p] = "FREE" /\ p # 0 /\ p # 1
      /\ pstate' = [pstate EXCEPT ![p] = "ALIVE"]
      /\ parent' = [parent EXCEPT ![p] = q]
      /\ children_list' = [children_list EXCEPT ![q] = @ \cup {p}]
  BY FreelistFacts, PidOrder DEF acquire_PCB
<1>2. FreelistInv' /\ pcb_freelist' \in Pids \cup {NULL}
  BY AcquireFreelist
<1>3. \A x \in Pids :
        /\ pstate'[x] = IF x = p THEN "ALIVE" ELSE pstate[x]
        /\ parent'[x] = IF x = p THEN q ELSE parent[x]
        /\ \A y \in Pids : y \in children_list'[x] <=>
             y \in children_list[x] \/ (x = q /\ y = p)
  BY <1>1, Typed
<1>4. TreeExact /\ RootsInv
  BY DEF IInv, TreeInv
<1>5. ProcessTypes'
  BY <1>1, <1>2, Typed DEF ProcessTypes
<1>6. RootsInv'
  BY <1>1, <1>3, <1>4, ConstantsTyped DEF RootsInv
<1>7. \A y \in Pids : p \notin children_list[y] /\ p \notin ToSet(exited_list[y])
  BY <1>1, <1>4 DEF TreeExact, ChildOf
<1>8. TreeExact'
  <2>1. ASSUME NEW x \in Pids, NEW y \in Pids
        PROVE  x \in children_list'[y] <=> x > 1 /\ pstate'[x] # "FREE" /\ parent'[x] = y
    <3>1. CASE x = p
      BY <3>1, <1>1, <1>3, <1>7
    <3>2. CASE x # p
      <4>1. x \in children_list[y] <=> x > 1 /\ pstate[x] # "FREE" /\ parent[x] = y
        BY <1>4 DEF TreeExact, ChildOf
      <4> QED
        BY <3>2, <4>1, <1>3
    <3> QED
      BY <3>1, <3>2
  <2>2. ASSUME NEW x \in Pids, x > 1, pstate'[x] # "FREE"
        PROVE  parent'[x] # NULL /\ parent'[x] # 0 /\ pstate'[parent'[x]] = "ALIVE"
    <3>1. CASE x = p
      BY <3>1, <1>1, <1>3, ConstantsTyped
    <3>2. CASE x # p
      <4>1. parent[x] # NULL /\ parent[x] # 0 /\ pstate[parent[x]] = "ALIVE"
        BY <2>2, <3>2, <1>3, <1>4 DEF TreeExact
      <4>2. parent[x] \in Pids /\ parent'[x] = parent[x]
        BY <3>2, <4>1, <1>3, Typed
      <4> QED
        BY <4>1, <4>2, <1>3
    <3> QED
      BY <3>1, <3>2
  <2>3. ASSUME NEW x \in Pids, NEW y \in Pids
        PROVE  x \in ToSet(exited_list[y]) <=> pstate'[x] = "ZOMBIE" /\ x \in children_list'[y]
    <3>1. CASE x = p
      BY <3>1, <1>3, <1>7
    <3>2. CASE x # p
      <4>1. x \in ToSet(exited_list[y]) <=> pstate[x] = "ZOMBIE" /\ x \in children_list[y]
        BY <1>4 DEF TreeExact
      <4> QED
        BY <3>2, <4>1, <1>3
    <3> QED
      BY <3>1, <3>2
  <2>4. \A y \in Pids : IsInjective(exited_list[y])
    BY <1>4 DEF TreeExact
  <2> QED
    BY <2>1, <2>2, <2>3, <2>4 DEF TreeExact, ChildOf
<1>9. \E rank \in [Pids -> Nat] : IsRank(rank)'
  <2>1. PICK rank \in [Pids -> Nat] : IsRank(rank)
    BY DEF IInv, TreeInv
  <2> DEFINE new == [x \in Pids |-> IF x = p THEN rank[q] + 1 ELSE rank[x]]
  <2>2. rank[q] \in Nat /\ rank[q] + 1 \in Nat
    OBVIOUS
  <2>3. new \in [Pids -> Nat]
    BY <2>2
  <2>4. \A x \in Pids : new[x] = IF x = p THEN rank[q] + 1 ELSE rank[x]
    OBVIOUS
  <2>5. p # q
    BY <1>1
  <2> HIDE DEF new
  <2>6. new[1] = 0
    BY <2>1, <2>4, <1>1, ConstantsTyped DEF IsRank
  <2>7. ASSUME NEW x \in Pids, Used(x)'
        PROVE  new[parent'[x]] < new[x]
    <3>1. CASE x = p
      BY <3>1, <2>2, <2>4, <2>5, <1>3
    <3>2. CASE x # p
      <4>1. Used(x) /\ parent'[x] = parent[x]
        BY <2>7, <3>2, <1>3 DEF Used
      <4>2. parent[x] \in Pids /\ pstate[parent[x]] = "ALIVE"
        BY <4>1, <1>4, Typed DEF TreeExact, Used
      <4>3. rank[parent[x]] < rank[x] /\ parent[x] # p
        BY <4>1, <4>2, <2>1, <1>1 DEF IsRank
      <4> QED
        BY <3>2, <4>1, <4>2, <4>3, <2>4
    <3> QED
      BY <3>1, <3>2
  <2>8. IsRank(new)'
    BY <2>3, <2>6, <2>7 DEF IsRank
  <2> QED
    BY <2>3, <2>8
<1> QED
  BY <1>2, <1>5, <1>6, <1>8, <1>9 DEF TreeInv

\* cleanup_zombie() of a child.
LEMMA ReapTree ==
  ASSUME IInv, NEW c \in Pids, c > 1, pstate[c] = "ZOMBIE", Reap(c)
  PROVE  TreeInv'
<1>1. /\ children_list' = [q \in Pids |-> children_list[q] \ {c}]
      /\ exited_list' = [q \in Pids |-> Without(exited_list[q], c)]
      /\ pstate' = [pstate EXCEPT ![c] = "FREE"]
      /\ parent' = [parent EXCEPT ![c] = pcb_freelist]
      /\ pcb_freelist' = c
  BY DEF Reap, NextFree
<1>2. FreelistInv'
  BY ReleaseFreelist
<1>3. TreeExact /\ RootsInv
  BY DEF IInv, TreeInv
<1>4. \A x \in Pids :
        /\ pstate'[x] = IF x = c THEN "FREE" ELSE pstate[x]
        /\ parent'[x] = IF x = c THEN pcb_freelist ELSE parent[x]
        /\ children_list'[x] = children_list[x] \ {c}
  BY <1>1, Typed
<1>5. \A x \in Pids : /\ exited_list'[x] \in Seq(Pids) /\ IsInjective(exited_list'[x])
                      /\ ToSet(exited_list'[x]) = ToSet(exited_list[x]) \ {c}
  <2> SUFFICES ASSUME NEW x \in Pids
               PROVE  /\ exited_list'[x] \in Seq(Pids) /\ IsInjective(exited_list'[x])
                      /\ ToSet(exited_list'[x]) = ToSet(exited_list[x]) \ {c}
    OBVIOUS
  <2>1. exited_list[x] \in Seq(Pids) /\ IsInjective(exited_list[x])
    BY <1>3, Typed DEF TreeExact
  <2>2. exited_list'[x] = Without(exited_list[x], c)
    BY <1>1
  <2> QED
    BY <2>1, <2>2, WithoutFacts
<1>6. ProcessTypes'
  <2>1. children_list' \in [Pids -> SUBSET Pids]
    BY <1>1, Typed
  <2>2. exited_list' \in [Pids -> Seq(Pids)]
    BY <1>1, <1>5
  <2> QED
    BY <1>1, <2>1, <2>2, Typed DEF ProcessTypes
<1>7. RootsInv'
  BY <1>3, <1>4, ConstantsTyped DEF RootsInv
<1>8. TreeExact'
  <2>1. ASSUME NEW x \in Pids, NEW y \in Pids
        PROVE  x \in children_list'[y] <=> x > 1 /\ pstate'[x] # "FREE" /\ parent'[x] = y
    <3>1. x \in children_list[y] <=> x > 1 /\ pstate[x] # "FREE" /\ parent[x] = y
      BY <1>3 DEF TreeExact, ChildOf
    <3> QED
      BY <3>1, <1>4
  <2>2. ASSUME NEW x \in Pids, x > 1, pstate'[x] # "FREE"
        PROVE  parent'[x] # NULL /\ parent'[x] # 0 /\ pstate'[parent'[x]] = "ALIVE"
    <3>1. x # c /\ parent[x] # NULL /\ parent[x] # 0 /\ pstate[parent[x]] = "ALIVE"
      BY <2>2, <1>3, <1>4 DEF TreeExact
    <3>2. parent[x] \in Pids /\ parent'[x] = parent[x]
      BY <3>1, <1>4, Typed
    <3> QED
      BY <3>1, <3>2, <1>4
  <2>3. ASSUME NEW x \in Pids, NEW y \in Pids
        PROVE  x \in ToSet(exited_list'[y]) <=> pstate'[x] = "ZOMBIE" /\ x \in children_list'[y]
    <3>1. x \in ToSet(exited_list[y]) <=> pstate[x] = "ZOMBIE" /\ x \in children_list[y]
      BY <1>3 DEF TreeExact
    <3> QED
      BY <3>1, <1>4, <1>5
  <2>4. \A y \in Pids : IsInjective(exited_list'[y])
    BY <1>5
  <2> QED
    BY <2>1, <2>2, <2>3, <2>4 DEF TreeExact, ChildOf
<1>9. \E rank \in [Pids -> Nat] : IsRank(rank)'
  <2>1. PICK rank \in [Pids -> Nat] : IsRank(rank)
    BY DEF IInv, TreeInv
  <2>2. ASSUME NEW x \in Pids, Used(x)'
        PROVE  Used(x) /\ parent'[x] = parent[x]
    BY <2>2, <1>4 DEF Used
  <2>3. IsRank(rank)'
    BY <2>1, <2>2 DEF IsRank
  <2> QED
    BY <2>3
<1> QED
  BY <1>2, <1>6, <1>7, <1>8, <1>9 DEF TreeInv

\* The end of a process other than init: its children and zombies go to
\* init, and it becomes a zombie of its parent.
LEMMA LeaveTree ==
  ASSUME IInv, NEW p \in Pids, p > 1, pstate[p] = "ALIVE",
         children_list' = ChildrenAdopted(p),
         parent' = [q \in Pids |-> IF q \in children_list[p] THEN 1 ELSE parent[q]],
         exited_list' = [ZombiesAdopted(p) EXCEPT ![parent[p]] = <<p>> \o @],
         pstate' = [pstate EXCEPT ![p] = "ZOMBIE"],
         UNCHANGED <<pcb_freelist, process_count>>
  PROVE  /\ TreeInv'
         /\ exited_list[p] = << >> /\ parent[p] # 1 => exited_list'[1] = exited_list[1]
         /\ \A x \in Pids \ {p, 1, parent[p]} : exited_list'[x] = exited_list[x]
<1> PICK q : q = parent[p]
  OBVIOUS
<1>1. TreeExact /\ RootsInv
  BY DEF IInv, TreeInv
<1>2. p # 0 /\ p # 1 /\ Used(p)
  BY PidOrder DEF Used
<1>3. /\ q \in Pids /\ q # 0 /\ pstate[q] = "ALIVE" /\ p \in children_list[q]
      /\ q # p /\ pstate[1] = "ALIVE"
  <2>1. q \in Pids /\ q # 0 /\ pstate[q] = "ALIVE"
    BY <1>1, <1>2, Typed DEF TreeExact
  <2>2. p \in children_list[q]
    BY <2>1, <1>1 DEF TreeExact, ChildOf
  <2> QED
    BY <2>1, <2>2, <1>2, ChildFacts, OldestChild
<1>4. \A x \in Pids :
        /\ pstate'[x] = IF x = p THEN "ZOMBIE" ELSE pstate[x]
        /\ parent'[x] = IF x \in children_list[p] THEN 1 ELSE parent[x]
        /\ children_list'[x] = IF x = p THEN {} ELSE
             IF x = 1 THEN children_list[1] \cup children_list[p] ELSE children_list[x]
  BY <1>2, Typed, ConstantsTyped DEF ChildrenAdopted
<1>5. \A x, y \in Pids : x \in children_list[y] <=> x > 1 /\ pstate[x] # "FREE" /\ parent[x] = y
  BY <1>1 DEF TreeExact, ChildOf
<1>6. \A x, y \in Pids : x \in ToSet(exited_list[y]) <=> pstate[x] = "ZOMBIE" /\ x \in children_list[y]
  BY <1>1 DEF TreeExact
<1>7. \A x \in Pids :
        /\ exited_list[x] \in Seq(Pids) /\ IsInjective(exited_list[x])
        /\ ToSet(exited_list[x]) \subseteq Pids /\ p \notin ToSet(exited_list[x])
  <2> SUFFICES ASSUME NEW x \in Pids
               PROVE  /\ exited_list[x] \in Seq(Pids) /\ IsInjective(exited_list[x])
                      /\ ToSet(exited_list[x]) \subseteq Pids /\ p \notin ToSet(exited_list[x])
    OBVIOUS
  <2>1. exited_list[x] \in Seq(Pids)
    BY Typed
  <2>2. IsInjective(exited_list[x]) /\ p \notin ToSet(exited_list[x])
    BY <1>1, <1>6 DEF TreeExact
  <2> QED
    BY <2>1, <2>2, SeqTyped
<1>8. ToSet(exited_list[1]) \cap ToSet(exited_list[p]) = {}
  <2>1. ASSUME NEW x \in ToSet(exited_list[1]), x \in ToSet(exited_list[p]) PROVE FALSE
    <3>1. x \in Pids /\ 1 \in Pids
      BY <1>7, ConstantsTyped
    <3>2. x \in children_list[1] /\ x \in children_list[p]
      BY <2>1, <3>1, <1>6
    <3> QED
      BY <3>1, <3>2, <1>2, <1>5
  <2> QED
    BY <2>1
<1> DEFINE a == exited_list[1] \o exited_list[p]
<1>9. /\ a \in Seq(Pids) /\ IsInjective(a)
      /\ ToSet(a) = ToSet(exited_list[1]) \cup ToSet(exited_list[p])
      /\ exited_list[p] = << >> => a = exited_list[1]
  <2>1. /\ exited_list[1] \in Seq(Pids) /\ IsInjective(exited_list[1])
        /\ exited_list[p] \in Seq(Pids) /\ IsInjective(exited_list[p])
    BY <1>7, ConstantsTyped
  <2>2. exited_list[1] \o exited_list[p] \in Seq(Pids)
    BY <2>1, Concat
  <2>3. ToSet(exited_list[1] \o exited_list[p]) = ToSet(exited_list[1]) \cup ToSet(exited_list[p])
    BY <2>1, Concat
  <2>4. IsInjective(exited_list[1] \o exited_list[p])
    BY <2>1, <1>8, Concat
  <2>5. exited_list[p] = << >> => exited_list[1] \o exited_list[p] = exited_list[1]
    BY <2>1, Concat
  <2> QED
    BY <2>2, <2>3, <2>4, <2>5
<1> HIDE DEF a
<1> DEFINE Z(x) == IF x = p THEN << >> ELSE IF x = 1 THEN a ELSE exited_list[x]
<1>10. /\ ZombiesAdopted(p) = [exited_list EXCEPT ![1] = a, ![p] = << >>]
       /\ \A x \in Pids : ZombiesAdopted(p)[x] = Z(x)
       /\ exited_list' = [ZombiesAdopted(p) EXCEPT ![q] = <<p>> \o @]
  BY <1>2, Typed, ConstantsTyped DEF ZombiesAdopted, a
<1>11. \A x \in Pids : exited_list'[x] = IF x = q THEN <<p>> \o Z(q) ELSE Z(x)
  <2>1. DOMAIN ZombiesAdopted(p) = Pids
    BY <1>10, Typed
  <2> HIDE DEF Z
  <2> QED
    BY <2>1, <1>3, <1>10
<1>12. \A x \in Pids :
         /\ Z(x) \in Seq(Pids) /\ IsInjective(Z(x)) /\ p \notin ToSet(Z(x))
         /\ ToSet(Z(x)) = IF x = p THEN {} ELSE
              IF x = 1 THEN ToSet(exited_list[1]) \cup ToSet(exited_list[p])
              ELSE ToSet(exited_list[x])
  <2>1. /\ << >> \in Seq(Pids) /\ IsInjective(<< >>) /\ ToSet(<< >>) = {}
    BY SeqTyped, EmptySeq
  <2> QED
    BY <2>1, <1>7, <1>9, ConstantsTyped
<1>13. /\ <<p>> \o Z(q) \in Seq(Pids) /\ IsInjective(<<p>> \o Z(q))
       /\ ToSet(<<p>> \o Z(q)) = {p} \cup ToSet(Z(q))
  <2> HIDE DEF Z
  <2>1. Z(q) \in Seq(Pids) /\ IsInjective(Z(q)) /\ p \notin ToSet(Z(q))
    BY <1>3, <1>12
  <2> PICK r \in Seq(Pids) : r = Z(q)
    BY <2>1
  <2> QED
    BY <2>1, PushFront
<1>14. \A x \in Pids :
         /\ exited_list'[x] \in Seq(Pids) /\ IsInjective(exited_list'[x])
         /\ ToSet(exited_list'[x]) =
              ToSet(Z(x)) \cup (IF x = q THEN {p} ELSE {})
  <2> HIDE DEF Z
  <2> QED
    BY <1>11, <1>12, <1>13
<1>15. ProcessTypes'
  <2>1. exited_list' \in [Pids -> Seq(Pids)]
    <3>1. exited_list' = [x \in Pids |-> exited_list'[x]]
      <4>1. DOMAIN ZombiesAdopted(p) = Pids
        BY <1>10, Typed
      <4> QED
        BY <4>1, <1>10
    <3> QED
      BY <3>1, <1>14
  <2>2. children_list' \in [Pids -> SUBSET Pids]
    BY <1>2, Typed, ConstantsTyped DEF ChildrenAdopted
  <2>3. parent' \in [Pids -> Pids \cup {NULL}]
    BY Typed, ConstantsTyped
  <2> QED
    BY <2>1, <2>2, <2>3, Typed DEF ProcessTypes
<1>16. RootsInv'
  <2>1. 0 \notin children_list[p] /\ 1 \notin children_list[p]
    BY <1>5, ConstantsTyped
  <2> QED
    BY <2>1, <1>1, <1>2, <1>4, ConstantsTyped DEF RootsInv
<1>17. TreeExact'
  <2>1. ASSUME NEW x \in Pids, NEW y \in Pids
        PROVE  x \in children_list'[y] <=> x > 1 /\ pstate'[x] # "FREE" /\ parent'[x] = y
    <3>1. pstate'[x] # "FREE" <=> pstate[x] # "FREE"
      BY <1>4
    <3>2. CASE y = p
      BY <3>1, <3>2, <1>2, <1>4, <1>5
    <3>3. CASE y # p
      BY <3>1, <3>3, <1>4, <1>5, ConstantsTyped
    <3> QED
      BY <3>2, <3>3
  <2>2. ASSUME NEW x \in Pids, x > 1, pstate'[x] # "FREE"
        PROVE  parent'[x] # NULL /\ parent'[x] # 0 /\ pstate'[parent'[x]] = "ALIVE"
    <3>1. pstate[x] # "FREE"
      BY <2>2, <1>4
    <3>2. CASE x \in children_list[p]
      BY <3>2, <1>2, <1>3, <1>4, ConstantsTyped
    <3>3. CASE x \notin children_list[p]
      <4>1. parent[x] # NULL /\ parent[x] # 0 /\ pstate[parent[x]] = "ALIVE"
        BY <2>2, <3>1, <1>1 DEF TreeExact
      <4>2. parent[x] \in Pids /\ parent[x] # p /\ parent'[x] = parent[x]
        BY <2>2, <3>1, <3>3, <4>1, <1>4, <1>5, Typed
      <4> QED
        BY <4>1, <4>2, <1>4
    <3> QED
      BY <3>2, <3>3
  <2>3. ASSUME NEW x \in Pids, NEW y \in Pids
        PROVE  x \in ToSet(exited_list'[y]) <=> pstate'[x] = "ZOMBIE" /\ x \in children_list'[y]
    <3>1. x \in ToSet(exited_list'[y]) <=> x \in ToSet(Z(y)) \/ (y = q /\ x = p)
      <4> HIDE DEF Z
      <4> QED
        BY <1>14
    <3>2. x \in ToSet(Z(y)) <=>
            /\ y # p
            /\ \/ x \in ToSet(exited_list[y])
               \/ y = 1 /\ x \in ToSet(exited_list[p])
      <4> HIDE DEF Z
      <4> QED
        BY <1>2, <1>12
    <3>3. /\ x \in ToSet(exited_list[y]) <=> pstate[x] = "ZOMBIE" /\ x \in children_list[y]
          /\ x \in ToSet(exited_list[p]) <=> pstate[x] = "ZOMBIE" /\ x \in children_list[p]
      BY <1>6
    <3>4. x \in children_list'[y] <=>
            y # p /\ (x \in children_list[y] \/ (y = 1 /\ x \in children_list[p]))
      <4>1. children_list'[y] = IF y = p THEN {} ELSE
              IF y = 1 THEN children_list[1] \cup children_list[p] ELSE children_list[y]
        BY <1>4
      <4> QED
        BY <4>1, <1>2
    <3> HIDE DEF Z
    <3>5. CASE x = p
      <4>1. x \notin children_list[p] /\ (x \in children_list[y] <=> y = q)
        BY <3>5, <1>3, <1>5
      <4> QED
        BY <3>1, <3>2, <3>3, <3>4, <3>5, <4>1, <1>3, <1>4
    <3>6. CASE x # p
      BY <3>1, <3>2, <3>3, <3>4, <3>6, <1>4
    <3> QED
      BY <3>5, <3>6
  <2>4. \A y \in Pids : IsInjective(exited_list'[y])
    BY <1>14
  <2> QED
    BY <2>1, <2>2, <2>3, <2>4 DEF TreeExact, ChildOf
<1>18. \E rank \in [Pids -> Nat] : IsRank(rank)'
  <2>1. PICK rank \in [Pids -> Nat] : IsRank(rank)
    BY DEF IInv, TreeInv
  <2>2. ASSUME NEW x \in Pids, Used(x)'
        PROVE  rank[parent'[x]] < rank[x]
    <3>1. Used(x) /\ rank[parent[x]] < rank[x]
      BY <2>1, <2>2, <1>4 DEF Used, IsRank
    <3>2. CASE x \in children_list[p]
      <4>1. parent[x] = p /\ parent'[x] = 1 /\ rank[1] = 0 /\ rank[p] \in Nat /\ rank[x] \in Nat
        BY <3>2, <2>1, <1>4, <1>5 DEF IsRank
      <4> QED
        BY <3>1, <4>1
    <3>3. CASE x \notin children_list[p]
      BY <3>1, <3>3, <1>4
    <3> QED
      BY <3>2, <3>3
  <2>3. IsRank(rank)'
    BY <2>1, <2>2 DEF IsRank
  <2> QED
    BY <2>3
<1>19. FreelistInv'
  <2>1. \A x \in Pids : pstate[x] = "FREE" => parent'[x] = parent[x]
    BY <1>4, <1>5
  <2>2. \A x \in Pids : pstate'[x] = "FREE" <=> pstate[x] = "FREE"
    BY <1>4
  <2> QED
    BY <2>1, <2>2, FreelistStays
<1>20. exited_list[p] = << >> /\ q # 1 => exited_list'[1] = exited_list[1]
  BY <1>2, <1>9, <1>11, ConstantsTyped
<1>21. \A x \in Pids \ {p, 1, q} : exited_list'[x] = exited_list[x]
  BY <1>11
<1> QED
  BY <1>15, <1>16, <1>17, <1>18, <1>19, <1>20, <1>21 DEF TreeInv

\* The end of the init process, which has no children.
LEMMA LeaveNoTree ==
  ASSUME IInv, children_list[1] = {},
         pstate' = [pstate EXCEPT ![1] = "ZOMBIE"],
         UNCHANGED <<parent, children_list, exited_list, pcb_freelist, process_count>>
  PROVE  TreeInv'
<1>1. \A x \in Pids : ~ Used(x)
  BY OldestChild
<1>2. TreeExact /\ RootsInv
  BY DEF IInv, TreeInv
<1>3. /\ pstate'[1] = "ZOMBIE" /\ pstate[1] # "FREE"
      /\ \A x \in Pids : x # 1 => pstate'[x] = pstate[x]
  BY <1>2, Typed, ConstantsTyped DEF RootsInv
<1>4. \A x \in Pids : ~ Used(x)'
  BY <1>1, <1>3 DEF Used
<1>5. ProcessTypes' /\ RootsInv'
  BY <1>2, <1>3, Typed, ConstantsTyped DEF ProcessTypes, RootsInv
<1>6. TreeExact'
  <2>1. \A x, y \in Pids : x \notin children_list[y] /\ x \notin ToSet(exited_list[y])
    BY <1>1, <1>2 DEF TreeExact, ChildOf, Used
  <2>2. \A y \in Pids : IsInjective(exited_list[y])
    BY <1>2 DEF TreeExact
  <2> QED
    BY <2>1, <2>2, <1>4 DEF TreeExact, ChildOf, Used
<1>7. \E rank \in [Pids -> Nat] : IsRank(rank)'
  <2>1. PICK rank \in [Pids -> Nat] : IsRank(rank)
    BY DEF IInv, TreeInv
  <2>2. IsRank(rank)'
    BY <2>1, <1>4 DEF IsRank
  <2> QED
    BY <2>2
<1>8. FreelistInv'
  BY <1>3, FreelistStays
<1> QED
  BY <1>5, <1>6, <1>7, <1>8 DEF TreeInv

-----------------------------------------------------------------------------
(***************************************************************************)
(* The steps of the threads of a process and of their PTCBs.               *)
(***************************************************************************)
LEMMA ThreadsFinite ==
  /\ \A p : IsFiniteSet(ThreadsOf(p))
  /\ \A u : IsFiniteSet(Joiners(u))
<1>1. \A p : ThreadsOf(p) \subseteq Threads
  BY DEF ThreadsOf
<1>2. \A u : Joiners(u) \subseteq Threads
  BY DEF Joiners
<1> QED
  BY <1>1, <1>2, ConstantsTyped, FS_Subset

LEMMA ThreadFacts ==
  ASSUME IInv
  PROVE  /\ \A p \in Pids :
              /\ thread_count[p] = Cardinality(ThreadsOf(p))
              /\ (HasTask(p) <=> ThreadsOf(p) # {})
              /\ ThreadsOf(p) \subseteq ptcb_list[p]
              /\ ThreadsOf(p) = {} => ptcb_list[p] = {}
         /\ \A t \in Threads : at[t] = "none" <=> owner_pcb[t] = NULL
         /\ \A t \in Threads : owner_pcb[t] # 0
         /\ \A t \in Threads, p \in Pids : t \in ptcb_list[p] =>
              IF exited[t] THEN owner_pcb[t] = NULL ELSE owner_pcb[t] = p
         /\ \A p, q \in Pids, t \in Threads :
              t \in ptcb_list[p] /\ t \in ptcb_list[q] => p = q
<1>1. ThreadsExact /\ \A t \in Threads : owner_pcb[t] # 0
  BY DEF IInv, ThreadsInv
<1>2. \A p, q \in Pids, t \in Threads :
        t \in ptcb_list[p] /\ t \in ptcb_list[q] => p = q
  BY <1>1 DEF ThreadsExact
<1> QED
  BY <1>1, <1>2 DEF ThreadsExact

LEMMA ThreadsStay ==
  ASSUME IInv, UNCHANGED <<ptcb_list, thread_count, owner_pcb, exited>>,
         detached' \in [Threads -> BOOLEAN], taskless' \subseteq Pids,
         \A p \in Pids : HasTask(p)' <=> HasTask(p),
         \A t \in Threads : at'[t] = "none" <=> at[t] = "none"
  PROVE  ThreadsInv'
<1>1. ThreadTypes'
  BY Typed DEF ThreadTypes
<1>2. \A p \in Pids : ThreadsOf(p)' = ThreadsOf(p)
  BY DEF ThreadsOf
<1>3. ThreadsExact'
  BY <1>2 DEF IInv, ThreadsInv, ThreadsExact
<1>4. \A t \in Threads : owner_pcb'[t] # 0
  BY DEF IInv, ThreadsInv
<1> QED
  BY <1>1, <1>3, <1>4 DEF ThreadsInv

\* A new thread, also the first one of a process.
LEMMA ThreadsNew ==
  ASSUME IInv, NEW p \in Pids, p > 0, NEW t \in Threads, Unallocated(t),
         NewThread(p, t), HasTask(p)', taskless' \subseteq Pids,
         \A q \in Pids : q # p => (HasTask(q)' <=> HasTask(q))
  PROVE  ThreadsInv'
<1>1. /\ owner_pcb' = [owner_pcb EXCEPT ![t] = p]
      /\ ptcb_list' = [ptcb_list EXCEPT ![p] = @ \cup {t}]
      /\ exited' = [exited EXCEPT ![t] = FALSE]
      /\ detached' = [detached EXCEPT ![t] = FALSE]
      /\ thread_count' = [thread_count EXCEPT ![p] = thread_count[p] + 1]
      /\ at' = [at EXCEPT ![t] = "user"]
  BY DEF NewThread, Goes, OneMoreThread
<1>2. /\ owner_pcb[t] = NULL
      /\ \A q \in Pids : t \notin ptcb_list[q] /\ t \notin ThreadsOf(q)
  BY ThreadFacts, ConstantsTyped DEF Unallocated, ThreadsOf
<1>3. ThreadTypes'
  <2>1. \A q \in Pids : thread_count[q] + 1 \in Nat
    BY Typed
  <2> QED
    BY <1>1, <2>1, Typed DEF ThreadTypes
<1>4. \A x \in Threads :
        /\ owner_pcb'[x] = IF x = t THEN p ELSE owner_pcb[x]
        /\ exited'[x] = IF x = t THEN FALSE ELSE exited[x]
        /\ at'[x] = IF x = t THEN "user" ELSE at[x]
  BY <1>1, Typed
<1>5. \A q \in Pids : ptcb_list'[q] = IF q = p THEN ptcb_list[p] \cup {t} ELSE ptcb_list[q]
  BY <1>1, Typed
<1>6. \A q \in Pids : ThreadsOf(q)' = IF q = p THEN ThreadsOf(p) \cup {t} ELSE ThreadsOf(q)
  <2>1. NULL \notin Pids
    BY ConstantsTyped
  <2>2. ASSUME NEW q \in Pids, NEW x \in Threads
        PROVE  owner_pcb'[x] = q <=> owner_pcb[x] = q \/ (q = p /\ x = t)
    BY <2>1, <1>2, <1>4
  <2> QED
    BY <2>2 DEF ThreadsOf
<1>7. ASSUME NEW q \in Pids
      PROVE  /\ thread_count'[q] = Cardinality(ThreadsOf(q)')
             /\ (HasTask(q)' <=> ThreadsOf(q)' # {})
             /\ ThreadsOf(q)' \subseteq ptcb_list'[q]
             /\ ThreadsOf(q)' = {} => ptcb_list'[q] = {}
  <2>1. /\ thread_count[q] = Cardinality(ThreadsOf(q))
        /\ (HasTask(q) <=> ThreadsOf(q) # {})
        /\ ThreadsOf(q) \subseteq ptcb_list[q]
        /\ ThreadsOf(q) = {} => ptcb_list[q] = {}
    BY ThreadFacts
  <2>2. CASE q # p
    <3>1. ThreadsOf(q)' = ThreadsOf(q)
      BY <1>6, <2>2
    <3>2. thread_count'[q] = thread_count[q] /\ ptcb_list'[q] = ptcb_list[q]
      BY <1>1, <2>2, Typed
    <3> QED
      BY <2>1, <2>2, <3>1, <3>2
  <2>3. CASE q = p
    <3>1. ThreadsOf(q)' = ThreadsOf(q) \cup {t}
      BY <1>6, <2>3
    <3>2. Cardinality(ThreadsOf(q) \cup {t}) = Cardinality(ThreadsOf(q)) + 1
      BY <1>2, ThreadsFinite, FS_AddElement
    <3>3. thread_count'[q] = thread_count[q] + 1 /\ ptcb_list'[q] = ptcb_list[q] \cup {t}
      BY <1>1, <2>3, Typed
    <3>4. thread_count'[q] = Cardinality(ThreadsOf(q)')
      BY <2>1, <3>1, <3>2, <3>3, Zenon
    <3> QED
      BY <2>1, <2>3, <3>1, <3>3, <3>4
  <2> QED
    BY <2>2, <2>3
<1>8. \A x \in Threads : at'[x] = "none" <=> owner_pcb'[x] = NULL
  <2>1. NULL # p
    BY ConstantsTyped
  <2>2. \A x \in Threads : at[x] = "none" <=> owner_pcb[x] = NULL
    BY ThreadFacts
  <2> QED
    BY <2>1, <2>2, <1>4
<1>9. \A x \in Threads, q \in Pids : x \in ptcb_list'[q] =>
        IF exited'[x] THEN owner_pcb'[x] = NULL ELSE owner_pcb'[x] = q
  <2>1. \A x \in Threads, q \in Pids : x \in ptcb_list[q] =>
          IF exited[x] THEN owner_pcb[x] = NULL ELSE owner_pcb[x] = q
    BY ThreadFacts
  <2> SUFFICES ASSUME NEW x \in Threads, NEW q \in Pids, x \in ptcb_list'[q]
               PROVE  IF exited'[x] THEN owner_pcb'[x] = NULL ELSE owner_pcb'[x] = q
    OBVIOUS
  <2>2. CASE x = t
    BY <2>2, <1>2, <1>4, <1>5
  <2>3. CASE x # t
    <3>1. x \in ptcb_list[q]
      BY <2>3, <1>5
    <3>2. exited'[x] = exited[x] /\ owner_pcb'[x] = owner_pcb[x]
      BY <2>3, <1>4
    <3> QED
      BY <2>1, <3>1, <3>2
  <2> QED
    BY <2>2, <2>3
<1>10. \A q, r \in Pids : q # r => ptcb_list'[q] \cap ptcb_list'[r] = {}
  <2> SUFFICES ASSUME NEW q \in Pids, NEW r \in Pids, q # r,
                      NEW x \in ptcb_list'[q], x \in ptcb_list'[r]
               PROVE  FALSE
    OBVIOUS
  <2>1. x \in Threads
    BY <1>3 DEF ThreadTypes
  <2>2. ~ (x \in ptcb_list[q] /\ x \in ptcb_list[r])
    BY <2>1, ThreadFacts
  <2> QED
    BY <2>1, <2>2, <1>2, <1>5
<1>11. ThreadsExact'
  BY <1>7, <1>8, <1>9, <1>10, Zenon DEF ThreadsExact
<1>12. \A x \in Threads : owner_pcb'[x] # 0
  BY <1>4, ThreadFacts, PidOrder
<1> QED
  BY <1>3, <1>11, <1>12 DEF ThreadsInv

\* A thread ends, and its process does not.
LEMMA ThreadsGo ==
  ASSUME IInv, NEW t \in Threads, at[t] # "none", ThreadGoes(t)
  PROVE  ThreadsInv'
<1> PICK p : p = owner_pcb[t]
  OBVIOUS
<1>1. /\ p \in Pids /\ p > 0 /\ t \in ThreadsOf(p) /\ t \in ptcb_list[p]
      /\ pstate[p] = "ALIVE" /\ owner_pcb[t] = p
  BY CallerFacts
<1>2. /\ owner_pcb' = [owner_pcb EXCEPT ![t] = NULL]
      /\ exited' = [exited EXCEPT ![t] = TRUE]
      /\ thread_count' = [thread_count EXCEPT ![p] = thread_count[p] - 1]
      /\ at' = [at EXCEPT ![t] = "none"]
      /\ thread_count[p] > 1
      /\ UNCHANGED <<ptcb_list, detached, pstate, taskless>>
      /\ \A q \in Pids : HasTask(q)' <=> HasTask(q)
  BY DEF ThreadGoes, NoThread, Goes, HasTask
<1>3. ThreadTypes'
  <2>1. thread_count[p] - 1 \in Nat
    BY <1>1, <1>2, Typed
  <2> QED
    BY <1>2, <2>1, Typed DEF ThreadTypes
<1>4. \A x \in Threads :
        /\ owner_pcb'[x] = IF x = t THEN NULL ELSE owner_pcb[x]
        /\ exited'[x] = IF x = t THEN TRUE ELSE exited[x]
        /\ at'[x] = IF x = t THEN "none" ELSE at[x]
  BY <1>2, Typed
<1>5. \A q \in Pids : ThreadsOf(q)' = IF q = p THEN ThreadsOf(p) \ {t} ELSE ThreadsOf(q)
  BY <1>1, <1>4, ConstantsTyped DEF ThreadsOf
<1>6. ASSUME NEW q \in Pids
      PROVE  /\ thread_count'[q] = Cardinality(ThreadsOf(q)')
             /\ (HasTask(q)' <=> ThreadsOf(q)' # {})
             /\ ThreadsOf(q)' \subseteq ptcb_list'[q]
             /\ ThreadsOf(q)' = {} => ptcb_list'[q] = {}
  <2>1. /\ thread_count[q] = Cardinality(ThreadsOf(q))
        /\ (HasTask(q) <=> ThreadsOf(q) # {})
        /\ ThreadsOf(q) \subseteq ptcb_list[q]
        /\ ThreadsOf(q) = {} => ptcb_list[q] = {}
    BY ThreadFacts
  <2>2. CASE q # p
    <3>1. ThreadsOf(q)' = ThreadsOf(q)
      BY <1>5, <2>2
    <3>2. thread_count'[q] = thread_count[q]
      BY <1>2, <2>2, Typed
    <3> QED
      BY <2>1, <1>2, <3>1, <3>2
  <2>3. CASE q = p
    <3>1. ThreadsOf(q)' = ThreadsOf(q) \ {t}
      BY <1>5, <2>3
    <3>2. Cardinality(ThreadsOf(q) \ {t}) = Cardinality(ThreadsOf(q)) - 1
      BY <1>1, <2>3, ThreadsFinite, FS_RemoveElement
    <3>3. thread_count'[q] = thread_count[q] - 1
      BY <1>2, <2>3, Typed
    <3>4. thread_count'[q] = Cardinality(ThreadsOf(q)')
      BY <2>1, <3>1, <3>2, <3>3, Zenon
    <3>5. ThreadsOf(q)' # {}
      <4>1. Cardinality(ThreadsOf(q)') # 0
        BY <1>2, <2>3, <3>3, <3>4, Typed
      <4> QED
        BY <4>1, FS_EmptySet, Zenon
    <3> QED
      BY <1>1, <1>2, <2>1, <2>3, <3>1, <3>4, <3>5
  <2> QED
    BY <2>2, <2>3
<1>7. \A x \in Threads : at'[x] = "none" <=> owner_pcb'[x] = NULL
  BY <1>4, ThreadFacts
<1>8. \A x \in Threads, q \in Pids : x \in ptcb_list'[q] =>
        IF exited'[x] THEN owner_pcb'[x] = NULL ELSE owner_pcb'[x] = q
  <2>1. \A x \in Threads, q \in Pids : x \in ptcb_list[q] =>
          IF exited[x] THEN owner_pcb[x] = NULL ELSE owner_pcb[x] = q
    BY ThreadFacts
  <2> QED
    BY <2>1, <1>2, <1>4
<1>9. \A q, r \in Pids : q # r => ptcb_list'[q] \cap ptcb_list'[r] = {}
  BY <1>2 DEF IInv, ThreadsInv, ThreadsExact
<1>10. ThreadsExact'
  BY <1>6, <1>7, <1>8, <1>9, Zenon DEF ThreadsExact
<1>11. \A x \in Threads : owner_pcb'[x] # 0
  <2>1. NULL # 0
    BY ConstantsTyped
  <2>2. \A x \in Threads : owner_pcb[x] # 0
    BY ThreadFacts
  <2> QED
    BY <2>1, <2>2, <1>4
<1> QED
  BY <1>3, <1>10, <1>11 DEF ThreadsInv

\* The last thread of its process.
LEMMA LastThread ==
  ASSUME IInv, NEW t \in Threads, at[t] # "none", thread_count[owner_pcb[t]] = 1
  PROVE  \A x \in Threads : owner_pcb[x] = owner_pcb[t] => x = t
<1> PICK p : p = owner_pcb[t]
  OBVIOUS
<1>1. p \in Pids /\ t \in ThreadsOf(p)
  BY CallerFacts
<1>2. Cardinality(ThreadsOf(p)) = 1
  BY <1>1, ThreadFacts
<1>3. \E y : ThreadsOf(p) = {y}
  BY <1>2, ThreadsFinite, FS_Singleton
<1> QED
  BY <1>1, <1>3 DEF ThreadsOf

\* ... which ends, and the process with it.
LEMMA ThreadsEnd ==
  ASSUME IInv, NEW t \in Threads, at[t] # "none", NEW p \in Pids, p = owner_pcb[t],
         thread_count[p] = 1,
         pstate' = [pstate EXCEPT ![p] = "ZOMBIE"], taskless' = taskless,
         thread_count' = [thread_count EXCEPT ![p] = 0],
         FreePtcbs(p, ptcb_list[p]), NoThread(t)
  PROVE  ThreadsInv'
<1>1. /\ p > 0 /\ p # 0 /\ t \in ThreadsOf(p) /\ t \in ptcb_list[p]
      /\ pstate[p] = "ALIVE" /\ owner_pcb[t] = p
  BY CallerFacts, PidOrder
<1>2. /\ owner_pcb' = [owner_pcb EXCEPT ![t] = NULL]
      /\ ptcb_list' = [ptcb_list EXCEPT ![p] = {}]
      /\ exited' = [x \in Threads |-> exited[x] /\ x \notin ptcb_list[p]]
      /\ detached' = [x \in Threads |-> detached[x] /\ x \notin ptcb_list[p]]
      /\ at' = [at EXCEPT ![t] = "none"]
  BY DEF FreePtcbs, NoThread, Goes
<1>3. ThreadTypes'
  BY <1>2, Typed DEF ThreadTypes
<1>4. \A x \in Threads :
        /\ owner_pcb'[x] = IF x = t THEN NULL ELSE owner_pcb[x]
        /\ exited'[x] = (exited[x] /\ x \notin ptcb_list[p])
        /\ at'[x] = IF x = t THEN "none" ELSE at[x]
  BY <1>2, Typed
<1>5. \A q \in Pids :
        /\ ptcb_list'[q] = IF q = p THEN {} ELSE ptcb_list[q]
        /\ thread_count'[q] = IF q = p THEN 0 ELSE thread_count[q]
        /\ HasTask(q)' <=> q # p /\ HasTask(q)
  BY <1>2, Typed DEF HasTask
<1>6. \A q \in Pids : ThreadsOf(q)' = IF q = p THEN {} ELSE ThreadsOf(q)
  <2>1. NULL \notin Pids
    BY ConstantsTyped
  <2>2. \A x \in Threads : owner_pcb[x] = p => x = t
    BY <1>1, LastThread
  <2>3. ASSUME NEW q \in Pids, NEW x \in Threads
        PROVE  owner_pcb'[x] = q <=> q # p /\ owner_pcb[x] = q
    BY <2>1, <2>2, <1>1, <1>4
  <2> QED
    BY <2>3 DEF ThreadsOf
<1>7. ASSUME NEW q \in Pids
      PROVE  /\ thread_count'[q] = Cardinality(ThreadsOf(q)')
             /\ (HasTask(q)' <=> ThreadsOf(q)' # {})
             /\ ThreadsOf(q)' \subseteq ptcb_list'[q]
             /\ ThreadsOf(q)' = {} => ptcb_list'[q] = {}
  <2>1. CASE q # p
    <3>1. ThreadsOf(q)' = ThreadsOf(q)
      BY <1>6, <2>1
    <3> QED
      BY <2>1, <3>1, <1>5, ThreadFacts
  <2>2. CASE q = p
    <3>1. ThreadsOf(q)' = {} /\ Cardinality({}) = 0
      BY <1>6, <2>2, FS_EmptySet
    <3>2. thread_count'[q] = Cardinality(ThreadsOf(q)')
      BY <3>1, <2>2, <1>5
    <3> QED
      BY <2>2, <3>1, <3>2, <1>5
  <2> QED
    BY <2>1, <2>2
<1>8. \A x \in Threads : at'[x] = "none" <=> owner_pcb'[x] = NULL
  BY <1>4, ThreadFacts
<1>9. \A x \in Threads, q \in Pids : x \in ptcb_list'[q] =>
        IF exited'[x] THEN owner_pcb'[x] = NULL ELSE owner_pcb'[x] = q
  <2> SUFFICES ASSUME NEW x \in Threads, NEW q \in Pids, x \in ptcb_list'[q]
               PROVE  IF exited'[x] THEN owner_pcb'[x] = NULL ELSE owner_pcb'[x] = q
    OBVIOUS
  <2>1. q # p /\ x \in ptcb_list[q]
    BY <1>5
  <2>2. x \notin ptcb_list[p]
    BY <2>1, ThreadFacts
  <2>3. x # t
    BY <2>2, <1>1
  <2>4. IF exited[x] THEN owner_pcb[x] = NULL ELSE owner_pcb[x] = q
    BY <2>1, ThreadFacts
  <2> QED
    BY <2>2, <2>3, <2>4, <1>4
<1>10. \A q, r \in Pids : q # r => ptcb_list'[q] \cap ptcb_list'[r] = {}
  <2>1. \A q, r \in Pids : q # r => ptcb_list[q] \cap ptcb_list[r] = {}
    BY DEF IInv, ThreadsInv, ThreadsExact
  <2> QED
    BY <2>1, <1>5
<1>11. ThreadsExact'
  BY <1>7, <1>8, <1>9, <1>10, Zenon DEF ThreadsExact
<1>12. \A x \in Threads : owner_pcb'[x] # 0
  <2>1. NULL # 0
    BY ConstantsTyped
  <2>2. \A x \in Threads : owner_pcb[x] # 0
    BY ThreadFacts
  <2> QED
    BY <2>1, <2>2, <1>4
<1> QED
  BY <1>3, <1>11, <1>12 DEF ThreadsInv

\* The PTCB of a thread that exited is freed.
LEMMA ThreadsFreed ==
  ASSUME IInv, NEW p \in Pids, NEW u \in Threads, u \in ptcb_list[p], exited[u],
         FreePtcbs(p, {u}), UNCHANGED <<pstate, taskless, thread_count, owner_pcb>>,
         \A t \in Threads : at'[t] = "none" <=> at[t] = "none"
  PROVE  ThreadsInv'
<1>1. /\ ptcb_list' = [ptcb_list EXCEPT ![p] = ptcb_list[p] \ {u}]
      /\ exited' = [x \in Threads |-> exited[x] /\ x # u]
      /\ detached' = [x \in Threads |-> detached[x] /\ x # u]
  BY DEF FreePtcbs
<1>2. owner_pcb[u] = NULL
  BY ThreadFacts
<1>3. ThreadTypes'
  BY <1>1, Typed DEF ThreadTypes
<1>4. \A q \in Pids : ptcb_list'[q] = ptcb_list[q] \ {u}
  <2> SUFFICES ASSUME NEW q \in Pids PROVE ptcb_list'[q] = ptcb_list[q] \ {u}
    OBVIOUS
  <2>1. q # p => u \notin ptcb_list[q]
    BY ThreadFacts
  <2> QED
    BY <2>1, <1>1, Typed
<1>5. \A q \in Pids : ThreadsOf(q)' = ThreadsOf(q) /\ (HasTask(q)' <=> HasTask(q))
  BY DEF ThreadsOf, HasTask
<1>6. ASSUME NEW q \in Pids
      PROVE  /\ thread_count'[q] = Cardinality(ThreadsOf(q)')
             /\ (HasTask(q)' <=> ThreadsOf(q)' # {})
             /\ ThreadsOf(q)' \subseteq ptcb_list'[q]
             /\ ThreadsOf(q)' = {} => ptcb_list'[q] = {}
  <2>1. /\ thread_count[q] = Cardinality(ThreadsOf(q))
        /\ (HasTask(q) <=> ThreadsOf(q) # {})
        /\ ThreadsOf(q) \subseteq ptcb_list[q]
        /\ ThreadsOf(q) = {} => ptcb_list[q] = {}
    BY ThreadFacts
  <2>2. u \notin ThreadsOf(q)
    BY <1>2, ConstantsTyped DEF ThreadsOf
  <2>3. ThreadsOf(q)' = ThreadsOf(q) /\ (HasTask(q)' <=> HasTask(q))
    BY <1>5
  <2> QED
    BY <2>1, <2>2, <2>3, <1>4
<1>7. \A x \in Threads : at'[x] = "none" <=> owner_pcb'[x] = NULL
  BY ThreadFacts
<1>8. \A x \in Threads, q \in Pids : x \in ptcb_list'[q] =>
        IF exited'[x] THEN owner_pcb'[x] = NULL ELSE owner_pcb'[x] = q
  <2>1. \A x \in Threads, q \in Pids : x \in ptcb_list[q] =>
          IF exited[x] THEN owner_pcb[x] = NULL ELSE owner_pcb[x] = q
    BY ThreadFacts
  <2> QED
    BY <2>1, <1>1, <1>4
<1>9. \A q, r \in Pids : q # r => ptcb_list'[q] \cap ptcb_list'[r] = {}
  <2>1. \A q, r \in Pids : q # r => ptcb_list[q] \cap ptcb_list[r] = {}
    BY DEF IInv, ThreadsInv, ThreadsExact
  <2> QED
    BY <2>1, <1>4
<1>10. ThreadsExact'
  BY <1>6, <1>7, <1>8, <1>9, Zenon DEF ThreadsExact
<1>11. \A x \in Threads : owner_pcb'[x] # 0
  BY ThreadFacts
<1> QED
  BY <1>3, <1>10, <1>11 DEF ThreadsInv

-----------------------------------------------------------------------------
(***************************************************************************)
(* The steps of those who wait in ThreadJoin().                            *)
(***************************************************************************)
LEMMA JoinFacts ==
  ASSUME IInv
  PROVE  /\ \A t \in Threads : at[t] = "join" =>
              /\ target[t] \in Threads /\ owner_pcb[t] \in Pids
              /\ target[t] \in ptcb_list[owner_pcb[t]]
         /\ \A p \in Pids, u \in Threads : u \in ptcb_list[p] =>
              refcount[u] = Cardinality(Joiners(u))
<1>1. \A t \in Threads : at[t] = "join" => target[t] \in ptcb_list[owner_pcb[t]]
  BY DEF IInv, JoinsInv, JoinsExact
<1>2. \A t \in Threads : at[t] = "join" => owner_pcb[t] \in Pids
  BY CallerFacts
<1>3. \A p \in Pids : ptcb_list[p] \subseteq Threads
  BY Typed
<1>4. \A p \in Pids : \A u \in ptcb_list[p] : refcount[u] = Cardinality(Joiners(u))
  BY DEF IInv, JoinsInv, JoinsExact
<1> QED
  BY <1>1, <1>2, <1>3, <1>4

LEMMA JoinersStay ==
  ASSUME \A t \in Threads :
           at'[t] = "join" <=> at[t] = "join",
         \A t \in Threads : at[t] = "join" => target'[t] = target[t]
  PROVE  \A u : Joiners(u)' = Joiners(u)
BY DEF Joiners

LEMMA JoinsStay ==
  ASSUME IInv, UNCHANGED <<ptcb_list, refcount>>,
         \A t \in Threads : at'[t] = "join" <=> at[t] = "join",
         \A t \in Threads : at[t] = "join" =>
           target'[t] = target[t] /\ owner_pcb'[t] = owner_pcb[t]
  PROVE  JoinsInv'
<1>1. \A u : Joiners(u)' = Joiners(u)
  BY JoinersStay
<1>2. JoinsInv
  BY DEF IInv
<1>3. \A t \in Threads : at'[t] = "join" => target'[t] \in ptcb_list'[owner_pcb'[t]]
  BY <1>2 DEF JoinsInv, JoinsExact
<1>4. \A p \in Pids : \A u \in ptcb_list'[p] : refcount'[u] = Cardinality(Joiners(u)')
  <2> SUFFICES ASSUME NEW p \in Pids, NEW u \in ptcb_list'[p]
               PROVE  refcount'[u] = Cardinality(Joiners(u)')
    OBVIOUS
  <2>1. refcount'[u] = Cardinality(Joiners(u)) /\ Joiners(u)' = Joiners(u)
    BY <1>1, <1>2 DEF JoinsInv, JoinsExact
  <2> QED
    BY <2>1, Zenon
<1> QED
  BY <1>2, <1>3, <1>4, Zenon DEF JoinsInv, JoinsExact

\* ThreadJoin() begins to wait.
LEMMA JoinsJoin ==
  ASSUME IInv, NEW t \in Threads, NEW u \in Threads, ThreadJoin(t, u)
  PROVE  JoinsInv'
<1>1. /\ at[t] = "user" /\ u \in ptcb_list[owner_pcb[t]]
      /\ refcount' = [refcount EXCEPT ![u] = refcount[u] + 1]
      /\ at' = [at EXCEPT ![t] = "join"]
      /\ target' = [target EXCEPT ![t] = u]
      /\ UNCHANGED <<ptcb_list, owner_pcb>>
  BY DEF ThreadJoin, Calls, Joinable, OneMoreJoins, Goes
<1>2. owner_pcb[t] \in Pids
  BY <1>1, CallerFacts
<1>3. \A x \in Threads :
        /\ at'[x] = IF x = t THEN "join" ELSE at[x]
        /\ target'[x] = IF x = t THEN u ELSE target[x]
        /\ refcount'[x] = IF x = u THEN refcount[u] + 1 ELSE refcount[x]
  BY <1>1, Typed
<1>4. t \notin Joiners(u) /\ \A v \in Threads :
        Joiners(v)' = IF v = u THEN Joiners(u) \cup {t} ELSE Joiners(v)
  <2>1. ASSUME NEW v \in Threads, NEW x \in Threads
        PROVE  at'[x] = "join" /\ target'[x] = v <=>
                 (at[x] = "join" /\ target[x] = v) \/ (v = u /\ x = t)
    BY <1>1, <1>3
  <2> QED
    BY <2>1, <1>1 DEF Joiners
<1>5. \A x \in Threads : at'[x] = "join" => target'[x] \in ptcb_list'[owner_pcb'[x]]
  <2>1. \A x \in Threads : at[x] = "join" => target[x] \in ptcb_list[owner_pcb[x]]
    BY JoinFacts
  <2> QED
    BY <2>1, <1>1, <1>3
<1>6. ASSUME NEW p \in Pids, NEW v \in ptcb_list'[p]
      PROVE  refcount'[v] = Cardinality(Joiners(v)')
  <2>1. v \in Threads /\ v \in ptcb_list[p]
    BY <1>1, Typed
  <2>2. refcount[v] = Cardinality(Joiners(v))
    BY <2>1, JoinFacts
  <2>3. CASE v = u
    <3>1. Joiners(v)' = Joiners(v) \cup {t} /\ t \notin Joiners(v)
      BY <2>1, <2>3, <1>4
    <3>2. Cardinality(Joiners(v) \cup {t}) = Cardinality(Joiners(v)) + 1
      BY <3>1, ThreadsFinite, FS_AddElement
    <3>3. refcount'[v] = refcount[v] + 1
      BY <2>1, <2>3, <1>3
    <3> QED
      BY <2>2, <3>1, <3>2, <3>3, Zenon
  <2>4. CASE v # u
    <3>1. Joiners(v)' = Joiners(v) /\ refcount'[v] = refcount[v]
      BY <2>1, <2>4, <1>3, <1>4
    <3> QED
      BY <2>2, <3>1, Zenon
  <2> QED
    BY <2>3, <2>4
<1>7. refcount' \in [Threads -> Nat]
  <2>1. refcount[u] + 1 \in Nat
    BY Typed
  <2> QED
    BY <2>1, <1>1, Typed
<1> QED
  BY <1>5, <1>6, <1>7, Zenon DEF JoinsInv, JoinsExact

\* The end of sys_ThreadJoin(), of t on u: the others who wait stay.
LEMMA JoinsJoined ==
  ASSUME IInv, NEW t \in Threads, NEW u \in Threads, NEW left \in Nat,
         u \in ptcb_list[owner_pcb[t]], owner_pcb[t] \in Pids, Joined(t, u, left),
         left = Cardinality(Joiners(u)'),
         \A x \in Threads : at'[x] = "join" => at[x] = "join" /\ target'[x] = target[x],
         \A v \in Threads : v # u => Joiners(v)' = Joiners(v)
  PROVE  JoinsInv'
<1> PICK p \in Pids : p = owner_pcb[t]
  OBVIOUS
<1>1. owner_pcb' = owner_pcb /\ u \in ptcb_list[p]
  BY DEF Joined
<1>2. ASSUME NEW q \in Pids, NEW v \in Threads, v \in ptcb_list[q], v # u,
             refcount'[v] = refcount[v]
      PROVE  refcount'[v] = Cardinality(Joiners(v)')
  <2>1. refcount[v] = Cardinality(Joiners(v)) /\ Joiners(v)' = Joiners(v)
    BY <1>2, JoinFacts
  <2> QED
    BY <2>1, <1>2, Zenon
<1>3. CASE Frees(u, left) /\ FreePtcbs(owner_pcb[t], {u})
  <2>1. /\ ptcb_list' = [ptcb_list EXCEPT ![p] = ptcb_list[p] \ {u}]
        /\ refcount' = [v \in Threads |-> IF v = u THEN 0 ELSE refcount[v]]
        /\ left = 0
    BY <1>3 DEF FreePtcbs, Frees
  <2>2. Joiners(u)' = {}
    <3>1. IsFiniteSet(Joiners(u)')
      <4>1. Joiners(u)' \subseteq Threads
        BY DEF Joiners
      <4> QED
        BY <4>1, ConstantsTyped, FS_Subset
    <3>2. Cardinality(Joiners(u)') = 0
      BY <2>1
    <3> QED
      BY <3>1, <3>2, FS_EmptySet, Zenon
  <2>3. \A q \in Pids : ptcb_list'[q] = ptcb_list[q] \ {u}
    <3> SUFFICES ASSUME NEW q \in Pids PROVE ptcb_list'[q] = ptcb_list[q] \ {u}
      OBVIOUS
    <3>1. q # p => u \notin ptcb_list[q]
      BY <1>1, ThreadFacts
    <3> QED
      BY <3>1, <2>1, Typed
  <2>4. ASSUME NEW x \in Threads, at'[x] = "join"
        PROVE  target'[x] \in ptcb_list'[owner_pcb'[x]]
    <3>1. at[x] = "join" /\ target'[x] = target[x]
      BY <2>4
    <3>2. owner_pcb[x] \in Pids /\ target[x] \in ptcb_list[owner_pcb[x]]
      BY <3>1, JoinFacts
    <3>3. target[x] # u
      BY <2>2, <2>4, <3>1 DEF Joiners
    <3> QED
      BY <3>1, <3>2, <3>3, <2>3, <1>1
  <2>5. ASSUME NEW q \in Pids, NEW v \in ptcb_list'[q]
        PROVE  refcount'[v] = Cardinality(Joiners(v)')
    <3>1. v \in Threads /\ v \in ptcb_list[q] /\ v # u
      BY <2>3, Typed
    <3> QED
      BY <3>1, <2>1, <1>2
  <2>6. refcount' \in [Threads -> Nat]
    BY <2>1, Typed
  <2> QED
    BY <2>4, <2>5, <2>6, Zenon DEF JoinsInv, JoinsExact
<1>4. CASE ~ Frees(u, left)
  <2>1. refcount' = [refcount EXCEPT ![u] = left] /\ ptcb_list' = ptcb_list
    BY <1>4 DEF Joined
  <2>2. ASSUME NEW x \in Threads, at'[x] = "join"
        PROVE  target'[x] \in ptcb_list'[owner_pcb'[x]]
    <3>1. at[x] = "join" /\ target'[x] = target[x]
      BY <2>2
    <3> QED
      BY <3>1, <2>1, <1>1, JoinFacts
  <2>3. ASSUME NEW q \in Pids, NEW v \in ptcb_list'[q]
        PROVE  refcount'[v] = Cardinality(Joiners(v)')
    <3>1. v \in Threads /\ v \in ptcb_list[q]
      BY <2>1, Typed
    <3>2. CASE v = u
      <4>1. refcount'[v] = left
        BY <3>1, <3>2, <2>1, Typed
      <4> QED
        BY <3>2, <4>1
    <3>3. CASE v # u
      <4>1. refcount'[v] = refcount[v]
        BY <3>1, <3>3, <2>1, Typed
      <4> QED
        BY <3>1, <3>3, <4>1, <1>2
    <3> QED
      BY <3>2, <3>3
  <2>4. refcount' \in [Threads -> Nat]
    BY <2>1, Typed
  <2> QED
    BY <2>2, <2>3, <2>4, Zenon DEF JoinsInv, JoinsExact
<1> QED
  BY <1>3, <1>4 DEF Joined

\* A new PTCB: nobody waits on it.
LEMMA JoinsNew ==
  ASSUME IInv, NEW p \in Pids, NEW t \in Threads, Unallocated(t), NewThread(p, t)
  PROVE  JoinsInv'
<1>1. /\ owner_pcb' = [owner_pcb EXCEPT ![t] = p]
      /\ ptcb_list' = [ptcb_list EXCEPT ![p] = @ \cup {t}]
      /\ refcount' = [refcount EXCEPT ![t] = 0]
      /\ at' = [at EXCEPT ![t] = "user"]
      /\ target' = [target EXCEPT ![t] = NULL]
  BY DEF NewThread, Goes
<1>2. at[t] = "none" /\ \A q \in Pids : t \notin ptcb_list[q]
  BY DEF Unallocated
<1>3. \A x \in Threads :
        /\ at'[x] = IF x = t THEN "user" ELSE at[x]
        /\ target'[x] = IF x = t THEN NULL ELSE target[x]
        /\ refcount'[x] = IF x = t THEN 0 ELSE refcount[x]
        /\ owner_pcb'[x] = IF x = t THEN p ELSE owner_pcb[x]
  BY <1>1, Typed
<1>4. \A q \in Pids : ptcb_list'[q] = IF q = p THEN ptcb_list[p] \cup {t} ELSE ptcb_list[q]
  BY <1>1, Typed
<1>5. \A v : Joiners(v)' = Joiners(v)
  <2>1. \A x \in Threads : at'[x] = "join" <=> at[x] = "join"
    BY <1>2, <1>3
  <2>2. \A x \in Threads : at[x] = "join" => target'[x] = target[x]
    BY <1>2, <1>3
  <2> QED
    BY <2>1, <2>2, JoinersStay
<1>6. Joiners(t) = {}
  <2>1. \A x \in Threads : at[x] = "join" =>
          owner_pcb[x] \in Pids /\ target[x] \in ptcb_list[owner_pcb[x]]
    BY JoinFacts
  <2> QED
    BY <2>1, <1>2 DEF Joiners
<1>7. ASSUME NEW x \in Threads, at'[x] = "join"
      PROVE  target'[x] \in ptcb_list'[owner_pcb'[x]]
  <2>1. x # t /\ at[x] = "join"
    BY <1>3, <1>7
  <2>2. owner_pcb[x] \in Pids /\ target[x] \in ptcb_list[owner_pcb[x]]
    BY <2>1, JoinFacts
  <2> QED
    BY <2>1, <2>2, <1>3, <1>4
<1>8. ASSUME NEW q \in Pids, NEW v \in ptcb_list'[q]
      PROVE  refcount'[v] = Cardinality(Joiners(v)')
  <2>1. CASE v = t
    <3>1. refcount'[v] = 0 /\ Joiners(v)' = {} /\ Cardinality({}) = 0
      BY <2>1, <1>3, <1>5, <1>6, FS_EmptySet
    <3> QED
      BY <3>1, Zenon
  <2>2. CASE v # t
    <3>1. v \in ptcb_list[q] /\ v \in Threads
      BY <2>2, <1>4, Typed
    <3>2. refcount'[v] = refcount[v] /\ Joiners(v)' = Joiners(v)
      BY <2>2, <3>1, <1>3, <1>5
    <3>3. refcount[v] = Cardinality(Joiners(v))
      BY <3>1, JoinFacts
    <3> QED
      BY <3>2, <3>3, Zenon
  <2> QED
    BY <2>1, <2>2
<1>9. refcount' \in [Threads -> Nat]
  BY <1>1, Typed
<1> QED
  BY <1>7, <1>8, <1>9, Zenon DEF JoinsInv, JoinsExact

\* The last thread of a process leaves nobody who waits on a PTCB of it.
LEMMA JoinsEnd ==
  ASSUME IInv, NEW t \in Threads, at[t] \in {"user", "last"},
         NEW p \in Pids, p = owner_pcb[t], thread_count[p] = 1,
         FreePtcbs(p, ptcb_list[p]), NoThread(t)
  PROVE  JoinsInv'
<1>1. /\ owner_pcb' = [owner_pcb EXCEPT ![t] = NULL]
      /\ ptcb_list' = [ptcb_list EXCEPT ![p] = {}]
      /\ refcount' = [v \in Threads |-> IF v \in ptcb_list[p] THEN 0 ELSE refcount[v]]
      /\ at' = [at EXCEPT ![t] = "none"]
      /\ target' = [target EXCEPT ![t] = NULL]
  BY DEF FreePtcbs, NoThread, Goes
<1>2. \A x \in Threads :
        /\ at'[x] = IF x = t THEN "none" ELSE at[x]
        /\ target'[x] = IF x = t THEN NULL ELSE target[x]
        /\ owner_pcb'[x] = IF x = t THEN NULL ELSE owner_pcb[x]
  BY <1>1, Typed
<1>3. \A q \in Pids : ptcb_list'[q] = IF q = p THEN {} ELSE ptcb_list[q]
  BY <1>1, Typed
<1>4. \A v : Joiners(v)' = Joiners(v)
  <2>1. \A x \in Threads : at'[x] = "join" <=> at[x] = "join"
    BY <1>2
  <2>2. \A x \in Threads : at[x] = "join" => target'[x] = target[x]
    BY <1>2
  <2> QED
    BY <2>1, <2>2, JoinersStay
<1>5. ASSUME NEW x \in Threads, at'[x] = "join"
      PROVE  target'[x] \in ptcb_list'[owner_pcb'[x]]
  <2>1. x # t /\ at[x] = "join"
    BY <1>2, <1>5
  <2>2. owner_pcb[x] \in Pids /\ target[x] \in ptcb_list[owner_pcb[x]]
    BY <2>1, JoinFacts
  <2>3. owner_pcb[x] # p
    BY <2>1, LastThread
  <2> QED
    BY <2>1, <2>2, <2>3, <1>2, <1>3
<1>6. ASSUME NEW q \in Pids, NEW v \in ptcb_list'[q]
      PROVE  refcount'[v] = Cardinality(Joiners(v)')
  <2>1. q # p /\ v \in ptcb_list[q] /\ v \in Threads
    BY <1>3, Typed
  <2>2. v \notin ptcb_list[p]
    BY <2>1, ThreadFacts
  <2>3. refcount'[v] = refcount[v] /\ Joiners(v)' = Joiners(v)
    BY <2>1, <2>2, <1>1, <1>4
  <2>4. refcount[v] = Cardinality(Joiners(v))
    BY <2>1, JoinFacts
  <2> QED
    BY <2>3, <2>4, Zenon
<1>7. refcount' \in [Threads -> Nat]
  BY <1>1, Typed
<1> QED
  BY <1>5, <1>6, <1>7, Zenon DEF JoinsInv, JoinsExact

-----------------------------------------------------------------------------
(***************************************************************************)
(* The steps of those who wait for a child, and what a sleeper waits for.  *)
(***************************************************************************)
Sleeps(t) == ~ woken[t] /\ kernel # t

Reason(t) ==
  /\ at[t] = "join" => ~ exited[target[t]] /\ ~ detached[target[t]]
  /\ at[t] = "child" => pstate[target[t]] = "ALIVE"
  /\ at[t] \in {"any", "last"} => MustWait(owner_pcb[t])

WaitTypes ==
  /\ kernel \in Threads \cup {NULL}
  /\ at \in [Threads -> At]
  /\ target \in [Threads -> Threads \cup Pids \cup {NULL}]
  /\ woken \in [Threads -> BOOLEAN]

LEMMA WaitFacts ==
  ASSUME IInv
  PROVE  /\ \A x \in Threads : at[x] = "child" =>
              /\ target[x] \in Pids /\ owner_pcb[x] \in Pids
              /\ target[x] \in children_list[owner_pcb[x]]
              /\ pstate[target[x]] \in {"ALIVE", "ZOMBIE"}
              /\ parent[target[x]] = owner_pcb[x]
         /\ \A x, y \in Threads :
              at[x] = "child" /\ x # y /\ owner_pcb[y] = owner_pcb[x] =>
                /\ at[y] \notin {"any", "last"}
                /\ at[y] = "child" => target[y] # target[x]
         /\ \A x \in Threads : at[x] = "last" => owner_pcb[x] = 1
         /\ kernel # NULL => at[kernel] = "last"
         /\ \A x \in Threads : Sleeps(x) => Reason(x)
<1>1. \A x \in Threads : at[x] = "child" =>
        target[x] \in Pids /\ target[x] \in children_list[owner_pcb[x]]
  BY DEF IInv, WaitsInv
<1>2. \A x \in Threads : at[x] = "child" => owner_pcb[x] \in Pids
  BY CallerFacts
<1>3. \A x \in Threads : at[x] = "child" =>
        /\ pstate[target[x]] \in {"ALIVE", "ZOMBIE"}
        /\ parent[target[x]] = owner_pcb[x]
  BY <1>1, <1>2, ChildFacts
<1>4. \A x, y \in Threads :
        at[x] = "child" /\ x # y /\ owner_pcb[y] = owner_pcb[x] =>
          at[y] \notin {"any", "last"} /\ (at[y] = "child" => target[y] # target[x])
  BY DEF IInv, WaitsInv
<1>5. /\ \A x \in Threads : at[x] = "last" => owner_pcb[x] = 1
      /\ kernel # NULL => at[kernel] = "last"
  BY DEF IInv, WaitsInv
<1>6. \A x \in Threads : Sleeps(x) => Reason(x)
  BY DEF IInv, SleepersHaveReason, Sleeps, Reason
<1> QED
  BY <1>1, <1>2, <1>3, <1>4, <1>5, <1>6

\* Nobody begins to wait for a child.
LEMMA WaitsStay ==
  ASSUME IInv, WaitTypes',
         \A x \in Threads : at'[x] \in {"child", "any", "last"} =>
           at'[x] = at[x] /\ target'[x] = target[x] /\ owner_pcb'[x] = owner_pcb[x],
         \A x \in Threads : at'[x] = "child" => target[x] \in children_list'[owner_pcb[x]],
         kernel' # NULL => at'[kernel'] = "last"
  PROVE  WaitsInv'
<1>1. \A x \in Threads : at'[x] = "child" =>
        target'[x] \in Pids /\ target'[x] \in children_list'[owner_pcb'[x]]
  BY WaitFacts
<1>2. ASSUME NEW x \in Threads, NEW y \in Threads,
             at'[x] = "child", x # y, owner_pcb'[y] = owner_pcb'[x]
      PROVE  at'[y] \notin {"any", "last"} /\ (at'[y] = "child" => target'[y] # target'[x])
  <2>1. at[x] = "child" /\ target'[x] = target[x] /\ owner_pcb'[x] = owner_pcb[x]
    BY <1>2
  <2>2. CASE at'[y] \in {"child", "any", "last"}
    <3>1. at'[y] = at[y] /\ target'[y] = target[y] /\ owner_pcb'[y] = owner_pcb[y]
      BY <2>2
    <3>2. owner_pcb[y] = owner_pcb[x]
      BY <1>2, <2>1, <3>1
    <3>3. at[y] \notin {"any", "last"} /\ (at[y] = "child" => target[y] # target[x])
      BY <1>2, <2>1, <3>2, WaitFacts
    <3> QED
      BY <2>1, <3>1, <3>3
  <2> QED
    BY <2>2
<1>3. \A x \in Threads : at'[x] = "last" => owner_pcb'[x] = 1
  BY WaitFacts
<1> QED
  BY <1>1, <1>2, <1>3 DEF WaitsInv, WaitTypes

\* A thread begins to wait for a child c that nobody waits for.
LEMMA WaitsForChild ==
  ASSUME IInv, NEW t \in Threads, NEW c \in Pids, at[t] = "user",
         Goes(t, "child", c), c \in children_list[owner_pcb[t]],
         ~ WaitedFor(c, owner_pcb[t]),
         UNCHANGED <<children_list, owner_pcb, woken, kernel>>
  PROVE  WaitsInv'
<1>1. \A x \in Threads :
        /\ at'[x] = IF x = t THEN "child" ELSE at[x]
        /\ target'[x] = IF x = t THEN c ELSE target[x]
  BY Typed DEF Goes
<1>2. WaitTypes'
  BY Typed DEF Goes, WaitTypes, At
<1>3. \A x \in Threads :
        owner_pcb[x] = owner_pcb[t] /\ at[x] \in {"child", "any", "last"} =>
          at[x] = "child" /\ target[x] # c
  BY DEF WaitedFor, ChildWaiters
<1>4. \A x \in Threads : at'[x] = "child" =>
        target'[x] \in Pids /\ target'[x] \in children_list'[owner_pcb'[x]]
  BY <1>1, WaitFacts
<1>5. ASSUME NEW x \in Threads, NEW y \in Threads,
             at'[x] = "child", x # y, owner_pcb[y] = owner_pcb[x]
      PROVE  at'[y] \notin {"any", "last"} /\ (at'[y] = "child" => target'[y] # target'[x])
  <2>1. CASE x = t
    BY <2>1, <1>1, <1>3, <1>5
  <2>2. CASE y = t
    BY <2>2, <1>1, <1>3, <1>5
  <2>3. CASE x # t /\ y # t
    <3>1. at[x] = "child" /\ at'[y] = at[y] /\ target'[y] = target[y] /\ target'[x] = target[x]
      BY <2>3, <1>1, <1>5
    <3>2. at[y] \notin {"any", "last"} /\ (at[y] = "child" => target[y] # target[x])
      BY <1>5, <3>1, WaitFacts
    <3> QED
      BY <3>1, <3>2
  <2> QED
    BY <2>1, <2>2, <2>3
<1>6. \A x \in Threads : at'[x] = "last" => owner_pcb'[x] = 1
  BY <1>1, WaitFacts
<1>7. kernel' # NULL => at'[kernel'] = "last"
  BY <1>1, Typed, WaitFacts
<1> QED
  BY <1>2, <1>4, <1>5, <1>6, <1>7 DEF WaitsInv, WaitTypes

\* A thread begins to wait for any child, when no other one waits for one.
LEMMA WaitsForAny ==
  ASSUME IInv, NEW t \in Threads, NEW place \in {"any", "last"}, at[t] = "user",
         Goes(t, place, NULL), ~ OneWaitedFor(owner_pcb[t]),
         place = "last" => owner_pcb[t] = 1,
         kernel' = IF place = "last" THEN t ELSE NULL,
         UNCHANGED <<children_list, owner_pcb, woken>>
  PROVE  WaitsInv'
<1>1. \A x \in Threads :
        /\ at'[x] = IF x = t THEN place ELSE at[x]
        /\ target'[x] = IF x = t THEN NULL ELSE target[x]
  BY Typed DEF Goes
<1>2. WaitTypes'
  BY Typed DEF Goes, WaitTypes, At
<1>3. \A x \in Threads : owner_pcb[x] = owner_pcb[t] => at[x] # "child"
  BY DEF OneWaitedFor, ChildWaiters
<1>4. \A x \in Threads : at'[x] = "child" =>
        target'[x] \in Pids /\ target'[x] \in children_list'[owner_pcb'[x]]
  BY <1>1, WaitFacts
<1>5. ASSUME NEW x \in Threads, NEW y \in Threads,
             at'[x] = "child", x # y, owner_pcb[y] = owner_pcb[x]
      PROVE  at'[y] \notin {"any", "last"} /\ (at'[y] = "child" => target'[y] # target'[x])
  <2>1. x # t /\ at[x] = "child" /\ target'[x] = target[x]
    BY <1>1, <1>5
  <2>2. y # t
    BY <2>1, <1>3, <1>5
  <2>3. at'[y] = at[y] /\ target'[y] = target[y]
    BY <2>2, <1>1
  <2>4. at[y] \notin {"any", "last"} /\ (at[y] = "child" => target[y] # target[x])
    BY <1>5, <2>1, WaitFacts
  <2> QED
    BY <2>1, <2>3, <2>4
<1>6. \A x \in Threads : at'[x] = "last" => owner_pcb'[x] = 1
  BY <1>1, WaitFacts
<1>7. kernel' # NULL => at'[kernel'] = "last"
  BY <1>1
<1> QED
  BY <1>2, <1>4, <1>5, <1>6, <1>7 DEF WaitsInv, WaitTypes

\* A sleeper that goes on sleeping.
LEMMA ReasonStays ==
  ASSUME IInv, NEW x \in Threads, Sleeps(x),
         at'[x] = at[x], target'[x] = target[x], owner_pcb'[x] = owner_pcb[x],
         at[x] = "join" => /\ exited'[target[x]] => exited[target[x]]
                           /\ detached'[target[x]] => detached[target[x]],
         at[x] = "child" => pstate'[target[x]] = pstate[target[x]],
         at[x] \in {"any", "last"} =>
           /\ children_list[owner_pcb[x]] \subseteq children_list'[owner_pcb[x]]
           /\ exited_list[owner_pcb[x]] = << >> =>
                exited_list'[owner_pcb[x]] = << >>
  PROVE  Reason(x)'
<1>1. Reason(x)
  BY WaitFacts
<1>2. at[x] \in {"any", "last"} => MustWait(owner_pcb[x])'
  BY <1>1 DEF Reason, MustWait
<1> QED
  BY <1>1, <1>2 DEF Reason

\* A thread t reaps a zombie c of its process, that no other one waits for.
LEMMA ReapKeeps ==
  ASSUME IInv, NEW t \in Threads, NEW c \in Pids, at[t] # "none",
         c \in children_list[owner_pcb[t]], pstate[c] = "ZOMBIE", Reap(c),
         \A x \in Threads : x # t /\ at[x] = "child" /\ owner_pcb[x] = owner_pcb[t] =>
           target[x] # c,
         \A x \in Threads : x # t =>
           at'[x] = at[x] /\ target'[x] = target[x] /\ woken'[x] = woken[x],
         \/ at'[t] = "user"
         \/ at'[t] = "last" /\ at[t] = "last" /\ target'[t] = target[t] /\ kernel' = t,
         WaitTypes', kernel \in {NULL, t},
         kernel' # NULL => at'[kernel'] = "last",
         \A x \in Threads : at'[x] = "none" <=> at[x] = "none",
         \A x \in Threads : at'[x] = "join" <=> at[x] = "join"
  PROVE  IInv'
<1>1. /\ UNCHANGED ptcb_vars
      /\ children_list' = [q \in Pids |-> children_list[q] \ {c}]
      /\ exited_list' = [q \in Pids |-> Without(exited_list[q], c)]
      /\ pstate' = [pstate EXCEPT ![c] = "FREE"]
      /\ exitval' = [exitval EXCEPT ![c] = "stale"]
      /\ taskless' = taskless \ {c}
  BY DEF Reap
<1>2. owner_pcb[t] \in Pids /\ c > 1 /\ parent[c] = owner_pcb[t]
  BY CallerFacts, ChildFacts
<1>3. TreeInv'
  BY <1>2, ReapTree
<1>4. ThreadsInv'
  <2>1. \A p \in Pids : HasTask(p)' <=> HasTask(p)
    BY <1>1, Typed DEF HasTask
  <2> QED
    BY <2>1, <1>1, Typed, ThreadsStay DEF ptcb_vars
<1>5. JoinsInv'
  <2>1. \A x \in Threads : at[x] = "join" => x # t
    OBVIOUS
  <2> QED
    BY <2>1, <1>1, JoinsStay DEF ptcb_vars
<1>6. WaitsInv'
  <2>1. \A x \in Threads : at'[x] \in {"child", "any", "last"} =>
          at'[x] = at[x] /\ target'[x] = target[x] /\ owner_pcb'[x] = owner_pcb[x]
    BY <1>1 DEF ptcb_vars
  <2>2. ASSUME NEW x \in Threads, at'[x] = "child"
        PROVE  target[x] \in children_list'[owner_pcb[x]]
    <3>1. x # t /\ at[x] = "child"
      BY <2>2
    <3>2. /\ target[x] \in Pids /\ owner_pcb[x] \in Pids
          /\ target[x] \in children_list[owner_pcb[x]]
          /\ parent[target[x]] = owner_pcb[x]
      BY <3>1, WaitFacts
    <3>3. target[x] # c
      BY <3>1, <3>2, <1>2
    <3> QED
      BY <3>2, <3>3, <1>1
  <2> QED
    BY <2>1, <2>2, WaitsStay
<1>7. ASSUME NEW x \in Threads, Sleeps(x)'
      PROVE  Reason(x)'
  <2>1. CASE x = t
    <3>1. at'[t] = "user"
      BY <1>7, <2>1 DEF Sleeps
    <3> QED
      BY <2>1, <3>1 DEF Reason
  <2>2. CASE x # t
    <3>1. Sleeps(x) /\ at'[x] = at[x] /\ target'[x] = target[x] /\ owner_pcb'[x] = owner_pcb[x]
      BY <1>1, <1>7, <2>2, ConstantsTyped DEF Sleeps, ptcb_vars
    <3>2. at[x] = "child" => pstate'[target[x]] = pstate[target[x]]
      <4>1. at[x] = "child" => pstate[target[x]] = "ALIVE" /\ target[x] \in Pids
        BY <3>1, WaitFacts DEF Reason
      <4> QED
        BY <4>1, <1>1, Typed
    <3>3. ASSUME at[x] \in {"any", "last"}
          PROVE  /\ children_list[owner_pcb[x]] \subseteq children_list'[owner_pcb[x]]
                 /\ exited_list'[owner_pcb[x]] = << >>
      <4> PICK q : q = owner_pcb[x]
        OBVIOUS
      <4>1. q \in Pids
        BY <3>3, CallerFacts
      <4>2. exited_list[q] = << >>
        BY <3>1, <3>3, WaitFacts DEF Reason, MustWait
      <4>3. c \notin ToSet(exited_list[q])
        BY <4>2, EmptySeq, SeqTyped
      <4>4. c \notin children_list[q]
        BY <4>1, <4>3 DEF IInv, TreeInv, TreeExact
      <4>5. Without(exited_list[q], c) = exited_list[q]
        BY <4>1, <4>3, Typed, WithoutFacts DEF IInv, TreeInv, TreeExact
      <4> QED
        BY <4>1, <4>2, <4>4, <4>5, <1>1
    <3> QED
      BY <1>1, <3>1, <3>2, <3>3, ReasonStays DEF ptcb_vars
  <2> QED
    BY <2>1, <2>2
<1>8. exitval' \in [Pids -> {"own", "stale"}]
  BY <1>1, Typed
<1> QED
  BY <1>3, <1>4, <1>5, <1>6, <1>7, <1>8 DEF IInv, SleepersHaveReason, Sleeps, Reason

\* A thread goes, and its process stays.
LEMMA GoKeeps ==
  ASSUME IInv, NEW t \in Threads, at[t] \in {"user", "last"}, kernel \in {NULL, t},
         kernel' = NULL, exitval' \in [Pids -> {"own", "stale"}], ThreadGoes(t)
  PROVE  IInv'
<1>1. /\ UNCHANGED <<tree, ptcb_list, refcount, detached>>
      /\ exited' = [exited EXCEPT ![t] = TRUE]
      /\ owner_pcb' = [owner_pcb EXCEPT ![t] = NULL]
      /\ at' = [at EXCEPT ![t] = "none"]
      /\ target' = [target EXCEPT ![t] = NULL]
      /\ woken' = WokenWith(t, Joiners(t))
  BY DEF ThreadGoes, NoThread, Goes, tree
<1>2. \A x \in Threads : x # t =>
        /\ at'[x] = at[x] /\ target'[x] = target[x] /\ owner_pcb'[x] = owner_pcb[x]
        /\ exited'[x] = exited[x]
        /\ woken'[x] = (woken[x] \/ x \in Joiners(t))
  BY <1>1, Typed DEF WokenWith
<1>3. at'[t] = "none"
  BY <1>1, Typed
<1>4. TreeInv'
  BY <1>1, TreeStays
<1>5. ThreadsInv'
  BY ThreadsGo
<1>6. JoinsInv'
  <2>1. \A x \in Threads : at'[x] = "join" <=> at[x] = "join"
    BY <1>2, <1>3
  <2>2. \A x \in Threads : at[x] = "join" =>
          target'[x] = target[x] /\ owner_pcb'[x] = owner_pcb[x]
    BY <1>2
  <2> QED
    BY <2>1, <2>2, <1>1, JoinsStay
<1>7. WaitsInv'
  <2>1. WaitTypes'
    BY <1>1, Typed DEF WaitTypes, At, WokenWith
  <2>2. \A x \in Threads : at'[x] \in {"child", "any", "last"} =>
          at'[x] = at[x] /\ target'[x] = target[x] /\ owner_pcb'[x] = owner_pcb[x]
    BY <1>2, <1>3
  <2>3. \A x \in Threads : at'[x] = "child" => target[x] \in children_list'[owner_pcb[x]]
    BY <1>1, <1>2, <1>3, WaitFacts DEF tree
  <2> QED
    BY <2>1, <2>2, <2>3, WaitsStay
<1>8. ASSUME NEW x \in Threads, Sleeps(x)'
      PROVE  Reason(x)'
  <2>1. CASE x = t
    BY <2>1, <1>3 DEF Reason
  <2>2. CASE x # t
    <3>1. Sleeps(x) /\ x \notin Joiners(t)
      BY <1>2, <1>8, <2>2, ConstantsTyped DEF Sleeps
    <3>2. at[x] = "join" => target[x] # t /\ target[x] \in Threads
      BY <3>1, JoinFacts DEF Joiners
    <3>3. at[x] = "join" => exited'[target[x]] = exited[target[x]]
      BY <3>2, <1>2
    <3> QED
      BY <1>1, <1>2, <2>2, <3>1, <3>3, ReasonStays DEF tree
  <2> QED
    BY <2>1, <2>2
<1> QED
  BY <1>4, <1>5, <1>6, <1>7, <1>8 DEF IInv, SleepersHaveReason, Sleeps, Reason

\* Those who sleep when the last thread of process p goes: those whom it
\* concerns are woken.
LEMMA EndReasons ==
  ASSUME IInv, NEW t \in Threads, at[t] \in {"user", "last"}, kernel \in {NULL, t},
         NEW p \in Pids, p = owner_pcb[t], thread_count[p] = 1, p # 1,
         LeaveParent(t, p), FreePtcbs(p, ptcb_list[p]), NoThread(t),
         pstate' = [pstate EXCEPT ![p] = "ZOMBIE"],
         parent[p] # 1 /\ exited_list[p] = << >> => exited_list'[1] = exited_list[1],
         \A q \in Pids \ {p, 1, parent[p]} : exited_list'[q] = exited_list[q],
         NEW x \in Threads, x # t, Sleeps(x)'
  PROVE  Reason(x)'
<1>1. /\ at'[x] = at[x] /\ target'[x] = target[x] /\ owner_pcb'[x] = owner_pcb[x]
      /\ \A y \in Threads : exited'[y] => exited[y]
      /\ \A y \in Threads : detached'[y] => detached[y]
      /\ pstate'[p] = "ZOMBIE" /\ \A q \in Pids : q # p => pstate'[q] = pstate[q]
  BY Typed DEF FreePtcbs, NoThread, Goes
<1>2. owner_pcb[x] # p
  BY LastThread
<1>3. Sleeps(x) /\ x \notin WokenByExit(p)
  <2>1. woken'[x] = (woken[x] \/ x \in Joiners(t) \cup WokenByExit(p))
    BY DEF LeaveParent, WokenWith
  <2> QED
    BY <2>1, ConstantsTyped DEF Sleeps
<1>4. /\ x \notin ChildWaiters(parent[p])
      /\ exited_list[p] # << >> => x \notin ChildWaiters(1)
  BY <1>3 DEF WokenByExit
<1>5. at[x] = "child" => pstate'[target[x]] = pstate[target[x]]
  <2>1. at[x] = "child" => target[x] \in Pids /\ parent[target[x]] = owner_pcb[x]
    BY WaitFacts
  <2>2. at[x] = "child" => target[x] # p
    BY <2>1, <1>4 DEF ChildWaiters
  <2> QED
    BY <2>1, <2>2, <1>1
<1>6. ASSUME at[x] \in {"any", "last"}
      PROVE  /\ children_list[owner_pcb[x]] \subseteq children_list'[owner_pcb[x]]
             /\ exited_list'[owner_pcb[x]] = exited_list[owner_pcb[x]]
  <2> PICK q : q = owner_pcb[x]
    OBVIOUS
  <2>1. q \in Pids /\ q # p
    BY <1>2, <1>6, CallerFacts
  <2>2. q # parent[p] /\ (q = 1 => exited_list[p] = << >>)
    BY <1>4, <1>6 DEF ChildWaiters
  <2>3. children_list[q] \subseteq children_list'[q]
    BY <2>1, Typed DEF LeaveParent, ChildrenAdopted
  <2>4. exited_list'[q] = exited_list[q]
    BY <2>1, <2>2
  <2> QED
    BY <2>3, <2>4
<1>7. at[x] = "join" => target[x] \in Threads
  BY JoinFacts
<1> QED
  BY <1>1, <1>3, <1>5, <1>6, <1>7, ReasonStays

\* The last thread goes, and its process ends.
LEMMA EndKeeps ==
  ASSUME IInv, NEW t \in Threads, at[t] \in {"user", "last"}, kernel \in {NULL, t},
         kernel' = NULL, exitval' \in [Pids -> {"own", "stale"}], ProcessEnds(t)
  PROVE  IInv'
<1> PICK p : p = owner_pcb[t]
  OBVIOUS
<1>1. p \in Pids /\ p > 0 /\ p # 0 /\ pstate[p] = "ALIVE" /\ owner_pcb[t] = p
  BY CallerFacts, PidOrder
<1>2. /\ thread_count[p] = 1
      /\ LeaveParent(t, p) \/ LeaveNoParent(t, p)
      /\ pstate' = [pstate EXCEPT ![p] = "ZOMBIE"]
      /\ thread_count' = [thread_count EXCEPT ![p] = 0]
      /\ FreePtcbs(p, ptcb_list[p])
      /\ NoThread(t)
      /\ UNCHANGED <<taskless, pcb_freelist, process_count>>
  BY DEF ProcessEnds
<1>3. \A x \in Threads : x # t =>
        /\ at'[x] = at[x] /\ target'[x] = target[x] /\ owner_pcb'[x] = owner_pcb[x]
        /\ owner_pcb[x] # p
  BY <1>1, <1>2, Typed, LastThread DEF NoThread, Goes
<1>4. at'[t] = "none"
  BY <1>2, Typed DEF NoThread, Goes
<1>5. ThreadsInv'
  BY <1>1, <1>2, ThreadsEnd
<1>6. JoinsInv'
  BY <1>1, <1>2, JoinsEnd
<1>7. WaitTypes'
  <2>1. woken' \in [Threads -> BOOLEAN]
    BY <1>2, Typed DEF LeaveParent, LeaveNoParent, WokenWith
  <2> QED
    BY <2>1, <1>2, Typed DEF WaitTypes, At, NoThread, Goes
<1>8. ASSUME \A q \in Pids : q # p => children_list[q] \subseteq children_list'[q]
      PROVE  WaitsInv'
  <2>1. \A x \in Threads : at'[x] \in {"child", "any", "last"} =>
          at'[x] = at[x] /\ target'[x] = target[x] /\ owner_pcb'[x] = owner_pcb[x]
    BY <1>3, <1>4
  <2>2. ASSUME NEW x \in Threads, at'[x] = "child"
        PROVE  target[x] \in children_list'[owner_pcb[x]]
    <3>1. x # t /\ at[x] = "child" /\ owner_pcb[x] # p
      BY <1>3, <1>4, <2>2
    <3>2. owner_pcb[x] \in Pids /\ target[x] \in children_list[owner_pcb[x]]
      BY <3>1, WaitFacts
    <3> QED
      BY <3>1, <3>2, <1>8
  <2> QED
    BY <2>1, <2>2, <1>7, WaitsStay
<1>9. CASE LeaveParent(t, p)
  <2>1. /\ p # 1 /\ p > 1
        /\ children_list' = ChildrenAdopted(p)
        /\ parent' = [q \in Pids |-> IF q \in children_list[p] THEN 1 ELSE parent[q]]
        /\ exited_list' = [ZombiesAdopted(p) EXCEPT ![parent[p]] = <<p>> \o @]
    BY <1>1, <1>9, PidOrder DEF LeaveParent
  <2>2. /\ TreeInv'
        /\ exited_list[p] = << >> /\ parent[p] # 1 => exited_list'[1] = exited_list[1]
        /\ \A q \in Pids \ {p, 1, parent[p]} : exited_list'[q] = exited_list[q]
    BY <1>1, <1>2, <2>1, LeaveTree
  <2>3. WaitsInv'
    <3>1. \A q \in Pids : q # p => children_list[q] \subseteq children_list'[q]
      BY <2>1, Typed DEF ChildrenAdopted
    <3> QED
      BY <3>1, <1>8
  <2>4. ASSUME NEW x \in Threads, Sleeps(x)'
        PROVE  Reason(x)'
    <3>1. CASE x = t
      BY <3>1, <1>4 DEF Reason
    <3>2. CASE x # t
      BY <3>2, <2>1, <2>2, <2>4, <1>1, <1>2, <1>9, EndReasons
    <3> QED
      BY <3>1, <3>2
  <2> QED
    BY <1>5, <1>6, <2>2, <2>3, <2>4 DEF IInv, SleepersHaveReason, Sleeps, Reason
<1>10. CASE LeaveNoParent(t, p)
  <2>1. /\ p = 1 /\ children_list[1] = {}
        /\ UNCHANGED <<parent, children_list, exited_list>>
        /\ woken' = WokenWith(t, Joiners(t))
    BY <1>10 DEF LeaveNoParent
  <2>2. TreeInv'
    BY <1>2, <2>1, LeaveNoTree
  <2>3. WaitsInv'
    BY <2>1, <1>8
  <2>4. ASSUME NEW x \in Threads, Sleeps(x)'
        PROVE  Reason(x)'
    <3>1. CASE x = t
      BY <3>1, <1>4 DEF Reason
    <3>2. CASE x # t
      <4>1. Sleeps(x)
        BY <2>1, <2>4, <3>2, ConstantsTyped DEF Sleeps, WokenWith
      <4>2. /\ \A y \in Threads : exited'[y] => exited[y]
            /\ \A y \in Threads : detached'[y] => detached[y]
        BY <1>2 DEF FreePtcbs
      <4>3. at[x] = "child" => pstate'[target[x]] = pstate[target[x]]
        <5>1. at[x] = "child" => /\ target[x] \in Pids /\ owner_pcb[x] \in Pids
                                 /\ target[x] \in children_list[owner_pcb[x]]
          BY WaitFacts
        <5>2. at[x] = "child" => target[x] # 1
          BY <5>1, ChildFacts, PidOrder
        <5> QED
          BY <5>1, <5>2, <2>1, <1>2, Typed
      <4>4. at[x] = "join" => target[x] \in Threads
        BY JoinFacts
      <4> QED
        BY <3>2, <4>1, <4>2, <4>3, <4>4, <2>1, <1>3, ReasonStays
    <3> QED
      BY <3>1, <3>2
  <2> QED
    BY <1>5, <1>6, <2>2, <2>3, <2>4 DEF IInv, SleepersHaveReason, Sleeps, Reason
<1> QED
  BY <1>2, <1>9, <1>10

\* An assertion of sys_ThreadExit() fails.
LEMMA FailKeeps ==
  ASSUME IInv, NEW t \in Threads, at[t] \in {"user", "last"}, kernel \in {NULL, t},
         kernel' = NULL, exitval' \in [Pids -> {"own", "stale"}], AssertionFails(t)
  PROVE  IInv'
<1>1. /\ UNCHANGED <<tree, ptcb_vars, woken>>
      /\ at' = [at EXCEPT ![t] = "abort"]
      /\ target' = [target EXCEPT ![t] = NULL]
  BY DEF AssertionFails, Goes, tree
<1>2. at'[t] = "abort" /\ \A x \in Threads : x # t =>
        at'[x] = at[x] /\ target'[x] = target[x]
  BY <1>1, Typed
<1>3. TreeInv'
  BY <1>1, TreeStays
<1>4. ThreadsInv'
  <2>1. \A x \in Threads : at'[x] = "none" <=> at[x] = "none"
    BY <1>2
  <2> QED
    BY <2>1, <1>1, Typed, ThreadsStay DEF ptcb_vars, tree, HasTask
<1>5. JoinsInv'
  <2>1. \A x \in Threads : at'[x] = "join" <=> at[x] = "join"
    BY <1>2
  <2>2. \A x \in Threads : at[x] = "join" => target'[x] = target[x]
    BY <1>2
  <2> QED
    BY <2>1, <2>2, <1>1, JoinsStay DEF ptcb_vars
<1>6. WaitsInv'
  <2>1. WaitTypes'
    BY <1>1, Typed DEF WaitTypes, At
  <2>2. \A x \in Threads : at'[x] \in {"child", "any", "last"} =>
          at'[x] = at[x] /\ target'[x] = target[x] /\ owner_pcb'[x] = owner_pcb[x]
    BY <1>1, <1>2 DEF ptcb_vars
  <2>3. \A x \in Threads : at'[x] = "child" => target[x] \in children_list'[owner_pcb[x]]
    BY <1>1, <1>2, WaitFacts DEF tree
  <2> QED
    BY <2>1, <2>2, <2>3, WaitsStay
<1>7. ASSUME NEW x \in Threads, Sleeps(x)'
      PROVE  Reason(x)'
  <2>1. CASE x = t
    BY <2>1, <1>2 DEF Reason
  <2>2. CASE x # t
    <3>1. Sleeps(x)
      BY <1>1, <1>7, <2>2, ConstantsTyped DEF Sleeps
    <3> QED
      BY <3>1, <2>2, <1>1, <1>2, ReasonStays DEF ptcb_vars, tree
  <2> QED
    BY <2>1, <2>2
<1> QED
  BY <1>3, <1>4, <1>5, <1>6, <1>7 DEF IInv, SleepersHaveReason, Sleeps, Reason

LEMMA ThreadExitKeeps ==
  ASSUME IInv, NEW t \in Threads, at[t] \in {"user", "last"}, kernel \in {NULL, t},
         kernel' = NULL, exitval' \in [Pids -> {"own", "stale"}], sys_ThreadExit(t)
  PROVE  IInv'
BY GoKeeps, EndKeeps, FailKeeps DEF sys_ThreadExit

-----------------------------------------------------------------------------
(***************************************************************************)
(* The system calls, and the returns from their waits.                     *)
(***************************************************************************)

\* A new thread u of process p begins: what is common to Exec() and
\* CreateThread().
LEMMA NewKeepsWaits ==
  ASSUME IInv, NEW p \in Pids, NEW u \in Threads, Unallocated(u), NewThread(p, u),
         UNCHANGED <<woken, kernel, exited_list>>, kernel = NULL,
         \A q \in Pids : children_list[q] \subseteq children_list'[q],
         \A q \in Pids : pstate[q] # "FREE" => pstate'[q] = pstate[q]
  PROVE  WaitsInv' /\ \A x \in Threads : Sleeps(x)' => Reason(x)'
<1>1. /\ owner_pcb' = [owner_pcb EXCEPT ![u] = p]
      /\ exited' = [exited EXCEPT ![u] = FALSE]
      /\ detached' = [detached EXCEPT ![u] = FALSE]
      /\ at' = [at EXCEPT ![u] = "user"]
      /\ target' = [target EXCEPT ![u] = NULL]
  BY DEF NewThread, Goes
<1>2. at'[u] = "user" /\ \A x \in Threads : x # u =>
        at'[x] = at[x] /\ target'[x] = target[x] /\ owner_pcb'[x] = owner_pcb[x]
  BY <1>1, Typed
<1>3. \A x \in Threads :
        (exited'[x] => exited[x]) /\ (detached'[x] => detached[x])
  BY <1>1, Typed
<1>4. WaitTypes'
  BY <1>1, Typed DEF WaitTypes, At
<1>5. WaitsInv'
  <2>1. \A x \in Threads : at'[x] \in {"child", "any", "last"} =>
          at'[x] = at[x] /\ target'[x] = target[x] /\ owner_pcb'[x] = owner_pcb[x]
    BY <1>2
  <2>2. ASSUME NEW x \in Threads, at'[x] = "child"
        PROVE  target[x] \in children_list'[owner_pcb[x]]
    <3>1. at[x] = "child"
      BY <1>2, <2>2
    <3>2. owner_pcb[x] \in Pids /\ target[x] \in children_list[owner_pcb[x]]
      BY <3>1, WaitFacts
    <3> QED
      BY <3>2
  <2> QED
    BY <2>1, <2>2, <1>4, WaitsStay
<1>6. ASSUME NEW x \in Threads, Sleeps(x)'
      PROVE  Reason(x)'
  <2>1. CASE x = u
    BY <2>1, <1>2 DEF Reason
  <2>2. CASE x # u
    <3>1. Sleeps(x)
      BY <1>6 DEF Sleeps
    <3>2. at[x] = "join" => target[x] \in Threads
      BY JoinFacts
    <3>3. at[x] = "child" => pstate'[target[x]] = pstate[target[x]]
      <4>1. at[x] = "child" => target[x] \in Pids /\ pstate[target[x]] # "FREE"
        BY WaitFacts
      <4> QED
        BY <4>1
    <3>4. at[x] \in {"any", "last"} => owner_pcb[x] \in Pids
      BY CallerFacts
    <3> QED
      BY <2>2, <3>1, <3>2, <3>3, <3>4, <1>2, <1>3, ReasonStays
  <2> QED
    BY <2>1, <2>2
<1> QED
  BY <1>5, <1>6

LEMMA ExecKeeps ==
  ASSUME IInv, NEW t \in Threads, NEW u \in Threads, Exec(t, u)
  PROVE  IInv'
<1> PICK p : p = pcb_freelist
  OBVIOUS
<1> PICK q : q = owner_pcb[t]
  OBVIOUS
<1>1. /\ at[t] = "user" /\ kernel = NULL /\ Unallocated(u)
      /\ acquire_PCB
      /\ parent' = [parent EXCEPT ![p] = q]
      /\ children_list' = [children_list EXCEPT ![q] = @ \cup {p}]
      /\ NewThread(p, u)
      /\ taskless' = taskless \ {p}
      /\ UNCHANGED <<exited_list, exitval, woken, kernel>>
  BY DEF Exec, NewProcess, Calls
<1>2. q \in Pids /\ q # 0 /\ pstate[q] = "ALIVE"
  BY <1>1, CallerFacts, PidOrder
<1>3. p \in Pids /\ p > 1 /\ p > 0 /\ p # 0 /\ pstate[p] = "FREE"
  BY <1>1, FreelistFacts, PidOrder DEF acquire_PCB
<1>4. pstate'[p] = "ALIVE" /\ \A x \in Pids : x # p => pstate'[x] = pstate[x]
  BY <1>1, <1>3, Typed DEF acquire_PCB
<1>5. TreeInv'
  BY <1>1, <1>2, ExecTree
<1>6. ThreadsInv'
  <2>1. HasTask(p)' /\ \A x \in Pids : x # p => (HasTask(x)' <=> HasTask(x))
    BY <1>1, <1>4 DEF HasTask
  <2>2. taskless' \subseteq Pids
    BY <1>1, Typed
  <2> QED
    BY <2>1, <2>2, <1>1, <1>3, ThreadsNew
<1>7. JoinsInv'
  BY <1>1, <1>3, JoinsNew
<1>8. WaitsInv' /\ \A x \in Threads : Sleeps(x)' => Reason(x)'
  <2>1. \A x \in Pids : children_list[x] \subseteq children_list'[x]
    BY <1>1, Typed
  <2>2. \A x \in Pids : pstate[x] # "FREE" => pstate'[x] = pstate[x]
    BY <1>3, <1>4
  <2> QED
    BY <2>1, <2>2, <1>1, <1>3, NewKeepsWaits
<1>9. exitval' \in [Pids -> {"own", "stale"}]
  BY <1>1, Typed
<1> QED
  BY <1>5, <1>6, <1>7, <1>8, <1>9 DEF IInv, SleepersHaveReason, Sleeps, Reason

\* A process without a task begins, and no thread.
LEMMA ExecNoTaskKeeps ==
  ASSUME IInv, NEW t \in Threads, ExecNoTask(t)
  PROVE  IInv'
<1> PICK p : p = pcb_freelist
  OBVIOUS
<1> PICK q : q = owner_pcb[t]
  OBVIOUS
<1>1. /\ at[t] = "user" /\ acquire_PCB
      /\ parent' = [parent EXCEPT ![p] = q]
      /\ children_list' = [children_list EXCEPT ![q] = @ \cup {p}]
      /\ taskless' = taskless \cup {p}
      /\ UNCHANGED <<exited_list, exitval, ptcb_vars, at, target, woken, kernel>>
  BY DEF ExecNoTask, NewProcess, Calls
<1>2. q \in Pids /\ q # 0 /\ pstate[q] = "ALIVE"
  BY <1>1, CallerFacts, PidOrder
<1>3. p \in Pids /\ pstate[p] = "FREE"
  BY <1>1, FreelistFacts DEF acquire_PCB
<1>4. \A x \in Pids : x # p => pstate'[x] = pstate[x]
  BY <1>1, <1>3, Typed DEF acquire_PCB
<1>5. TreeInv'
  BY <1>1, <1>2, ExecTree
<1>6. ThreadsInv'
  <2>1. \A x \in Pids : HasTask(x)' <=> HasTask(x)
    BY <1>1, <1>3, <1>4 DEF HasTask
  <2>2. taskless' \subseteq Pids
    BY <1>1, <1>3, Typed
  <2> QED
    BY <2>1, <2>2, <1>1, Typed, ThreadsStay DEF ptcb_vars
<1>7. JoinsInv'
  BY <1>1, JoinsStay DEF ptcb_vars
<1>8. \A x \in Pids : children_list[x] \subseteq children_list'[x]
  BY <1>1, Typed
<1>9. WaitsInv'
  <2>1. WaitTypes'
    BY <1>1, Typed DEF WaitTypes
  <2>2. \A x \in Threads : at'[x] = "child" => target[x] \in children_list'[owner_pcb[x]]
    BY <1>1, <1>8, WaitFacts
  <2>3. kernel' # NULL => at'[kernel'] = "last"
    BY <1>1, WaitFacts
  <2> QED
    BY <2>1, <2>2, <2>3, <1>1, WaitsStay DEF ptcb_vars
<1>10. ASSUME NEW x \in Threads, Sleeps(x)'
       PROVE  Reason(x)'
  <2>1. Sleeps(x)
    BY <1>1, <1>10 DEF Sleeps
  <2>2. at[x] = "child" => pstate'[target[x]] = pstate[target[x]]
    <3>1. at[x] = "child" => target[x] \in Pids /\ pstate[target[x]] # "FREE"
      BY WaitFacts
    <3> QED
      BY <3>1, <1>3, <1>4
  <2>3. at[x] \in {"any", "last"} => owner_pcb[x] \in Pids
    BY CallerFacts
  <2> QED
    BY <2>1, <2>2, <2>3, <1>1, <1>8, ReasonStays DEF ptcb_vars
<1>11. exitval' \in [Pids -> {"own", "stale"}]
  BY <1>1, Typed
<1> QED
  BY <1>5, <1>6, <1>7, <1>9, <1>10, <1>11 DEF IInv, SleepersHaveReason, Sleeps, Reason

LEMMA CreateThreadKeeps ==
  ASSUME IInv, NEW t \in Threads, NEW u \in Threads, CreateThread(t, u)
  PROVE  IInv'
<1> PICK p : p = owner_pcb[t]
  OBVIOUS
<1>1. /\ at[t] = "user" /\ kernel = NULL /\ Unallocated(u)
      /\ NewThread(p, u)
      /\ UNCHANGED <<tree, exitval, woken, kernel>>
  BY DEF CreateThread, Calls, process_vars, tree
<1>2. p \in Pids /\ p > 0 /\ pstate[p] = "ALIVE"
  BY <1>1, CallerFacts
<1>3. TreeInv'
  BY <1>1, TreeStays
<1>4. ThreadsInv'
  <2>1. HasTask(p)
    BY <1>1, <1>2, CallerFacts, ThreadFacts
  <2>2. \A x \in Pids : HasTask(x)' <=> HasTask(x)
    BY <1>1 DEF HasTask, tree
  <2>3. taskless' \subseteq Pids
    BY <1>1, Typed DEF tree
  <2> QED
    BY <2>1, <2>2, <2>3, <1>1, <1>2, ThreadsNew
<1>5. JoinsInv'
  BY <1>1, <1>2, JoinsNew
<1>6. WaitsInv' /\ \A x \in Threads : Sleeps(x)' => Reason(x)'
  BY <1>1, <1>2, NewKeepsWaits DEF tree
<1>7. exitval' \in [Pids -> {"own", "stale"}]
  BY <1>1, Typed
<1> QED
  BY <1>3, <1>4, <1>5, <1>6, <1>7 DEF IInv, SleepersHaveReason, Sleeps, Reason

LEMMA ThreadJoinKeeps ==
  ASSUME IInv, NEW t \in Threads, NEW u \in Threads, ThreadJoin(t, u)
  PROVE  IInv'
<1>1. /\ at[t] = "user" /\ kernel = NULL /\ ~ exited[u] /\ ~ detached[u]
      /\ UNCHANGED <<tree, exitval, ptcb_list, thread_count, owner_pcb, exited,
                     detached, woken, kernel>>
      /\ at' = [at EXCEPT ![t] = "join"]
      /\ target' = [target EXCEPT ![t] = u]
  BY DEF ThreadJoin, Calls, Joinable, Goes, process_vars, tree
<1>2. /\ at'[t] = "join" /\ target'[t] = u
      /\ \A x \in Threads : x # t => at'[x] = at[x] /\ target'[x] = target[x]
  BY <1>1, Typed
<1>3. TreeInv'
  BY <1>1, TreeStays
<1>4. ThreadsInv'
  <2>1. \A x \in Threads : at'[x] = "none" <=> at[x] = "none"
    BY <1>1, <1>2
  <2> QED
    BY <2>1, <1>1, Typed, ThreadsStay DEF tree, HasTask
<1>5. JoinsInv'
  BY JoinsJoin
<1>6. WaitsInv'
  <2>1. WaitTypes'
    BY <1>1, Typed DEF WaitTypes, At
  <2>2. \A x \in Threads : at'[x] \in {"child", "any", "last"} =>
          at'[x] = at[x] /\ target'[x] = target[x] /\ owner_pcb'[x] = owner_pcb[x]
    BY <1>1, <1>2
  <2>3. \A x \in Threads : at'[x] = "child" => target[x] \in children_list'[owner_pcb[x]]
    BY <1>1, <1>2, WaitFacts DEF tree
  <2> QED
    BY <2>1, <2>2, <2>3, <1>1, WaitsStay
<1>7. ASSUME NEW x \in Threads, Sleeps(x)'
      PROVE  Reason(x)'
  <2>1. CASE x = t
    BY <2>1, <1>1, <1>2 DEF Reason
  <2>2. CASE x # t
    <3>1. Sleeps(x)
      BY <1>1, <1>7 DEF Sleeps
    <3> QED
      BY <3>1, <2>2, <1>1, <1>2, ReasonStays DEF tree
  <2> QED
    BY <2>1, <2>2
<1>8. exitval' \in [Pids -> {"own", "stale"}]
  BY <1>1, Typed
<1> QED
  BY <1>3, <1>4, <1>5, <1>6, <1>7, <1>8 DEF IInv, SleepersHaveReason, Sleeps, Reason

\* The end of sys_ThreadJoin(), of t on u, which exited or was detached.
LEMMA JoinedKeeps ==
  ASSUME IInv, NEW t \in Threads, NEW u \in Threads, NEW left \in Nat,
         at[t] # "none", at'[t] = "user", kernel = NULL,
         u \in ptcb_list[owner_pcb[t]], exited[u] \/ detached[u],
         Joined(t, u, left), left = Cardinality(Joiners(u)'),
         \A x \in Threads : x # t =>
           at'[x] = at[x] /\ target'[x] = target[x] /\ woken'[x] = woken[x],
         \A v \in Threads : v # u => Joiners(v)' = Joiners(v),
         WaitTypes'
  PROVE  IInv'
<1> PICK p : p = owner_pcb[t]
  OBVIOUS
<1>1. p \in Pids
  BY CallerFacts
<1>2. /\ UNCHANGED <<tree, exitval, thread_count, owner_pcb, kernel>>
      /\ \/ ~ detached[u] /\ FreePtcbs(p, {u})
         \/ UNCHANGED <<ptcb_list, exited, detached>>
  BY DEF Joined, Frees, process_vars, tree
<1>3. TreeInv'
  BY <1>2, TreeStays
<1>4. \A x \in Threads : at'[x] = "none" <=> at[x] = "none"
  OBVIOUS
<1>5. ThreadsInv'
  <2>1. CASE ~ detached[u] /\ FreePtcbs(p, {u})
    BY <2>1, <1>1, <1>2, <1>4, ThreadsFreed DEF tree
  <2>2. CASE UNCHANGED <<ptcb_list, exited, detached>>
    BY <2>2, <1>2, <1>4, Typed, ThreadsStay DEF tree, HasTask
  <2> QED
    BY <2>1, <2>2, <1>2
<1>6. JoinsInv'
  <2>1. \A x \in Threads : at'[x] = "join" => at[x] = "join" /\ target'[x] = target[x]
    OBVIOUS
  <2> QED
    BY <2>1, <1>1, JoinsJoined
<1>7. WaitsInv'
  <2>1. \A x \in Threads : at'[x] \in {"child", "any", "last"} =>
          at'[x] = at[x] /\ target'[x] = target[x] /\ owner_pcb'[x] = owner_pcb[x]
    BY <1>2
  <2>2. \A x \in Threads : at'[x] = "child" => target[x] \in children_list'[owner_pcb[x]]
    BY <1>2, WaitFacts DEF tree
  <2> QED
    BY <2>1, <2>2, <1>2, WaitsStay
<1>8. ASSUME NEW x \in Threads, Sleeps(x)'
      PROVE  Reason(x)'
  <2>1. CASE x = t
    BY <2>1 DEF Reason
  <2>2. CASE x # t
    <3>1. Sleeps(x)
      BY <1>2, <1>8, <2>2 DEF Sleeps
    <3>2. \A y \in Threads : (exited'[y] => exited[y]) /\ (detached'[y] => detached[y])
      BY <1>2 DEF FreePtcbs
    <3>3. at[x] = "join" => target[x] \in Threads
      BY JoinFacts
    <3> QED
      BY <3>1, <3>2, <3>3, <2>2, <1>2, ReasonStays DEF tree
  <2> QED
    BY <2>1, <2>2
<1>9. exitval' \in [Pids -> {"own", "stale"}]
  BY <1>2, Typed
<1> QED
  BY <1>3, <1>5, <1>6, <1>7, <1>8, <1>9 DEF IInv, SleepersHaveReason, Sleeps, Reason

LEMMA JoinExitedKeeps ==
  ASSUME IInv, NEW t \in Threads, NEW u \in Threads, JoinExited(t, u)
  PROVE  IInv'
<1>1. /\ at[t] = "user" /\ kernel = NULL /\ exited[u] /\ u \in ptcb_list[owner_pcb[t]]
      /\ Joined(t, u, refcount[u])
      /\ UNCHANGED <<at, target, woken>>
  BY DEF JoinExited, Calls, Joinable, wait_vars
<1>2. \A v : Joiners(v)' = Joiners(v)
  BY <1>1, JoinersStay
<1>3. refcount[u] = Cardinality(Joiners(u)')
  <2>1. refcount[u] = Cardinality(Joiners(u))
    BY <1>1, CallerFacts, JoinFacts
  <2> QED
    BY <2>1, <1>2, Zenon
<1>4. WaitTypes'
  BY <1>1, Typed DEF WaitTypes, Joined
<1>5. refcount[u] \in Nat
  BY Typed
<1> QED
  BY <1>1, <1>2, <1>3, <1>4, <1>5, JoinedKeeps

LEMMA JoinReturnsKeeps ==
  ASSUME IInv, NEW t \in Threads, JoinReturns(t)
  PROVE  IInv'
<1> PICK u : u = target[t]
  OBVIOUS
<1>1. /\ at[t] = "join" /\ kernel = NULL /\ woken[t]
      /\ exited[u] \/ detached[u]
      /\ Joined(t, u, refcount[u] - 1)
      /\ at' = [at EXCEPT ![t] = "user"]
      /\ target' = [target EXCEPT ![t] = NULL]
      /\ woken' = WokenWith(t, {})
  BY DEF JoinReturns, Returns, Goes
<1>2. u \in Threads /\ owner_pcb[t] \in Pids /\ u \in ptcb_list[owner_pcb[t]]
  BY <1>1, JoinFacts
<1>3. /\ at'[t] = "user"
      /\ \A x \in Threads : x # t =>
           at'[x] = at[x] /\ target'[x] = target[x] /\ woken'[x] = woken[x]
  BY <1>1, Typed DEF WokenWith
<1>4. t \in Joiners(u) /\ Joiners(u)' = Joiners(u) \ {t}
  BY <1>1, <1>3 DEF Joiners
<1>5. \A v \in Threads : v # u => Joiners(v)' = Joiners(v)
  BY <1>1, <1>3 DEF Joiners
<1>6. refcount[u] - 1 \in Nat /\ refcount[u] - 1 = Cardinality(Joiners(u)')
  <2>1. refcount[u] = Cardinality(Joiners(u))
    BY <1>2, JoinFacts
  <2>2. /\ IsFiniteSet(Joiners(u) \ {t})
        /\ Cardinality(Joiners(u) \ {t}) = Cardinality(Joiners(u)) - 1
    BY <1>4, ThreadsFinite, FS_RemoveElement
  <2>3. Cardinality(Joiners(u)') = Cardinality(Joiners(u) \ {t})
    BY <1>4, Zenon
  <2>4. Cardinality(Joiners(u) \ {t}) \in Nat
    BY <2>2, FS_CardinalityType
  <2> QED
    BY <2>1, <2>2, <2>3, <2>4
<1>7. WaitTypes'
  BY <1>1, Typed DEF WaitTypes, At, WokenWith, Joined
<1> QED
  BY <1>1, <1>2, <1>3, <1>5, <1>6, <1>7, JoinedKeeps

LEMMA ThreadDetachKeeps ==
  ASSUME IInv, NEW t \in Threads, NEW u \in Threads, ThreadDetach(t, u)
  PROVE  IInv'
<1>1. /\ at[t] = "user" /\ kernel = NULL
      /\ detached' = [detached EXCEPT ![u] = TRUE]
      /\ woken' = WokenWith(t, Joiners(u))
      /\ UNCHANGED <<tree, exitval, ptcb_list, thread_count, owner_pcb, exited,
                     refcount, at, target, kernel>>
  BY DEF ThreadDetach, Calls, WokenByDetach, process_vars, tree
<1>2. TreeInv'
  BY <1>1, TreeStays
<1>3. ThreadsInv'
  <2>1. detached' \in [Threads -> BOOLEAN]
    BY <1>1, Typed
  <2> QED
    BY <2>1, <1>1, Typed, ThreadsStay DEF tree, HasTask
<1>4. JoinsInv'
  BY <1>1, JoinsStay
<1>5. WaitsInv'
  <2>1. WaitTypes'
    BY <1>1, Typed DEF WaitTypes, WokenWith
  <2>2. \A x \in Threads : at'[x] = "child" => target[x] \in children_list'[owner_pcb[x]]
    BY <1>1, WaitFacts DEF tree
  <2>3. kernel' # NULL => at'[kernel'] = "last"
    BY <1>1
  <2> QED
    BY <2>1, <2>2, <2>3, <1>1, WaitsStay
<1>6. ASSUME NEW x \in Threads, Sleeps(x)'
      PROVE  Reason(x)'
  <2>1. CASE x = t
    BY <2>1, <1>1 DEF Reason
  <2>2. CASE x # t
    <3>1. Sleeps(x) /\ x \notin Joiners(u)
      BY <1>1, <1>6, <2>2 DEF Sleeps, WokenWith
    <3>2. at[x] = "join" => target[x] # u /\ target[x] \in Threads
      BY <3>1, JoinFacts DEF Joiners
    <3>3. at[x] = "join" => detached'[target[x]] = detached[target[x]]
      BY <3>2, <1>1, Typed
    <3> QED
      BY <3>1, <3>3, <1>1, ReasonStays DEF tree
  <2> QED
    BY <2>1, <2>2
<1>7. exitval' \in [Pids -> {"own", "stale"}]
  BY <1>1, Typed
<1> QED
  BY <1>2, <1>3, <1>4, <1>5, <1>6, <1>7 DEF IInv, SleepersHaveReason, Sleeps, Reason

LEMMA ExitsKeep ==
  ASSUME IInv, NEW t \in Threads, ThreadExit(t) \/ Exit(t)
  PROVE  IInv'
<1>1. at[t] = "user" /\ kernel = NULL /\ kernel' = NULL /\ sys_ThreadExit(t)
  BY DEF ThreadExit, Exit, Calls
<1>2. exitval' \in [Pids -> {"own", "stale"}]
  BY Typed DEF ThreadExit, Exit
<1> QED
  BY <1>1, <1>2, ThreadExitKeeps

\* Nothing changes but who waits, and for what.
LEMMA OnlyWaits ==
  ASSUME IInv, UNCHANGED <<tree, ptcb_vars>>, exitval' \in [Pids -> {"own", "stale"}],
         \A x \in Threads : at'[x] = "none" <=> at[x] = "none",
         \A x \in Threads : at'[x] = "join" <=> at[x] = "join",
         \A x \in Threads : at[x] = "join" => target'[x] = target[x],
         WaitsInv', NEW t \in Threads, Sleeps(t)' => Reason(t)',
         \A x \in Threads : x # t /\ Sleeps(x)' =>
           Sleeps(x) /\ at'[x] = at[x] /\ target'[x] = target[x]
  PROVE  IInv'
<1>1. TreeInv'
  BY TreeStays
<1>2. ThreadsInv'
  BY Typed, ThreadsStay DEF ptcb_vars, tree, HasTask
<1>3. JoinsInv'
  BY JoinsStay DEF ptcb_vars
<1>4. ASSUME NEW x \in Threads, Sleeps(x)'
      PROVE  Reason(x)'
  <2>1. CASE x = t
    BY <2>1, <1>4
  <2>2. CASE x # t
    BY <2>2, <1>4, ReasonStays DEF ptcb_vars, tree
  <2> QED
    BY <2>1, <2>2
<1> QED
  BY <1>1, <1>2, <1>3, <1>4 DEF IInv, SleepersHaveReason, Sleeps, Reason

\* A wait returns, and its thread waits again or finds nothing to wait for.
LEMMA WaitReturns ==
  ASSUME IInv, NEW t \in Threads, at[t] \in {"child", "any", "last"},
         kernel \in {NULL, t}, UNCHANGED <<tree, ptcb_vars, exitval>>,
         woken' = WokenWith(t, {}), kernel' = NULL,
         \/ UNCHANGED <<at, target>> /\ Reason(t)
         \/ Goes(t, "user", NULL)
  PROVE  IInv'
<1>1. \A x \in Threads : x # t =>
        at'[x] = at[x] /\ target'[x] = target[x] /\ woken'[x] = woken[x]
  BY Typed DEF Goes, WokenWith
<1>2. \/ at'[t] = "user"
      \/ at'[t] = at[t] /\ target'[t] = target[t] /\ Reason(t)
  BY Typed DEF Goes
<1>3. WaitsInv'
  <2>1. WaitTypes'
    BY Typed DEF WaitTypes, At, WokenWith, Goes
  <2>2. \A x \in Threads : at'[x] \in {"child", "any", "last"} =>
          at'[x] = at[x] /\ target'[x] = target[x] /\ owner_pcb'[x] = owner_pcb[x]
    BY <1>1, <1>2 DEF ptcb_vars
  <2>3. \A x \in Threads : at'[x] = "child" => target[x] \in children_list'[owner_pcb[x]]
    BY <1>1, <1>2, WaitFacts DEF tree
  <2> QED
    BY <2>1, <2>2, <2>3, WaitsStay
<1>4. Reason(t)'
  <2>1. CASE at'[t] = "user"
    BY <2>1 DEF Reason
  <2>2. CASE at'[t] = at[t] /\ target'[t] = target[t] /\ Reason(t)
    BY <2>2 DEF Reason, MustWait, ptcb_vars, tree
  <2> QED
    BY <2>1, <2>2, <1>2
<1>5. \A x \in Threads : x # t /\ Sleeps(x)' =>
        Sleeps(x) /\ at'[x] = at[x] /\ target'[x] = target[x]
  BY <1>1, ConstantsTyped DEF Sleeps
<1>6. /\ \A x \in Threads : at'[x] = "none" <=> at[x] = "none"
      /\ \A x \in Threads : at'[x] = "join" <=> at[x] = "join"
      /\ \A x \in Threads : at[x] = "join" => target'[x] = target[x]
  BY <1>1, <1>2
<1>7. exitval' \in [Pids -> {"own", "stale"}]
  BY Typed
<1> QED
  BY <1>3, <1>4, <1>5, <1>6, <1>7, OnlyWaits

LEMMA ExitOfInitKeeps ==
  ASSUME IInv, ~ ConcurrentWaits, NEW t \in Threads, ExitOfInit(t)
  PROVE  IInv'
<1>1. /\ at[t] = "user" /\ kernel = NULL /\ owner_pcb[t] = 1 /\ ~ OneWaitedFor(1)
      /\ exitval' = [exitval EXCEPT ![1] = "own"]
      /\ Goes(t, "last", NULL) /\ kernel' = t
      /\ UNCHANGED <<tree, ptcb_vars, woken>>
  BY DEF ExitOfInit, Calls, tree
<1>2. WaitsInv'
  <2>1. UNCHANGED <<children_list, owner_pcb, woken>>
    BY <1>1 DEF tree, ptcb_vars
  <2>2. kernel' = IF "last" = "last" THEN t ELSE NULL
    BY <1>1
  <2> QED
    BY <1>1, <2>1, <2>2, WaitsForAny
<1>3. at'[t] = "last" /\ \A x \in Threads : x # t =>
        at'[x] = at[x] /\ target'[x] = target[x]
  BY <1>1, Typed DEF Goes
<1>4. ~ Sleeps(t)'
  BY <1>1 DEF Sleeps
<1>5. \A x \in Threads : x # t /\ Sleeps(x)' =>
        Sleeps(x) /\ at'[x] = at[x] /\ target'[x] = target[x]
  BY <1>1, <1>3, ConstantsTyped DEF Sleeps
<1>6. /\ \A x \in Threads : at'[x] = "none" <=> at[x] = "none"
      /\ \A x \in Threads : at'[x] = "join" <=> at[x] = "join"
      /\ \A x \in Threads : at[x] = "join" => target'[x] = target[x]
  BY <1>1, <1>3
<1>7. exitval' \in [Pids -> {"own", "stale"}]
  BY <1>1, Typed
<1> QED
  BY <1>1, <1>2, <1>4, <1>5, <1>6, <1>7, OnlyWaits

LEMMA WaitSpecificKeeps ==
  ASSUME IInv, ~ ConcurrentWaits, NEW t \in Threads, NEW c \in Pids, WaitSpecific(t, c)
  PROVE  IInv'
<1>1. /\ at[t] = "user" /\ kernel = NULL
      /\ ~ WaitedFor(c, owner_pcb[t]) /\ ChildOf(c, owner_pcb[t])
      /\ UNCHANGED <<woken, kernel>>
  BY DEF WaitSpecific, Calls
<1>2. owner_pcb[t] \in Pids /\ c \in children_list[owner_pcb[t]]
  <2>1. owner_pcb[t] \in Pids
    BY <1>1, CallerFacts
  <2>2. c # 0 /\ c # 1
    BY <1>1, <2>1, ConstantsTyped DEF ChildOf, IInv, TreeInv, RootsInv
  <2>3. c > 1
    BY <2>2, PidOrder
  <2> QED
    BY <1>1, <2>1, <2>3 DEF IInv, TreeInv, TreeExact
<1>3. CASE pstate[c] = "ALIVE" /\ Goes(t, "child", c) /\ UNCHANGED <<process_vars, ptcb_vars>>
  <2>1. UNCHANGED <<tree, ptcb_vars, children_list, owner_pcb, exitval>>
    BY <1>3 DEF process_vars, ptcb_vars, tree
  <2>2. WaitsInv'
    BY <1>1, <1>2, <1>3, <2>1, WaitsForChild
  <2>3. /\ at'[t] = "child" /\ target'[t] = c
        /\ \A x \in Threads : x # t => at'[x] = at[x] /\ target'[x] = target[x]
    BY <1>3, Typed DEF Goes
  <2>4. Reason(t)'
    BY <2>1, <2>3, <1>3 DEF Reason, tree
  <2>5. \A x \in Threads : x # t /\ Sleeps(x)' =>
          Sleeps(x) /\ at'[x] = at[x] /\ target'[x] = target[x]
    BY <1>1, <2>3 DEF Sleeps
  <2>6. /\ \A x \in Threads : at'[x] = "none" <=> at[x] = "none"
        /\ \A x \in Threads : at'[x] = "join" <=> at[x] = "join"
        /\ \A x \in Threads : at[x] = "join" => target'[x] = target[x]
    BY <1>1, <2>3
  <2>7. exitval' \in [Pids -> {"own", "stale"}]
    BY <2>1, Typed
  <2> QED
    BY <2>1, <2>2, <2>4, <2>5, <2>6, <2>7, OnlyWaits
<1>4. CASE pstate[c] = "ZOMBIE" /\ Reap(c) /\ UNCHANGED <<at, target>>
  <2>1. \A x \in Threads : x # t /\ at[x] = "child" /\ owner_pcb[x] = owner_pcb[t] =>
          target[x] # c
    BY <1>1 DEF WaitedFor, ChildWaiters
  <2>2. WaitTypes'
    BY <1>1, <1>4, Typed DEF WaitTypes
  <2> QED
    BY <1>1, <1>2, <1>4, <2>1, <2>2, ReapKeeps
<1> QED
  BY <1>3, <1>4 DEF WaitSpecific

LEMMA SpecificReturnsKeeps ==
  ASSUME IInv, NEW t \in Threads, SpecificReturns(t)
  PROVE  IInv'
<1> PICK c : c = target[t]
  OBVIOUS
<1>1. /\ at[t] = "child" /\ kernel = NULL /\ kernel' = NULL
      /\ woken' = WokenWith(t, {})
  BY DEF SpecificReturns, Returns
<1>2. /\ c \in Pids /\ owner_pcb[t] \in Pids /\ c \in children_list[owner_pcb[t]]
      /\ pstate[c] \in {"ALIVE", "ZOMBIE"}
  BY <1>1, WaitFacts
<1>3. CASE StillAlive(c) /\ UNCHANGED <<process_vars, ptcb_vars, at, target>>
  <2>1. UNCHANGED <<tree, ptcb_vars, exitval, at, target>>
    BY <1>3 DEF process_vars, tree
  <2>2. Reason(t)
    BY <1>1, <1>3 DEF Reason, StillAlive
  <2> QED
    BY <1>1, <2>1, <2>2, WaitReturns
<1>4. CASE ~ StillAlive(c) /\ Reap(c) /\ Goes(t, "user", NULL)
  <2>1. pstate[c] = "ZOMBIE"
    BY <1>2, <1>4 DEF StillAlive
  <2>2. \A x \in Threads : x # t /\ at[x] = "child" /\ owner_pcb[x] = owner_pcb[t] =>
          target[x] # c
    BY <1>1, WaitFacts
  <2>3. WaitTypes'
    BY <1>1, <1>4, Typed DEF WaitTypes, At, WokenWith, Goes
  <2>4. at'[t] = "user" /\ \A x \in Threads : x # t =>
          at'[x] = at[x] /\ target'[x] = target[x] /\ woken'[x] = woken[x]
    BY <1>1, <1>4, Typed DEF WokenWith, Goes
  <2>5. /\ \A x \in Threads : at'[x] = "none" <=> at[x] = "none"
        /\ \A x \in Threads : at'[x] = "join" <=> at[x] = "join"
    BY <1>1, <2>4
  <2> QED
    BY <1>1, <1>2, <1>4, <2>1, <2>2, <2>3, <2>4, <2>5, ReapKeeps
<1> QED
  BY <1>3, <1>4 DEF SpecificReturns

\* The child that wait_for_any_child() reaps.
LEMMA FirstExited ==
  ASSUME IInv, NEW p \in Pids, HasExited(p)
  PROVE  /\ Head(exited_list[p]) \in Pids
         /\ Head(exited_list[p]) \in children_list[p]
         /\ Head(exited_list[p]) \in ToSet(exited_list[p])
         /\ pstate[Head(exited_list[p])] = "ZOMBIE"
<1>1. exited_list[p] \in Seq(Pids) /\ exited_list[p] # << >>
  BY Typed DEF HasExited
<1>2. Head(exited_list[p]) \in Pids /\ Head(exited_list[p]) \in ToSet(exited_list[p])
  BY <1>1, PopFront
<1> QED
  BY <1>2 DEF IInv, TreeInv, TreeExact

LEMMA WaitAnyKeeps ==
  ASSUME IInv, ~ ConcurrentWaits, NEW t \in Threads, WaitAny(t)
  PROVE  IInv'
<1> PICK p : p = owner_pcb[t]
  OBVIOUS
<1>1. /\ at[t] = "user" /\ kernel = NULL /\ ~ OneWaitedFor(p)
      /\ UNCHANGED <<woken, kernel>>
  BY DEF WaitAny, Calls
<1>2. p \in Pids
  BY <1>1, CallerFacts
<1>3. CASE MustWait(p) /\ Goes(t, "any", NULL) /\ UNCHANGED <<process_vars, ptcb_vars>>
  <2>1. UNCHANGED <<tree, ptcb_vars, children_list, owner_pcb, exitval>>
    BY <1>3 DEF process_vars, ptcb_vars, tree
  <2>2. WaitsInv'
    <3>1. kernel' = IF "any" = "last" THEN t ELSE NULL
      BY <1>1
    <3> QED
      BY <1>1, <1>3, <2>1, <3>1, WaitsForAny
  <2>3. /\ at'[t] = "any"
        /\ \A x \in Threads : x # t => at'[x] = at[x] /\ target'[x] = target[x]
    BY <1>3, Typed DEF Goes
  <2>4. Reason(t)'
    BY <2>1, <2>3, <1>3 DEF Reason, MustWait, tree
  <2>5. \A x \in Threads : x # t /\ Sleeps(x)' =>
          Sleeps(x) /\ at'[x] = at[x] /\ target'[x] = target[x]
    BY <1>1, <2>3 DEF Sleeps
  <2>6. /\ \A x \in Threads : at'[x] = "none" <=> at[x] = "none"
        /\ \A x \in Threads : at'[x] = "join" <=> at[x] = "join"
        /\ \A x \in Threads : at[x] = "join" => target'[x] = target[x]
    BY <1>1, <2>3
  <2>7. exitval' \in [Pids -> {"own", "stale"}]
    BY <2>1, Typed
  <2> QED
    BY <2>1, <2>2, <2>4, <2>5, <2>6, <2>7, OnlyWaits
<1>4. CASE HasExited(p) /\ Reap(Head(exited_list[p])) /\ UNCHANGED <<at, target>>
  <2> PICK c : c = Head(exited_list[p])
    OBVIOUS
  <2>1. c \in Pids /\ c \in children_list[p] /\ pstate[c] = "ZOMBIE"
    BY <1>2, <1>4, FirstExited
  <2>2. \A x \in Threads : owner_pcb[x] = p => at[x] # "child"
    BY <1>1 DEF OneWaitedFor, ChildWaiters
  <2>3. WaitTypes'
    BY <1>1, <1>4, Typed DEF WaitTypes
  <2> QED
    BY <1>1, <1>4, <2>1, <2>2, <2>3, ReapKeeps
<1> QED
  BY <1>3, <1>4 DEF WaitAny

\* ... after a wait, also one of the loop of sys_Exit().
LEMMA ReapsAnyKeeps ==
  ASSUME IInv, NEW t \in Threads, at[t] \in {"any", "last"}, kernel \in {NULL, t},
         NEW p \in Pids, p = owner_pcb[t], HasExited(p), Reap(Head(exited_list[p])),
         woken' = WokenWith(t, {}),
         \/ at[t] = "any" /\ Goes(t, "user", NULL) /\ kernel' = NULL
         \/ at[t] = "last" /\ UNCHANGED <<at, target>> /\ kernel' = t
  PROVE  IInv'
<1> PICK c : c = Head(exited_list[p])
  OBVIOUS
<1>1. c \in Pids /\ c \in children_list[p] /\ pstate[c] = "ZOMBIE"
  BY FirstExited
<1>2. \A x \in Threads : x # t /\ at[x] = "child" /\ owner_pcb[x] = owner_pcb[t] =>
        target[x] # c
  BY WaitFacts
<1>3. WaitTypes'
  <2>1. woken' \in [Threads -> BOOLEAN]
    BY Typed DEF WokenWith
  <2>2. CASE Goes(t, "user", NULL) /\ kernel' = NULL
    BY <2>1, <2>2, Typed DEF WaitTypes, At, Goes
  <2>3. CASE UNCHANGED <<at, target>> /\ kernel' = t
    BY <2>1, <2>3, Typed DEF WaitTypes
  <2> QED
    BY <2>2, <2>3
<1>4. /\ \A x \in Threads : x # t =>
           at'[x] = at[x] /\ target'[x] = target[x] /\ woken'[x] = woken[x]
      /\ \/ at'[t] = "user"
         \/ at'[t] = "last" /\ at[t] = "last" /\ target'[t] = target[t] /\ kernel' = t
      /\ kernel' # NULL => at'[kernel'] = "last"
  BY Typed DEF WokenWith, Goes
<1>5. /\ \A x \in Threads : at'[x] = "none" <=> at[x] = "none"
      /\ \A x \in Threads : at'[x] = "join" <=> at[x] = "join"
  BY <1>4
<1> QED
  BY <1>1, <1>2, <1>3, <1>4, <1>5, ReapKeeps

LEMMA AnyReturnsKeeps ==
  ASSUME IInv, NEW t \in Threads, AnyReturns(t)
  PROVE  IInv'
<1> PICK p : p = owner_pcb[t]
  OBVIOUS
<1>1. /\ at[t] = "any" /\ kernel = NULL /\ kernel' = NULL
      /\ woken' = WokenWith(t, {})
  BY DEF AnyReturns, Returns
<1>2. p \in Pids
  BY <1>1, CallerFacts
<1>3. CASE MustWait(p) /\ UNCHANGED <<process_vars, ptcb_vars, at, target>>
  <2>1. UNCHANGED <<tree, ptcb_vars, exitval, at, target>>
    BY <1>3 DEF process_vars, tree
  <2>2. Reason(t)
    BY <1>1, <1>3 DEF Reason
  <2> QED
    BY <1>1, <2>1, <2>2, WaitReturns
<1>4. CASE Goes(t, "user", NULL) /\ UNCHANGED <<process_vars, ptcb_vars>>
  <2>1. UNCHANGED <<tree, ptcb_vars, exitval>>
    BY <1>4 DEF process_vars, tree
  <2> QED
    BY <1>1, <1>4, <2>1, WaitReturns
<1>5. CASE HasExited(p) /\ Reap(Head(exited_list[p])) /\ Goes(t, "user", NULL)
  BY <1>1, <1>2, <1>5, ReapsAnyKeeps
<1> QED
  BY <1>3, <1>4, <1>5 DEF AnyReturns

LEMMA ExitLoopKeeps ==
  ASSUME IInv, NEW t \in Threads, ExitLoop(t)
  PROVE  IInv'
<1>1. at[t] = "last" /\ kernel \in {NULL, t} /\ owner_pcb[t] = 1
  BY WaitFacts DEF ExitLoop, Returns
<1>2. CASE /\ MustWait(1) /\ kernel' = NULL /\ woken' = WokenWith(t, {})
           /\ UNCHANGED <<process_vars, ptcb_vars, at, target>>
  <2>1. UNCHANGED <<tree, ptcb_vars, exitval, at, target>>
    BY <1>2 DEF process_vars, tree
  <2>2. Reason(t)
    BY <1>1, <1>2 DEF Reason
  <2> QED
    BY <1>1, <1>2, <2>1, <2>2, WaitReturns
<1>3. CASE /\ HasExited(1) /\ Reap(Head(exited_list[1])) /\ kernel' = t
           /\ woken' = WokenWith(t, {}) /\ UNCHANGED <<at, target>>
  BY <1>1, <1>3, ConstantsTyped, ReapsAnyKeeps
<1>4. CASE kernel' = NULL /\ sys_ThreadExit(t) /\ UNCHANGED exitval
  <2>1. exitval' \in [Pids -> {"own", "stale"}]
    BY <1>4, Typed
  <2> QED
    BY <1>1, <1>4, <2>1, ThreadExitKeeps
<1> QED
  BY <1>2, <1>3, <1>4 DEF ExitLoop

-----------------------------------------------------------------------------
(***************************************************************************)
(* The inductive invariant.                                                *)
(***************************************************************************)
LEMMA NextKeeps ==
  ASSUME IInv, ~ ConcurrentWaits, [Next]_vars
  PROVE  IInv'
<1>1. CASE UNCHANGED vars
  <2>1. UNCHANGED <<tree, ptcb_vars, at, target, woken, kernel, exitval>>
    BY <1>1 DEF vars, process_vars, wait_vars, tree
  <2>2. TreeInv'
    BY <2>1, TreeStays
  <2>3. ThreadsInv'
    BY <2>1, Typed, ThreadsStay DEF ptcb_vars, tree, HasTask
  <2>4. JoinsInv'
    BY <2>1, JoinsStay DEF ptcb_vars
  <2>5. WaitsInv'
    BY <2>1 DEF IInv, WaitsInv, ptcb_vars, tree
  <2>6. SleepersHaveReason'
    BY <2>1 DEF IInv, SleepersHaveReason, MustWait, ptcb_vars, tree
  <2>7. exitval' \in [Pids -> {"own", "stale"}]
    BY <2>1, Typed
  <2> QED
    BY <2>2, <2>3, <2>4, <2>5, <2>6, <2>7 DEF IInv
<1>2. ASSUME NEW t \in Threads, NEW u \in Threads,
             \/ Exec(t, u) \/ CreateThread(t, u)
             \/ ThreadJoin(t, u) \/ JoinExited(t, u) \/ ThreadDetach(t, u)
      PROVE  IInv'
  BY <1>2, ExecKeeps, CreateThreadKeeps, ThreadJoinKeeps, JoinExitedKeeps, ThreadDetachKeeps
<1>3. ASSUME NEW t \in Threads,
             \/ \E c \in Pids : WaitSpecific(t, c)
             \/ ExecNoTask(t) \/ JoinReturns(t)
             \/ ThreadExit(t) \/ Exit(t) \/ ExitOfInit(t)
             \/ SpecificReturns(t)
             \/ WaitAny(t) \/ AnyReturns(t) \/ ExitLoop(t)
      PROVE  IInv'
  BY <1>3, ExecNoTaskKeeps, WaitSpecificKeeps, JoinReturnsKeeps, ExitsKeep, ExitOfInitKeeps,
     SpecificReturnsKeeps, WaitAnyKeeps, AnyReturnsKeeps, ExitLoopKeeps
<1> QED
  BY <1>1, <1>2, <1>3 DEF Next, Stopped

LEMMA InitFreelist ==
  ASSUME Init
  PROVE  FreelistInv
<1> DEFINE n == MAX_PROC - 2
<1>1. n \in Nat /\ MAX_PROC \in Nat /\ MAX_PROC >= 2
  BY ConstantsAssumption
<1> DEFINE f == [i \in 1..n |-> i + 1]
<1>2. /\ f \in Seq(Pids) /\ Len(f) = n /\ DOMAIN f = 1..n
      /\ \A i \in 1..n : f[i] = i + 1
  <2>1. \A i \in 1..n : i + 1 \in Pids
    BY <1>1 DEF Pids
  <2> QED
    BY <2>1, <1>1
<1> HIDE DEF f
<1>3. IsInjective(f)
  BY <1>1, <1>2 DEF IsInjective
<1>4. FreePids = 2..(MAX_PROC - 1) /\ ToSet(f) = FreePids
  <2>1. FreePids = 2..(MAX_PROC - 1)
    BY <1>1 DEF Init, FreePids, Pids
  <2>2. ASSUME NEW x \in 2..(MAX_PROC - 1) PROVE x \in ToSet(f)
    <3>1. x - 1 \in 1..n /\ f[x - 1] = x
      BY <1>1, <1>2
    <3> QED
      BY <3>1, <1>2 DEF ToSet
  <2>3. ToSet(f) \subseteq 2..(MAX_PROC - 1)
    BY <1>1, <1>2 DEF ToSet
  <2> QED
    BY <2>1, <2>2, <2>3
<1>5. pcb_freelist = IF f = << >> THEN NULL ELSE f[1]
  <2>1. f = << >> <=> n = 0
    BY <1>1, <1>2, EmptySeq
  <2>2. n # 0 => f[1] = 2
    BY <1>1, <1>2
  <2>3. pcb_freelist = IF n # 0 THEN 2 ELSE NULL
    BY <1>1 DEF Init
  <2> QED
    BY <2>1, <2>2, <2>3
<1>6. \A i \in DOMAIN f : parent[f[i]] = IF i = Len(f) THEN NULL ELSE f[i + 1]
  <2> SUFFICES ASSUME NEW i \in 1..n
               PROVE  parent[f[i]] = IF i = n THEN NULL ELSE f[i + 1]
    BY <1>2
  <2>1. /\ f[i] = i + 1 /\ i + 1 \in Pids /\ ~ (i + 1 <= 1)
        /\ i + 1 = MAX_PROC - 1 <=> i = n
    BY <1>1, <1>2 DEF Pids
  <2>2. parent[i + 1] = IF i = n THEN NULL ELSE (i + 1) + 1
    BY <2>1 DEF Init
  <2>3. i # n => f[i + 1] = (i + 1) + 1
    BY <1>1, <1>2
  <2> QED
    BY <2>1, <2>2, <2>3
<1>7. IsFreelist(f)
  BY <1>2, <1>3, <1>4, <1>5, <1>6 DEF IsFreelist
<1>8. process_count = Cardinality(Pids \ FreePids)
  <2>1. Pids \ FreePids = {0} \cup {1}
    BY <1>1, <1>4 DEF Pids
  <2>2. Cardinality({0} \cup {1}) = 2
    <3>1. IsFiniteSet({0}) /\ Cardinality({0}) = 1
      BY FS_Singleton, Zenon
    <3>2. 1 \notin {0}
      OBVIOUS
    <3>3. Cardinality({0} \cup {1}) = Cardinality({0}) + 1
      BY <3>1, <3>2, FS_AddElement
    <3> QED
      BY <3>1, <3>3
  <2> QED
    BY <2>1, <2>2 DEF Init
<1> QED
  BY <1>2, <1>7, <1>8 DEF FreelistInv

LEMMA InitEstablishes == Init => IInv
<1> SUFFICES ASSUME Init PROVE IInv
  OBVIOUS
<1> USE ConstantsTyped
<1>1. /\ \A p \in Pids : p > 1 => pstate[p] = "FREE"
      /\ pstate[0] = "ALIVE" /\ pstate[1] = "ALIVE"
      /\ parent[0] = NULL /\ parent[1] = NULL
      /\ \A p \in Pids : children_list[p] = {} /\ exited_list[p] = << >>
      /\ \A p \in Pids : pstate[p] # "ZOMBIE"
      /\ \A p \in Pids : pstate[p] = "ALIVE" => p = 0 \/ p = 1
  <2>1. \A p \in Pids : (p <= 1 <=> ~ (p > 1)) /\ (p <= 1 => p = 0 \/ p = 1)
    BY DEF Pids
  <2> QED
    BY <2>1 DEF Init
<1>2. TreeInv
  <2>1. ProcessTypes
    <3>1. parent \in [Pids -> Pids \cup {NULL}]
      <4>1. \A p \in Pids : p # MAX_PROC - 1 => p + 1 \in Pids
        BY DEF Pids
      <4> QED
        BY <4>1 DEF Init
    <3>2. pcb_freelist \in Pids \cup {NULL}
      BY DEF Init, Pids
    <3>3. << >> \in Seq(Pids)
      OBVIOUS
    <3> QED
      BY <3>1, <3>2, <3>3 DEF Init, ProcessTypes
  <2>2. RootsInv
    BY <1>1 DEF RootsInv
  <2>3. TreeExact
    <3>1. ToSet(<< >>) = {} /\ IsInjective(<< >>)
      BY SeqTyped, EmptySeq DEF ToSet, IsInjective
    <3> QED
      BY <3>1, <1>1 DEF TreeExact, ChildOf
  <2>4. \E rank \in [Pids -> Nat] : IsRank(rank)
    <3>1. [p \in Pids |-> 0] \in [Pids -> Nat] /\ IsRank([p \in Pids |-> 0])
      BY <1>1 DEF IsRank, Used
    <3> QED
      BY <3>1
  <2> QED
    BY <2>1, <2>2, <2>3, <2>4, InitFreelist DEF TreeInv
<1>3. /\ \A t \in Threads : owner_pcb[t] = IF t = InitThread THEN 1 ELSE NULL
      /\ \A t \in Threads : at[t] = IF t = InitThread THEN "user" ELSE "none"
      /\ \A p \in Pids : ptcb_list[p] = IF p = 1 THEN {InitThread} ELSE {}
      /\ \A p \in Pids : thread_count[p] = IF p = 1 THEN 1 ELSE 0
      /\ \A t \in Threads : ~ exited[t] /\ refcount[t] = 0
  BY DEF Init
<1>4. ThreadsInv
  <2>1. \A p \in Pids : ThreadsOf(p) = IF p = 1 THEN {InitThread} ELSE {}
    BY <1>3 DEF ThreadsOf
  <2>2. Cardinality({InitThread}) = 1 /\ Cardinality({}) = 0
    BY FS_Singleton, FS_EmptySet
  <2>3. \A p \in Pids : thread_count[p] = Cardinality(ThreadsOf(p))
    BY <2>1, <2>2, <1>3
  <2>4. ThreadTypes
    BY DEF Init, ThreadTypes
  <2>5. ThreadsExact
    <3>1. \A p \in Pids : HasTask(p) <=> ThreadsOf(p) # {}
      BY <2>1, <1>1 DEF Init, HasTask
    <3> QED
      BY <3>1, <2>1, <2>3, <1>3 DEF ThreadsExact
  <2>6. \A t \in Threads : owner_pcb[t] # 0
    BY <1>3
  <2> QED
    BY <2>4, <2>5, <2>6 DEF ThreadsInv
<1>5. JoinsInv
  <2>1. \A u \in Threads : Joiners(u) = {}
    BY <1>3 DEF Joiners
  <2>2. \A u \in Threads : refcount[u] = Cardinality(Joiners(u))
    BY <2>1, <1>3, FS_EmptySet
  <2> QED
    BY <2>2, <1>3 DEF Init, JoinsInv, JoinsExact
<1>6. WaitsInv
  BY <1>3 DEF Init, WaitsInv, At
<1>7. SleepersHaveReason
  BY <1>3 DEF SleepersHaveReason
<1>8. exitval \in [Pids -> {"own", "stale"}]
  BY DEF Init
<1> QED
  BY <1>2, <1>4, <1>5, <1>6, <1>7, <1>8 DEF IInv

\* The free list, as LinkedFrom follows it: after n steps from the first
\* PCB of a list, n + 1 of them have been seen.
LEMMA FreelistFollows ==
  ASSUME IInv
  PROVE  FreelistExact
<1>1. PICK f \in Seq(Pids) : IsFreelist(f)
  BY DEF IInv, TreeInv, FreelistInv
<1>2. /\ f \in [1..Len(f) -> Pids] /\ Len(f) \in Nat /\ DOMAIN f = 1..Len(f)
      /\ f = << >> <=> Len(f) = 0
  BY LenProperties, EmptySeq
<1>3. NULL \notin Pids
  BY ConstantsTyped
<1> DEFINE Seen(n) == {f[i] : i \in {i \in 1..Len(f) : i <= n + 1}}
<1>4. Seen(0) = {pcb_freelist} \ {NULL}
  <2>1. CASE f = << >>
    BY <2>1, <1>1, <1>2 DEF IsFreelist
  <2>2. CASE f # << >>
    <3>1. pcb_freelist = f[1] /\ 1 \in 1..Len(f) /\ f[1] # NULL
      BY <2>2, <1>1, <1>2, <1>3 DEF IsFreelist
    <3>2. {i \in 1..Len(f) : i <= 0 + 1} = {1}
      BY <3>1, <1>2
    <3> QED
      BY <3>1, <3>2
  <2> QED
    BY <2>1, <2>2
<1>5. ASSUME NEW n \in Nat
      PROVE  Seen(n + 1) = Seen(n) \cup ({parent[p] : p \in Seen(n)} \ {NULL})
  <2>1. ASSUME NEW x \in Seen(n + 1)
        PROVE  x \in Seen(n) \cup ({parent[p] : p \in Seen(n)} \ {NULL})
    <3>1. PICK i \in 1..Len(f) : i <= (n + 1) + 1 /\ x = f[i]
      OBVIOUS
    <3>2. CASE i <= n + 1
      BY <3>1, <3>2
    <3>3. CASE ~ (i <= n + 1)
      <4> PICK j : j = i - 1
        OBVIOUS
      <4>1. j \in 1..Len(f) /\ j <= n + 1 /\ j # Len(f) /\ i = j + 1
        BY <3>1, <3>3, <1>2
      <4>2. parent[f[j]] = f[i]
        BY <4>1, <1>1, <1>2 DEF IsFreelist
      <4>3. f[j] \in Seen(n) /\ f[i] # NULL
        BY <4>1, <3>1, <1>2, <1>3
      <4> HIDE DEF Seen
      <4> QED
        BY <4>2, <4>3, <3>1
    <3> QED
      BY <3>2, <3>3
  <2>2. ASSUME NEW x \in Seen(n)
        PROVE  x \in Seen(n + 1)
    <3>1. PICK i \in 1..Len(f) : i <= n + 1 /\ x = f[i]
      OBVIOUS
    <3>2. i <= (n + 1) + 1
      BY <3>1, <1>2
    <3> QED
      BY <3>1, <3>2
  <2>3. ASSUME NEW p \in Seen(n), parent[p] # NULL
        PROVE  parent[p] \in Seen(n + 1)
    <3>1. PICK i \in 1..Len(f) : i <= n + 1 /\ p = f[i]
      OBVIOUS
    <3>2. i # Len(f) /\ parent[p] = f[i + 1]
      BY <2>3, <3>1, <1>1, <1>2 DEF IsFreelist
    <3>3. i + 1 \in 1..Len(f) /\ i + 1 <= (n + 1) + 1
      BY <3>1, <3>2, <1>2
    <3> QED
      BY <3>2, <3>3
  <2> HIDE DEF Seen
  <2> QED
    BY <2>1, <2>2, <2>3
<1> HIDE DEF Seen
<1> DEFINE Step(g, n) == IF n = 0 THEN {pcb_freelist} \ {NULL}
                         ELSE g[n - 1] \cup ({parent[p] : p \in g[n - 1]} \ {NULL})
<1>6. LinkedFrom = [n \in Nat |-> Step(LinkedFrom, n)]
  <2> DEFINE F == [n \in Nat |-> Seen(n)]
  <2>1. ASSUME NEW n \in Nat PROVE F[n] = Step(F, n)
    <3>1. CASE n = 0
      BY <3>1, <1>4
    <3>2. CASE n # 0
      <4>1. n - 1 \in Nat /\ (n - 1) + 1 = n
        BY <3>2
      <4>2. Seen(n) = Seen(n - 1) \cup ({parent[p] : p \in Seen(n - 1)} \ {NULL})
        BY <4>1, <1>5
      <4> QED
        BY <3>2, <4>1, <4>2
    <3> QED
      BY <3>1, <3>2
  <2>2. F = [n \in Nat |-> Step(F, n)]
    BY <2>1
  <2> HIDE DEF F
  <2> QED
    BY <2>2 DEF LinkedFrom
<1>7. LinkedFrom[0] = {pcb_freelist} \ {NULL}
  BY <1>6
<1>8. ASSUME NEW n \in Nat
      PROVE  LinkedFrom[n + 1] =
               LinkedFrom[n] \cup ({parent[p] : p \in LinkedFrom[n]} \ {NULL})
  <2>1. n + 1 \in Nat /\ n + 1 # 0 /\ (n + 1) - 1 = n
    OBVIOUS
  <2>2. LinkedFrom[n + 1] = Step(LinkedFrom, n + 1)
    BY <1>6, <2>1
  <2> QED
    BY <2>1, <2>2
<1> DEFINE T == {n \in Nat : LinkedFrom[n] = Seen(n)}
<1>9. MAX_PROC \in T
  <2>1. 0 \in T
    BY <1>4, <1>7
  <2>2. ASSUME NEW n \in Nat, n \in T PROVE n + 1 \in T
    <3>1. LinkedFrom[n] = Seen(n)
      BY <2>2
    <3>2. LinkedFrom[n + 1] = Seen(n + 1)
      BY <3>1, <1>5, <1>8
    <3> QED
      BY <3>2
  <2>3. Nat \subseteq T
    <3> HIDE DEF T
    <3> QED
      BY <2>1, <2>2, NatSetInduction
  <2> QED
    BY <2>3, ConstantsTyped
<1>10. Len(f) <= MAX_PROC
  <2>1. f \in Injection(1..Len(f), Pids)
    BY <1>1, <1>2 DEF IsFreelist, Injection
  <2>2. Cardinality(1..Len(f)) <= Cardinality(Pids)
    BY <2>1, ConstantsTyped, FS_Injection
  <2>3. Cardinality(1..Len(f)) = Len(f)
    <3>1. Cardinality(1..Len(f)) = IF 1 > Len(f) THEN 0 ELSE Len(f) - 1 + 1
      BY <1>2, FS_Interval
    <3> QED
      BY <3>1, <1>2
  <2> QED
    BY <2>2, <2>3, ConstantsTyped
<1>11. Seen(MAX_PROC) = FreePids
  <2>1. \A i \in 1..Len(f) : i <= MAX_PROC + 1
    BY <1>2, <1>10, ConstantsTyped
  <2>2. Seen(MAX_PROC) = ToSet(f)
    BY <2>1, <1>2 DEF Seen, ToSet
  <2> QED
    BY <2>2, <1>1 DEF IsFreelist
<1>12. process_count = Cardinality({p \in Pids : pstate[p] # "FREE"})
  <2>1. Pids \ FreePids = {p \in Pids : pstate[p] # "FREE"}
    BY DEF FreePids
  <2>2. process_count = Cardinality(Pids \ FreePids)
    BY DEF IInv, TreeInv, FreelistInv
  <2> QED
    BY <2>1, <2>2
<1> QED
  BY <1>9, <1>11, <1>12 DEF FreelistExact, FreePids

-----------------------------------------------------------------------------
(***************************************************************************)
(* The theorems.                                                           *)
(***************************************************************************)

\* The strengthened invariant holds in every reachable state.
THEOREM InvariantHolds ==
  ASSUME ~ ConcurrentWaits
  PROVE  Spec => []IInv
<1>1. IInv /\ [Next]_vars => IInv'
  BY NextKeeps
<1> QED
  BY InitEstablishes, <1>1, PTL DEF Spec

\* Every variable keeps its type: no count of PCBs, threads or joiners goes
\* below zero, and there are never more processes than PCBs.
THEOREM TypeCorrect ==
  ASSUME ~ ConcurrentWaits
  PROVE  Spec => []TypeOK
BY InvariantHolds, TypeFollows, PTL

\* The lists of children and of zombies are what the parent fields and the
\* states of the PCBs say: no process is lost when its parent ends first, and
\* none is a zombie twice.
THEOREM TreeIsExact ==
  ASSUME ~ ConcurrentWaits
  PROVE  Spec => []TreeExact
<1>1. IInv => TreeExact
  BY DEF IInv, TreeInv
<1> QED
  BY InvariantHolds, <1>1, PTL

\* acquire_PCB() and release_PCB() neither lose a PCB nor link one twice, for
\* all that the free list shares the parent field with the process tree; and
\* process_count counts the PCBs in use.
THEOREM FreelistIsExact ==
  ASSUME ~ ConcurrentWaits
  PROVE  Spec => []FreelistExact
<1>1. IInv => FreelistExact
  BY FreelistFollows
<1> QED
  BY InvariantHolds, <1>1, PTL

\* thread_count counts the threads of a process, which is alive as long as it
\* has one, or for good if it was given no task; and a PTCB is in the list of the process of its thread.
THEOREM ThreadsAreExact ==
  ASSUME ~ ConcurrentWaits
  PROVE  Spec => []ThreadsExact
<1>1. IInv => ThreadsExact
  BY DEF IInv, ThreadsInv
<1> QED
  BY InvariantHolds, <1>1, PTL

\* The PTCB that a thread waits on in ThreadJoin() is not freed under it: its
\* refcount is the number of those who wait.
THEOREM JoinsAreExact ==
  ASSUME ~ ConcurrentWaits
  PROVE  Spec => []JoinsExact
<1>1. IInv => JoinsExact
  BY DEF IInv, JoinsInv
<1> QED
  BY InvariantHolds, <1>1, PTL

\* The broadcasts of exit_cv and child_exit lose no wake-up: who sleeps, and
\* has not been woken, sleeps for a thread that runs, for a child that is
\* alive, or for want of an exited child.
THEOREM SleepersAllHaveReason ==
  ASSUME ~ ConcurrentWaits
  PROVE  Spec => []SleepersHaveReason
<1>1. IInv => SleepersHaveReason
  BY DEF IInv
<1> QED
  BY InvariantHolds, <1>1, PTL

\* A step that frees no PCB, and after which who waited for a child still does.
FreesNone ==
  /\ \A p \in Pids : pstate'[p] = "FREE" => pstate[p] = "FREE"
  /\ \A t \in Threads : at[t] = "child" => at'[t] # "user"

\* A step that reaps a zombie, the one that a thread waited for if it returns.
ReapsOne ==
  \E c \in Pids :
    /\ pstate' = [pstate EXCEPT ![c] = "FREE"]
    /\ pstate[c] = "ZOMBIE" /\ c \in ToSet(exited_list[parent[c]])
    /\ \A t \in Threads : at[t] = "child" /\ at'[t] = "user" =>
         c = target[t] /\ ChildOf(c, owner_pcb[t])

\* A thread that is not in WaitChild() goes to some place, or none does, and
\* no PCB is freed.
LEMMA OtherStep ==
  ASSUME IInv,
         NEW t \in Threads, at[t] # "child",
         \/ \E place \in At : at' = [at EXCEPT ![t] = place]
         \/ at' = at,
         \/ \E p \in Pids, s \in {"ALIVE", "ZOMBIE"} : pstate' = [pstate EXCEPT ![p] = s]
         \/ pstate' = pstate
  PROVE  FreesNone
<1>1. \A x \in Threads : at[x] = "child" => at'[x] = "child"
  BY Typed
<1>2. \A p \in Pids : pstate'[p] = "FREE" => pstate[p] = "FREE"
  BY Typed
<1> QED
  BY <1>1, <1>2 DEF FreesNone

LEMMA ExitStep ==
  ASSUME IInv, NEW t \in Threads, at[t] \in {"user", "last"}, sys_ThreadExit(t)
  PROVE  FreesNone
<1>1. owner_pcb[t] \in Pids
  BY CallerFacts
<1>2. \E place \in At : at' = [at EXCEPT ![t] = place]
  BY DEF sys_ThreadExit, ThreadGoes, ProcessEnds, AssertionFails, NoThread, Goes, At
<1>3. \/ pstate' = [pstate EXCEPT ![owner_pcb[t]] = "ZOMBIE"]
      \/ pstate' = pstate
  BY DEF sys_ThreadExit, ThreadGoes, ProcessEnds, AssertionFails
<1> QED
  BY <1>1, <1>2, <1>3, OtherStep

\* A thread reaps c, or goes on waiting for it.
LEMMA ReapStep ==
  ASSUME IInv, NEW t \in Threads, at[t] # "none", NEW c \in Pids,
         c \in children_list[owner_pcb[t]], pstate[c] = "ZOMBIE", Reap(c),
         at[t] = "child" => c = target[t],
         \A x \in Threads : x # t => at'[x] = at[x]
  PROVE  ReapsOne
<1>1. owner_pcb[t] \in Pids
  BY CallerFacts
<1>2. parent[c] = owner_pcb[t]
  BY <1>1, ChildFacts
<1>3. c \in ToSet(exited_list[parent[c]])
  BY <1>1, <1>2 DEF IInv, TreeInv, TreeExact
<1>4. \A x \in Threads : at[x] = "child" /\ at'[x] = "user" =>
        c = target[x] /\ ChildOf(c, owner_pcb[x])
  BY <1>2 DEF ChildOf
<1> QED
  BY <1>3, <1>4 DEF ReapsOne, Reap

LEMMA StepFrees ==
  ASSUME IInv, Next
  PROVE  FreesNone \/ ReapsOne
<1>1. ASSUME NEW t \in Threads, NEW u \in Threads,
             \/ Exec(t, u) \/ CreateThread(t, u)
             \/ ThreadJoin(t, u) \/ JoinExited(t, u) \/ ThreadDetach(t, u)
      PROVE  FreesNone
  <2>1. CASE Exec(t, u)
    <3>1. pcb_freelist \in Pids
      BY <2>1, FreelistFacts DEF Exec, NewProcess, acquire_PCB
    <3>2. /\ at[u] = "none" /\ at' = [at EXCEPT ![u] = "user"]
          /\ pstate' = [pstate EXCEPT ![pcb_freelist] = "ALIVE"]
      BY <2>1 DEF Exec, NewProcess, acquire_PCB, NewThread, Goes, Unallocated
    <3> QED
      BY <3>1, <3>2, OtherStep DEF At
  <2>2. CASE CreateThread(t, u)
    <3>1. at[u] = "none" /\ at' = [at EXCEPT ![u] = "user"] /\ pstate' = pstate
      BY <2>2 DEF CreateThread, NewThread, Goes, Unallocated, process_vars
    <3> QED
      BY <3>1, OtherStep DEF At
  <2>3. CASE ThreadJoin(t, u)
    <3>1. at[t] = "user" /\ at' = [at EXCEPT ![t] = "join"] /\ pstate' = pstate
      BY <2>3 DEF ThreadJoin, Calls, Goes, process_vars
    <3> QED
      BY <3>1, OtherStep DEF At
  <2>4. CASE JoinExited(t, u) \/ ThreadDetach(t, u)
    <3>1. at[t] = "user" /\ at' = at /\ pstate' = pstate
      BY <2>4 DEF JoinExited, Joined, ThreadDetach, Calls, process_vars, wait_vars
    <3> QED
      BY <3>1, OtherStep
  <2> QED
    BY <1>1, <2>1, <2>2, <2>3, <2>4
<1>2. ASSUME NEW t \in Threads,
             ExecNoTask(t) \/ JoinReturns(t) \/ ThreadExit(t) \/ Exit(t) \/ ExitOfInit(t)
      PROVE  FreesNone
  <2>1. CASE JoinReturns(t)
    <3>1. at[t] = "join" /\ at' = [at EXCEPT ![t] = "user"] /\ pstate' = pstate
      BY <2>1 DEF JoinReturns, Joined, Goes, process_vars
    <3> QED
      BY <3>1, OtherStep DEF At
  <2>2. CASE ThreadExit(t) \/ Exit(t)
    BY <2>2, ExitStep DEF ThreadExit, Exit, Calls
  <2>3. CASE ExitOfInit(t)
    <3>1. at[t] = "user" /\ at' = [at EXCEPT ![t] = "last"] /\ pstate' = pstate
      BY <2>3 DEF ExitOfInit, Calls, Goes
    <3> QED
      BY <3>1, OtherStep DEF At
  <2>4. CASE ExecNoTask(t)
    <3>1. pcb_freelist \in Pids
      BY <2>4, FreelistFacts DEF ExecNoTask, NewProcess, acquire_PCB
    <3>2. /\ at[t] = "user" /\ at' = at
          /\ pstate' = [pstate EXCEPT ![pcb_freelist] = "ALIVE"]
      BY <2>4 DEF ExecNoTask, NewProcess, acquire_PCB, Calls
    <3> QED
      BY <3>1, <3>2, OtherStep
  <2> QED
    BY <1>2, <2>1, <2>2, <2>3, <2>4
<1>3. ASSUME NEW t \in Threads, NEW c \in Pids, WaitSpecific(t, c)
      PROVE  FreesNone \/ ReapsOne
  <2>1. at[t] = "user" /\ ChildOf(c, owner_pcb[t]) /\ owner_pcb[t] \in Pids
    BY <1>3, CallerFacts DEF WaitSpecific, Calls
  <2>2. CASE Goes(t, "child", c) /\ UNCHANGED process_vars
    <3>1. at' = [at EXCEPT ![t] = "child"] /\ pstate' = pstate
      BY <2>2 DEF Goes, process_vars
    <3> QED
      BY <2>1, <3>1, OtherStep DEF At
  <2>3. CASE pstate[c] = "ZOMBIE" /\ Reap(c) /\ UNCHANGED <<at, target>>
    <3>1. c # 0 /\ c # 1
      BY <2>1, ConstantsTyped DEF ChildOf, IInv, TreeInv, RootsInv
    <3>2. c \in children_list[owner_pcb[t]]
      BY <2>1, <3>1, PidOrder DEF IInv, TreeInv, TreeExact
    <3> QED
      BY <2>1, <2>3, <3>2, ReapStep
  <2> QED
    BY <1>3, <2>2, <2>3 DEF WaitSpecific
<1>4. ASSUME NEW t \in Threads, SpecificReturns(t)
      PROVE  FreesNone \/ ReapsOne
  <2> PICK c : c = target[t]
    OBVIOUS
  <2>1. /\ at[t] = "child" /\ c \in Pids /\ c \in children_list[owner_pcb[t]]
        /\ pstate[c] \in {"ALIVE", "ZOMBIE"}
    BY <1>4, WaitFacts DEF SpecificReturns
  <2>2. CASE UNCHANGED <<process_vars, at>>
    BY <2>2 DEF FreesNone, process_vars
  <2>3. CASE ~ StillAlive(c) /\ Reap(c) /\ Goes(t, "user", NULL)
    <3>1. pstate[c] = "ZOMBIE" /\ \A x \in Threads : x # t => at'[x] = at[x]
      BY <2>1, <2>3, Typed DEF StillAlive, Goes
    <3> QED
      BY <2>1, <2>3, <3>1, ReapStep
  <2> QED
    BY <1>4, <2>2, <2>3 DEF SpecificReturns
<1>5. ASSUME NEW t \in Threads, at[t] \in {"user", "any", "last"},
             HasExited(owner_pcb[t]), Reap(Head(exited_list[owner_pcb[t]])),
             Goes(t, "user", NULL) \/ UNCHANGED <<at, target>>
      PROVE  ReapsOne
  <2>1. owner_pcb[t] \in Pids
    BY <1>5, CallerFacts
  <2> PICK c : c = Head(exited_list[owner_pcb[t]])
    OBVIOUS
  <2>2. c \in Pids /\ c \in children_list[owner_pcb[t]] /\ pstate[c] = "ZOMBIE"
    BY <1>5, <2>1, FirstExited
  <2>3. \A x \in Threads : x # t => at'[x] = at[x]
    BY <1>5, Typed DEF Goes
  <2> QED
    BY <1>5, <2>2, <2>3, ReapStep
<1>6. ASSUME NEW t \in Threads, WaitAny(t) \/ AnyReturns(t)
      PROVE  FreesNone \/ ReapsOne
  <2>1. at[t] \in {"user", "any"}
    BY <1>6 DEF WaitAny, AnyReturns, Calls
  <2>2. CASE /\ UNCHANGED process_vars
             /\ Goes(t, "any", NULL) \/ Goes(t, "user", NULL) \/ UNCHANGED at
    <3>1. /\ pstate' = pstate
          /\ at' = at \/ \E place \in At : at' = [at EXCEPT ![t] = place]
      BY <2>2 DEF Goes, At, process_vars
    <3> QED
      BY <2>1, <3>1, OtherStep
  <2>3. CASE /\ HasExited(owner_pcb[t]) /\ Reap(Head(exited_list[owner_pcb[t]]))
             /\ Goes(t, "user", NULL) \/ UNCHANGED <<at, target>>
    BY <2>1, <2>3, <1>5
  <2> QED
    BY <1>6, <2>2, <2>3 DEF WaitAny, AnyReturns
<1>7. ASSUME NEW t \in Threads, ExitLoop(t)
      PROVE  FreesNone \/ ReapsOne
  <2>1. at[t] = "last" /\ owner_pcb[t] = 1
    BY <1>7, WaitFacts DEF ExitLoop
  <2>2. CASE UNCHANGED <<process_vars, at>>
    BY <2>2 DEF FreesNone, process_vars
  <2>3. CASE HasExited(1) /\ Reap(Head(exited_list[1])) /\ UNCHANGED <<at, target>>
    BY <2>1, <2>3, <1>5
  <2>4. CASE sys_ThreadExit(t)
    BY <2>1, <2>4, ExitStep
  <2> QED
    BY <1>7, <2>2, <2>3, <2>4 DEF ExitLoop
<1>8. CASE Stopped
  BY <1>8 DEF Stopped, vars, process_vars, wait_vars, FreesNone
<1> QED
  BY <1>1, <1>2, <1>3, <1>4, <1>6, <1>7, <1>8 DEF Next

\* cleanup_zombie() gets a zombie that is in the exited list of its parent,
\* and a thread that waits for one child returns with that child reaped, by
\* itself.
THEOREM ReapsOwn ==
  ASSUME ~ ConcurrentWaits
  PROVE  Spec => ReapsOwnZombies
<1>1. ASSUME IInv, [Next]_vars
      PROVE  [/\ \A p \in Pids : pstate[p] # "FREE" /\ pstate'[p] = "FREE" =>
                   pstate[p] = "ZOMBIE" /\ p \in ToSet(exited_list[parent[p]])
              /\ \A t \in Threads : at[t] = "child" /\ at'[t] = "user" =>
                   /\ ChildOf(target[t], owner_pcb[t])
                   /\ pstate[target[t]] = "ZOMBIE"
                   /\ pstate'[target[t]] = "FREE"]_vars
  <2>1. CASE UNCHANGED vars
    BY <2>1
  <2>2. CASE Next /\ FreesNone
    BY <2>2 DEF FreesNone
  <2>3. CASE Next /\ ReapsOne
    <3>1. PICK c \in Pids :
            /\ pstate' = [pstate EXCEPT ![c] = "FREE"]
            /\ pstate[c] = "ZOMBIE" /\ c \in ToSet(exited_list[parent[c]])
            /\ \A t \in Threads : at[t] = "child" /\ at'[t] = "user" =>
                 c = target[t] /\ ChildOf(c, owner_pcb[t])
      BY <2>3 DEF ReapsOne
    <3>2. pstate'[c] = "FREE" /\ \A p \in Pids : p # c => pstate'[p] = pstate[p]
      <4>1. pstate \in [Pids -> {"FREE", "ALIVE", "ZOMBIE"}]
        BY <1>1, Typed
      <4> QED
        BY <4>1, <3>1
    <3> QED
      BY <3>1, <3>2
  <2> QED
    BY <1>1, <2>1, <2>2, <2>3, StepFrees
<1> QED
  BY InvariantHolds, <1>1, PTL DEF Spec, ReapsOwnZombies

=============================================================================
