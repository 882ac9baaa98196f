--------------------------- MODULE SchedulerProofs ---------------------------
(***************************************************************************)
(* The safety of the scheduler, for every number of cores and threads and  *)
(* every set of timeouts.  IInv is inductive; each action has a lemma that *)
(* says so, with one step per conjunct.                                    *)
(***************************************************************************)
EXTENDS Scheduler, ListLemmas, FiniteSetTheorems, TLAPS

IInv ==
  /\ TypeOK
  /\ CoresAgree
  /\ QueueExact
  /\ OneCorePerStack
  /\ TimeoutsExact
  /\ ActiveThreadsExact

Alive == {t \in Threads : state[t] # "FREE"}

USE NamesAssumption, TimeAssumption

-----------------------------------------------------------------------------
(***************************************************************************)
(* A thread that is on no core may be made READY: facts that follow from   *)
(* the invariant about a sleeper or a new thread.                          *)
(***************************************************************************)
LEMMA CleanSleeperIsOffCore ==
  ASSUME IInv, NEW t \in TCB, state[t] \in {"STOPPED", "INIT"},
         phase[t] = "CLEAN"
  PROVE  \A d \in Cores : current_thread[d] # t
<1> SUFFICES ASSUME NEW d \in Cores, current_thread[d] = t
             PROVE  FALSE
  OBVIOUS
<1> QED
  BY DEF IInv, TypeOK, CoresAgree, CoreAgreesWith, PC

LEMMA SleeperIsThread ==
  ASSUME IInv, NEW t \in TCB, state[t] \in {"STOPPED", "INIT", "EXITED", "FREE"}
  PROVE  t \in Threads
BY DEF IInv, TypeOK, CoresAgree, TCB

\* The idle thread of a core that is in yield() with another thread is READY,
\* and its context is saved.
LEMMA IdleWaits ==
  ASSUME IInv, NEW c \in Cores, pc[c] = "expire", current_thread[c] # c
  PROVE  /\ state[c] = "READY"
         /\ phase[c] = "CLEAN"
         /\ \A d \in Cores : current_thread[d] # c
<1>1. \A d \in Cores : current_thread[d] # c
  BY DEF IInv, OneCorePerStack
<1>2. ~ OnCore(c)
  <2> SUFFICES ASSUME NEW d \in Cores, Switching(d), previous_thread[d] = c
               PROVE  FALSE
    BY <1>1 DEF OnCore
  <2> QED
    BY DEF IInv, CoresAgree, CoreAgreesWith, Switching
<1>3. phase[c] = "CLEAN"
  BY <1>2 DEF IInv, TypeOK, CoresAgree, TCB
<1>4. state[c] = "READY"
  BY <1>3 DEF IInv, TypeOK, CoresAgree, TCB
<1> QED
  BY <1>1, <1>3, <1>4

\* A TCB that a core is running, or switching away from, exists.
LEMMA OnCoreExists ==
  ASSUME IInv, NEW t \in TCB, OnCore(t)
  PROVE  state[t] \notin {"FREE", "INIT"}
<1>1. PICK c \in Cores : \/ current_thread[c] = t
                         \/ Switching(c) /\ previous_thread[c] = t
  BY DEF OnCore
<1>2. pc[c] \in PC /\ CoreAgreesWith(c)
  BY DEF IInv, TypeOK, CoresAgree
<1>3. CASE current_thread[c] = t
  BY <1>2, <1>3 DEF CoreAgreesWith, PC
<1>4. CASE Switching(c) /\ previous_thread[c] = t
  BY <1>2, <1>4 DEF CoreAgreesWith, Switching
<1> QED
  BY <1>1, <1>3, <1>4

\* No two cores have to do with one thread.
LEMMA OneCoreOnly ==
  ASSUME IInv, NEW c \in Cores, NEW d \in Cores, c # d
  PROVE  /\ current_thread[c] # current_thread[d]
         /\ pc[c] = "gain" => /\ previous_thread[c] # current_thread[d]
                              /\ pc[d] = "gain" =>
                                   previous_thread[c] # previous_thread[d]
         /\ pc[d] = "gain" => previous_thread[d] # current_thread[c]
<1>1. /\ current_thread[c] # current_thread[d]
      /\ Switching(c) => previous_thread[c] # current_thread[d]
      /\ Switching(d) => previous_thread[d] # current_thread[c]
      /\ Switching(c) /\ Switching(d) =>
           previous_thread[c] # previous_thread[d]
  BY DEF IInv, OneCorePerStack
<1> QED
  BY <1>1 DEF Switching

-----------------------------------------------------------------------------
\* boot_tinyos_kernel() leaves the scheduler in a state of the invariant.
LEMMA InitEstablishes == Init => IInv
<1> SUFFICES ASSUME Init PROVE IInv
  OBVIOUS
<1> USE DEF Init
<1>1. TypeOK
  <2>1. SCHED \in Seq(TCB) /\ TIMEOUT_LIST \in Seq(TCB)
    BY DEF TCB
  <2> QED
    BY <2>1 DEF TypeOK, TCB, Thread_state, PC
<1>2. CoresAgree
  BY DEF CoresAgree, CoreAgreesWith, OnCore, Switching, TCB
<1>3. DOMAIN SCHED = {1} /\ SCHED[1] = InitThread /\ DOMAIN TIMEOUT_LIST = {}
  OBVIOUS
<1>4. QueueExact
  BY <1>3 DEF QueueExact, ToSet, IsInjective, TCB
<1>5. OneCorePerStack
  BY DEF OneCorePerStack, Switching
<1>6. TimeoutsExact
  BY <1>3 DEF TimeoutsExact, ToSet, IsInjective, TCB
<1>7. ActiveThreadsExact
  <2>1. {t \in Threads : state[t] # "FREE"} = {InitThread}
    BY DEF TCB
  <2> QED
    BY <2>1, FS_Singleton DEF ActiveThreadsExact
<1> QED
  BY <1>1, <1>2, <1>4, <1>5, <1>6, <1>7 DEF IInv

-----------------------------------------------------------------------------
\* spawn_thread() keeps the invariant: nothing refers to the new TCB yet.
LEMMA SpawnStep ==
  ASSUME IInv, NEW c \in Cores, NEW t \in Threads, Spawn(c, t)
  PROVE  IInv'
<1> USE DEF Spawn
<1>1. t \in TCB /\ ~ OnCore(t)
  BY OnCoreExists DEF TCB
<1>2. TypeOK'
  BY DEF IInv, TypeOK, TCB, Thread_state
<1>3. CoresAgree'
  <2>1. ASSUME NEW d \in Cores
        PROVE  CoreAgreesWith(d)'
    <3>1. current_thread[d] # t
      BY <1>1 DEF OnCore
    <3>2. pc[d] = "gain" => previous_thread[d] # t
      BY <1>1, <3>1 DEF OnCore, Switching
    <3> QED
      BY <3>1, <3>2 DEF IInv, TypeOK, CoresAgree, CoreAgreesWith
  <2>2. \A u \in TCB : phase'[u] = "DIRTY" => OnCore(u)'
    BY DEF IInv, TypeOK, CoresAgree, OnCore, Switching
  <2>3. \A u \in TCB : state'[u] \in {"RUNNING", "EXITED"} => phase'[u] = "DIRTY"
    BY DEF IInv, TypeOK, CoresAgree
  <2>4. \A u \in Cores : state'[u] \in {"RUNNING", "READY"}
    BY DEF IInv, TypeOK, CoresAgree, TCB
  <2> QED
    BY <2>1, <2>2, <2>3, <2>4 DEF CoresAgree
<1>4. QueueExact'
  BY <1>1 DEF IInv, TypeOK, QueueExact
<1>5. OneCorePerStack'
  BY DEF IInv, OneCorePerStack, Switching
<1>6. TimeoutsExact'
  <2>1. t \notin ToSet(TIMEOUT_LIST) /\ wakeup_time[t] = NO_TIMEOUT
    BY <1>1 DEF IInv, TimeoutsExact
  <2> QED
    BY <1>1, <2>1 DEF IInv, TypeOK, TimeoutsExact, ToSet
<1>7. ActiveThreadsExact'
  <2>1. Alive' = Alive \cup {t} /\ t \notin Alive
    BY <1>1 DEF IInv, TypeOK, Alive, TCB
  <2>2. IsFiniteSet(Alive)
    BY FS_Subset DEF Alive
  <2>3. active_threads' = Cardinality(Alive')
    BY <2>1, <2>2, FS_AddElement DEF IInv, ActiveThreadsExact, Alive
  <2>4. current_thread[c] \in Alive
    BY DEF IInv, TypeOK, CoresAgree, CoreAgreesWith, Alive
  <2>5. Cardinality(Alive) # 0
    BY <2>2, <2>4, FS_EmptySet
  <2>6. \A d \in Cores : pc[d] # "left"
    BY <2>5 DEF IInv, ActiveThreadsExact, Alive
  <2> QED
    BY <2>3, <2>6 DEF ActiveThreadsExact, Alive
<1> QED
  BY <1>2, <1>3, <1>4, <1>5, <1>6, <1>7 DEF IInv

-----------------------------------------------------------------------------
(***************************************************************************)
(* sched_make_ready() of a sleeper or a new thread, by wakeup() or by the  *)
(* expiry of its timeout, keeps the invariant.                             *)
(***************************************************************************)
LEMMA MakeReadyStep ==
  ASSUME IInv, NEW t \in Threads, state[t] \in {"STOPPED", "INIT"},
         sched_make_ready(t),
         UNCHANGED <<phase, sched_spinlock, current_thread, previous_thread,
                     pc, curtime, active_threads, clock>>,
         \A d \in Cores : pc[d] = "run" => current_thread[d] # t
  PROVE  IInv'
<1> USE DEF sched_make_ready
<1>1. t \in TCB /\ t \notin ToSet(SCHED)
  BY DEF IInv, QueueExact, TCB
<1>2. /\ TIMEOUT_LIST' \in Seq(TCB)
      /\ IsInjective(TIMEOUT_LIST')
      /\ ToSet(TIMEOUT_LIST') = ToSet(TIMEOUT_LIST) \ {t}
      /\ \A i, j \in DOMAIN TIMEOUT_LIST' : i < j =>
           wakeup_time[TIMEOUT_LIST'[i]] <= wakeup_time[TIMEOUT_LIST'[j]]
  <2>1. CASE wakeup_time[t] = NO_TIMEOUT
    BY <1>1, <2>1 DEF IInv, TypeOK, TimeoutsExact
  <2>2. CASE wakeup_time[t] # NO_TIMEOUT
    <3>1. PICK k \in DOMAIN TIMEOUT_LIST :
            TIMEOUT_LIST[k] = t /\ TIMEOUT_LIST' = RemoveAt(TIMEOUT_LIST, k)
      BY <2>2
    <3>2. /\ TIMEOUT_LIST \in Seq(TCB)
          /\ IsInjective(TIMEOUT_LIST)
          /\ \A i, j \in DOMAIN TIMEOUT_LIST : i < j =>
               wakeup_time[TIMEOUT_LIST[i]] <= wakeup_time[TIMEOUT_LIST[j]]
      BY DEF IInv, TypeOK, TimeoutsExact
    <3>3. /\ TIMEOUT_LIST' \in Seq(TCB)
          /\ Len(TIMEOUT_LIST') = Len(TIMEOUT_LIST) - 1
          /\ \A j \in DOMAIN TIMEOUT_LIST' : TIMEOUT_LIST'[j] =
               IF j < k THEN TIMEOUT_LIST[j] ELSE TIMEOUT_LIST[j + 1]
          /\ IsInjective(TIMEOUT_LIST')
          /\ ToSet(TIMEOUT_LIST') = ToSet(TIMEOUT_LIST) \ {t}
      BY <3>1, <3>2, Unlink
    <3>4. /\ DOMAIN TIMEOUT_LIST = 1..Len(TIMEOUT_LIST)
          /\ DOMAIN TIMEOUT_LIST' = 1..Len(TIMEOUT_LIST')
          /\ Len(TIMEOUT_LIST) \in Nat
      BY <3>2, <3>3, LenProperties
    <3>5. ASSUME NEW i \in DOMAIN TIMEOUT_LIST', NEW j \in DOMAIN TIMEOUT_LIST',
                 i < j
          PROVE  wakeup_time[TIMEOUT_LIST'[i]] <= wakeup_time[TIMEOUT_LIST'[j]]
      <4> DEFINE p == IF i < k THEN i ELSE i + 1
                 q == IF j < k THEN j ELSE j + 1
      <4>1. p \in DOMAIN TIMEOUT_LIST /\ q \in DOMAIN TIMEOUT_LIST /\ p < q
        BY <3>1, <3>3, <3>4, <3>5
      <4>2. TIMEOUT_LIST'[i] = TIMEOUT_LIST[p] /\ TIMEOUT_LIST'[j] = TIMEOUT_LIST[q]
        BY <3>3
      <4> QED
        BY <3>2, <4>1, <4>2
    <3> QED
      BY <3>3, <3>5
  <2> QED
    BY <2>1, <2>2
<1>3. /\ SCHED' \in Seq(TCB)
      /\ IsInjective(SCHED')
      /\ ToSet(SCHED') = IF phase[t] = "CLEAN" THEN ToSet(SCHED) \cup {t}
                         ELSE ToSet(SCHED)
  <2>1. SCHED \in Seq(TCB) /\ IsInjective(SCHED)
    BY DEF IInv, TypeOK, QueueExact
  <2>2. /\ Append(SCHED, t) \in Seq(TCB)
        /\ IsInjective(Append(SCHED, t))
        /\ ToSet(Append(SCHED, t)) = ToSet(SCHED) \cup {t}
    BY <1>1, <2>1, PushBack
  <2>3. SCHED' = IF phase[t] = "CLEAN" THEN Append(SCHED, t) ELSE SCHED
    BY DEF QueueIfClean, sched_queue_add
  <2> QED
    BY <2>1, <2>2, <2>3
<1>4. TypeOK'
  BY <1>2, <1>3 DEF IInv, TypeOK, TCB, Thread_state
<1>5. CoresAgree'
  <2>1. ASSUME NEW d \in Cores
        PROVE  CoreAgreesWith(d)'
    <3>1. CASE current_thread[d] = t
      BY <1>1, <3>1 DEF IInv, TypeOK, CoresAgree, CoreAgreesWith, PC
    <3>2. CASE current_thread[d] # t
      BY <1>1, <3>2 DEF IInv, TypeOK, CoresAgree, CoreAgreesWith, PC
    <3> QED
      BY <3>1, <3>2
  <2>2. \A u \in TCB : phase'[u] = "DIRTY" => OnCore(u)'
    BY DEF IInv, CoresAgree, OnCore, Switching
  <2>3. \A u \in TCB : state'[u] \in {"RUNNING", "EXITED"} => phase'[u] = "DIRTY"
    BY DEF IInv, TypeOK, CoresAgree
  <2>4. \A u \in Cores : state'[u] \in {"RUNNING", "READY"}
    BY DEF IInv, TypeOK, CoresAgree, TCB
  <2> QED
    BY <2>1, <2>2, <2>3, <2>4 DEF CoresAgree
<1>6. QueueExact'
  <2>1. phase[t] = "CLEAN" => \A d \in Cores : current_thread[d] # t
    BY <1>1, CleanSleeperIsOffCore
  <2>2. ASSUME NEW u \in TCB
        PROVE  u \in ToSet(SCHED') <=> /\ u \in Threads
                                       /\ state'[u] = "READY"
                                       /\ phase'[u] = "CLEAN"
                                       /\ \A d \in Cores : current_thread'[d] # u
    BY <1>1, <1>3, <2>1 DEF IInv, TypeOK, QueueExact
  <2> QED
    BY <1>3, <2>2 DEF QueueExact
<1>7. OneCorePerStack'
  BY DEF IInv, OneCorePerStack, Switching
<1>8. TimeoutsExact'
  <2>1. \A u \in TCB : u \in ToSet(TIMEOUT_LIST') <=> wakeup_time'[u] # NO_TIMEOUT
    BY <1>1, <1>2 DEF IInv, TypeOK, TimeoutsExact
  <2>2. \A u \in ToSet(TIMEOUT_LIST') : u \in TCB /\ u # t
    BY <1>2, ElementOfSeq, LenProperties DEF ToSet
  <2>3. \A u \in ToSet(TIMEOUT_LIST') : state'[u] = "STOPPED"
    BY <1>2, <2>2 DEF IInv, TypeOK, TimeoutsExact
  <2>4. \A i \in DOMAIN TIMEOUT_LIST' :
          wakeup_time'[TIMEOUT_LIST'[i]] = wakeup_time[TIMEOUT_LIST'[i]]
    BY <2>2 DEF IInv, TypeOK, ToSet
  <2> QED
    BY <1>2, <2>1, <2>3, <2>4 DEF TimeoutsExact
<1>9. ActiveThreadsExact'
  <2>1. Alive' = Alive
    BY <1>1 DEF IInv, TypeOK, Alive, TCB
  <2> QED
    BY <2>1 DEF IInv, ActiveThreadsExact, Alive
<1> QED
  BY <1>4, <1>5, <1>6, <1>7, <1>8, <1>9 DEF IInv

\* wakeup() keeps the invariant.
LEMMA WakeupStep ==
  ASSUME IInv, NEW c \in Cores, NEW t \in Threads, Wakeup(c, t)
  PROVE  IInv'
<1>1. \A d \in Cores : pc[d] = "run" => current_thread[d] # t
  BY DEF IInv, CoresAgree, CoreAgreesWith, Wakeup
<1> QED
  BY <1>1, MakeReadyStep DEF Wakeup

\* One turn of sched_wakeup_expired_timeouts() keeps the invariant.
LEMMA ExpireOneStep ==
  ASSUME IInv, NEW c \in Cores, ExpireOne(c)
  PROVE  IInv'
<1> DEFINE t == Head(TIMEOUT_LIST)
<1>1. t \in TCB /\ t \in ToSet(TIMEOUT_LIST)
  BY PopFront DEF IInv, TypeOK, ExpireOne, HeadExpired
<1>2. state[t] = "STOPPED"
  BY <1>1 DEF IInv, TimeoutsExact
<1>3. t \in Threads
  BY <1>1, <1>2, SleeperIsThread
<1>4. \A d \in Cores : pc[d] = "run" => current_thread[d] # t
  BY <1>2 DEF IInv, CoresAgree, CoreAgreesWith
<1> QED
  BY <1>2, <1>3, <1>4, MakeReadyStep DEF ExpireOne

-----------------------------------------------------------------------------
\* sleep_releasing(STOPPED) keeps the invariant, with and without a timeout.
LEMMA SleepStep ==
  ASSUME IInv, NEW c \in Cores, NEW timeout \in Timeouts \cup {NO_TIMEOUT},
         Sleep(c, timeout)
  PROVE  IInv'
<1> DEFINE t == current_thread[c]
<1> USE DEF Sleep
<1>1. t \in Threads /\ t \in TCB /\ state[t] = "RUNNING" /\ phase[t] = "DIRTY"
  BY DEF IInv, TypeOK, CoresAgree, CoreAgreesWith, TCB
<1>2. t \notin ToSet(TIMEOUT_LIST) /\ wakeup_time[t] = NO_TIMEOUT
  BY <1>1 DEF IInv, TimeoutsExact
<1>3. /\ wakeup_time' \in [TCB -> Nat]
      /\ TIMEOUT_LIST' \in Seq(TCB)
      /\ IsInjective(TIMEOUT_LIST')
      /\ \A u \in TCB : u \in ToSet(TIMEOUT_LIST') <=> wakeup_time'[u] # NO_TIMEOUT
      /\ ToSet(TIMEOUT_LIST') \subseteq ToSet(TIMEOUT_LIST) \cup {t}
      /\ \A i, j \in DOMAIN TIMEOUT_LIST' : i < j =>
           wakeup_time'[TIMEOUT_LIST'[i]] <= wakeup_time'[TIMEOUT_LIST'[j]]
  <2>1. CASE timeout = NO_TIMEOUT
    <3>1. UNCHANGED <<wakeup_time, TIMEOUT_LIST>>
      BY <2>1 DEF sched_register_timeout
    <3> QED
      BY <3>1 DEF IInv, TypeOK, TimeoutsExact
  <2>2. CASE timeout # NO_TIMEOUT
    <3> DEFINE w == clock + timeout
               L == TIMEOUT_LIST
    <3>1. w \in Nat /\ w # NO_TIMEOUT
      BY <2>2 DEF IInv, TypeOK
    <3>2. wakeup_time' = [wakeup_time EXCEPT ![t] = w]
      BY <2>2 DEF sched_register_timeout
    <3>3. PICK k \in 1..(Len(L) + 1) : InsertionPoint(w, k) /\ L' = InsertAt(L, k, t)
      BY <2>2 DEF sched_register_timeout
    <3>4. /\ L \in Seq(TCB)
          /\ IsInjective(L)
          /\ DOMAIN L = 1..Len(L)
          /\ Len(L) \in Nat
          /\ \A i \in DOMAIN L : L[i] \in TCB /\ L[i] # t
          /\ \A i, j \in DOMAIN L : i < j => wakeup_time[L[i]] <= wakeup_time[L[j]]
      BY <1>2, LenProperties, ElementOfSeq DEF IInv, TypeOK, TimeoutsExact, ToSet
    <3>5. /\ L' \in Seq(TCB)
          /\ Len(L') = Len(L) + 1
          /\ \A j \in DOMAIN L' : L'[j] = IF j < k THEN L[j]
                                         ELSE IF j = k THEN t ELSE L[j - 1]
          /\ ToSet(L') = ToSet(L) \cup {t}
          /\ IsInjective(L')
      <4> HIDE DEF t
      <4> DEFINE r == InsertAt(L, k, t)
      <4>1. t \in TCB /\ t \notin ToSet(L)
        BY <1>1, <1>2 DEF t
      <4>2. /\ r \in Seq(TCB)
            /\ Len(r) = Len(L) + 1
            /\ \A j \in DOMAIN r : r[j] = IF j < k THEN L[j]
                                         ELSE IF j = k THEN t ELSE L[j - 1]
            /\ ToSet(r) = ToSet(L) \cup {t}
            /\ IsInjective(r)
          <5>1. L \in Seq(TCB) /\ IsInjective(L) /\ k \in 1..(Len(L) + 1)
            BY <3>3, <3>4
          <5> HIDE DEF L
          <5> QED
            BY <4>1, <5>1, Link
      <4>3. L' = r
        BY <3>3
      <4> QED
        BY <4>2, <4>3
    <3>6. DOMAIN L' = 1..(Len(L) + 1)
      BY <3>5, LenProperties
    <3>7. /\ \A i \in DOMAIN L : wakeup_time'[L[i]] = wakeup_time[L[i]]
          /\ wakeup_time'[t] = w
          /\ \A i \in DOMAIN L : wakeup_time[L[i]] \in Nat
      BY <1>1, <3>2, <3>4 DEF IInv, TypeOK
    <3>8. ASSUME NEW i \in DOMAIN L'
          PROVE  /\ i < k => i \in DOMAIN L /\ wakeup_time'[L'[i]] = wakeup_time[L[i]]
                 /\ i = k => wakeup_time'[L'[i]] = w
                 /\ i > k => /\ i - 1 \in DOMAIN L
                             /\ wakeup_time'[L'[i]] = wakeup_time[L[i - 1]]
      <4>1. CASE i < k
        BY <3>4, <3>5, <3>6, <3>7, <4>1
      <4>2. CASE i = k
        BY <3>4, <3>5, <3>6, <3>7, <4>2
      <4>3. CASE i > k
        <5>1. i - 1 \in DOMAIN L /\ L'[i] = L[i - 1]
          BY <3>4, <3>5, <3>6, <4>3
        <5>2. ~(i < k) /\ i # k
          BY <3>4, <3>6, <4>3
        <5> QED
          BY <3>7, <5>1, <5>2
      <4> QED
        BY <3>6, <4>1, <4>2, <4>3
    <3>9. /\ \A i \in DOMAIN L : i < k => wakeup_time[L[i]] <= w
          /\ \A i \in DOMAIN L : i >= k => w <= wakeup_time[L[i]]
      <4>1. \A i \in DOMAIN L : i < k => wakeup_time[L[i]] <= w
        BY <3>3, <3>4 DEF InsertionPoint
      <4>2. ASSUME NEW i \in DOMAIN L, i >= k
            PROVE  w <= wakeup_time[L[i]]
        <5>1. k \in DOMAIN L /\ w <= wakeup_time[L[k]]
          BY <3>1, <3>3, <3>4, <3>7, <4>2 DEF InsertionPoint
        <5>2. wakeup_time[L[k]] <= wakeup_time[L[i]]
          BY <3>4, <3>7, <4>2, <5>1
        <5> QED
          BY <3>1, <3>7, <5>1, <5>2
      <4> QED
        BY <4>1, <4>2
    <3>10. ASSUME NEW i \in DOMAIN L', NEW j \in DOMAIN L', i < j
           PROVE  wakeup_time'[L'[i]] <= wakeup_time'[L'[j]]
      <4> HIDE DEF L, w
      <4>1. i \in Int /\ j \in Int /\ k \in Int
        BY <3>4, <3>6
      <4>2. CASE j < k
        BY <3>4, <3>8, <3>10, <4>1, <4>2
      <4>3. CASE j = k
        BY <3>1, <3>4, <3>8, <3>9, <3>10, <4>1, <4>3
      <4>4. CASE j > k /\ i < k
        BY <3>4, <3>8, <3>10, <4>1, <4>4
      <4>5. CASE j > k /\ i = k
        <5>1. j - 1 >= k
          BY <4>1, <4>5
        <5> QED
          BY <3>1, <3>8, <3>9, <4>5, <5>1
      <4>6. CASE j > k /\ i > k
        <5>1. i - 1 < j - 1
          BY <3>10, <4>1
        <5> QED
          BY <3>4, <3>8, <4>6, <5>1
      <4> QED
        BY <4>1, <4>2, <4>3, <4>4, <4>5, <4>6
    <3>11. ASSUME NEW u \in TCB
           PROVE  u \in ToSet(L') <=> wakeup_time'[u] # NO_TIMEOUT
      BY <1>1, <3>1, <3>2, <3>5 DEF IInv, TypeOK, TimeoutsExact
    <3>12. wakeup_time' \in [TCB -> Nat]
      BY <1>1, <3>1, <3>2 DEF IInv, TypeOK
    <3> QED
      BY <3>5, <3>10, <3>11, <3>12
  <2> QED
    BY <2>1, <2>2
<1>4. TypeOK'
  BY <1>1, <1>3 DEF IInv, TypeOK, TCB, Thread_state, PC
<1>5. CoresAgree'
  <2>1. ASSUME NEW d \in Cores
        PROVE  CoreAgreesWith(d)'
    <3>1. CASE d = c
      BY <1>1, <3>1 DEF IInv, TypeOK, CoresAgree, CoreAgreesWith
    <3>2. CASE d # c
      <4>1. t # current_thread[d] /\ (pc[d] = "gain" => t # previous_thread[d])
        BY <3>2, OneCoreOnly
      <4>2. CoreAgreesWith(d)
        BY DEF IInv, CoresAgree
      <4>3. pc'[d] = pc[d] /\ state'[current_thread[d]] = state[current_thread[d]]
        BY <1>1, <3>2, <4>1 DEF IInv, TypeOK
      <4>4. pc[d] = "gain" => state'[previous_thread[d]] = state[previous_thread[d]]
        BY <1>1, <4>1 DEF IInv, TypeOK
      <4> QED
        BY <4>2, <4>3, <4>4 DEF CoreAgreesWith
    <3> QED
      BY <3>1, <3>2
  <2>2. ASSUME NEW u \in TCB, phase'[u] = "DIRTY"
        PROVE  OnCore(u)'
    BY <2>2 DEF IInv, TypeOK, CoresAgree, OnCore, Switching
  <2>3. \A u \in TCB : state'[u] \in {"RUNNING", "EXITED"} => phase'[u] = "DIRTY"
    BY <1>1 DEF IInv, TypeOK, CoresAgree
  <2>4. \A u \in Cores : state'[u] \in {"RUNNING", "READY"}
    BY <1>1 DEF IInv, TypeOK, CoresAgree, TCB
  <2> QED
    BY <2>1, <2>2, <2>3, <2>4 DEF CoresAgree
<1>6. QueueExact'
  BY <1>1 DEF IInv, TypeOK, QueueExact
<1>7. OneCorePerStack'
  BY DEF IInv, TypeOK, OneCorePerStack, Switching
<1>8. TimeoutsExact'
  <2>1. \A u \in ToSet(TIMEOUT_LIST) : u \in TCB
    BY ElementOfSeq, LenProperties DEF IInv, TypeOK, ToSet
  <2>2. \A u \in ToSet(TIMEOUT_LIST') : state'[u] = "STOPPED"
    BY <1>1, <1>3, <2>1 DEF IInv, TypeOK, TimeoutsExact
  <2> QED
    BY <1>3, <2>2 DEF TimeoutsExact
<1>9. ActiveThreadsExact'
  <2>1. Alive' = Alive
    BY <1>1 DEF IInv, TypeOK, Alive, TCB
  <2> QED
    BY <2>1 DEF IInv, TypeOK, ActiveThreadsExact, Alive
<1> QED
  BY <1>4, <1>5, <1>6, <1>7, <1>8, <1>9 DEF IInv

(***************************************************************************)
(* A step of core c that changes the state of its own current thread only, *)
(* to one that may leave the core, keeps CoresAgree for the other cores.   *)
(***************************************************************************)
LEMMA OtherCoresAgree ==
  ASSUME IInv, NEW c \in Cores, NEW d \in Cores, d # c,
         UNCHANGED <<current_thread, previous_thread>>,
         pc'[d] = pc[d],
         sched_spinlock' = d <=> sched_spinlock = d,
         \A u \in TCB : u # current_thread[c] =>
           state'[u] = state[u] /\ phase'[u] = phase[u]
  PROVE  CoreAgreesWith(d)'
<1>1. /\ current_thread[c] # current_thread[d]
      /\ pc[d] = "gain" => current_thread[c] # previous_thread[d]
  BY OneCoreOnly
<1>2. /\ state'[current_thread[d]] = state[current_thread[d]]
      /\ phase'[current_thread[d]] = phase[current_thread[d]]
      /\ pc[d] = "gain" =>
           /\ state'[previous_thread[d]] = state[previous_thread[d]]
           /\ phase'[previous_thread[d]] = phase[previous_thread[d]]
  BY <1>1 DEF IInv, TypeOK
<1>3. CoreAgreesWith(d)
  BY DEF IInv, CoresAgree
<1> QED
  BY <1>2, <1>3 DEF CoreAgreesWith

\* sleep_releasing(EXITED) keeps the invariant.
LEMMA ExitStep ==
  ASSUME IInv, NEW c \in Cores, Exit(c)
  PROVE  IInv'
<1> DEFINE t == current_thread[c]
<1> USE DEF Exit
<1>1. t \in Threads /\ t \in TCB /\ state[t] = "RUNNING" /\ phase[t] = "DIRTY"
  BY DEF IInv, TypeOK, CoresAgree, CoreAgreesWith, TCB
<1>2. TypeOK'
  BY <1>1 DEF IInv, TypeOK, TCB, Thread_state, PC
<1>3. CoresAgree'
  <2>1. ASSUME NEW d \in Cores
        PROVE  CoreAgreesWith(d)'
    <3>1. CASE d = c
      BY <1>1, <3>1 DEF IInv, TypeOK, CoresAgree, CoreAgreesWith
    <3>2. CASE d # c
      BY <1>1, <3>2, OtherCoresAgree DEF IInv, TypeOK
    <3> QED
      BY <3>1, <3>2
  <2>2. \A u \in TCB : phase'[u] = "DIRTY" => OnCore(u)'
    BY DEF IInv, TypeOK, CoresAgree, OnCore, Switching
  <2>3. \A u \in TCB : state'[u] \in {"RUNNING", "EXITED"} => phase'[u] = "DIRTY"
    BY <1>1 DEF IInv, TypeOK, CoresAgree
  <2>4. \A u \in Cores : state'[u] \in {"RUNNING", "READY"}
    BY <1>1 DEF IInv, TypeOK, CoresAgree, TCB
  <2> QED
    BY <2>1, <2>2, <2>3, <2>4 DEF CoresAgree
<1>4. QueueExact'
  BY <1>1 DEF IInv, TypeOK, QueueExact
<1>5. OneCorePerStack'
  BY DEF IInv, TypeOK, OneCorePerStack, Switching
<1>6. TimeoutsExact'
  BY <1>1 DEF IInv, TypeOK, TimeoutsExact
<1>7. ActiveThreadsExact'
  <2>1. Alive' = Alive
    BY <1>1 DEF IInv, TypeOK, Alive, TCB
  <2> QED
    BY <2>1 DEF IInv, TypeOK, ActiveThreadsExact, Alive
<1> QED
  BY <1>2, <1>3, <1>4, <1>5, <1>6, <1>7 DEF IInv

\* The first part of yield() keeps the invariant.
LEMMA YieldBeginStep ==
  ASSUME IInv, NEW c \in Cores, YieldBegin(c)
  PROVE  IInv'
<1> DEFINE t == current_thread[c]
<1> USE DEF YieldBegin, Demoted
<1>1. /\ t \in TCB
      /\ state[t] \in {"RUNNING", "STOPPED", "READY", "EXITED"}
      /\ phase[t] = "DIRTY"
      /\ state'[t] \in {"STOPPED", "READY", "EXITED"}
      /\ state'[t] # state[t] => state[t] = "RUNNING" /\ state'[t] = "READY"
      /\ \A u \in TCB : u # t => state'[u] = state[u]
  BY DEF IInv, TypeOK, CoresAgree, CoreAgreesWith, TCB
<1>2. TypeOK'
  BY <1>1 DEF IInv, TypeOK, TCB, Thread_state, PC
<1>3. CoresAgree'
  <2>1. ASSUME NEW d \in Cores
        PROVE  CoreAgreesWith(d)'
    <3>1. CASE d = c
      BY <1>1, <3>1 DEF IInv, TypeOK, CoresAgree, CoreAgreesWith
    <3>2. CASE d # c
      <4>1. sched_spinlock' = d <=> sched_spinlock = d
        BY <3>2
      <4>2. pc'[d] = pc[d]
        BY <3>2 DEF IInv, TypeOK
      <4> QED
        BY <1>1, <3>2, <4>1, <4>2, OtherCoresAgree
    <3> QED
      BY <3>1, <3>2
  <2>2. \A u \in TCB : phase'[u] = "DIRTY" => OnCore(u)'
    BY DEF IInv, TypeOK, CoresAgree, OnCore, Switching
  <2>3. \A u \in TCB : state'[u] \in {"RUNNING", "EXITED"} => phase'[u] = "DIRTY"
    BY <1>1 DEF IInv, TypeOK, CoresAgree
  <2>4. \A u \in Cores : state'[u] \in {"RUNNING", "READY"}
    BY <1>1 DEF IInv, TypeOK, CoresAgree, TCB
  <2> QED
    BY <2>1, <2>2, <2>3, <2>4 DEF CoresAgree
<1>4. QueueExact'
  BY <1>1 DEF IInv, TypeOK, QueueExact
<1>5. OneCorePerStack'
  BY DEF IInv, TypeOK, OneCorePerStack, Switching
<1>6. TimeoutsExact'
  <2>1. \A u \in ToSet(TIMEOUT_LIST) : u \in TCB
    BY ElementOfSeq, LenProperties DEF IInv, TypeOK, ToSet
  <2>2. \A u \in ToSet(TIMEOUT_LIST) : state'[u] = "STOPPED"
    BY <1>1, <2>1 DEF IInv, TypeOK, TimeoutsExact
  <2> QED
    BY <2>2 DEF IInv, TimeoutsExact
<1>7. ActiveThreadsExact'
  <2>1. Alive' = Alive
    BY <1>1 DEF IInv, TypeOK, Alive, TCB
  <2> QED
    BY <2>1 DEF IInv, TypeOK, ActiveThreadsExact, Alive
<1> QED
  BY <1>2, <1>3, <1>4, <1>5, <1>6, <1>7 DEF IInv

\* sched_queue_select() chooses a READY thread that no other core has to do
\* with, and one with a saved context unless it is the caller.
LEMMA Choice ==
  ASSUME IInv, NEW c \in Cores, pc[c] = "expire"
  PROVE  LET n == sched_queue_select(c)
         IN  /\ n \in Threads \cup {c}
             /\ state[n] = "READY"
             /\ n # current_thread[c] => phase[n] = "CLEAN"
             /\ \A d \in Cores : d # c => current_thread[d] # n
             /\ n \in ToSet(SCHED) <=> SCHED # << >>
<1> DEFINE n == sched_queue_select(c)
<1>1. /\ SCHED \in Seq(TCB)
      /\ current_thread[c] \in TCB
      /\ current_thread[c] \in Threads \cup {c}
  BY DEF IInv, TypeOK, OneCorePerStack
<1>2. CASE SCHED # << >>
  <2>1. n = Head(SCHED) /\ n \in TCB /\ n \in ToSet(SCHED)
    BY <1>1, <1>2, PopFront DEF sched_queue_select
  <2> QED
    BY <1>2, <2>1 DEF IInv, QueueExact
<1>3. CASE SCHED = << >>
  <2>1. ToSet(SCHED) = {}
    BY <1>3 DEF ToSet
  <2>2. CASE state[current_thread[c]] = "READY"
    <3>1. n = current_thread[c]
      BY <1>3, <2>2 DEF sched_queue_select
    <3> QED
      BY <1>1, <1>3, <2>1, <2>2, <3>1, OneCoreOnly
  <2>3. CASE state[current_thread[c]] # "READY"
    <3>1. n = c
      BY <1>3, <2>3 DEF sched_queue_select
    <3>2. current_thread[c] # c
      BY <2>3 DEF IInv, CoresAgree, CoreAgreesWith
    <3> QED
      BY <1>3, <2>1, <3>1, <3>2, IdleWaits
  <2> QED
    BY <2>2, <2>3
<1> QED
  BY <1>2, <1>3

\* The last part of yield() keeps the invariant.
LEMMA SelectStep ==
  ASSUME IInv, NEW c \in Cores, Select(c)
  PROVE  IInv'
<1> DEFINE t == current_thread[c]
           n == sched_queue_select(c)
<1>1. /\ n \in Threads \cup {c}
      /\ state[n] = "READY"
      /\ n # t => phase[n] = "CLEAN"
      /\ \A d \in Cores : d # c => current_thread[d] # n
      /\ n \in ToSet(SCHED) <=> SCHED # << >>
      /\ n \in TCB
  BY Choice DEF Select, TCB
<1>2. /\ t \in TCB
      /\ t \in Threads \cup {c}
      /\ state[t] \in {"STOPPED", "READY", "EXITED"}
      /\ phase[t] = "DIRTY"
      /\ sched_spinlock = c
      /\ pc[c] = "expire"
  BY DEF IInv, TypeOK, CoresAgree, CoreAgreesWith, OneCorePerStack, Select
<1>3. SCHED # << >> => n = Head(SCHED)
  BY DEF sched_queue_select
<1> HIDE DEF n
<1>4. /\ previous_thread' = [previous_thread EXCEPT ![c] = t]
      /\ current_thread' = [current_thread EXCEPT ![c] = n]
      /\ sched_spinlock' = NoCore
      /\ pc' = [pc EXCEPT ![c] = "gain"]
      /\ SCHED' = IF SCHED # << >> THEN Tail(SCHED) ELSE SCHED
      /\ UNCHANGED <<state, phase, wakeup_time, TIMEOUT_LIST, curtime,
                     active_threads, clock>>
  BY DEF Select, n
<1>5. /\ SCHED' \in Seq(TCB)
      /\ IsInjective(SCHED')
      /\ ToSet(SCHED') = ToSet(SCHED) \ {n}
  <2>1. CASE SCHED = << >>
    BY <1>1, <1>4, <2>1 DEF IInv, TypeOK, QueueExact
  <2>2. CASE SCHED # << >>
    BY <1>3, <1>4, <2>2, PopFront DEF IInv, TypeOK, QueueExact
  <2> QED
    BY <2>1, <2>2
<1>6. TypeOK'
  BY <1>1, <1>2, <1>4, <1>5 DEF IInv, TypeOK, PC
<1>7. /\ current_thread'[c] = n /\ previous_thread'[c] = t /\ pc'[c] = "gain"
      /\ \A d \in Cores : d # c => /\ current_thread'[d] = current_thread[d]
                                  /\ previous_thread'[d] = previous_thread[d]
                                  /\ pc'[d] = pc[d]
  BY <1>4 DEF IInv, TypeOK
<1>8. CoresAgree'
  <2>1. ASSUME NEW d \in Cores
        PROVE  CoreAgreesWith(d)'
    <3>1. CASE d = c
      BY <1>1, <1>2, <1>4, <1>7, <3>1 DEF CoreAgreesWith
    <3>2. CASE d # c
      <4>1. CoreAgreesWith(d) /\ sched_spinlock # d
        BY <1>2, <3>2 DEF IInv, CoresAgree
      <4>2. sched_spinlock' # d
        BY <1>4
      <4> QED
        BY <1>4, <1>7, <3>2, <4>1, <4>2 DEF CoreAgreesWith
    <3> QED
      BY <3>1, <3>2
  <2>2. ASSUME NEW u \in TCB, phase'[u] = "DIRTY"
        PROVE  OnCore(u)'
    <3>1. PICK d \in Cores : \/ current_thread[d] = u
                             \/ Switching(d) /\ previous_thread[d] = u
      BY <1>4, <2>2 DEF IInv, CoresAgree, OnCore
    <3>2. CASE d # c
      BY <1>7, <3>1, <3>2 DEF OnCore, Switching
    <3>3. CASE d = c
      <4>1. u = t
        BY <1>2, <3>1, <3>3 DEF Switching
      <4>2. current_thread'[c] = u \/ (Switching(c)' /\ previous_thread'[c] = u)
        BY <1>7, <4>1 DEF Switching
      <4> QED
        BY <4>2 DEF OnCore
    <3> QED
      BY <3>2, <3>3
  <2>3. \A u \in TCB : state'[u] \in {"RUNNING", "EXITED"} => phase'[u] = "DIRTY"
    BY <1>4 DEF IInv, CoresAgree
  <2>4. \A u \in Cores : state'[u] \in {"RUNNING", "READY"}
    BY <1>4 DEF IInv, CoresAgree
  <2> QED
    BY <2>1, <2>2, <2>3, <2>4 DEF CoresAgree
<1>9. QueueExact'
  <2>1. ASSUME NEW u \in TCB
        PROVE  u \in ToSet(SCHED') <=> /\ u \in Threads
                                       /\ state'[u] = "READY"
                                       /\ phase'[u] = "CLEAN"
                                       /\ \A d \in Cores : current_thread'[d] # u
    <3>1. u \in ToSet(SCHED) <=> /\ u \in Threads
                                 /\ state[u] = "READY"
                                 /\ phase[u] = "CLEAN"
                                 /\ \A d \in Cores : current_thread[d] # u
      BY DEF IInv, QueueExact
    <3>2. CASE u = n
      BY <1>5, <1>7, <3>2
    <3>3. CASE u = t /\ u # n
      BY <1>2, <1>4, <1>5, <3>1, <3>3
    <3>4. CASE u # t /\ u # n
      BY <1>4, <1>5, <1>7, <3>1, <3>4
    <3> QED
      BY <3>2, <3>3, <3>4
  <2> QED
    BY <1>5, <2>1 DEF QueueExact
<1>10. OneCorePerStack'
  <2>1. ASSUME NEW d \in Cores
        PROVE  current_thread'[d] \in Threads \cup {d}
    BY <1>1, <1>7 DEF IInv, OneCorePerStack
  <2>2. ASSUME NEW d \in Cores, d # c
        PROVE  /\ current_thread[d] # n
               /\ current_thread[d] # t
               /\ pc[d] = "gain" => previous_thread[d] # t
               /\ Switching(d) => previous_thread[d] # n
    <3>1. Switching(d) => phase[previous_thread[d]] = "DIRTY"
      BY DEF IInv, CoresAgree, CoreAgreesWith, Switching
    <3>2. Switching(d) => previous_thread[d] # t
      BY <2>2, OneCoreOnly DEF Switching
    <3> QED
      BY <1>1, <2>2, <3>1, <3>2, OneCoreOnly
  <2>3. ASSUME NEW d \in Cores, NEW e \in Cores, d # e
        PROVE  /\ current_thread'[d] # current_thread'[e]
               /\ Switching(d)' => previous_thread'[d] # current_thread'[e]
               /\ Switching(d)' /\ Switching(e)' =>
                    previous_thread'[d] # previous_thread'[e]
    <3>1. CASE d = c
      BY <1>7, <2>2, <2>3, <3>1 DEF Switching
    <3>2. CASE e = c
      BY <1>7, <2>2, <2>3, <3>2 DEF Switching
    <3>3. CASE d # c /\ e # c
      BY <1>7, <2>3, <3>3 DEF IInv, OneCorePerStack, Switching
    <3> QED
      BY <3>1, <3>2, <3>3
  <2> QED
    BY <2>1, <2>3 DEF OneCorePerStack
<1>11. TimeoutsExact'
  BY <1>4 DEF IInv, TimeoutsExact
<1>12. ActiveThreadsExact'
  BY <1>4, <1>7 DEF IInv, ActiveThreadsExact
<1> QED
  BY <1>6, <1>8, <1>9, <1>10, <1>11, <1>12 DEF IInv

\* gain() of the thread that called yield() keeps the invariant.
LEMMA GainSameStep ==
  ASSUME IInv, NEW c \in Cores, GainSame(c)
  PROVE  IInv'
<1> DEFINE t == current_thread[c]
<1> USE DEF GainSame
<1>1. t \in TCB /\ state[t] = "READY" /\ phase[t] = "DIRTY"
  BY DEF IInv, TypeOK, CoresAgree, CoreAgreesWith
<1>2. TypeOK'
  BY <1>1 DEF IInv, TypeOK, TCB, Thread_state, PC
<1>3. CoresAgree'
  <2>1. ASSUME NEW d \in Cores
        PROVE  CoreAgreesWith(d)'
    <3>1. CASE d = c
      BY <1>1, <3>1 DEF IInv, TypeOK, CoresAgree, CoreAgreesWith
    <3>2. CASE d # c
      BY <1>1, <3>2, OtherCoresAgree DEF IInv, TypeOK
    <3> QED
      BY <3>1, <3>2
  <2>2. \A u \in TCB : phase'[u] = "DIRTY" => OnCore(u)'
    BY <1>1 DEF IInv, TypeOK, CoresAgree, OnCore, Switching
  <2>3. \A u \in TCB : state'[u] \in {"RUNNING", "EXITED"} => phase'[u] = "DIRTY"
    BY <1>1 DEF IInv, TypeOK, CoresAgree
  <2>4. \A u \in Cores : state'[u] \in {"RUNNING", "READY"}
    BY <1>1 DEF IInv, TypeOK, CoresAgree, TCB
  <2> QED
    BY <2>1, <2>2, <2>3, <2>4 DEF CoresAgree
<1>4. QueueExact'
  BY <1>1 DEF IInv, TypeOK, QueueExact
<1>5. OneCorePerStack'
  BY DEF IInv, TypeOK, OneCorePerStack, Switching
<1>6. TimeoutsExact'
  BY <1>1 DEF IInv, TypeOK, TimeoutsExact
<1>7. ActiveThreadsExact'
  <2>1. Alive' = Alive
    BY <1>1 DEF IInv, TypeOK, Alive, TCB
  <2> QED
    BY <2>1 DEF IInv, TypeOK, ActiveThreadsExact, Alive
<1> QED
  BY <1>2, <1>3, <1>4, <1>5, <1>6, <1>7 DEF IInv

\* gain() after a switch keeps the invariant: it queues a READY thread and
\* frees an EXITED one.
LEMMA GainSwitchStep ==
  ASSUME IInv, NEW c \in Cores, GainSwitch(c)
  PROVE  IInv'
<1> DEFINE t == current_thread[c]
           p == previous_thread[c]
<1>1. /\ t \in TCB /\ p \in TCB /\ t # p
      /\ pc[c] = "gain" /\ Switching(c)
      /\ state[t] = "READY" /\ phase[t] = "CLEAN"
      /\ state[p] \in {"STOPPED", "READY", "EXITED"} /\ phase[p] = "DIRTY"
      /\ p \in Threads \cup {c}
  BY DEF IInv, TypeOK, CoresAgree, CoreAgreesWith, GainSwitch, Switching
<1>2. /\ state'[t] = "RUNNING"
      /\ state'[p] = IF state[p] = "EXITED" THEN "FREE" ELSE state[p]
      /\ phase'[t] = "DIRTY"
      /\ phase'[p] = "CLEAN"
      /\ \A u \in TCB : u # t /\ u # p => /\ state'[u] = state[u]
                                         /\ phase'[u] = phase[u]
      /\ state' \in [TCB -> Thread_state]
      /\ phase' \in [TCB -> {"CLEAN", "DIRTY"}]
  BY <1>1 DEF IInv, TypeOK, GainSwitch, Thread_state
<1>3. /\ SCHED' = QueueAfterGain(p)
      /\ active_threads' = ThreadsAfterGain(p)
      /\ pc' = [pc EXCEPT ![c] = "run"]
      /\ pc'[c] = "run"
      /\ \A d \in Cores : d # c => pc'[d] = pc[d]
      /\ sched_spinlock = NoCore
      /\ UNCHANGED <<wakeup_time, TIMEOUT_LIST, sched_spinlock, current_thread,
                     previous_thread, curtime, clock>>
  BY DEF IInv, TypeOK, GainSwitch
<1>4. \A d \in Cores : d # c =>
        /\ current_thread[d] # t
        /\ current_thread[d] # p
        /\ pc[d] = "gain" => previous_thread[d] # t /\ previous_thread[d] # p
  BY <1>1, OneCoreOnly
<1>5. p \notin ToSet(SCHED)
  BY <1>1 DEF IInv, QueueExact
<1>6. /\ SCHED' \in Seq(TCB)
      /\ IsInjective(SCHED')
      /\ ToSet(SCHED') = IF state[p] = "READY" /\ p \in Threads
                         THEN ToSet(SCHED) \cup {p} ELSE ToSet(SCHED)
  <2>1. SCHED \in Seq(TCB) /\ IsInjective(SCHED)
    BY DEF IInv, TypeOK, QueueExact
  <2>2. /\ Append(SCHED, p) \in Seq(TCB)
        /\ IsInjective(Append(SCHED, p))
        /\ ToSet(Append(SCHED, p)) = ToSet(SCHED) \cup {p}
    BY <1>1, <1>5, <2>1, PushBack
  <2> QED
    BY <1>3, <2>1, <2>2 DEF QueueAfterGain, sched_queue_add
<1>7. ActiveThreadsExact' /\ active_threads' \in Nat
  <2>1. IsFiniteSet(Alive)
    BY FS_Subset DEF Alive
  <2>2. CASE state[p] = "EXITED"
    <3>1. p \in Threads
      BY <1>1, <2>2, SleeperIsThread
    <3>2. p \in Alive /\ Alive' = Alive \ {p}
      BY <1>1, <1>2, <2>2, <3>1 DEF Alive, TCB
    <3>3. active_threads = Cardinality(Alive) /\ active_threads \in Nat
      BY DEF IInv, TypeOK, ActiveThreadsExact, Alive
    <3>4. Cardinality(Alive) # 0
      BY <2>1, <3>2, FS_EmptySet
    <3>5. active_threads' = Cardinality(Alive') /\ active_threads' \in Nat
      <4>1. Cardinality(Alive \ {p}) = Cardinality(Alive) - 1
        BY <2>1, <3>2, FS_RemoveElement
      <4>2. active_threads' = active_threads - 1
        BY <1>3, <2>2 DEF ThreadsAfterGain
      <4> QED
        BY <3>2, <3>3, <3>4, <4>1, <4>2
    <3>6. \A d \in Cores : pc'[d] # "left"
      BY <1>3, <3>3, <3>4 DEF IInv, ActiveThreadsExact
    <3> QED
      BY <3>5, <3>6 DEF ActiveThreadsExact, Alive
  <2>3. CASE state[p] # "EXITED"
    <3>1. Alive' = Alive
      BY <1>1, <1>2, <2>3 DEF Alive, TCB
    <3>2. active_threads' = active_threads
      BY <1>3, <2>3 DEF ThreadsAfterGain
    <3>3. \A d \in Cores : pc'[d] = "left" => pc[d] = "left"
      BY <1>3
    <3> QED
      BY <3>1, <3>2, <3>3 DEF IInv, TypeOK, ActiveThreadsExact, Alive
  <2> QED
    BY <2>2, <2>3
<1>8. TypeOK'
  BY <1>2, <1>3, <1>6, <1>7 DEF IInv, TypeOK, PC
<1>9. CoresAgree'
  <2>1. ASSUME NEW d \in Cores
        PROVE  CoreAgreesWith(d)'
    <3>1. CASE d = c
      BY <1>1, <1>2, <1>3, <3>1 DEF IInv, CoresAgree, CoreAgreesWith
    <3>2. CASE d # c
      <4>1. /\ state'[current_thread[d]] = state[current_thread[d]]
            /\ phase'[current_thread[d]] = phase[current_thread[d]]
            /\ pc[d] = "gain" =>
                 /\ state'[previous_thread[d]] = state[previous_thread[d]]
                 /\ phase'[previous_thread[d]] = phase[previous_thread[d]]
        BY <1>2, <1>4, <3>2 DEF IInv, TypeOK
      <4>2. CoreAgreesWith(d)
        BY DEF IInv, CoresAgree
      <4> QED
        BY <1>3, <3>2, <4>1, <4>2 DEF CoreAgreesWith
    <3> QED
      BY <3>1, <3>2
  <2>2. ASSUME NEW u \in TCB, phase'[u] = "DIRTY"
        PROVE  OnCore(u)'
    <3>1. CASE u = t
      BY <1>3, <3>1 DEF OnCore
    <3>2. CASE u # t
      <4>1. u # p /\ phase[u] = "DIRTY"
        BY <1>2, <2>2, <3>2
      <4>2. PICK d \in Cores : \/ current_thread[d] = u
                               \/ Switching(d) /\ previous_thread[d] = u
        BY <4>1 DEF IInv, CoresAgree, OnCore
      <4>3. d # c
        BY <3>2, <4>1, <4>2
      <4> QED
        BY <1>3, <4>2, <4>3 DEF OnCore, Switching
    <3> QED
      BY <3>1, <3>2
  <2>3. \A u \in TCB : state'[u] \in {"RUNNING", "EXITED"} => phase'[u] = "DIRTY"
    BY <1>1, <1>2 DEF IInv, CoresAgree
  <2>4. ASSUME NEW u \in Cores
        PROVE  state'[u] \in {"RUNNING", "READY"}
    <3>1. u \in TCB /\ state[u] \in {"RUNNING", "READY"}
      BY DEF IInv, CoresAgree, TCB
    <3> QED
      BY <1>1, <1>2, <3>1
  <2> QED
    BY <2>1, <2>2, <2>3, <2>4 DEF CoresAgree
<1>10. QueueExact'
  <2>1. ASSUME NEW u \in TCB
        PROVE  u \in ToSet(SCHED') <=> /\ u \in Threads
                                       /\ state'[u] = "READY"
                                       /\ phase'[u] = "CLEAN"
                                       /\ \A d \in Cores : current_thread'[d] # u
    <3>1. u \in ToSet(SCHED) <=> /\ u \in Threads
                                 /\ state[u] = "READY"
                                 /\ phase[u] = "CLEAN"
                                 /\ \A d \in Cores : current_thread[d] # u
      BY DEF IInv, QueueExact
    <3>2. CASE u = t
      BY <1>1, <1>2, <1>3, <1>6, <3>1, <3>2
    <3>3. CASE u = p
      <4>1. \A d \in Cores : current_thread[d] # p
        BY <1>1, <1>4
      <4> QED
        BY <1>1, <1>2, <1>3, <1>5, <1>6, <3>3, <4>1
    <3>4. CASE u # t /\ u # p
      BY <1>2, <1>3, <1>6, <3>1, <3>4
    <3> QED
      BY <3>2, <3>3, <3>4
  <2> QED
    BY <1>6, <2>1 DEF QueueExact
<1>11. OneCorePerStack'
  <2>1. \A d \in Cores : Switching(d)' => Switching(d)
    BY <1>3 DEF Switching
  <2> QED
    BY <1>3, <2>1 DEF IInv, OneCorePerStack
<1>12. TimeoutsExact'
  <2>1. \A u \in ToSet(TIMEOUT_LIST) : u \in TCB
    BY ElementOfSeq, LenProperties DEF IInv, TypeOK, ToSet
  <2>2. \A u \in ToSet(TIMEOUT_LIST) : state'[u] = "STOPPED"
    BY <1>1, <1>2, <2>1 DEF IInv, TimeoutsExact
  <2> QED
    BY <1>3, <2>2 DEF IInv, TimeoutsExact
<1> QED
  BY <1>7, <1>8, <1>9, <1>10, <1>11, <1>12 DEF IInv

\* idle_thread() returns only when no thread is left.
LEMMA IdleExitStep ==
  ASSUME IInv, NEW c \in Cores, IdleExit(c)
  PROVE  IInv'
<1> USE DEF IdleExit
<1>1. TypeOK'
  BY DEF IInv, TypeOK, PC
<1>2. CoresAgree'
  <2>1. ASSUME NEW d \in Cores
        PROVE  CoreAgreesWith(d)'
    BY DEF IInv, TypeOK, CoresAgree, CoreAgreesWith
  <2>2. \A u \in TCB : phase'[u] = "DIRTY" => OnCore(u)'
    BY DEF IInv, TypeOK, CoresAgree, OnCore, Switching
  <2> QED
    BY <2>1, <2>2 DEF IInv, CoresAgree
<1>3. OneCorePerStack'
  BY DEF IInv, TypeOK, OneCorePerStack, Switching
<1> QED
  BY <1>1, <1>2, <1>3 DEF IInv, QueueExact, TimeoutsExact, ActiveThreadsExact

\* What a tick of the clock, and a step that changes nothing, leave alone.
LEMMA QuietStep ==
  ASSUME IInv, clock' \in 0..MaxTime,
         UNCHANGED <<state, phase, wakeup_time, SCHED, TIMEOUT_LIST,
                     sched_spinlock, current_thread, previous_thread, pc,
                     curtime, active_threads>>
  PROVE  IInv'
BY DEF IInv, TypeOK, CoresAgree, CoreAgreesWith, OnCore, Switching, QueueExact,
       OneCorePerStack, TimeoutsExact, ActiveThreadsExact

-----------------------------------------------------------------------------
(***************************************************************************)
(* The invariant is inductive.                                             *)
(***************************************************************************)
LEMMA NextKeepsInvariant == IInv /\ [Next]_vars => IInv'
<1> SUFFICES ASSUME IInv, [Next]_vars
             PROVE  IInv'
  OBVIOUS
<1>1. ASSUME NEW c \in Cores, NEW t \in Threads, Spawn(c, t)
      PROVE  IInv'
  BY <1>1, SpawnStep
<1>2. ASSUME NEW c \in Cores, NEW t \in Threads, Wakeup(c, t)
      PROVE  IInv'
  BY <1>2, WakeupStep
<1>3. ASSUME NEW c \in Cores, NEW timeout \in Timeouts \cup {NO_TIMEOUT},
             Sleep(c, timeout)
      PROVE  IInv'
  BY <1>3, SleepStep
<1>4. ASSUME NEW c \in Cores, Exit(c)
      PROVE  IInv'
  BY <1>4, ExitStep
<1>5. ASSUME NEW c \in Cores, YieldBegin(c)
      PROVE  IInv'
  BY <1>5, YieldBeginStep
<1>6. ASSUME NEW c \in Cores, ExpireOne(c)
      PROVE  IInv'
  BY <1>6, ExpireOneStep
<1>7. ASSUME NEW c \in Cores, Select(c)
      PROVE  IInv'
  BY <1>7, SelectStep
<1>8. ASSUME NEW c \in Cores, GainSame(c)
      PROVE  IInv'
  BY <1>8, GainSameStep
<1>9. ASSUME NEW c \in Cores, GainSwitch(c)
      PROVE  IInv'
  BY <1>9, GainSwitchStep
<1>10. ASSUME NEW c \in Cores, IdleExit(c)
       PROVE  IInv'
  BY <1>10, IdleExitStep
<1>11. CASE Tick
  <2>1. clock' \in 0..MaxTime
    BY <1>11 DEF Tick, IInv, TypeOK
  <2> QED
    BY <1>11, <2>1, QuietStep DEF Tick
<1>12. CASE UNCHANGED vars
  <2>1. clock' \in 0..MaxTime
    BY <1>12 DEF vars, IInv, TypeOK
  <2> QED
    BY <1>12, <2>1, QuietStep DEF vars
<1> QED
  BY <1>1, <1>2, <1>3, <1>4, <1>5, <1>6, <1>7, <1>8, <1>9, <1>10, <1>11, <1>12
     DEF Next, Shutdown

THEOREM InvariantHolds == Spec => []IInv
BY InitEstablishes, NextKeepsInvariant, PTL DEF Spec

\* Every variable of the scheduler keeps its type.
THEOREM TypeCorrect == Spec => []TypeOK
<1>1. IInv => TypeOK
  BY DEF IInv
<1> QED
  BY <1>1, InvariantHolds, PTL

(***************************************************************************)
(* The queue holds exactly the READY threads with a saved context that no  *)
(* core has chosen, each once: no thread is lost, none runs twice.         *)
(***************************************************************************)
THEOREM QueueIsExact == Spec => []QueueExact
<1>1. IInv => QueueExact
  BY DEF IInv
<1> QED
  BY <1>1, InvariantHolds, PTL

(***************************************************************************)
(* Two cores never use one stack, not even while the context of one is     *)
(* being saved with no lock held.                                          *)
(***************************************************************************)
THEOREM StacksAreExclusive == Spec => []OneCorePerStack
<1>1. IInv => OneCorePerStack
  BY DEF IInv
<1> QED
  BY <1>1, InvariantHolds, PTL

\* The assertions of gain() never fail.
THEOREM GainNeverAsserts == Spec => []GainAssertion
<1>1. IInv => GainAssertion
  BY DEF IInv, CoresAgree, CoreAgreesWith, GainAssertion
<1> QED
  BY <1>1, InvariantHolds, PTL

\* The assertions of sched_make_ready() never fail, and the two lists that
\* share a TCB's sched_node never hold it together.
THEOREM TimeoutListIsExact == Spec => []TimeoutsExact
<1>1. IInv => TimeoutsExact
  BY DEF IInv
<1> QED
  BY <1>1, InvariantHolds, PTL

\* A core leaves the scheduler only when every thread was released.
THEOREM NoThreadIsLeftBehind == Spec => []ActiveThreadsExact
<1>1. IInv => ActiveThreadsExact
  BY DEF IInv
<1> QED
  BY <1>1, InvariantHolds, PTL

(***************************************************************************)
(* yield() never chooses a thread while a sleeper whose time had come is   *)
(* still asleep: the list is sorted, so the scan may stop at the first     *)
(* later entry.                                                            *)
(***************************************************************************)
THEOREM ExpiredAreWoken == Spec => YieldWakesExpired
<1> DEFINE A == \A c \in Cores : pc[c] = "expire" /\ pc'[c] = "gain" =>
                  \A t \in TCB :
                    state'[t] = "STOPPED" /\ wakeup_time'[t] # NO_TIMEOUT =>
                      wakeup_time'[t] > curtime[c]
<1>1. IInv /\ [Next]_vars => [A]_vars
  <2> SUFFICES ASSUME IInv, Next,
                      NEW c \in Cores, pc[c] = "expire", pc'[c] = "gain",
                      NEW t \in TCB, state'[t] = "STOPPED",
                      wakeup_time'[t] # NO_TIMEOUT
               PROVE  wakeup_time'[t] > curtime[c]
    OBVIOUS
  <2>1. Select(c)
    BY DEF IInv, TypeOK, Next, Spawn, Wakeup, Sleep, Exit, YieldBegin, ExpireOne,
           Select, GainSame, GainSwitch, IdleExit, Tick, Shutdown, vars
  <2>2. /\ wakeup_time' = wakeup_time
        /\ t \in ToSet(TIMEOUT_LIST)
        /\ ~ HeadExpired(c)
    BY <2>1 DEF Select, IInv, TimeoutsExact
  <2>3. /\ TIMEOUT_LIST \in Seq(TCB)
        /\ DOMAIN TIMEOUT_LIST = 1..Len(TIMEOUT_LIST)
        /\ Len(TIMEOUT_LIST) \in Nat
    BY LenProperties DEF IInv, TypeOK
  <2>4. PICK i \in DOMAIN TIMEOUT_LIST : TIMEOUT_LIST[i] = t
    BY <2>2 DEF ToSet
  <2>5. /\ TIMEOUT_LIST # << >>
        /\ Head(TIMEOUT_LIST) = TIMEOUT_LIST[1]
        /\ 1 \in DOMAIN TIMEOUT_LIST
        /\ TIMEOUT_LIST[1] \in TCB
    BY <2>3, <2>4, PopFront
  <2>6. wakeup_time[TIMEOUT_LIST[1]] > curtime[c]
    BY <2>2, <2>5 DEF HeadExpired, IInv, TypeOK
  <2>7. wakeup_time[TIMEOUT_LIST[1]] <= wakeup_time[t]
    <3>1. CASE i = 1
      BY <2>4, <2>5, <3>1 DEF IInv, TypeOK
    <3>2. CASE i # 1
      BY <2>3, <2>4, <2>5, <3>2 DEF IInv, TimeoutsExact
    <3> QED
      BY <3>1, <3>2
  <2> QED
    BY <2>2, <2>5, <2>6, <2>7 DEF IInv, TypeOK
<1> QED
  BY <1>1, InvariantHolds, PTL DEF Spec, YieldWakesExpired

=============================================================================
