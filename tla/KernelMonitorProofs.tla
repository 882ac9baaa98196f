------------------------- MODULE KernelMonitorProofs -------------------------
(***************************************************************************)
(* The safety of the kernel monitor, for every number of threads and every *)
(* set of channels.  IInv is inductive; each action has a lemma that says  *)
(* so, with one step per conjunct.                                         *)
(***************************************************************************)
EXTENDS KernelMonitor, ListLemmas, FiniteSetTheorems, TLAPS

IInv ==
  /\ TypeOK
  /\ ThreadsAgree
  /\ SemaphoreExact
  /\ RingsExact
  /\ SignalsTrue
  /\ WakeupsSuffice

USE ConstantsAssumption

-----------------------------------------------------------------------------
\* The sets of threads that are counted are finite.
LEMMA Counts ==
  /\ IsFiniteSet(Inside) /\ Cardinality(Inside) \in Nat
  /\ IsFiniteSet(Intruders) /\ Cardinality(Intruders) \in Nat
  /\ IsFiniteSet(OnTheirWay) /\ Cardinality(OnTheirWay) \in Nat
<1>1. /\ Inside \subseteq Threads
      /\ Intruders \subseteq Threads
      /\ OnTheirWay \subseteq Threads
  BY DEF Inside, Intruders, OnTheirWay
<1> QED
  BY <1>1, FS_Subset, FS_CardinalityType

LEMMA CountsPrimed ==
  /\ IsFiniteSet(Inside') /\ Cardinality(Inside') \in Nat
  /\ IsFiniteSet(Intruders') /\ Cardinality(Intruders') \in Nat
  /\ IsFiniteSet(OnTheirWay') /\ Cardinality(OnTheirWay') \in Nat
<1>1. /\ Inside' \subseteq Threads
      /\ Intruders' \subseteq Threads
      /\ OnTheirWay' \subseteq Threads
  BY DEF Inside, Intruders, OnTheirWay
<1> QED
  BY <1>1, FS_Subset, FS_CardinalityType

\* A step that gains no waiter and loses no thread that is on its way.
LEMMA WakeupsKept ==
  ASSUME IInv, kernel_sem' = kernel_sem,
         OnTheirWay \subseteq OnTheirWay',
         \A t \in Threads : WaitsForSemaphore(t)' =>
           \E u \in Threads : WaitsForSemaphore(u)
  PROVE  WakeupsSuffice'
<1>1. Cardinality(OnTheirWay) <= Cardinality(OnTheirWay')
  BY CountsPrimed, FS_Subset
<1>2. kernel_sem \in Nat
  BY DEF IInv, TypeOK
<1> SUFFICES ASSUME \E t \in Threads : WaitsForSemaphore(t)'
             PROVE  kernel_sem' <= Cardinality(OnTheirWay')
  BY DEF WakeupsSuffice
<1>3. kernel_sem <= Cardinality(OnTheirWay)
  BY DEF IInv, WakeupsSuffice
<1> QED
  BY <1>1, <1>2, <1>3, Counts, CountsPrimed

-----------------------------------------------------------------------------
LEMMA InitEstablishes == Init => IInv
<1> SUFFICES ASSUME Init PROVE IInv
  OBVIOUS
<1> USE DEF Init
<1>1. TypeOK
  BY DEF TypeOK, PC, CVs
<1>2. ThreadsAgree
  BY DEF ThreadsAgree, HoldsKernelMutex, HoldsWaitsetLock, CVs
<1>3. SemaphoreExact
  <2>1. Inside = {} /\ Intruders = {}
    BY DEF Inside, Intruders
  <2> QED
    BY <2>1, FS_EmptySet DEF SemaphoreExact
<1>4. RingsExact
  BY DEF RingsExact, InCvWait, ToSet, IsInjective, CVs
<1>5. SignalsTrue
  BY DEF SignalsTrue
<1>6. WakeupsSuffice
  BY DEF WakeupsSuffice, WaitsForSemaphore
<1> QED
  BY <1>1, <1>2, <1>3, <1>4, <1>5, <1>6 DEF IInv

-----------------------------------------------------------------------------
\* kernel_lock() starts.
LEMMA KernelLockStep ==
  ASSUME IInv, NEW t \in Threads, KernelLock(t)
  PROVE  IInv'
<1> USE DEF KernelLock, Goto, LockKernelMutex
<1>1. TypeOK'
  BY DEF IInv, TypeOK, PC
<1>2. ThreadsAgree'
  BY DEF IInv, TypeOK, ThreadsAgree, HoldsKernelMutex, HoldsWaitsetLock, SignalCV
<1>3. SemaphoreExact'
  <2>1. Inside' = Inside /\ Intruders' = Intruders
    BY DEF IInv, TypeOK, Inside, Intruders
  <2> QED
    BY <2>1 DEF IInv, SemaphoreExact
<1>4. RingsExact'
  BY DEF IInv, TypeOK, RingsExact, InCvWait
<1>5. SignalsTrue'
  BY DEF IInv, TypeOK, SignalsTrue
<1>6. WakeupsSuffice'
  BY WakeupsKept DEF IInv, TypeOK, OnTheirWay, OnItsWay, WaitsForSemaphore
<1> QED
  BY <1>1, <1>2, <1>3, <1>4, <1>5, <1>6 DEF IInv

\* The kernel is acquired.
LEMMA AcquireStep ==
  ASSUME IInv, NEW t \in Threads, Acquire(t)
  PROVE  IInv'
<1> USE DEF Acquire, MayEnter, Taken, Goto, UnlockKernelMutex
<1>1. TypeOK'
  BY DEF IInv, TypeOK, PC
<1>2. ThreadsAgree'
  BY DEF IInv, TypeOK, ThreadsAgree, HoldsKernelMutex, HoldsWaitsetLock, SignalCV
<1>3. SemaphoreExact'
  <2>1. Inside' = Inside \cup {t} /\ t \notin Inside /\ Intruders' = Intruders
    BY DEF IInv, TypeOK, Inside, Intruders
  <2>2. Cardinality(Inside') = Cardinality(Inside) + 1
    BY <2>1, Counts, FS_AddElement
  <2> QED
    BY <2>1, <2>2, Counts DEF IInv, TypeOK, SemaphoreExact
<1>4. RingsExact'
  BY DEF IInv, TypeOK, RingsExact, InCvWait
<1>5. SignalsTrue'
  BY DEF IInv, TypeOK, SignalsTrue
<1>6. WakeupsSuffice'
  <2>1. OnTheirWay' = OnTheirWay \ {t} /\ t \in OnTheirWay
    BY DEF IInv, TypeOK, OnTheirWay, OnItsWay
  <2>2. Cardinality(OnTheirWay') = Cardinality(OnTheirWay) - 1
    BY <2>1, Counts, FS_RemoveElement
  <2>3. \A u \in Threads : WaitsForSemaphore(u)' => WaitsForSemaphore(u)
    BY DEF IInv, TypeOK, WaitsForSemaphore
  <2> QED
    BY <2>2, <2>3, Counts DEF IInv, TypeOK, WakeupsSuffice
<1> QED
  BY <1>1, <1>2, <1>3, <1>4, <1>5, <1>6 DEF IInv

\* The kernel is taken: wait on kernel_sem_cv.
LEMMA WaitForSemaphoreStep ==
  ASSUME IInv, NEW t \in Threads, WaitForSemaphore(t)
  PROVE  IInv'
<1> USE DEF WaitForSemaphore, MayEnter, Goto
<1>1. TypeOK'
  BY DEF IInv, TypeOK, PC, CVs
<1>2. ThreadsAgree'
  BY DEF IInv, TypeOK, ThreadsAgree, HoldsKernelMutex, HoldsWaitsetLock, SignalCV
<1>3. SemaphoreExact'
  <2>1. Inside' = Inside /\ Intruders' = Intruders
    BY DEF IInv, TypeOK, Inside, Intruders
  <2> QED
    BY <2>1 DEF IInv, SemaphoreExact
<1>4. RingsExact'
  BY DEF IInv, TypeOK, RingsExact, InCvWait
<1>5. SignalsTrue'
  BY DEF IInv, TypeOK, SignalsTrue
<1>6. WakeupsSuffice'
  BY CountsPrimed DEF IInv, TypeOK, WakeupsSuffice
<1> QED
  BY <1>1, <1>2, <1>3, <1>4, <1>5, <1>6 DEF IInv

-----------------------------------------------------------------------------
(***************************************************************************)
(* The kernel is released, by a system call that returns, waits or ends    *)
(* its thread, or by an intruder.                                          *)
(***************************************************************************)
LEMMA ReleaseStep ==
  ASSUME IInv, NEW t \in Threads,
         NEW from \in {"kernel", "naked"},
         NEW next \in {"unlock", "push", "exit", "intrude"},
         from = "naked" <=> next = "intrude",
         Release(t, from, next),
         timed' \in [Threads -> BOOLEAN],
         \A u \in Threads \ {t} : timed'[u] = timed[u],
         cv' \in [Threads -> CVs],
         \A u \in Threads \ {t} : cv'[u] = cv[u],
         next = "push" => cv'[t] \in Channels
  PROVE  IInv'
<1> USE DEF Release, Goto, LockKernelMutex
<1>1. TypeOK'
  <2>1. pc' \in [Threads -> PC] /\ kernel_sem' \in Nat
    BY DEF IInv, TypeOK, PC
  <2>2. then' \in [Threads ->
                    {"unlock", "push", "exit", "intrude", "kernel", "user"}]
    BY DEF IInv, TypeOK
  <2> QED
    BY <2>1, <2>2 DEF IInv, TypeOK
<1>2. ThreadsAgree'
  <2>1. ASSUME NEW u \in Threads
        PROVE  kernel_mutex' = u <=> HoldsKernelMutex(u)'
    BY DEF IInv, TypeOK, ThreadsAgree, HoldsKernelMutex
  <2>2. ASSUME NEW u \in Threads, NEW v \in CVs
        PROVE  waitset_lock'[v] = u <=> HoldsWaitsetLock(u, v)'
    BY DEF IInv, TypeOK, ThreadsAgree, HoldsWaitsetLock, SignalCV
  <2>3. ASSUME NEW u \in Threads
        PROVE  /\ pc'[u] \in {"bcast", "bloop"} => then'[u] \in {"kernel", "user"}
               /\ pc'[u] \in {"unlock", "exit", "intrude"} => then'[u] = pc'[u]
               /\ pc'[u] \in {"signal", "loop"} /\ then'[u] = "push" =>
                    cv'[u] \in Channels
               /\ pc'[u] = "pushed" => ~ removed'[u]
               /\ pc'[u] = "naked" \/ then'[u] = "intrude" =>
                    u \in ReturningThreads
    BY DEF IInv, TypeOK, ThreadsAgree
  <2> QED
    BY <2>1, <2>2, <2>3 DEF ThreadsAgree
<1>3. SemaphoreExact'
  <2>1. CASE from = "kernel"
    <3>1. Inside' = Inside \ {t} /\ t \in Inside /\ Intruders' = Intruders
      BY <2>1 DEF IInv, TypeOK, Inside, Intruders
    <3>2. Cardinality(Inside') = Cardinality(Inside) - 1
      BY <3>1, Counts, FS_RemoveElement
    <3> QED
      BY <3>1, <3>2, Counts DEF IInv, TypeOK, SemaphoreExact
  <2>2. CASE from = "naked"
    <3>1. Inside' = Inside /\ Intruders' = Intruders \cup {t} /\ t \notin Intruders
      BY <2>2 DEF IInv, TypeOK, Inside, Intruders
    <3>2. Cardinality(Intruders') = Cardinality(Intruders) + 1
      BY <3>1, Counts, FS_AddElement
    <3> QED
      BY <3>1, <3>2, Counts DEF IInv, TypeOK, SemaphoreExact
  <2> QED
    BY <2>1, <2>2
<1>4. RingsExact'
  BY DEF IInv, TypeOK, RingsExact, InCvWait
<1>5. SignalsTrue'
  BY DEF IInv, TypeOK, SignalsTrue
<1>6. WakeupsSuffice'
  <2>1. OnTheirWay' = OnTheirWay \cup {t} /\ t \notin OnTheirWay
    BY DEF IInv, TypeOK, OnTheirWay, OnItsWay
  <2>2. Cardinality(OnTheirWay') = Cardinality(OnTheirWay) + 1
    BY <2>1, Counts, FS_AddElement
  <2>3. \A u \in Threads : WaitsForSemaphore(u)' => WaitsForSemaphore(u)
    BY DEF IInv, TypeOK, WaitsForSemaphore
  <2> QED
    BY <2>2, <2>3, Counts DEF IInv, TypeOK, WakeupsSuffice
<1> QED
  BY <1>1, <1>2, <1>3, <1>4, <1>5, <1>6 DEF IInv

LEMMA KernelUnlockStep ==
  ASSUME IInv, NEW t \in Threads, KernelUnlock(t)
  PROVE  IInv'
BY ReleaseStep DEF KernelUnlock, IInv, TypeOK

LEMMA KernelWaitStep ==
  ASSUME IInv, NEW t \in Threads, NEW c \in Channels, NEW with_timeout \in BOOLEAN,
         KernelWait(t, c, with_timeout)
  PROVE  IInv'
<1>1. /\ timed' \in [Threads -> BOOLEAN]
      /\ \A u \in Threads \ {t} : timed'[u] = timed[u]
      /\ cv' \in [Threads -> CVs]
      /\ \A u \in Threads \ {t} : cv'[u] = cv[u]
      /\ cv'[t] \in Channels
  BY DEF KernelWait, IInv, TypeOK, CVs
<1> QED
  BY <1>1, ReleaseStep DEF KernelWait

LEMMA KernelSleepStep ==
  ASSUME IInv, NEW t \in Threads, KernelSleep(t)
  PROVE  IInv'
<1>1. /\ timed' \in [Threads -> BOOLEAN]
      /\ \A u \in Threads \ {t} : timed'[u] = timed[u]
      /\ cv' \in [Threads -> CVs]
      /\ \A u \in Threads \ {t} : cv'[u] = cv[u]
  BY DEF KernelSleep, IInv, TypeOK
<1>2. CASE Release(t, "kernel", "exit")
  BY <1>1, <1>2, ReleaseStep
<1>3. CASE Release(t, "naked", "intrude")
  BY <1>1, <1>3, ReleaseStep
<1> QED
  BY <1>2, <1>3 DEF KernelSleep

\* The task of a thread returns.
LEMMA TaskReturnsStep ==
  ASSUME IInv, NEW t \in Threads, TaskReturns(t)
  PROVE  IInv'
<1> USE DEF TaskReturns, Goto
<1>1. TypeOK'
  BY DEF IInv, TypeOK, PC
<1>2. ThreadsAgree'
  BY DEF IInv, TypeOK, ThreadsAgree, HoldsKernelMutex, HoldsWaitsetLock, SignalCV
<1>3. SemaphoreExact'
  <2>1. Inside' = Inside /\ Intruders' = Intruders
    BY DEF IInv, TypeOK, Inside, Intruders
  <2> QED
    BY <2>1 DEF IInv, SemaphoreExact
<1>4. RingsExact'
  BY DEF IInv, TypeOK, RingsExact, InCvWait
<1>5. SignalsTrue'
  BY DEF IInv, TypeOK, SignalsTrue
<1>6. WakeupsSuffice'
  BY WakeupsKept DEF IInv, TypeOK, OnTheirWay, OnItsWay, WaitsForSemaphore
<1> QED
  BY <1>1, <1>2, <1>3, <1>4, <1>5, <1>6 DEF IInv

\* kernel_mutex is unlocked by a thread that leaves the kernel.
LEMMA LeaveKernelStep ==
  ASSUME IInv, NEW t \in Threads, LeaveKernel(t)
  PROVE  IInv'
<1> USE DEF LeaveKernel, Goto, UnlockKernelMutex
<1>1. TypeOK'
  BY DEF IInv, TypeOK, PC
<1>2. ThreadsAgree'
  BY DEF IInv, TypeOK, ThreadsAgree, HoldsKernelMutex, HoldsWaitsetLock, SignalCV
<1>3. SemaphoreExact'
  <2>1. Inside' = Inside /\ Intruders' = Intruders
    BY DEF IInv, TypeOK, Inside, Intruders, ThreadsAgree
  <2> QED
    BY <2>1 DEF IInv, SemaphoreExact
<1>4. RingsExact'
  BY DEF IInv, TypeOK, RingsExact, InCvWait
<1>5. SignalsTrue'
  BY DEF IInv, TypeOK, SignalsTrue
<1>6. WakeupsSuffice'
  BY WakeupsKept DEF IInv, TypeOK, OnTheirWay, OnItsWay, WaitsForSemaphore
<1> QED
  BY <1>1, <1>2, <1>3, <1>4, <1>5, <1>6 DEF IInv

-----------------------------------------------------------------------------
(***************************************************************************)
(* cv_wait()                                                               *)
(***************************************************************************)

\* A thread that holds the waitset_lock of v shuts out all others.
LEMMA WaitsetLockExcludes ==
  ASSUME IInv, NEW t \in Threads, NEW u \in Threads, NEW v \in CVs,
         HoldsWaitsetLock(t, v), HoldsWaitsetLock(u, v)
  PROVE  t = u
BY DEF IInv, ThreadsAgree

\* The waiter joins the ring.
LEMMA CvPushStep ==
  ASSUME IInv, NEW t \in Threads, CvPush(t)
  PROVE  IInv'
<1> USE DEF CvPush, Goto, UnlockKernelMutex
<1> DEFINE v == cv[t]
<1>1. v \in CVs /\ waitset[v] \in Seq(Threads) /\ IsInjective(waitset[v])
  BY DEF IInv, TypeOK, RingsExact
<1>2. t \notin ToSet(waitset[v])
  BY <1>1 DEF IInv, RingsExact, InCvWait
<1>3. /\ Append(waitset[v], t) \in Seq(Threads)
      /\ ToSet(Append(waitset[v], t)) = ToSet(waitset[v]) \cup {t}
      /\ IsInjective(Append(waitset[v], t))
  BY <1>1, <1>2, PushBack
<1>4. TypeOK'
  BY <1>1, <1>3 DEF IInv, TypeOK, PC
<1>5. ThreadsAgree'
  BY DEF IInv, TypeOK, ThreadsAgree, HoldsKernelMutex, HoldsWaitsetLock, SignalCV
<1>6. SemaphoreExact'
  <2>1. Inside' = Inside /\ Intruders' = Intruders
    BY DEF IInv, TypeOK, Inside, Intruders
  <2> QED
    BY <2>1 DEF IInv, SemaphoreExact
<1>7. RingsExact'
  <2>1. waitset' = [waitset EXCEPT ![v] = Append(waitset[v], t)]
    OBVIOUS
  <2>2. ASSUME NEW x \in CVs, NEW u \in Threads
        PROVE  u \in ToSet(waitset'[x]) <=>
                 InCvWait(u)' /\ cv'[u] = x /\ ~ removed'[u]
    BY <1>1, <1>3, <2>1 DEF IInv, TypeOK, RingsExact, InCvWait
  <2>3. ASSUME NEW x \in CVs
        PROVE  IsInjective(waitset'[x])
    BY <1>1, <1>3, <2>1 DEF IInv, TypeOK, RingsExact
  <2> QED
    BY <2>2, <2>3 DEF RingsExact
<1>8. SignalsTrue'
  BY DEF IInv, TypeOK, SignalsTrue
<1>9. WakeupsSuffice'
  BY WakeupsKept DEF IInv, TypeOK, OnTheirWay, OnItsWay, WaitsForSemaphore
<1> QED
  BY <1>4, <1>5, <1>6, <1>7, <1>8, <1>9 DEF IInv

\* The waiter goes to sleep.
LEMMA CvSleepStep ==
  ASSUME IInv, NEW t \in Threads, CvSleep(t)
  PROVE  IInv'
<1> USE DEF CvSleep, Goto, WithUnlocked
<1>1. TypeOK'
  BY DEF IInv, TypeOK, PC
<1>2. ThreadsAgree'
  BY DEF IInv, TypeOK, ThreadsAgree, HoldsKernelMutex, HoldsWaitsetLock, SignalCV
<1>3. SemaphoreExact'
  <2>1. Inside' = Inside /\ Intruders' = Intruders
    BY DEF IInv, TypeOK, Inside, Intruders
  <2> QED
    BY <2>1 DEF IInv, SemaphoreExact
<1>4. RingsExact'
  BY DEF IInv, TypeOK, RingsExact, InCvWait
<1>5. SignalsTrue'
  BY DEF IInv, TypeOK, SignalsTrue, ThreadsAgree
<1>6. WakeupsSuffice'
  BY WakeupsKept DEF IInv, TypeOK, OnTheirWay, OnItsWay, WaitsForSemaphore
<1> QED
  BY <1>1, <1>2, <1>3, <1>4, <1>5, <1>6 DEF IInv

\* The timeout of the waiter expires.
LEMMA TimeoutStep ==
  ASSUME IInv, NEW t \in Threads, Timeout(t)
  PROVE  IInv'
<1> USE DEF Timeout
<1>1. TypeOK'
  BY DEF IInv, TypeOK
<1>2. ThreadsAgree'
  BY DEF IInv, TypeOK, ThreadsAgree, HoldsKernelMutex, HoldsWaitsetLock, SignalCV
<1>3. SemaphoreExact'
  BY DEF IInv, SemaphoreExact, Inside, Intruders
<1>4. RingsExact'
  BY DEF IInv, RingsExact, InCvWait
<1>5. SignalsTrue'
  BY DEF IInv, TypeOK, SignalsTrue
<1>6. WakeupsSuffice'
  BY WakeupsKept DEF IInv, TypeOK, OnTheirWay, OnItsWay, WaitsForSemaphore
<1> QED
  BY <1>1, <1>2, <1>3, <1>4, <1>5, <1>6 DEF IInv

\* The waiter leaves the ring, unless a signal removed it.
LEMMA CvWokenStep ==
  ASSUME IInv, NEW t \in Threads, CvWoken(t)
  PROVE  IInv'
<1> USE DEF CvWoken, Goto
<1> DEFINE v == cv[t]
<1>1. v \in CVs /\ waitset[v] \in Seq(Threads) /\ IsInjective(waitset[v])
  BY DEF IInv, TypeOK, RingsExact
<1>2. /\ waitset' \in [CVs -> Seq(Threads)]
      /\ \A x \in CVs : ToSet(waitset'[x]) = ToSet(waitset[x]) \ {t}
      /\ \A x \in CVs : IsInjective(waitset'[x])
  <2>1. \A x \in CVs : x # v \/ removed[t] => t \notin ToSet(waitset[x])
    BY DEF IInv, RingsExact
  <2>2. CASE removed[t] /\ UNCHANGED waitset
    BY <2>1, <2>2 DEF IInv, TypeOK, RingsExact
  <2>3. CASE ~ removed[t]
    <3>1. PICK i \in DOMAIN waitset[v] :
            /\ waitset[v][i] = t
            /\ waitset' = [waitset EXCEPT ![v] = RemoveAt(waitset[v], i)]
      BY <2>3 DEF LeaveRing
    <3>2. /\ RemoveAt(waitset[v], i) \in Seq(Threads)
          /\ IsInjective(RemoveAt(waitset[v], i))
          /\ ToSet(RemoveAt(waitset[v], i)) = ToSet(waitset[v]) \ {t}
      BY <1>1, <3>1, Unlink
    <3> QED
      BY <1>1, <2>1, <3>1, <3>2 DEF IInv, TypeOK, RingsExact
  <2> QED
    BY <2>2, <2>3 DEF LeaveRing
<1>3. TypeOK'
  BY <1>2 DEF IInv, TypeOK, PC
<1>4. ThreadsAgree'
  BY DEF IInv, TypeOK, ThreadsAgree, HoldsKernelMutex, HoldsWaitsetLock, SignalCV
<1>5. SemaphoreExact'
  <2>1. Inside' = Inside /\ Intruders' = Intruders
    BY DEF IInv, TypeOK, Inside, Intruders
  <2> QED
    BY <2>1 DEF IInv, SemaphoreExact
<1>6. RingsExact'
  BY <1>2 DEF IInv, TypeOK, RingsExact, InCvWait
<1>7. SignalsTrue'
  BY DEF IInv, TypeOK, SignalsTrue
<1>8. WakeupsSuffice'
  BY WakeupsKept DEF IInv, TypeOK, OnTheirWay, OnItsWay, WaitsForSemaphore
<1> QED
  BY <1>3, <1>4, <1>5, <1>6, <1>7, <1>8 DEF IInv

\* cv_wait() returns.
LEMMA CvRelockStep ==
  ASSUME IInv, NEW t \in Threads, CvRelock(t)
  PROVE  IInv'
<1> USE DEF CvRelock, Goto, LockKernelMutex
<1>1. TypeOK'
  BY DEF IInv, TypeOK, PC
<1>2. ThreadsAgree'
  BY DEF IInv, TypeOK, ThreadsAgree, HoldsKernelMutex, HoldsWaitsetLock, SignalCV
<1>3. SemaphoreExact'
  <2>1. Inside' = Inside /\ Intruders' = Intruders
    BY DEF IInv, TypeOK, Inside, Intruders
  <2> QED
    BY <2>1 DEF IInv, SemaphoreExact
<1>4. RingsExact'
  BY DEF IInv, TypeOK, RingsExact, InCvWait
<1>5. SignalsTrue'
  BY DEF IInv, TypeOK, SignalsTrue
<1>6. WakeupsSuffice'
  BY WakeupsKept DEF IInv, TypeOK, OnTheirWay, OnItsWay, WaitsForSemaphore
<1> QED
  BY <1>1, <1>2, <1>3, <1>4, <1>5, <1>6 DEF IInv

-----------------------------------------------------------------------------
(***************************************************************************)
(* Cond_Signal() and Cond_Broadcast()                                      *)
(***************************************************************************)

\* A channel is signalled or broadcast.
LEMMA NotifyStep ==
  ASSUME IInv, NEW t \in Threads, NEW c \in Channels, Notify(t, c)
  PROVE  IInv'
<1> USE DEF Notify, Goto
<1>1. TypeOK'
  BY DEF IInv, TypeOK, PC, CVs
<1>2. ThreadsAgree'
  <2>1. ASSUME NEW u \in Threads
        PROVE  kernel_mutex' = u <=> HoldsKernelMutex(u)'
    <3>1. CASE u = t
      <4>1. ~ HoldsKernelMutex(t) /\ ~ HoldsKernelMutex(t)'
        BY DEF IInv, TypeOK, HoldsKernelMutex
      <4> QED
        BY <3>1, <4>1 DEF IInv, ThreadsAgree
    <3>2. CASE u # t
      BY <3>2 DEF IInv, TypeOK, ThreadsAgree, HoldsKernelMutex
    <3> QED
      BY <3>1, <3>2
  <2>2. ASSUME NEW u \in Threads, NEW v \in CVs
        PROVE  waitset_lock'[v] = u <=> HoldsWaitsetLock(u, v)'
    BY DEF IInv, TypeOK, ThreadsAgree, HoldsWaitsetLock, SignalCV
  <2>3. ASSUME NEW u \in Threads
        PROVE  /\ pc'[u] \in {"bcast", "bloop"} => then'[u] \in {"kernel", "user"}
               /\ pc'[u] \in {"unlock", "exit", "intrude"} => then'[u] = pc'[u]
               /\ pc'[u] \in {"signal", "loop"} /\ then'[u] = "push" =>
                    cv'[u] \in Channels
               /\ pc'[u] = "pushed" => ~ removed'[u]
               /\ pc'[u] = "naked" \/ then'[u] = "intrude" =>
                    u \in ReturningThreads
    BY DEF IInv, TypeOK, ThreadsAgree
  <2> QED
    BY <2>1, <2>2, <2>3 DEF ThreadsAgree
<1>3. SemaphoreExact'
  <2>1. Inside' = Inside /\ Intruders' = Intruders
    BY DEF IInv, TypeOK, Inside, Intruders
  <2> QED
    BY <2>1 DEF IInv, SemaphoreExact
<1>4. RingsExact'
  BY DEF IInv, TypeOK, RingsExact, InCvWait
<1>5. SignalsTrue'
  BY DEF IInv, TypeOK, SignalsTrue
<1>6. WakeupsSuffice'
  BY WakeupsKept DEF IInv, TypeOK, OnTheirWay, OnItsWay, WaitsForSemaphore
<1> QED
  BY <1>1, <1>2, <1>3, <1>4, <1>5, <1>6 DEF IInv

\* The signaller takes the waitset_lock.
LEMMA LockWaitsetStep ==
  ASSUME IInv, NEW t \in Threads, LockWaitset(t)
  PROVE  IInv'
<1> USE DEF LockWaitset, Goto
<1>1. TypeOK'
  BY DEF IInv, TypeOK, PC, CVs
<1>2. ThreadsAgree'
  BY DEF IInv, TypeOK, ThreadsAgree, HoldsKernelMutex, HoldsWaitsetLock,
         SignalCV, CVs
<1>3. SemaphoreExact'
  <2>1. Inside' = Inside /\ Intruders' = Intruders
    BY DEF IInv, TypeOK, Inside, Intruders
  <2> QED
    BY <2>1 DEF IInv, SemaphoreExact
<1>4. RingsExact'
  BY DEF IInv, TypeOK, RingsExact, InCvWait
<1>5. SignalsTrue'
  BY DEF IInv, TypeOK, SignalsTrue
<1>6. WakeupsSuffice'
  BY WakeupsKept DEF IInv, TypeOK, OnTheirWay, OnItsWay, WaitsForSemaphore
<1> QED
  BY <1>1, <1>2, <1>3, <1>4, <1>5, <1>6 DEF IInv

(***************************************************************************)
(* The end of the loop of cv_signal(), with or without a thread to wake:   *)
(* where the signaller goes from there.                                    *)
(***************************************************************************)
LEMMA SignallerLeaves ==
  ASSUME IInv, NEW t \in Threads, pc[t] \in {"loop", "bloop"},
         pc' = [pc EXCEPT ![t] = then[t]],
         waitset_lock' = [waitset_lock EXCEPT ![SignalCV(t)] = Nobody],
         UNCHANGED <<kernel_mutex, cv, then>>,
         \A u \in Threads : pc[u] = "pushed" => removed'[u] = removed[u]
  PROVE  ThreadsAgree'
<1>1. /\ SignalCV(t) \in CVs
      /\ pc'[t] = then[t]
      /\ then[t] \in {"unlock", "push", "exit", "intrude", "kernel", "user"}
      /\ \A u \in Threads : u # t => pc'[u] = pc[u]
  BY DEF IInv, TypeOK, SignalCV, CVs
<1>2. ASSUME NEW u \in Threads
      PROVE  kernel_mutex' = u <=> HoldsKernelMutex(u)'
  BY DEF IInv, TypeOK, ThreadsAgree, HoldsKernelMutex
<1>3. ASSUME NEW u \in Threads, NEW v \in CVs
      PROVE  waitset_lock'[v] = u <=> HoldsWaitsetLock(u, v)'
  <2>1. CASE u = t
    <3>1. ~ HoldsWaitsetLock(t, v)'
      BY <1>1 DEF HoldsWaitsetLock
    <3>2. waitset_lock[v] = t => v = SignalCV(t)
      BY DEF IInv, ThreadsAgree, HoldsWaitsetLock
    <3>3. waitset_lock'[v] # t
      BY <1>1, <3>2 DEF IInv, TypeOK
    <3> QED
      BY <2>1, <3>1, <3>3
  <2>2. CASE u # t
    <3>1. HoldsWaitsetLock(u, v)' <=> HoldsWaitsetLock(u, v)
      BY <2>2 DEF IInv, TypeOK, HoldsWaitsetLock, SignalCV
    <3>2. HoldsWaitsetLock(t, SignalCV(t))
      BY DEF HoldsWaitsetLock
    <3>3. waitset_lock[SignalCV(t)] = t
      BY <1>1, <3>2 DEF IInv, ThreadsAgree
    <3>4. waitset_lock'[v] = u <=> waitset_lock[v] = u
      BY <1>1, <2>2, <3>3 DEF IInv, TypeOK
    <3> QED
      BY <3>1, <3>4 DEF IInv, ThreadsAgree
  <2> QED
    BY <2>1, <2>2
<1>4. ASSUME NEW u \in Threads
      PROVE  /\ pc'[u] \in {"bcast", "bloop"} => then'[u] \in {"kernel", "user"}
             /\ pc'[u] \in {"unlock", "exit", "intrude"} => then'[u] = pc'[u]
             /\ pc'[u] \in {"signal", "loop"} /\ then'[u] = "push" =>
                  cv'[u] \in Channels
             /\ pc'[u] = "pushed" => ~ removed'[u]
             /\ pc'[u] = "naked" \/ then'[u] = "intrude" =>
                  u \in ReturningThreads
  <2>1. CASE u = t
    BY <1>1, <2>1 DEF IInv, ThreadsAgree
  <2>2. CASE u # t
    BY <1>1, <2>2 DEF IInv, ThreadsAgree
  <2> QED
    BY <2>1, <2>2
<1> QED
  BY <1>2, <1>3, <1>4 DEF ThreadsAgree

\* Inside and Intruders do not change when a signaller leaves the loop.
LEMMA SignallerCounts ==
  ASSUME IInv, NEW t \in Threads, pc[t] \in {"loop", "bloop"},
         pc' = [pc EXCEPT ![t] = then[t]], UNCHANGED <<kernel_sem, then>>
  PROVE  SemaphoreExact'
<1>1. /\ pc'[t] = then[t]
      /\ then[t] \in {"unlock", "push", "exit", "intrude", "kernel", "user"}
      /\ \A u \in Threads : u # t => pc'[u] = pc[u]
      /\ pc[t] = "bloop" => then[t] \in {"kernel", "user"}
  BY DEF IInv, TypeOK, ThreadsAgree
<1>2. Inside' = Inside
  BY <1>1 DEF Inside
<1>3. Intruders' = Intruders
  BY <1>1 DEF Intruders
<1> QED
  BY <1>2, <1>3 DEF IInv, SemaphoreExact

\* A signaller that leaves the loop for cv_wait() waits for a channel.
LEMMA SignallerWaits ==
  ASSUME IInv, NEW t \in Threads, pc[t] \in {"loop", "bloop"},
         pc' = [pc EXCEPT ![t] = then[t]], UNCHANGED cv
  PROVE  ~ WaitsForSemaphore(t)'
<1>1. /\ pc'[t] = then[t]
      /\ then[t] \in {"unlock", "push", "exit", "intrude", "kernel", "user"}
  BY DEF IInv, TypeOK
<1>2. then[t] = "push" => cv[t] \in Channels
  BY DEF IInv, ThreadsAgree
<1> QED
  BY <1>1, <1>2 DEF WaitsForSemaphore

\* The head of the ring, under waitset_lock, is asleep.
LEMMA HeadSleeps ==
  ASSUME IInv, NEW t \in Threads, pc[t] \in {"loop", "bloop"},
         waitset[SignalCV(t)] # << >>
  PROVE  LET w == Head(waitset[SignalCV(t)])
         IN  w \in Threads /\ pc[w] = "asleep" /\ cv[w] = SignalCV(t)
             /\ ~ removed[w] /\ w # t
<1> DEFINE v == SignalCV(t)
           w == Head(waitset[v])
<1>1. v \in CVs /\ waitset[v] \in Seq(Threads)
  BY DEF IInv, TypeOK, SignalCV, CVs
<1>2. w \in Threads /\ w \in ToSet(waitset[v])
  BY <1>1, PopFront
<1>3. InCvWait(w) /\ cv[w] = v /\ ~ removed[w]
  BY <1>1, <1>2 DEF IInv, RingsExact
<1>4. w # t
  BY <1>3 DEF InCvWait
<1>5. pc[w] # "pushed"
  <2>1. HoldsWaitsetLock(t, v)
    BY DEF HoldsWaitsetLock
  <2>2. pc[w] = "pushed" => HoldsWaitsetLock(w, v)
    BY <1>3 DEF HoldsWaitsetLock
  <2> QED
    BY <1>1, <1>2, <1>4, <2>1, <2>2, WaitsetLockExcludes
<1> QED
  BY <1>2, <1>3, <1>4, <1>5 DEF InCvWait

\* One waiter is removed, and woken up unless its timeout did so.
LEMMA SignalOneStep ==
  ASSUME IInv, NEW t \in Threads, SignalOne(t)
  PROVE  IInv'
<1> DEFINE v == SignalCV(t)
           w == Head(waitset[v])
<1>1. /\ w \in Threads /\ pc[w] = "asleep" /\ cv[w] = v /\ ~ removed[w]
      /\ w # t /\ pc[t] \in {"loop", "bloop"}
  BY HeadSleeps DEF SignalOne
<1>2. /\ removed' = [removed EXCEPT ![w] = TRUE]
      /\ signalled' = [signalled EXCEPT ![w] = stopped[w]]
      /\ stopped' = [stopped EXCEPT ![w] = FALSE]
      /\ UNCHANGED <<kernel_mutex, kernel_sem, cv, timed, then>>
  BY DEF SignalOne
<1>3. \/ /\ pc[t] = "loop" /\ stopped[w]
         /\ pc' = [pc EXCEPT ![t] = then[t]]
         /\ waitset_lock' = [waitset_lock EXCEPT ![v] = Nobody]
      \/ UNCHANGED <<pc, waitset_lock>>
  BY DEF SignalOne, Stops, WithUnlocked
<1>4. v \in CVs /\ waitset[v] \in Seq(Threads) /\ IsInjective(waitset[v])
  BY DEF IInv, TypeOK, RingsExact, SignalCV, CVs
<1>5. /\ waitset' \in [CVs -> Seq(Threads)]
      /\ \A x \in CVs : IsInjective(waitset'[x])
      /\ ToSet(waitset'[v]) = ToSet(waitset[v]) \ {w}
      /\ \A x \in CVs : x # v => waitset'[x] = waitset[x]
  <2>1. waitset[v] # << >> /\ waitset' = [waitset EXCEPT ![v] = Tail(waitset[v])]
    BY DEF SignalOne
  <2>2. /\ Tail(waitset[v]) \in Seq(Threads)
        /\ IsInjective(Tail(waitset[v]))
        /\ ToSet(Tail(waitset[v])) = ToSet(waitset[v]) \ {w}
    BY <1>4, <2>1, PopFront
  <2> QED
    BY <1>4, <2>1, <2>2 DEF IInv, TypeOK, RingsExact
<1> HIDE DEF v, w
<1>6. /\ \A u \in Threads : u # t => pc'[u] = pc[u]
      /\ pc'[t] = pc[t] \/ (pc[t] = "loop" /\ stopped[w] /\ pc'[t] = then[t])
      /\ then[t] \in {"unlock", "push", "exit", "intrude", "kernel", "user"}
      /\ \A u \in Threads : u # w => /\ removed'[u] = removed[u]
                                    /\ signalled'[u] = signalled[u]
                                    /\ stopped'[u] = stopped[u]
      /\ removed'[w] /\ ~ stopped'[w] /\ signalled'[w] = stopped[w]
  BY <1>1, <1>2, <1>3 DEF IInv, TypeOK
<1>7. TypeOK'
  <2>1. pc' \in [Threads -> PC]
    BY <1>3 DEF IInv, TypeOK, PC
  <2>2. waitset_lock' \in [CVs -> Threads \cup {Nobody}]
    BY <1>3 DEF IInv, TypeOK
  <2>3. /\ removed' \in [Threads -> BOOLEAN]
        /\ stopped' \in [Threads -> BOOLEAN]
    BY <1>2 DEF IInv, TypeOK
  <2>4. signalled' \in [Threads -> BOOLEAN]
    BY <1>1, <1>2 DEF IInv, TypeOK
  <2> QED
    BY <1>2, <1>5, <2>1, <2>2, <2>3, <2>4 DEF IInv, TypeOK
<1>8. ThreadsAgree'
  <2>1. CASE UNCHANGED <<pc, waitset_lock>>
    BY <1>1, <1>2, <1>6, <2>1
       DEF IInv, ThreadsAgree, HoldsKernelMutex, HoldsWaitsetLock, SignalCV
  <2>2. CASE ~ UNCHANGED <<pc, waitset_lock>>
    BY <1>1, <1>2, <1>3, <1>6, <2>2, SignallerLeaves DEF v
  <2> QED
    BY <2>1, <2>2
<1>9. SemaphoreExact'
  <2>1. CASE UNCHANGED <<pc, waitset_lock>>
    BY <1>2, <2>1 DEF IInv, SemaphoreExact, Inside, Intruders
  <2>2. CASE ~ UNCHANGED <<pc, waitset_lock>>
    BY <1>1, <1>2, <1>3, <2>2, SignallerCounts
  <2> QED
    BY <2>1, <2>2
<1>10. RingsExact'
  <2>1. ASSUME NEW u \in Threads
        PROVE  InCvWait(u)' /\ ~ removed'[u] <=>
                 InCvWait(u) /\ ~ removed[u] /\ u # w
    <3>1. CASE u = t
      <4>1. ~ InCvWait(t) /\ ~ InCvWait(t)'
        BY <1>1, <1>6 DEF InCvWait
      <4> QED
        BY <3>1, <4>1
    <3>2. CASE u # t
      BY <1>6, <3>2 DEF InCvWait
    <3> QED
      BY <3>1, <3>2
  <2>2. ASSUME NEW x \in CVs, NEW u \in Threads
        PROVE  u \in ToSet(waitset'[x]) <=>
                 InCvWait(u)' /\ cv'[u] = x /\ ~ removed'[u]
    <3>1. u \in ToSet(waitset[x]) <=> InCvWait(u) /\ cv[u] = x /\ ~ removed[u]
      BY DEF IInv, RingsExact
    <3>2. u \in ToSet(waitset'[x]) <=> u \in ToSet(waitset[x]) /\ u # w
      <4>1. CASE x = v
        BY <1>5, <4>1
      <4>2. CASE x # v
        BY <1>1, <1>5, <3>1, <4>2
      <4> QED
        BY <4>1, <4>2
    <3> QED
      BY <1>2, <2>1, <3>1, <3>2
  <2> QED
    BY <1>5, <2>2 DEF RingsExact
<1>11. SignalsTrue'
  <2>1. ASSUME NEW u \in Threads, u # w
        PROVE  /\ stopped'[u] => /\ pc'[u] = "asleep"
                                 /\ ~ signalled'[u] /\ ~ removed'[u]
               /\ signalled'[u] => removed'[u]
               /\ pc'[u] \in {"asleep", "relock"} /\ ~ stopped'[u] /\ ~ timed'[u]
                    => signalled'[u]
    BY <1>1, <1>2, <1>6, <2>1 DEF IInv, SignalsTrue
  <2>2. ~ stopped[w] /\ ~ timed[w] => FALSE
    BY <1>1 DEF IInv, SignalsTrue
  <2> QED
    BY <1>1, <1>2, <1>6, <2>1, <2>2 DEF SignalsTrue
<1>12. WakeupsSuffice'
  <2>1. CASE pc'[t] = pc[t] \/ then[t] \in {"kernel", "user"}
    <3>1. OnTheirWay \subseteq OnTheirWay'
      BY <1>1, <1>2, <1>6, <2>1 DEF OnTheirWay, OnItsWay
    <3>2. \A u \in Threads : WaitsForSemaphore(u)' => WaitsForSemaphore(u)
      BY <1>1, <1>2, <1>6, <2>1 DEF WaitsForSemaphore
    <3> QED
      BY <1>2, <3>1, <3>2, WakeupsKept
  <2>2. CASE pc'[t] # pc[t] /\ then[t] \notin {"kernel", "user"}
    <3>1. pc[t] = "loop" /\ stopped[w] /\ pc'[t] = then[t]
      BY <1>6, <2>2
    <3>2. WaitsForSemaphore(w)
      BY <1>1, <2>2, <3>1 DEF WaitsForSemaphore, SignalCV, v
    <3>3. kernel_sem <= Cardinality(OnTheirWay)
      BY <1>1, <3>2 DEF IInv, WakeupsSuffice
    <3>4. /\ OnTheirWay' = (OnTheirWay \ {t}) \cup {w}
          /\ t \in OnTheirWay /\ w \notin OnTheirWay
      BY <1>1, <1>2, <1>6, <2>2, <3>1 DEF OnTheirWay, OnItsWay
    <3>5. /\ IsFiniteSet(OnTheirWay \ {t})
          /\ Cardinality(OnTheirWay \ {t}) = Cardinality(OnTheirWay) - 1
      BY <3>4, Counts, FS_RemoveElement
    <3>6. Cardinality(OnTheirWay') = Cardinality(OnTheirWay)
      <4>1. w \notin OnTheirWay \ {t}
        BY <3>4
      <4>2. Cardinality((OnTheirWay \ {t}) \cup {w}) =
              Cardinality(OnTheirWay \ {t}) + 1
        BY <3>5, <4>1, FS_AddElement
      <4> QED
        BY <3>4, <3>5, <4>2, Counts
    <3> QED
      BY <1>2, <3>3, <3>6 DEF WakeupsSuffice
  <2> QED
    BY <2>1, <2>2
<1> QED
  BY <1>7, <1>8, <1>9, <1>10, <1>11, <1>12 DEF IInv

\* The ring is empty: nobody is there to wake.
LEMMA NobodyToWake ==
  ASSUME IInv, NEW t \in Threads, pc[t] \in {"loop", "bloop"},
         waitset[SignalCV(t)] = << >>
  PROVE  \A u \in Threads : stopped[u] \/ pc[u] = "pushed" => cv[u] # SignalCV(t)
<1> SUFFICES ASSUME NEW u \in Threads, stopped[u] \/ pc[u] = "pushed",
                    cv[u] = SignalCV(t)
             PROVE  FALSE
  OBVIOUS
<1>1. InCvWait(u) /\ ~ removed[u]
  BY DEF IInv, ThreadsAgree, SignalsTrue, InCvWait
<1>2. SignalCV(t) \in CVs
  BY DEF IInv, TypeOK, SignalCV, CVs
<1>3. u \in ToSet(waitset[SignalCV(t)])
  BY <1>1, <1>2 DEF IInv, RingsExact
<1> QED
  BY <1>3 DEF ToSet

\* The loop of cv_signal() ends.
LEMMA SignalEndStep ==
  ASSUME IInv, NEW t \in Threads, SignalEnd(t)
  PROVE  IInv'
<1> USE DEF SignalEnd, WithUnlocked
<1>1. /\ pc'[t] = then[t]
      /\ then[t] \in {"unlock", "push", "exit", "intrude", "kernel", "user"}
      /\ \A u \in Threads : u # t => pc'[u] = pc[u]
      /\ pc[t] \in {"loop", "bloop"}
  BY DEF IInv, TypeOK
<1>2. TypeOK'
  <2>1. pc' \in [Threads -> PC]
    BY DEF IInv, TypeOK, PC
  <2>2. waitset_lock' \in [CVs -> Threads \cup {Nobody}]
    BY DEF IInv, TypeOK
  <2> QED
    BY <2>1, <2>2 DEF IInv, TypeOK
<1>3. ThreadsAgree'
  BY SignallerLeaves
<1>4. SemaphoreExact'
  BY SignallerCounts
<1>5. RingsExact'
  BY <1>1 DEF IInv, RingsExact, InCvWait
<1>6. SignalsTrue'
  BY <1>1 DEF IInv, SignalsTrue
<1>7. WakeupsSuffice'
  <2>1. CASE then[t] \in {"kernel", "user"}
    <3>1. OnTheirWay' = OnTheirWay
      BY <1>1, <2>1 DEF OnTheirWay, OnItsWay
    <3>2. \A u \in Threads : WaitsForSemaphore(u)' => WaitsForSemaphore(u)
      BY <1>1, <2>1 DEF WaitsForSemaphore
    <3> QED
      BY <3>1, <3>2, WakeupsKept
  <2>2. CASE then[t] \notin {"kernel", "user"}
    <3>1. SignalCV(t) = kernel_sem_cv
      BY <2>2 DEF SignalCV
    <3>2. pc[t] = "loop"
      BY <1>1, <2>2 DEF IInv, ThreadsAgree
    <3>3. ASSUME NEW u \in Threads, WaitsForSemaphore(u)'
          PROVE  FALSE
      <4>1. u # t
        BY <1>1, <3>3, SignallerWaits
      <4>2. WaitsForSemaphore(u)
        BY <1>1, <3>3, <4>1 DEF WaitsForSemaphore
      <4>3. pc[u] # "push"
        BY <2>2, <3>2, <4>1 DEF IInv, ThreadsAgree, HoldsKernelMutex
      <4>4. stopped[u] \/ pc[u] = "pushed" => cv[u] # kernel_sem_cv
        BY <1>1, <3>1, NobodyToWake
      <4> QED
        BY <4>2, <4>3, <4>4 DEF WaitsForSemaphore
    <3> QED
      BY <3>3 DEF WakeupsSuffice
  <2> QED
    BY <2>1, <2>2
<1> QED
  BY <1>2, <1>3, <1>4, <1>5, <1>6, <1>7 DEF IInv

-----------------------------------------------------------------------------
\* A step that changes nothing.
LEMMA StutterStep ==
  ASSUME IInv, UNCHANGED vars
  PROVE  IInv'
<1> USE DEF vars
<1>1. TypeOK' /\ SignalsTrue' /\ ThreadsAgree'
  BY DEF IInv, TypeOK, SignalsTrue, ThreadsAgree, HoldsKernelMutex,
         HoldsWaitsetLock, SignalCV
<1>2. SemaphoreExact' /\ RingsExact'
  BY DEF IInv, SemaphoreExact, Inside, Intruders, RingsExact, InCvWait
<1>3. WakeupsSuffice'
  BY DEF IInv, WakeupsSuffice, WaitsForSemaphore, OnTheirWay, OnItsWay
<1> QED
  BY <1>1, <1>2, <1>3 DEF IInv

\* Every step keeps the invariant.
LEMMA NextKeeps == IInv /\ [Next]_vars => IInv'
<1> SUFFICES ASSUME IInv, [Next]_vars PROVE IInv'
  OBVIOUS
<1>1. ASSUME NEW t \in Threads, Step(t)
      PROVE  IInv'
  BY <1>1, AcquireStep, WaitForSemaphoreStep, LeaveKernelStep, CvPushStep,
     CvSleepStep, CvWokenStep, CvRelockStep, LockWaitsetStep, SignalOneStep,
     SignalEndStep DEF Step
<1>2. ASSUME NEW t \in Threads,
             \/ KernelLock(t) \/ KernelUnlock(t) \/ KernelSleep(t)
             \/ TaskReturns(t) \/ Timeout(t)
      PROVE  IInv'
  BY <1>2, KernelLockStep, KernelUnlockStep, KernelSleepStep, TaskReturnsStep,
     TimeoutStep
<1>3. ASSUME NEW t \in Threads, NEW c \in Channels,
             \/ \E with_timeout \in BOOLEAN : KernelWait(t, c, with_timeout)
             \/ Notify(t, c)
      PROVE  IInv'
  BY <1>3, KernelWaitStep, NotifyStep
<1>4. CASE Halted
  BY <1>4, StutterStep DEF Halted
<1>5. CASE UNCHANGED vars
  BY <1>5, StutterStep
<1> QED
  BY <1>1, <1>2, <1>3, <1>4, <1>5 DEF Next

\* The invariant holds in every reachable state.
THEOREM InvariantHolds == Spec => []IInv
<1> QED
  BY InitEstablishes, NextKeeps, PTL DEF Spec

-----------------------------------------------------------------------------
\* The variables have their types.
THEOREM TypeCorrect == Spec => []TypeOK
<1>1. IInv => TypeOK
  BY DEF IInv
<1> QED
  BY <1>1, InvariantHolds, PTL

\* kernel_sem and the threads inside the kernel add up.
THEOREM SemaphoreIsExact == Spec => []SemaphoreExact
<1>1. IInv => SemaphoreExact
  BY DEF IInv
<1> QED
  BY <1>1, InvariantHolds, PTL

\* The rings hold the waiters, and no waiter that returned.
THEOREM RingsAreExact == Spec => []RingsExact
<1>1. IInv => RingsExact
  BY DEF IInv
<1> QED
  BY <1>1, InvariantHolds, PTL

\* What cv_wait() returns is true.
THEOREM SignalsAreTrue == Spec => []SignalsTrue
<1>1. IInv => SignalsTrue
  BY DEF IInv
<1> QED
  BY <1>1, InvariantHolds, PTL

\* With kernel_sem + |Inside| = 1, two threads cannot be inside.
LEMMA ExactExcludes == IInv => KernelExclusionUnlessIntruded
<1> SUFFICES ASSUME IInv, Intruders = {}, NEW t \in Inside, NEW u \in Inside, t # u
             PROVE  FALSE
  BY DEF KernelExclusionUnlessIntruded, KernelExclusion
<1>1. kernel_sem + Cardinality(Inside) = 1 /\ kernel_sem \in Nat
  BY FS_EmptySet DEF IInv, TypeOK, SemaphoreExact
<1>2. {t, u} \subseteq Inside /\ Cardinality({t, u}) = 2
  <2>1. IsFiniteSet({t}) /\ Cardinality({t}) = 1
    BY FS_Singleton
  <2>2. u \notin {t} /\ {t, u} = {t} \cup {u}
    OBVIOUS
  <2>3. Cardinality({t} \cup {u}) = Cardinality({t}) + 1
    BY <2>1, <2>2, FS_AddElement
  <2>4. Cardinality({t, u}) = 1 + 1
    BY <2>1, <2>2, <2>3
  <2>5. {t, u} \subseteq Inside
    OBVIOUS
  <2> QED
    BY <2>4, <2>5
<1>3. Cardinality({t, u}) <= Cardinality(Inside)
  BY <1>2, Counts, FS_Subset
<1> QED
  BY <1>1, <1>2, <1>3, Counts

\* At most one thread is inside the kernel, until a thread leaves it that had
\* not entered it.
THEOREM KernelExcludes == Spec => []KernelExclusionUnlessIntruded
<1> QED
  BY ExactExcludes, InvariantHolds, PTL

(***************************************************************************)
(* The kernel lock excludes in every program whose threads call ThreadExit *)
(* and do not return from their task.                                      *)
(***************************************************************************)
THEOREM KernelExcludesUnlessTasksReturn ==
  ASSUME ReturningThreads = {}
  PROVE  Spec => []KernelExclusion
<1>1. IInv => KernelExclusion
  <2>1. ASSUME IInv PROVE Intruders = {}
    BY <2>1 DEF IInv, ThreadsAgree, Intruders
  <2> QED
    BY <2>1, ExactExcludes DEF KernelExclusionUnlessIntruded
<1> QED
  BY <1>1, InvariantHolds, PTL

\* No wake-up of the kernel semaphore is lost.
THEOREM NoWakeupIsLost == Spec => []NoLostWakeup
<1>1. IInv => NoLostWakeup
  <2> SUFFICES ASSUME IInv, kernel_sem > 0, NEW t \in Threads, stopped[t],
                      cv[t] = kernel_sem_cv, \A u \in Threads : ~ OnItsWay(u)
               PROVE  FALSE
    BY DEF NoLostWakeup
  <2>1. WaitsForSemaphore(t)
    BY DEF IInv, SignalsTrue, WaitsForSemaphore
  <2>2. OnTheirWay = {}
    BY DEF OnTheirWay
  <2> QED
    BY <2>1, <2>2, FS_EmptySet DEF IInv, TypeOK, WakeupsSuffice
<1> QED
  BY <1>1, InvariantHolds, PTL

\* A signal wakes a sleeper if there is one.
THEOREM SignalIsNotWasted == Spec => SignalFindsSleeper
<1> DEFINE Found(t) ==
      pc[t] = "loop" /\ pc'[t] # "loop" =>
        \/ \E u \in Threads : stopped[u] /\ ~ stopped'[u] /\ cv[u] = SignalCV(t)
        \/ \A u \in Threads : stopped[u] => cv[u] # SignalCV(t)
<1>1. IInv /\ [Next]_vars => [\A t \in Threads : Found(t)]_vars
  <2> SUFFICES ASSUME IInv, Next, NEW t \in Threads, pc[t] = "loop", pc'[t] # "loop"
               PROVE  Found(t)
    OBVIOUS
  <2>1. SignalOne(t) \/ SignalEnd(t)
    <3>1. ASSUME NEW u \in Threads, Step(u)
          PROVE  SignalOne(t) \/ SignalEnd(t)
      BY <3>1 DEF IInv, TypeOK, Step, Acquire, WaitForSemaphore, LeaveKernel,
           CvPush, CvSleep, CvWoken, CvRelock, LockWaitset, SignalOne, SignalEnd,
           Goto
    <3>2. ASSUME NEW u \in Threads,
                 \/ KernelLock(u) \/ KernelUnlock(u) \/ KernelSleep(u)
                 \/ TaskReturns(u) \/ Timeout(u)
                 \/ \E c \in Channels :
                      \/ \E with_timeout \in BOOLEAN : KernelWait(u, c, with_timeout)
                      \/ Notify(u, c)
          PROVE  FALSE
      BY <3>2 DEF IInv, TypeOK, KernelLock, KernelUnlock, KernelSleep, Release,
           TaskReturns, Timeout, KernelWait, Notify, Goto
    <3>3. ~ Halted
      BY DEF Halted, vars
    <3> QED
      BY <3>1, <3>2, <3>3 DEF Next
  <2>2. CASE SignalOne(t)
    <3> DEFINE w == Head(waitset[SignalCV(t)])
    <3>1. w \in Threads /\ cv[w] = SignalCV(t)
      BY <2>2, HeadSleeps DEF SignalOne
    <3>2. stopped[w] /\ ~ stopped'[w]
      BY <2>2, <3>1 DEF SignalOne, Stops, IInv, TypeOK
    <3> QED
      BY <3>1, <3>2
  <2>3. CASE SignalEnd(t)
    BY <2>3, NobodyToWake DEF SignalEnd
  <2> QED
    BY <2>1, <2>2, <2>3
<1> QED
  BY <1>1, InvariantHolds, PTL DEF Spec, SignalFindsSleeper

=============================================================================
