---------------------------- MODULE KernelMonitor ----------------------------
(***************************************************************************)
(* The kernel monitor of tinyos3 (kernel_cc.c): the kernel semaphore, a    *)
(* monitor built on kernel_mutex and kernel_sem_cv; and the condition      *)
(* variables -- kernel_sem_cv and the channels that system calls wait on   *)
(* -- whose waiters sleep with no lock held.                               *)
(*                                                                         *)
(* A system call runs between kernel_lock() and kernel_unlock(); inside,   *)
(* it may wait on a channel with or without a timeout, signal or broadcast *)
(* a channel, or end its thread.  Interrupt handlers broadcast channels    *)
(* too, without the kernel lock.                                           *)
(*                                                                         *)
(* Grain: what is done under a waitset_lock is visible only to those who   *)
(* take it, so an iteration of cv_signal() and the enqueuing part of       *)
(* cv_wait() are steps; the lock is held between them.  Spinning on a      *)
(* Mutex is a step that is not enabled.  What the scheduler does with a    *)
(* thread is reduced to whether the thread is STOPPED.                     *)
(***************************************************************************)
EXTENDS Integers, Sequences, SequencesExt, FiniteSets

CONSTANTS Threads,
          Channels,          \* condition variables of kernel objects
          kernel_sem_cv,     \* the one of the kernel semaphore
          ReturningThreads,  \* CreateThread()ed threads whose task returns
          Nobody             \* a Mutex that is free

ASSUME ConstantsAssumption ==
  /\ IsFiniteSet(Threads)
  /\ ReturningThreads \subseteq Threads
  /\ Nobody \notin Threads
  /\ kernel_sem_cv \notin Channels

CVs == Channels \cup {kernel_sem_cv}

VARIABLES
  pc,            \* where a thread is
  kernel_mutex,  \* its holder
  kernel_sem,
  waitset,       \* CondVar.waitset: the ring, from its head
  waitset_lock,  \* CondVar.waitset_lock: its holder
  stopped,       \* TCB.state = STOPPED
  cv,            \* the cv that a thread in cv_wait() or cv_signal() works on
  timed,         \* the sleep has a timeout
  signalled,     \* __cv_waiter.signalled of a thread's latest wait
  removed,       \* __cv_waiter.removed
  then           \* what a thread does after cv_signal()

vars == <<pc, kernel_mutex, kernel_sem, waitset, waitset_lock, stopped, cv,
          timed, signalled, removed, then>>

(***************************************************************************)
(* "user"    outside the kernel                                            *)
(* "test"    holds kernel_mutex, about to test kernel_sem                  *)
(* "kernel"  holds the kernel semaphore                                    *)
(* "naked"   runs sys_ThreadExit() without the kernel lock                 *)
(* "push"    entered cv_wait(), holds kernel_mutex                         *)
(* "pushed"  in the ring, holds waitset_lock                               *)
(* "asleep"  in sleep_releasing(), STOPPED or woken up                     *)
(* "relock"  woken up and out of the ring, wants kernel_mutex              *)
(* "signal"  entered Cond_Signal(), "loop" with waitset_lock;              *)
(* "bcast"   entered Cond_Broadcast(), "bloop" with waitset_lock           *)
(* "unlock"  about to unlock kernel_mutex and leave the kernel             *)
(* "exit"    about to unlock kernel_mutex in sleep_releasing(EXITED);      *)
(* "intrude" the same, of a thread that had not locked the kernel          *)
(* "dead"    EXITED                                                        *)
(***************************************************************************)
PC == {"user", "test", "kernel", "naked", "push", "pushed", "asleep", "relock",
       "signal", "loop", "bcast", "bloop", "unlock", "exit", "intrude", "dead"}

TypeOK ==
  /\ pc \in [Threads -> PC]
  /\ kernel_mutex \in Threads \cup {Nobody}
  /\ kernel_sem \in Nat
  /\ waitset \in [CVs -> Seq(Threads)]
  /\ waitset_lock \in [CVs -> Threads \cup {Nobody}]
  /\ stopped \in [Threads -> BOOLEAN]
  /\ cv \in [Threads -> CVs]
  /\ timed \in [Threads -> BOOLEAN]
  /\ signalled \in [Threads -> BOOLEAN]
  /\ removed \in [Threads -> BOOLEAN]
  /\ then \in [Threads ->
               {"unlock", "push", "exit", "intrude", "kernel", "user"}]

Init ==
  /\ pc = [t \in Threads |-> "user"]
  /\ kernel_mutex = Nobody
  /\ kernel_sem = 1
  /\ waitset = [v \in CVs |-> << >>]
  /\ waitset_lock = [v \in CVs |-> Nobody]
  /\ stopped = [t \in Threads |-> FALSE]
  /\ cv = [t \in Threads |-> kernel_sem_cv]
  /\ timed = [t \in Threads |-> FALSE]
  /\ signalled = [t \in Threads |-> FALSE]
  /\ removed = [t \in Threads |-> FALSE]
  /\ then = [t \in Threads |-> "user"]

(***************************************************************************)
(* Definitions named Bug... are mistakes one could make in the definition  *)
(* that follows them.  Nothing uses them: each shows that some property    *)
(* below would notice.                                                     *)
(***************************************************************************)

Goto(t, from, to) == pc[t] = from /\ pc' = [pc EXCEPT ![t] = to]

\* Mutex_Lock() and Mutex_Unlock() of kernel_mutex.
LockKernelMutex(t) == kernel_mutex = Nobody /\ kernel_mutex' = t
UnlockKernelMutex  == kernel_mutex' = Nobody

\* waitset_lock, once that of v is unlocked.
BugStaysLocked(v) == waitset_lock
WithUnlocked(v) == [waitset_lock EXCEPT ![v] = Nobody]

-----------------------------------------------------------------------------
(***************************************************************************)
(* The kernel semaphore.                                                   *)
(***************************************************************************)

\* kernel_lock(): a system call starts.
KernelLock(t) ==
  /\ Goto(t, "user", "test")
  /\ LockKernelMutex(t)
  /\ UNCHANGED <<kernel_sem, waitset, waitset_lock, stopped, cv, timed,
                 signalled, removed, then>>

\* The loop of kernel_lock() and kernel_wait_wchan() ends: the kernel is ours.
BugEnterAnyway(t) == TRUE
MayEnter(t) == kernel_sem > 0

BugNotTaken == kernel_sem
Taken == kernel_sem - 1

Acquire(t) ==
  /\ MayEnter(t)
  /\ Goto(t, "test", "kernel")
  /\ kernel_sem' = Taken
  /\ UnlockKernelMutex
  /\ UNCHANGED <<waitset, waitset_lock, stopped, cv, timed, signalled, removed,
                 then>>

\* ... or goes on, with Cond_Wait(&kernel_mutex, &kernel_sem_cv).
WaitForSemaphore(t) ==
  /\ ~ MayEnter(t)
  /\ Goto(t, "test", "push")
  /\ cv' = [cv EXCEPT ![t] = kernel_sem_cv]
  /\ timed' = [timed EXCEPT ![t] = FALSE]
  /\ UNCHANGED <<kernel_mutex, kernel_sem, waitset, waitset_lock, stopped,
                 signalled, removed, then>>

(***************************************************************************)
(* The common start of kernel_unlock(), kernel_wait_wchan() and            *)
(* kernel_sleep(): lock kernel_mutex, increment kernel_sem and call        *)
(* Cond_Signal(&kernel_sem_cv).                                            *)
(***************************************************************************)
Release(t, from, next) ==
  /\ Goto(t, from, "signal")
  /\ LockKernelMutex(t)
  /\ kernel_sem' = kernel_sem + 1
  /\ then' = [then EXCEPT ![t] = next]
  /\ UNCHANGED <<waitset, waitset_lock, stopped, signalled, removed>>

\* kernel_unlock(): the system call returns.
KernelUnlock(t) == Release(t, "kernel", "unlock") /\ UNCHANGED <<cv, timed>>

\* kernel_wait_wchan() on channel c, with or without a timeout.
KernelWait(t, c, with_timeout) ==
  /\ Release(t, "kernel", "push")
  /\ cv' = [cv EXCEPT ![t] = c]
  /\ timed' = [timed EXCEPT ![t] = with_timeout]

(***************************************************************************)
(* kernel_sleep(EXITED): the end of sys_ThreadExit(), reached with the     *)
(* kernel locked, or from start_process_thread(), which does not lock it.  *)
(***************************************************************************)
KernelSleep(t) ==
  /\ \/ Release(t, "kernel", "exit")
     \/ Release(t, "naked", "intrude")
  /\ UNCHANGED <<cv, timed>>

\* start_process_thread(): the task returned; sys_ThreadExit() is called.
TaskReturns(t) ==
  /\ t \in ReturningThreads
  /\ Goto(t, "user", "naked")
  /\ UNCHANGED <<kernel_mutex, kernel_sem, waitset, waitset_lock, stopped, cv,
                 timed, signalled, removed, then>>

\* The Mutex_Unlock() at the end of kernel_unlock(), or the one that
\* sleep_releasing() does for kernel_sleep().
LeaveKernel(t) ==
  /\ \/ Goto(t, "unlock", "user")
     \/ Goto(t, "exit", "dead")
     \/ Goto(t, "intrude", "dead")
  /\ UnlockKernelMutex
  /\ UNCHANGED <<kernel_sem, waitset, waitset_lock, stopped, cv, timed,
                 signalled, removed, then>>

-----------------------------------------------------------------------------
(***************************************************************************)
(* cv_wait()                                                               *)
(***************************************************************************)

\* Bug: the waiter lets go of waitset_lock when it lets go of the mutex.
BugCvPush(t) ==
  /\ Goto(t, "push", "pushed")
  /\ waitset_lock[cv[t]] = Nobody
  /\ waitset' = [waitset EXCEPT ![cv[t]] = Append(@, t)]
  /\ signalled' = [signalled EXCEPT ![t] = FALSE]
  /\ removed' = [removed EXCEPT ![t] = FALSE]
  /\ UnlockKernelMutex
  /\ UNCHANGED <<kernel_sem, waitset_lock, stopped, cv, timed, then>>

\* Join the ring under waitset_lock, then unlock the mutex.
CvPush(t) ==
  /\ Goto(t, "push", "pushed")
  /\ waitset_lock[cv[t]] = Nobody
  /\ waitset_lock' = [waitset_lock EXCEPT ![cv[t]] = t]
  /\ waitset' = [waitset EXCEPT ![cv[t]] = Append(@, t)]
  /\ signalled' = [signalled EXCEPT ![t] = FALSE]
  /\ removed' = [removed EXCEPT ![t] = FALSE]
  /\ UnlockKernelMutex
  /\ UNCHANGED <<kernel_sem, stopped, cv, timed, then>>

\* sleep_releasing(STOPPED, &waitset_lock): both at once, under sched_spinlock.
CvSleep(t) ==
  /\ Goto(t, "pushed", "asleep")
  /\ stopped' = [stopped EXCEPT ![t] = TRUE]
  /\ waitset_lock' = WithUnlocked(cv[t])
  /\ UNCHANGED <<kernel_mutex, kernel_sem, waitset, cv, timed, signalled,
                 removed, then>>

\* The scheduler wakes a sleeper whose timeout expired.
Timeout(t) ==
  /\ pc[t] = "asleep" /\ stopped[t] /\ timed[t]
  /\ stopped' = [stopped EXCEPT ![t] = FALSE]
  /\ UNCHANGED <<pc, kernel_mutex, kernel_sem, waitset, waitset_lock, cv,
                 timed, signalled, removed, then>>

(***************************************************************************)
(* A waiter that nobody removed leaves the ring itself.                    *)
(***************************************************************************)
BugNoCleanup(t) == UNCHANGED waitset

LeaveRing(t) ==
  \/ removed[t] /\ UNCHANGED waitset
  \/ /\ ~ removed[t]
     /\ \E i \in DOMAIN waitset[cv[t]] :
          /\ waitset[cv[t]][i] = t
          /\ waitset' = [waitset EXCEPT ![cv[t]] = RemoveAt(@, i)]

\* The waiter runs again, under waitset_lock.
CvWoken(t) ==
  /\ ~ stopped[t]
  /\ Goto(t, "asleep", "relock")
  /\ waitset_lock[cv[t]] = Nobody
  /\ LeaveRing(t)
  /\ UNCHANGED <<kernel_mutex, kernel_sem, waitset_lock, stopped, cv, timed,
                 signalled, removed, then>>

\* ... and returns with the mutex locked, to the loop that tests kernel_sem.
\* The frame of cv_wait() is gone.
CvRelock(t) ==
  /\ Goto(t, "relock", "test")
  /\ LockKernelMutex(t)
  /\ timed' = [timed EXCEPT ![t] = FALSE]
  /\ signalled' = [signalled EXCEPT ![t] = FALSE]
  /\ removed' = [removed EXCEPT ![t] = FALSE]
  /\ UNCHANGED <<kernel_sem, waitset, waitset_lock, stopped, cv, then>>

-----------------------------------------------------------------------------
(***************************************************************************)
(* Cond_Signal() and Cond_Broadcast().                                     *)
(***************************************************************************)

\* A thread signals the channel it named, or kernel_sem_cv on its way out.
SignalCV(t) == IF then[t] \in {"kernel", "user"} THEN cv[t] ELSE kernel_sem_cv

(***************************************************************************)
(* kernel_signal() and kernel_broadcast() of a system call, and, from      *)
(* "user", the Cond_Broadcast() of an interrupt handler that borrows the   *)
(* thread.                                                                 *)
(***************************************************************************)
Notify(t, c) ==
  /\ \/ Goto(t, "kernel", "signal") /\ then' = [then EXCEPT ![t] = "kernel"]
     \/ Goto(t, "kernel", "bcast") /\ then' = [then EXCEPT ![t] = "kernel"]
     \/ Goto(t, "user", "bcast") /\ then' = [then EXCEPT ![t] = "user"]
  /\ cv' = [cv EXCEPT ![t] = c]
  /\ UNCHANGED <<kernel_mutex, kernel_sem, waitset, waitset_lock, stopped,
                 timed, signalled, removed>>

LockWaitset(t) ==
  /\ \/ Goto(t, "signal", "loop")
     \/ Goto(t, "bcast", "bloop")
  /\ waitset_lock[SignalCV(t)] = Nobody
  /\ waitset_lock' = [waitset_lock EXCEPT ![SignalCV(t)] = t]
  /\ UNCHANGED <<kernel_mutex, kernel_sem, waitset, stopped, cv, timed,
                 signalled, removed, then>>

(***************************************************************************)
(* One iteration of the loop of cv_signal(): remove the head, and wake it  *)
(* up unless its timeout did so already.  Cond_Signal() stops at the first *)
(* thread it wakes, Cond_Broadcast() goes on.                              *)
(***************************************************************************)
BugStops(t, w) == pc[t] = "loop"
Stops(t, w) == pc[t] = "loop" /\ stopped[w]

SignalOne(t) ==
  LET v == SignalCV(t)
      w == Head(waitset[v])
  IN  /\ pc[t] \in {"loop", "bloop"}
      /\ waitset[v] # << >>
      /\ waitset' = [waitset EXCEPT ![v] = Tail(@)]
      /\ removed' = [removed EXCEPT ![w] = TRUE]
      /\ signalled' = [signalled EXCEPT ![w] = stopped[w]]
      /\ stopped' = [stopped EXCEPT ![w] = FALSE]
      /\ IF Stops(t, w)
         THEN /\ pc' = [pc EXCEPT ![t] = then[t]]
              /\ waitset_lock' = WithUnlocked(v)
         ELSE UNCHANGED <<pc, waitset_lock>>
      /\ UNCHANGED <<kernel_mutex, kernel_sem, cv, timed, then>>

\* The ring is empty: the loop ends.
SignalEnd(t) ==
  LET v == SignalCV(t)
  IN  /\ pc[t] \in {"loop", "bloop"}
      /\ waitset[v] = << >>
      /\ pc' = [pc EXCEPT ![t] = then[t]]
      /\ waitset_lock' = WithUnlocked(v)
      /\ UNCHANGED <<kernel_mutex, kernel_sem, waitset, stopped, cv, timed,
                     signalled, removed, then>>

(***************************************************************************)
(* Nothing can happen any more: every thread is dead or waits on a channel *)
(* for a signal that no thread is left to give.                            *)
(***************************************************************************)
Halted ==
  /\ \A t \in Threads : \/ pc[t] = "dead"
                        \/ stopped[t] /\ ~ timed[t] /\ cv[t] \in Channels
  /\ UNCHANGED vars

\* What a thread does once it has begun it.
Step(t) ==
  \/ Acquire(t) \/ WaitForSemaphore(t) \/ LeaveKernel(t)
  \/ CvPush(t) \/ CvSleep(t) \/ CvWoken(t) \/ CvRelock(t)
  \/ LockWaitset(t) \/ SignalOne(t) \/ SignalEnd(t)

Next ==
  \/ \E t \in Threads :
       \/ Step(t)
       \/ KernelLock(t) \/ KernelUnlock(t) \/ KernelSleep(t) \/ TaskReturns(t)
       \/ Timeout(t)
       \/ \E c \in Channels :
            \/ \E with_timeout \in BOOLEAN : KernelWait(t, c, with_timeout)
            \/ Notify(t, c)
  \/ Halted

Spec == Init /\ [][Next]_vars

-----------------------------------------------------------------------------
(***************************************************************************)
(* Safety.                                                                 *)
(***************************************************************************)

\* Threads that took the semaphore and did not give it back: inside a system
\* call, perhaps signalling a channel.
Inside == {t \in Threads :
             \/ pc[t] = "kernel"
             \/ pc[t] \in {"signal", "loop", "bcast", "bloop"} /\ then[t] = "kernel"}

(***************************************************************************)
(* The kernel lock excludes: at most one thread is inside the kernel.      *)
(***************************************************************************)
KernelExclusion == \A t, u \in Inside : t = u

\* Threads that gave the semaphore back without having taken it.
Intruders == {t \in Threads :
                /\ then[t] = "intrude"
                /\ pc[t] \in {"signal", "loop", "intrude", "dead"}}

(***************************************************************************)
(* Kernel exclusion holds as long as no thread left the kernel that had    *)
(* not entered it.                                                         *)
(***************************************************************************)
KernelExclusionUnlessIntruded == Intruders = {} => KernelExclusion

\* The semaphore never loses or gains a unit, but for those of intruders.
SemaphoreExact == kernel_sem + Cardinality(Inside) = 1 + Cardinality(Intruders)

InCvWait(t) == pc[t] \in {"pushed", "asleep"}

(***************************************************************************)
(* The rings hold exactly the waiters that are in cv_wait() and that no    *)
(* signal removed, each once, in the ring of the condition it waits for.   *)
(* A __cv_waiter lives on the stack of cv_wait(): one that stayed behind   *)
(* in a ring would be a dangling pointer.                                  *)
(***************************************************************************)
RingsExact ==
  /\ \A v \in CVs, t \in Threads :
       t \in ToSet(waitset[v]) <=> InCvWait(t) /\ cv[t] = v /\ ~ removed[t]
  /\ \A v \in CVs : IsInjective(waitset[v])

(***************************************************************************)
(* A waiter is STOPPED exactly while nothing woke it, and what cv_wait()   *)
(* returns is true: a wait without a timeout ends only by a signal, and a  *)
(* signalled waiter is out of the ring (the assertion at kernel_cc.c:143). *)
(***************************************************************************)
SignalsTrue ==
  \A t \in Threads :
    /\ stopped[t] => pc[t] = "asleep" /\ ~ signalled[t] /\ ~ removed[t]
    /\ signalled[t] => removed[t]
    /\ pc[t] \in {"asleep", "relock"} /\ ~ stopped[t] /\ ~ timed[t] =>
         signalled[t]

(***************************************************************************)
(* No lost wake-up: while the semaphore is free and a thread sleeps on it, *)
(* some thread is on its way to test it, or to signal it.                  *)
(***************************************************************************)
OnItsWay(t) ==
  \/ pc[t] \in {"relock", "test"}
  \/ pc[t] = "asleep" /\ ~ stopped[t]
  \/ pc[t] \in {"signal", "loop"} /\ then[t] \notin {"kernel", "user"}

NoLostWakeup ==
  kernel_sem > 0 /\ (\E t \in Threads : stopped[t] /\ cv[t] = kernel_sem_cv) =>
    \E t \in Threads : OnItsWay(t)

(***************************************************************************)
(* What makes the invariants above inductive.  Who holds a lock can be     *)
(* read off from where the threads are; and each unit of the semaphore has *)
(* a thread of its own on its way to it, as long as anybody waits for one. *)
(***************************************************************************)
HoldsKernelMutex(t) ==
  \/ pc[t] \in {"test", "push", "unlock", "exit", "intrude"}
  \/ pc[t] \in {"signal", "loop"} /\ then[t] \notin {"kernel", "user"}

HoldsWaitsetLock(t, v) ==
  \/ pc[t] = "pushed" /\ cv[t] = v
  \/ pc[t] \in {"loop", "bloop"} /\ SignalCV(t) = v

ThreadsAgree ==
  \A t \in Threads :
    /\ kernel_mutex = t <=> HoldsKernelMutex(t)
    /\ \A v \in CVs : waitset_lock[v] = t <=> HoldsWaitsetLock(t, v)
    /\ pc[t] \in {"bcast", "bloop"} => then[t] \in {"kernel", "user"}
    /\ pc[t] \in {"signal", "loop"} /\ then[t] = "push" => cv[t] \in Channels
    /\ pc[t] \in {"unlock", "exit", "intrude"} => then[t] = pc[t]
    /\ pc[t] = "pushed" => ~ removed[t]
    /\ pc[t] = "naked" \/ then[t] = "intrude" => t \in ReturningThreads

WaitsForSemaphore(t) ==
  /\ cv[t] = kernel_sem_cv
  /\ pc[t] \in {"push", "pushed"} \/ (pc[t] = "asleep" /\ stopped[t])

OnTheirWay == {t \in Threads : OnItsWay(t)}

WakeupsSuffice ==
  (\E t \in Threads : WaitsForSemaphore(t)) =>
    kernel_sem <= Cardinality(OnTheirWay)

(***************************************************************************)
(* A signal is not spent on a waiter that a timeout woke already: when     *)
(* Cond_Signal() ends without waking anybody, nobody sleeps on its         *)
(* condition.                                                              *)
(***************************************************************************)
SignalFindsSleeper ==
  [][\A t \in Threads : pc[t] = "loop" /\ pc'[t] # "loop" =>
       \/ \E u \in Threads : stopped[u] /\ ~ stopped'[u] /\ cv[u] = SignalCV(t)
       \/ \A u \in Threads : stopped[u] => cv[u] # SignalCV(t)]_vars

-----------------------------------------------------------------------------
(***************************************************************************)
(* Liveness.  The threads are scheduled: what one has begun goes on, and a *)
(* thread that keeps spinning on a Mutex that is free again and again gets *)
(* it.  Nothing makes a thread call the kernel, or leave it.               *)
(***************************************************************************)
FairSpec == Spec /\ \A t \in Threads : SF_vars(Step(t)) /\ WF_vars(Timeout(t))

(***************************************************************************)
(* The kernel does not stay idle while a thread wants it: the monitor does *)
(* not deadlock and loses no wake-up.  (Which thread gets in is open: a    *)
(* newcomer may overtake a waiter that was just signalled.)                *)
(***************************************************************************)
Wants(t) == \/ pc[t] \in {"test", "relock"}
            \/ pc[t] \in {"push", "pushed", "asleep"} /\ cv[t] = kernel_sem_cv
            \/ pc[t] = "asleep" /\ ~ stopped[t]

KernelIsUsed == (\E t \in Threads : Wants(t)) ~> Inside # {}

\* A timed wait ends, whether or not it is ever signalled.
TimedWaitEnds ==
  \A t \in Threads : pc[t] = "pushed" /\ timed[t] ~> pc[t] = "test"

=============================================================================
