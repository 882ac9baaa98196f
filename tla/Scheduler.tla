------------------------------ MODULE Scheduler ------------------------------
(***************************************************************************)
(* The multi-core thread scheduler of tinyos3 (kernel_sched.c).            *)
(*                                                                         *)
(* Every core runs one thread (CURTHREAD) and calls yield() to hand the    *)
(* core to another one, either because the thread wants it or because the  *)
(* ALARM of its quantum calls yield_handler().  A switch has two halves:   *)
(* yield() chooses the next thread under sched_spinlock, the contexts are  *)
(* swapped with NO lock held, and gain() -- already on the stack of the    *)
(* new thread -- takes sched_spinlock again to retire the previous one.    *)
(* Between the halves the other cores may wake, select or free threads;    *)
(* the `phase' of a TCB is what keeps them off a half-saved context.       *)
(*                                                                         *)
(* Grain.  A section under sched_spinlock is one step, except the one of   *)
(* yield(), which is a loop: it takes the lock in YieldBegin, wakes one    *)
(* expired sleeper per ExpireOne and lets go of the lock in Select.        *)
(*                                                                         *)
(* A TCB is named by a member of Threads, or, for the idle thread that is  *)
(* embedded in the CCB of a core, by the core itself.                      *)
(***************************************************************************)
EXTENDS Integers, Sequences, SequencesExt, FiniteSets

CONSTANTS Cores,        \* the cores of the machine
          Threads,      \* names for the TCBs of normal threads
          InitThread,   \* the thread that boot_tinyos_kernel() Execs
          Timeouts,     \* the finite timeouts threads sleep with
          NO_TIMEOUT,   \* (TimerDuration)-1
          MaxTime,      \* bound on bios_clock()
          NoCore        \* "nobody holds the spinlock"

ASSUME NamesAssumption ==
  /\ Cores \cap Threads = {}
  /\ NoCore \notin Cores
  /\ InitThread \in Threads
  /\ IsFiniteSet(Threads)

\* Times of the model stay below NO_TIMEOUT, the largest TimerDuration.
ASSUME TimeAssumption ==
  /\ MaxTime \in Nat
  /\ NO_TIMEOUT \in Nat
  /\ \A d \in Timeouts : d \in Nat /\ MaxTime + d < NO_TIMEOUT

VARIABLES
  state,            \* TCB.state; "FREE" for memory that holds no TCB
  phase,            \* TCB.phase
  wakeup_time,      \* TCB.wakeup_time
  SCHED,            \* the scheduler queue
  TIMEOUT_LIST,     \* sleepers with a timeout, by wakeup_time
  sched_spinlock,   \* its holder, when held over several steps
  current_thread,   \* CCB.current_thread (CURTHREAD) of each core
  previous_thread,  \* CCB.previous_thread of each core
  pc,               \* where each core is in the scheduler
  curtime,          \* the clock as read by sched_wakeup_expired_timeouts()
  active_threads,
  clock             \* bios_clock()

vars == <<state, phase, wakeup_time, SCHED, TIMEOUT_LIST, sched_spinlock,
          current_thread, previous_thread, pc, curtime, active_threads, clock>>

TCB == Threads \cup Cores

Thread_state == {"FREE", "INIT", "READY", "RUNNING", "STOPPED", "EXITED"}

(***************************************************************************)
(* "run"    the core executes its thread, outside the scheduler            *)
(* "slept"  sleep_releasing() is done and has not called yield() yet       *)
(* "expire" yield() holds sched_spinlock                                   *)
(* "gain"   yield() chose; gain() has not taken sched_spinlock yet         *)
(* "left"   the idle thread returned: the core left the scheduler          *)
(***************************************************************************)
PC == {"run", "slept", "expire", "gain", "left"}

TypeOK ==
  /\ state \in [TCB -> Thread_state]
  /\ phase \in [TCB -> {"CLEAN", "DIRTY"}]
  /\ wakeup_time \in [TCB -> Nat]
  /\ SCHED \in Seq(TCB)
  /\ TIMEOUT_LIST \in Seq(TCB)
  /\ sched_spinlock \in Cores \cup {NoCore}
  /\ current_thread \in [Cores -> TCB]
  /\ previous_thread \in [Cores -> TCB]
  /\ pc \in [Cores -> PC]
  /\ curtime \in [Cores -> Nat]
  /\ active_threads \in Nat
  /\ clock \in 0..MaxTime

(***************************************************************************)
(* run_scheduler() on every core, after boot_tinyos_kernel() spawned and   *)
(* woke the init thread.                                                   *)
(***************************************************************************)
Init ==
  /\ state = [t \in TCB |-> IF t \in Cores THEN "RUNNING"
                            ELSE IF t = InitThread THEN "READY" ELSE "FREE"]
  /\ phase = [t \in TCB |-> IF t \in Cores THEN "DIRTY" ELSE "CLEAN"]
  /\ wakeup_time = [t \in TCB |-> NO_TIMEOUT]
  /\ SCHED = <<InitThread>>
  /\ TIMEOUT_LIST = << >>
  /\ sched_spinlock = NoCore
  /\ current_thread = [c \in Cores |-> c]
  /\ previous_thread = [c \in Cores |-> c]
  /\ pc = [c \in Cores |-> "run"]
  /\ curtime = [c \in Cores |-> 0]
  /\ active_threads = 1
  /\ clock = 0

-----------------------------------------------------------------------------

(***************************************************************************)
(* Definitions named Bug... are mistakes one could make in the definition  *)
(* that follows them.  Nothing uses them: each shows that some property    *)
(* below would notice.                                                     *)
(***************************************************************************)

\* sched_queue_add() without the restart of a halted core.
sched_queue_add(t) == Append(SCHED, t)

BugQueueDirty(t) == sched_queue_add(t)
BugQueueNever(t) == SCHED

\* The queue once t was made READY: a DIRTY t is left for gain() to queue.
QueueIfClean(t) == IF phase[t] = "CLEAN" THEN sched_queue_add(t) ELSE SCHED

(***************************************************************************)
(* sched_register_timeout(): insert before the first later entry.  The     *)
(* sleeper that asks for NO_TIMEOUT is not registered.                     *)
(***************************************************************************)
BugInsertFront(w, i) == i = 1

InsertionPoint(w, i) ==
  /\ \A j \in 1..(i - 1) : wakeup_time[TIMEOUT_LIST[j]] <= w
  /\ i <= Len(TIMEOUT_LIST) => w < wakeup_time[TIMEOUT_LIST[i]]

sched_register_timeout(t, timeout) ==
  \/ /\ timeout = NO_TIMEOUT
     /\ UNCHANGED <<wakeup_time, TIMEOUT_LIST>>
  \/ /\ timeout # NO_TIMEOUT
     /\ wakeup_time' = [wakeup_time EXCEPT ![t] = clock + timeout]
     /\ \E i \in 1..(Len(TIMEOUT_LIST) + 1) :
          /\ InsertionPoint(clock + timeout, i)
          /\ TIMEOUT_LIST' = InsertAt(TIMEOUT_LIST, i, t)

(***************************************************************************)
(* sched_make_ready().  A TCB with a wakeup_time that is not in            *)
(* TIMEOUT_LIST fails the assertion there: no step is possible.            *)
(***************************************************************************)
sched_make_ready(t) ==
  /\ \/ /\ wakeup_time[t] = NO_TIMEOUT
        /\ UNCHANGED TIMEOUT_LIST
     \/ /\ wakeup_time[t] # NO_TIMEOUT
        /\ \E i \in DOMAIN TIMEOUT_LIST :
             /\ TIMEOUT_LIST[i] = t
             /\ TIMEOUT_LIST' = RemoveAt(TIMEOUT_LIST, i)
  /\ wakeup_time' = [wakeup_time EXCEPT ![t] = NO_TIMEOUT]
  /\ state' = [state EXCEPT ![t] = "READY"]
  /\ SCHED' = QueueIfClean(t)

-----------------------------------------------------------------------------

\* spawn_thread(): the caller, a normal thread, keeps the core.
Spawn(c, t) ==
  /\ pc[c] = "run"
  /\ current_thread[c] \in Threads
  /\ state[t] = "FREE"
  /\ state' = [state EXCEPT ![t] = "INIT"]
  /\ phase' = [phase EXCEPT ![t] = "CLEAN"]
  /\ wakeup_time' = [wakeup_time EXCEPT ![t] = NO_TIMEOUT]
  /\ active_threads' = active_threads + 1
  /\ UNCHANGED <<SCHED, TIMEOUT_LIST, sched_spinlock, current_thread,
                 previous_thread, pc, curtime, clock>>

(***************************************************************************)
(* wakeup(): from a thread, or from an interrupt handler (so that the      *)
(* current thread of the core may be the idle one).  A call on a TCB in    *)
(* another state returns 0 and changes nothing.                            *)
(***************************************************************************)
Wakeup(c, t) ==
  /\ pc[c] = "run"
  /\ sched_spinlock = NoCore
  /\ state[t] \in {"STOPPED", "INIT"}
  /\ sched_make_ready(t)
  /\ UNCHANGED <<phase, sched_spinlock, current_thread, previous_thread, pc,
                 curtime, active_threads, clock>>

(***************************************************************************)
(* sleep_releasing(STOPPED, ...) up to its call of yield(), which cannot   *)
(* be interrupted but may find sched_spinlock taken.                       *)
(***************************************************************************)
Sleep(c, timeout) ==
  /\ pc[c] = "run"
  /\ current_thread[c] \in Threads
  /\ sched_spinlock = NoCore
  /\ state' = [state EXCEPT ![current_thread[c]] = "STOPPED"]
  /\ sched_register_timeout(current_thread[c], timeout)
  /\ pc' = [pc EXCEPT ![c] = "slept"]
  /\ UNCHANGED <<phase, SCHED, sched_spinlock, current_thread,
                 previous_thread, curtime, active_threads, clock>>

\* sleep_releasing(EXITED, ...): the last thing a thread does.
Exit(c) ==
  /\ pc[c] = "run"
  /\ current_thread[c] \in Threads
  /\ sched_spinlock = NoCore
  /\ state' = [state EXCEPT ![current_thread[c]] = "EXITED"]
  /\ pc' = [pc EXCEPT ![c] = "slept"]
  /\ UNCHANGED <<phase, wakeup_time, SCHED, TIMEOUT_LIST, sched_spinlock,
                 current_thread, previous_thread, curtime, active_threads,
                 clock>>

(***************************************************************************)
(* yield(), first part: voluntary, from sleep_releasing(), or from the     *)
(* ALARM handler.                                                          *)
(***************************************************************************)
BugStaysRunning(t) == state

Demoted(t) ==
  IF state[t] = "RUNNING" THEN [state EXCEPT ![t] = "READY"] ELSE state

YieldBegin(c) ==
  /\ pc[c] \in {"run", "slept"}
  /\ sched_spinlock = NoCore
  /\ sched_spinlock' = c
  /\ state' = Demoted(current_thread[c])
  /\ curtime' = [curtime EXCEPT ![c] = clock]
  /\ pc' = [pc EXCEPT ![c] = "expire"]
  /\ UNCHANGED <<phase, wakeup_time, SCHED, TIMEOUT_LIST, current_thread,
                 previous_thread, active_threads, clock>>

BugExpiredLate(c) ==
  /\ TIMEOUT_LIST # << >>
  /\ wakeup_time[Head(TIMEOUT_LIST)] < curtime[c]

HeadExpired(c) ==
  /\ TIMEOUT_LIST # << >>
  /\ wakeup_time[Head(TIMEOUT_LIST)] <= curtime[c]

\* One iteration of sched_wakeup_expired_timeouts().
ExpireOne(c) ==
  /\ pc[c] = "expire"
  /\ HeadExpired(c)
  /\ sched_make_ready(Head(TIMEOUT_LIST))
  /\ UNCHANGED <<phase, sched_spinlock, current_thread, previous_thread, pc,
                 curtime, active_threads, clock>>

\* sched_queue_select()
sched_queue_select(c) ==
  IF SCHED # << >> THEN Head(SCHED)
  ELSE IF state[current_thread[c]] = "READY" THEN current_thread[c]
  ELSE c

\* yield(), last part: choose, unlock, and switch to the context chosen.
Select(c) ==
  /\ pc[c] = "expire"
  /\ ~ HeadExpired(c)
  /\ SCHED' = IF SCHED # << >> THEN Tail(SCHED) ELSE SCHED
  /\ previous_thread' = [previous_thread EXCEPT ![c] = current_thread[c]]
  /\ current_thread' = [current_thread EXCEPT ![c] = sched_queue_select(c)]
  /\ sched_spinlock' = NoCore
  /\ pc' = [pc EXCEPT ![c] = "gain"]
  /\ UNCHANGED <<state, phase, wakeup_time, TIMEOUT_LIST, curtime,
                 active_threads, clock>>

-----------------------------------------------------------------------------

\* gain() when yield() chose the thread that called it.
GainSame(c) ==
  /\ pc[c] = "gain"
  /\ sched_spinlock = NoCore
  /\ current_thread[c] = previous_thread[c]
  /\ state' = [state EXCEPT ![current_thread[c]] = "RUNNING"]
  /\ phase' = [phase EXCEPT ![current_thread[c]] = "DIRTY"]
  /\ pc' = [pc EXCEPT ![c] = "run"]
  /\ UNCHANGED <<wakeup_time, SCHED, TIMEOUT_LIST, sched_spinlock,
                 current_thread, previous_thread, curtime, active_threads,
                 clock>>

(***************************************************************************)
(* gain() after a switch: the context of the previous thread is saved by   *)
(* now, so a READY one may be queued and an EXITED one freed.  The idle    *)
(* threads are never queued.                                               *)
(***************************************************************************)
QueueAfterGain(prev) ==
  IF state[prev] = "READY" /\ prev \in Threads
  THEN sched_queue_add(prev) ELSE SCHED

BugNeverCountsDown(prev) == active_threads

\* release_TCB() decrements active_threads.
ThreadsAfterGain(prev) ==
  IF state[prev] = "EXITED" THEN active_threads - 1 ELSE active_threads

GainSwitch(c) ==
  LET current == current_thread[c]
      prev == previous_thread[c]
  IN  /\ pc[c] = "gain"
      /\ sched_spinlock = NoCore
      /\ current # prev
      /\ state' = [state EXCEPT ![current] = "RUNNING",
                                ![prev] = IF @ = "EXITED" THEN "FREE" ELSE @]
      /\ phase' = [phase EXCEPT ![current] = "DIRTY", ![prev] = "CLEAN"]
      /\ SCHED' = QueueAfterGain(prev)
      /\ active_threads' = ThreadsAfterGain(prev)
      /\ pc' = [pc EXCEPT ![c] = "run"]
      /\ UNCHANGED <<wakeup_time, TIMEOUT_LIST, sched_spinlock,
                     current_thread, previous_thread, curtime, clock>>

\* idle_thread() finds no active thread and returns.
IdleExit(c) ==
  /\ pc[c] = "run"
  /\ current_thread[c] = c
  /\ active_threads = 0
  /\ pc' = [pc EXCEPT ![c] = "left"]
  /\ UNCHANGED <<state, phase, wakeup_time, SCHED, TIMEOUT_LIST,
                 sched_spinlock, current_thread, previous_thread, curtime,
                 active_threads, clock>>

Tick ==
  /\ clock < MaxTime
  /\ clock' = clock + 1
  /\ UNCHANGED <<state, phase, wakeup_time, SCHED, TIMEOUT_LIST,
                 sched_spinlock, current_thread, previous_thread, pc, curtime,
                 active_threads>>

\* Every core left the scheduler: the machine shuts down.
Shutdown ==
  /\ \A c \in Cores : pc[c] = "left"
  /\ UNCHANGED vars

Next ==
  \/ \E c \in Cores :
       \/ \E t \in Threads : Spawn(c, t) \/ Wakeup(c, t)
       \/ \E timeout \in Timeouts \cup {NO_TIMEOUT} : Sleep(c, timeout)
       \/ Exit(c)
       \/ YieldBegin(c)
       \/ ExpireOne(c)
       \/ Select(c)
       \/ GainSame(c)
       \/ GainSwitch(c)
       \/ IdleExit(c)
  \/ Tick
  \/ Shutdown

Spec == Init /\ [][Next]_vars

-----------------------------------------------------------------------------
(***************************************************************************)
(* Safety.                                                                 *)
(***************************************************************************)

Switching(c) == pc[c] = "gain" /\ previous_thread[c] # current_thread[c]

(***************************************************************************)
(* The queue and the states never disagree: a normal thread is queued      *)
(* exactly when it is READY, its context is saved, and no core has already *)
(* chosen it.  A READY thread that were missing would be lost forever, a   *)
(* queued one in another state would run twice or run after its end.  This *)
(* is the invariant kernel_sched.h:58-63 is after.  No thread is queued    *)
(* twice either: its sched_node can be linked in one place only.           *)
(***************************************************************************)
QueueExact ==
  /\ \A t \in TCB :
       t \in ToSet(SCHED) <=> /\ t \in Threads
                              /\ state[t] = "READY"
                              /\ phase[t] = "CLEAN"
                              /\ \A c \in Cores : current_thread[c] # t
  /\ IsInjective(SCHED)

(***************************************************************************)
(* A stack is used by one core at a time, from the moment a core chooses a *)
(* thread until gain() retired it: no two cores run one thread, and no     *)
(* core runs a thread whose context another core is still saving.  An idle *)
(* thread runs on its own core only.                                       *)
(***************************************************************************)
OneCorePerStack ==
  /\ \A c \in Cores : current_thread[c] \in Threads \cup {c}
  /\ \A c, d \in Cores : c # d =>
       /\ current_thread[c] # current_thread[d]
       /\ Switching(c) => previous_thread[c] # current_thread[d]
       /\ Switching(c) /\ Switching(d) =>
            previous_thread[c] # previous_thread[d]

(***************************************************************************)
(* gain() finds the previous thread READY, EXITED or STOPPED: its          *)
(* assert(0) at kernel_sched.c:489 cannot fail, and neither the thread it  *)
(* retires nor the one it resumes was freed meanwhile.                     *)
(***************************************************************************)
GainAssertion ==
  \A c \in Cores : pc[c] = "gain" =>
    /\ state[previous_thread[c]] \in {"READY", "EXITED", "STOPPED"}
    /\ state[current_thread[c]] = "READY"

(***************************************************************************)
(* A TCB has a wakeup_time exactly when it is linked in TIMEOUT_LIST, and  *)
(* then it is STOPPED: the assertion of sched_make_ready() holds, and the  *)
(* node that TIMEOUT_LIST shares with SCHED is never in both lists.  The   *)
(* list is sorted, so a scan that stops at the first later entry misses no *)
(* expired sleeper.                                                        *)
(***************************************************************************)
TimeoutsExact ==
  /\ \A t \in TCB : t \in ToSet(TIMEOUT_LIST) <=> wakeup_time[t] # NO_TIMEOUT
  /\ \A t \in ToSet(TIMEOUT_LIST) : state[t] = "STOPPED"
  /\ IsInjective(TIMEOUT_LIST)
  /\ \A i, j \in DOMAIN TIMEOUT_LIST :
       i < j => wakeup_time[TIMEOUT_LIST[i]] <= wakeup_time[TIMEOUT_LIST[j]]

(***************************************************************************)
(* active_threads counts the TCBs of normal threads that exist, so a core  *)
(* that leaves the scheduler leaves no thread behind, and none is created  *)
(* later.                                                                  *)
(***************************************************************************)
ActiveThreadsExact ==
  /\ active_threads = Cardinality({t \in Threads : state[t] # "FREE"})
  /\ (\E c \in Cores : pc[c] = "left") => active_threads = 0

(***************************************************************************)
(* What each core is doing and what its TCBs say agree.  This is what the  *)
(* invariants above need to be inductive: a context is DIRTY exactly while *)
(* a core runs it or is switching away from it, a RUNNING or EXITED thread *)
(* is still on a core, and the idle thread of a core that runs another one *)
(* waits READY.                                                            *)
(***************************************************************************)
OnCore(t) == \E c \in Cores : \/ current_thread[c] = t
                              \/ Switching(c) /\ previous_thread[c] = t

CoreAgreesWith(c) ==
  LET t == current_thread[c]
      prev == previous_thread[c]
  IN  /\ pc[c] \in {"run", "left"} => state[t] = "RUNNING"
      /\ pc[c] = "slept" => /\ state[t] \in {"STOPPED", "READY", "EXITED"}
                            /\ t \in Threads
      /\ pc[c] = "expire" => state[t] \in {"STOPPED", "READY", "EXITED"}
      /\ pc[c] = "left" => t = c
      /\ pc[c] # "gain" => phase[t] = "DIRTY"
      /\ pc[c] = "gain" =>
           /\ state[t] = "READY"
           /\ state[prev] \in {"STOPPED", "READY", "EXITED"}
           /\ phase[prev] = "DIRTY"
           /\ t # prev => phase[t] = "CLEAN"
           /\ prev \in Threads \cup {c}
      /\ sched_spinlock = c <=> pc[c] = "expire"

CoresAgree ==
  /\ \A c \in Cores : CoreAgreesWith(c)
  /\ \A t \in TCB : phase[t] = "DIRTY" => OnCore(t)
  /\ \A t \in TCB : state[t] \in {"RUNNING", "EXITED"} => phase[t] = "DIRTY"
  /\ \A t \in Cores : state[t] \in {"RUNNING", "READY"}

(***************************************************************************)
(* When yield() stops scanning TIMEOUT_LIST, every sleeper whose time had  *)
(* come when it read the clock is awake -- also one that is not the head.  *)
(***************************************************************************)
YieldWakesExpired ==
  [][\A c \in Cores : pc[c] = "expire" /\ pc'[c] = "gain" =>
       \A t \in TCB : state'[t] = "STOPPED" /\ wakeup_time'[t] # NO_TIMEOUT =>
         wakeup_time'[t] > curtime[c]]_vars

-----------------------------------------------------------------------------
(***************************************************************************)
(* Liveness.  Every gain() arms the ALARM of a quantum, so a core that     *)
(* runs a thread eventually calls yield().  The other cores contend for    *)
(* sched_spinlock: a core that keeps spinning eventually gets it, and the  *)
(* idle loop gets to its test between two ALARMs (strong fairness).  A     *)
(* core that holds the lock, and the clock, just go on (weak fairness).    *)
(* Nothing is assumed of wake-ups, sleeps, spawns and exits.               *)
(***************************************************************************)
Fairness ==
  /\ \A c \in Cores :
       /\ SF_vars(YieldBegin(c))
       /\ WF_vars(ExpireOne(c))
       /\ WF_vars(Select(c))
       /\ SF_vars(GainSame(c) \/ GainSwitch(c))
       /\ SF_vars(IdleExit(c))
  /\ WF_vars(Tick)

FairSpec == Spec /\ Fairness

\* No starvation: a thread that is READY gets a core.
ReadyRuns == \A t \in Threads : state[t] = "READY" ~> state[t] = "RUNNING"

\* A sleeper whose time comes (within the clock of the model) wakes up, even
\* if every core is idle.
SleeperWakes ==
  \A t \in Threads :
    state[t] = "STOPPED" /\ wakeup_time[t] <= MaxTime ~> state[t] # "STOPPED"

\* Once every thread is gone, every core leaves the scheduler.
MachineShutsDown ==
  (\A t \in Threads : state[t] = "FREE") ~> (\A c \in Cores : pc[c] = "left")

=============================================================================
