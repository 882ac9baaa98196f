------------------------------ MODULE Processes ------------------------------
(***************************************************************************)
(* Processes and their threads (kernel_proc.c, kernel_threads.c): the      *)
(* table of PCBs with its free list, the tree of parents and children, the *)
(* zombies, and the PTCBs that threads are joined and detached by.         *)
(*                                                                         *)
(* Grain.  A system call holds the kernel from kernel_lock() to            *)
(* kernel_unlock(), except while it sleeps in kernel_wait(): what it does  *)
(* up to a kernel_wait(), and what it does after one, is a step.  That the *)
(* kernel lock excludes is the subject of KernelMonitor, and holds in      *)
(* programs whose threads do not return from their task.                   *)
(*                                                                         *)
(* A thread name stands for a TCB and its PTCB, and may be used again once *)
(* both are gone.  A broadcast wakes the threads that wait on a condition  *)
(* at that time; each tests its condition again when it has the kernel.    *)
(***************************************************************************)
EXTENDS Integers, Sequences, SequencesExt, FiniteSets

CONSTANTS MAX_PROC,
          Threads,
          InitThread,       \* the main thread of the init process
          NULL,
          MaxThreads,       \* bound on the threads of a process
          ConcurrentWaits   \* a thread may call WaitChild() for a child that
                            \* another thread of the process waits for

ASSUME ConstantsAssumption ==
  /\ MAX_PROC \in Nat /\ MAX_PROC >= 2
  /\ IsFiniteSet(Threads)
  /\ InitThread \in Threads
  /\ NULL \notin Threads /\ NULL \notin Nat
  /\ MaxThreads \in Nat
  /\ ConcurrentWaits \in BOOLEAN

Pids == 0 .. (MAX_PROC - 1)

VARIABLES
  \* of a PCB
  pstate,
  parent,         \* its parent; the next free PCB, in the free list
  children_list,
  exited_list,
  ptcb_list,
  thread_count,
  exitval,        \* "own": stored since the PCB was acquired; else "stale"
  taskless,       \* the PCBs whose main_task is NULL, of those in use
  \* global
  pcb_freelist,
  process_count,
  kernel,         \* the thread that keeps the kernel over several steps
  \* of a thread
  owner_pcb,      \* of its TCB; NULL without one
  exited,         \* of its PTCB, as the next two
  detached,
  refcount,
  at,             \* where the thread is
  target,         \* the thread or the process it waits for
  woken           \* its wait was broadcast

process_vars == <<pstate, parent, children_list, exited_list, exitval,
                  taskless, pcb_freelist, process_count>>
ptcb_vars    == <<ptcb_list, thread_count, owner_pcb, exited, detached, refcount>>
wait_vars    == <<at, target, woken>>

vars == <<process_vars, ptcb_vars, wait_vars, kernel>>

(***************************************************************************)
(* "none"   no TCB                                                         *)
(* "user"   runs, outside the kernel                                       *)
(* "join"   in kernel_wait() of ThreadJoin(target)                         *)
(* "child"  in kernel_wait() of WaitChild(target)                          *)
(* "any"    in kernel_wait() of WaitChild(NOPROC)                          *)
(* "last"   the same, in the loop of sys_Exit() of the init process        *)
(* "abort"  failed an assertion of sys_ThreadExit()                        *)
(***************************************************************************)
At == {"none", "user", "join", "child", "any", "last", "abort"}

TypeOK ==
  /\ pstate \in [Pids -> {"FREE", "ALIVE", "ZOMBIE"}]
  /\ parent \in [Pids -> Pids \cup {NULL}]
  /\ children_list \in [Pids -> SUBSET Pids]
  /\ exited_list \in [Pids -> Seq(Pids)]
  /\ ptcb_list \in [Pids -> SUBSET Threads]
  /\ thread_count \in [Pids -> Nat]
  /\ exitval \in [Pids -> {"own", "stale"}]
  /\ taskless \subseteq Pids
  /\ pcb_freelist \in Pids \cup {NULL}
  /\ process_count \in 0..MAX_PROC
  /\ kernel \in Threads \cup {NULL}
  /\ owner_pcb \in [Threads -> Pids \cup {NULL}]
  /\ exited \in [Threads -> BOOLEAN]
  /\ detached \in [Threads -> BOOLEAN]
  /\ refcount \in [Threads -> Nat]
  /\ at \in [Threads -> At]
  /\ target \in [Threads -> Threads \cup Pids \cup {NULL}]
  /\ woken \in [Threads -> BOOLEAN]

\* initialize_processes(), which executes process 0 without a task, and the
\* Exec() of the init process at boot.
Init ==
  /\ pstate = [p \in Pids |-> IF p <= 1 THEN "ALIVE" ELSE "FREE"]
  /\ parent = [p \in Pids |->
                 IF p <= 1 \/ p = MAX_PROC - 1 THEN NULL ELSE p + 1]
  /\ children_list = [p \in Pids |-> {}]
  /\ exited_list = [p \in Pids |-> << >>]
  /\ ptcb_list = [p \in Pids |-> IF p = 1 THEN {InitThread} ELSE {}]
  /\ thread_count = [p \in Pids |-> IF p = 1 THEN 1 ELSE 0]
  /\ exitval = [p \in Pids |-> "stale"]
  /\ taskless = {0}
  /\ pcb_freelist = IF MAX_PROC > 2 THEN 2 ELSE NULL
  /\ process_count = 2
  /\ kernel = NULL
  /\ owner_pcb = [t \in Threads |-> IF t = InitThread THEN 1 ELSE NULL]
  /\ exited = [t \in Threads |-> FALSE]
  /\ detached = [t \in Threads |-> FALSE]
  /\ refcount = [t \in Threads |-> 0]
  /\ at = [t \in Threads |-> IF t = InitThread THEN "user" ELSE "none"]
  /\ target = [t \in Threads |-> NULL]
  /\ woken = [t \in Threads |-> FALSE]

(***************************************************************************)
(* Definitions named Bug... are mistakes one could make in the definition  *)
(* that follows them.  Nothing uses them: each shows that some property    *)
(* below would notice.                                                     *)
(***************************************************************************)

\* A thread enters the kernel with a system call, or returns from a wait.
Calls(t)   == at[t] = "user" /\ kernel = NULL
Returns(t) == woken[t] /\ kernel = NULL

\* What a thread does next, and which sleepers a broadcast wakes.
Goes(t, place, what) ==
  /\ at' = [at EXCEPT ![t] = place]
  /\ target' = [target EXCEPT ![t] = what]

WokenWith(t, sleepers) ==
  [u \in Threads |-> u # t /\ (woken[u] \/ u \in sleepers)]

\* Those who wait on exit_cv of a PTCB, and on child_exit of a PCB.
Joiners(u) == {t \in Threads : at[t] = "join" /\ target[t] = u}
ChildWaiters(p) ==
  {t \in Threads : owner_pcb[t] = p /\ at[t] \in {"child", "any", "last"}}

-----------------------------------------------------------------------------
(***************************************************************************)
(* Creation.                                                               *)
(***************************************************************************)

\* Memory for a TCB and a PTCB.
Unallocated(t) == at[t] = "none" /\ \A p \in Pids : t \notin ptcb_list[p]

BugUncounted(p) == thread_count[p]
OneMoreThread(p) == thread_count[p] + 1

\* A new thread of process p, with its PTCB: add_tcb_to_process(), or the
\* body of sys_CreateThread().
NewThread(p, t) ==
  /\ owner_pcb' = [owner_pcb EXCEPT ![t] = p]
  /\ ptcb_list' = [ptcb_list EXCEPT ![p] = @ \cup {t}]
  /\ exited' = [exited EXCEPT ![t] = FALSE]
  /\ detached' = [detached EXCEPT ![t] = FALSE]
  /\ refcount' = [refcount EXCEPT ![t] = 0]
  /\ thread_count' = [thread_count EXCEPT ![p] = OneMoreThread(p)]
  /\ Goes(t, "user", NULL)

\* PTCBs of process p leave its list, and are freed.
FreePtcbs(p, us) ==
  /\ ptcb_list' = [ptcb_list EXCEPT ![p] = @ \ us]
  /\ exited' = [u \in Threads |-> exited[u] /\ u \notin us]
  /\ detached' = [u \in Threads |-> detached[u] /\ u \notin us]
  /\ refcount' = [u \in Threads |-> IF u \in us THEN 0 ELSE refcount[u]]

acquire_PCB ==
  /\ pcb_freelist # NULL
  /\ pstate' = [pstate EXCEPT ![pcb_freelist] = "ALIVE"]
  /\ pcb_freelist' = parent[pcb_freelist]
  /\ process_count' = process_count + 1

\* sys_Exec().  Without a free PCB it returns NOPROC and changes nothing.
NewProcess(t) ==
  /\ Calls(t)
  /\ acquire_PCB
  /\ parent' = [parent EXCEPT ![pcb_freelist] = owner_pcb[t]]
  /\ children_list' = [children_list EXCEPT ![owner_pcb[t]] = @ \cup {pcb_freelist}]
  /\ UNCHANGED <<exited_list, exitval, woken, kernel>>

Exec(t, new) ==
  /\ NewProcess(t)
  /\ Unallocated(new)
  /\ NewThread(pcb_freelist, new)
  /\ taskless' = taskless \ {pcb_freelist}

\* Without a task the process has no thread, and nobody ever ends it.
ExecNoTask(t) ==
  /\ NewProcess(t)
  /\ taskless' = taskless \cup {pcb_freelist}
  /\ UNCHANGED <<ptcb_vars, at, target>>

\* sys_CreateThread().  Without a task it returns a PTCB that is in no list,
\* which no other call accepts: nothing changes here.
CreateThread(t, new) ==
  /\ Calls(t)
  /\ thread_count[owner_pcb[t]] < MaxThreads
  /\ Unallocated(new)
  /\ NewThread(owner_pcb[t], new)
  /\ UNCHANGED <<process_vars, woken, kernel>>

-----------------------------------------------------------------------------
(***************************************************************************)
(* Joining and detaching.                                                  *)
(***************************************************************************)

\* The checks of sys_ThreadJoin(): u can be joined by t.
Joinable(t, u) ==
  u \in ptcb_list[owner_pcb[t]] /\ ~ detached[u] /\ u # t

OneMoreJoins(u) == refcount[u] + 1

\* sys_ThreadJoin() up to the wait.
ThreadJoin(t, u) ==
  /\ Calls(t)
  /\ Joinable(t, u)
  /\ ~ exited[u]
  /\ refcount' = [refcount EXCEPT ![u] = OneMoreJoins(u)]
  /\ Goes(t, "join", u)
  /\ UNCHANGED <<process_vars, ptcb_list, thread_count, owner_pcb, exited,
                 detached, woken, kernel>>

(***************************************************************************)
(* The end of sys_ThreadJoin(): the last joiner frees the PTCB of a thread *)
(* that exited.                                                            *)
(***************************************************************************)
BugFirstFrees(u, left) == exited[u]
Frees(u, left) == ~ detached[u] /\ left = 0

Joined(t, u, left) ==
  /\ \/ /\ Frees(u, left)
        /\ FreePtcbs(owner_pcb[t], {u})
     \/ /\ ~ Frees(u, left)
        /\ refcount' = [refcount EXCEPT ![u] = left]
        /\ UNCHANGED <<ptcb_list, exited, detached>>
  /\ UNCHANGED <<process_vars, thread_count, owner_pcb, kernel>>

\* sys_ThreadJoin() of a thread that exited does not wait.
JoinExited(t, u) ==
  /\ Calls(t)
  /\ Joinable(t, u)
  /\ exited[u]
  /\ Joined(t, u, refcount[u])
  /\ UNCHANGED wait_vars

\* The wait of sys_ThreadJoin() returns.
JoinReturns(t) ==
  LET u == target[t]
  IN  /\ at[t] = "join" /\ Returns(t)
      /\ exited[u] \/ detached[u]
      /\ Joined(t, u, refcount[u] - 1)
      /\ Goes(t, "user", NULL)
      /\ woken' = WokenWith(t, {})

WokenByDetach(u) == Joiners(u)

\* sys_ThreadDetach()
ThreadDetach(t, u) ==
  /\ Calls(t)
  /\ u \in ptcb_list[owner_pcb[t]]
  /\ ~ exited[u]
  /\ detached' = [detached EXCEPT ![u] = TRUE]
  /\ woken' = WokenWith(t, WokenByDetach(u))
  /\ UNCHANGED <<process_vars, ptcb_list, thread_count, owner_pcb, exited,
                 refcount, at, target, kernel>>

-----------------------------------------------------------------------------
(***************************************************************************)
(* The end of a thread: sys_ThreadExit().                                  *)
(***************************************************************************)

\* kernel_sleep(EXITED): the TCB is released.
NoThread(t) ==
  /\ owner_pcb' = [owner_pcb EXCEPT ![t] = NULL]
  /\ Goes(t, "none", NULL)

\* Other threads of the process are left.
ThreadGoes(t) ==
  /\ thread_count[owner_pcb[t]] > 1
  /\ exited' = [exited EXCEPT ![t] = TRUE]
  /\ thread_count' = [thread_count EXCEPT ![owner_pcb[t]] = @ - 1]
  /\ NoThread(t)
  /\ woken' = WokenWith(t, Joiners(t))
  /\ UNCHANGED <<parent, pstate, children_list, exited_list, taskless, pcb_freelist,
                 process_count, ptcb_list, detached, refcount>>

(***************************************************************************)
(* The last thread ends the process p: its children and its zombies go to  *)
(* the init process, and p becomes a zombie of its parent.                 *)
(***************************************************************************)
BugOnlyParentWoken(p) == ChildWaiters(parent[p])
WokenByExit(p) ==
  ChildWaiters(parent[p]) \cup
  IF exited_list[p] # << >> THEN ChildWaiters(1) ELSE {}

BugForgetsOrphans(p) == children_list
ChildrenAdopted(p) ==
  [children_list EXCEPT ![1] = @ \cup children_list[p], ![p] = {}]

ZombiesAdopted(p) ==
  [exited_list EXCEPT ![1] = @ \o exited_list[p], ![p] = << >>]

LeaveParent(t, p) ==
  /\ p # 1
  /\ children_list' = ChildrenAdopted(p)
  /\ parent' = [q \in Pids |-> IF q \in children_list[p] THEN 1 ELSE parent[q]]
  /\ exited_list' = [ZombiesAdopted(p) EXCEPT ![parent[p]] = <<p>> \o @]
  /\ woken' = WokenWith(t, Joiners(t) \cup WokenByExit(p))

\* The init process has no parent, and by now no children.
LeaveNoParent(t, p) ==
  /\ p = 1
  /\ children_list[p] = {} /\ exited_list[p] = << >>
  /\ woken' = WokenWith(t, Joiners(t))
  /\ UNCHANGED <<parent, children_list, exited_list>>

ProcessEnds(t) ==
  LET p == owner_pcb[t]
  IN  /\ thread_count[p] = 1
      /\ LeaveParent(t, p) \/ LeaveNoParent(t, p)
      /\ pstate' = [pstate EXCEPT ![p] = "ZOMBIE"]
      /\ thread_count' = [thread_count EXCEPT ![p] = 0]
      /\ FreePtcbs(p, ptcb_list[p])
      /\ NoThread(t)
      /\ UNCHANGED <<taskless, pcb_freelist, process_count>>

\* The assertions kernel_threads.c:204-205 fail.
AssertionFails(t) ==
  LET p == owner_pcb[t]
  IN  /\ thread_count[p] = 1
      /\ p = 1
      /\ children_list[p] # {} \/ exited_list[p] # << >>
      /\ Goes(t, "abort", NULL)
      /\ UNCHANGED <<pstate, parent, children_list, exited_list, taskless,
                     pcb_freelist, process_count, ptcb_vars, woken>>

sys_ThreadExit(t) == ThreadGoes(t) \/ ProcessEnds(t) \/ AssertionFails(t)

\* The system call ThreadExit()
ThreadExit(t) ==
  /\ Calls(t)
  /\ sys_ThreadExit(t)
  /\ UNCHANGED <<exitval, kernel>>

\* sys_Exit(), also of a main thread that returns.
Exit(t) ==
  /\ Calls(t)
  /\ owner_pcb[t] # 1
  /\ exitval' = [exitval EXCEPT ![owner_pcb[t]] = "own"]
  /\ sys_ThreadExit(t)
  /\ UNCHANGED kernel

\* Another thread of the process waits for child c, or may be given it.
WaitedFor(c, p) ==
  \E u \in ChildWaiters(p) : at[u] # "child" \/ target[u] = c

\* Another thread of the process waits for one child.
OneWaitedFor(p) == \E u \in ChildWaiters(p) : at[u] = "child"

\* sys_Exit() of the init process goes to wait for all of its children.
ExitOfInit(t) ==
  /\ Calls(t)
  /\ owner_pcb[t] = 1
  /\ ConcurrentWaits \/ ~ OneWaitedFor(1)
  /\ exitval' = [exitval EXCEPT ![1] = "own"]
  /\ Goes(t, "last", NULL)
  /\ kernel' = t
  /\ UNCHANGED <<pstate, parent, children_list, exited_list, taskless, pcb_freelist,
                 process_count, ptcb_vars, woken>>

-----------------------------------------------------------------------------
(***************************************************************************)
(* Waiting for children.                                                   *)
(***************************************************************************)

\* release_PCB()
BugLosesRest(p) == NULL
NextFree(p) == pcb_freelist

\* rlist_remove() of the node of p from a list, if it is there.
Without(s, p) ==
  IF \E i \in DOMAIN s : s[i] = p
  THEN RemoveAt(s, CHOOSE i \in DOMAIN s : s[i] = p) ELSE s

\* cleanup_zombie() of p.  Its nodes leave the lists they are in.
Reap(p) ==
  /\ children_list' = [q \in Pids |-> children_list[q] \ {p}]
  /\ exited_list' = [q \in Pids |-> Without(exited_list[q], p)]
  /\ pstate' = [pstate EXCEPT ![p] = "FREE"]
  /\ parent' = [parent EXCEPT ![p] = NextFree(p)]
  /\ pcb_freelist' = p
  /\ process_count' = process_count - 1
  /\ exitval' = [exitval EXCEPT ![p] = "stale"]
  /\ taskless' = taskless \ {p}
  /\ UNCHANGED ptcb_vars

\* wait_for_specific_child(): the call ...
ChildOf(c, p) == pstate[c] # "FREE" /\ parent[c] = p

\* A broadcast may be about another child: the child must be tested again.
BugNotTested(c) == FALSE
StillAlive(c) == pstate[c] = "ALIVE"

WaitSpecific(t, c) ==
  /\ Calls(t)
  /\ ConcurrentWaits \/ ~ WaitedFor(c, owner_pcb[t])
  /\ ChildOf(c, owner_pcb[t])
  /\ \/ /\ pstate[c] = "ALIVE"
        /\ Goes(t, "child", c)
        /\ UNCHANGED <<process_vars, ptcb_vars>>
     \/ /\ pstate[c] = "ZOMBIE"
        /\ Reap(c)
        /\ UNCHANGED <<at, target>>
  /\ UNCHANGED <<woken, kernel>>

\* ... and the return of its kernel_wait().
SpecificReturns(t) ==
  /\ at[t] = "child" /\ Returns(t)
  /\ \/ /\ StillAlive(target[t])
        /\ UNCHANGED <<process_vars, ptcb_vars, at, target>>
     \/ /\ ~ StillAlive(target[t])
        /\ Reap(target[t])
        /\ Goes(t, "user", NULL)
  /\ woken' = WokenWith(t, {})
  /\ UNCHANGED kernel

\* What wait_for_any_child() finds when it tests.
NoChildren(p) == children_list[p] = {}
HasExited(p)  == children_list[p] # {} /\ exited_list[p] # << >>
MustWait(p)   == children_list[p] # {} /\ exited_list[p] = << >>

\* wait_for_any_child(): the call.  Without children it changes nothing.
WaitAny(t) ==
  LET p == owner_pcb[t]
  IN  /\ Calls(t)
      /\ ConcurrentWaits \/ ~ OneWaitedFor(p)
      /\ \/ /\ MustWait(p)
            /\ Goes(t, "any", NULL)
            /\ UNCHANGED <<process_vars, ptcb_vars>>
         \/ /\ HasExited(p)
            /\ Reap(Head(exited_list[p]))
            /\ UNCHANGED <<at, target>>
      /\ UNCHANGED <<woken, kernel>>

\* ... and the return of its kernel_wait().
AnyReturns(t) ==
  LET p == owner_pcb[t]
  IN  /\ at[t] = "any" /\ Returns(t)
      /\ \/ /\ MustWait(p)
            /\ UNCHANGED <<process_vars, ptcb_vars, at, target>>
         \/ /\ NoChildren(p)
            /\ Goes(t, "user", NULL)
            /\ UNCHANGED <<process_vars, ptcb_vars>>
         \/ /\ HasExited(p)
            /\ Reap(Head(exited_list[p]))
            /\ Goes(t, "user", NULL)
      /\ woken' = WokenWith(t, {})
      /\ UNCHANGED kernel

\* The loop of sys_Exit(): one WaitChild() of init.  It keeps the kernel
\* from one child to the next.
ExitLoop(t) ==
  /\ at[t] = "last" /\ (kernel = t \/ Returns(t))
  /\ \/ /\ MustWait(1)
        /\ kernel' = NULL
        /\ woken' = WokenWith(t, {})
        /\ UNCHANGED <<process_vars, ptcb_vars, at, target>>
     \/ /\ HasExited(1)
        /\ Reap(Head(exited_list[1]))
        /\ kernel' = t
        /\ woken' = WokenWith(t, {})
        /\ UNCHANGED <<at, target>>
     \/ /\ NoChildren(1)
        /\ kernel' = NULL
        /\ sys_ThreadExit(t)
        /\ UNCHANGED exitval

-----------------------------------------------------------------------------
\* The machine stops: every thread has gone, or waits for another one that
\* waits too (a thread may join one that joins it), or an assertion failed.
Stopped ==
  /\ \/ kernel = NULL /\ \A t \in Threads : at[t] # "user" /\ ~ woken[t]
     \/ \E t \in Threads : at[t] = "abort"
  /\ UNCHANGED vars

Next ==
  \/ /\ \A t \in Threads : at[t] # "abort"
     /\ \E t \in Threads :
          \/ \E u \in Threads :
               \/ Exec(t, u) \/ CreateThread(t, u)
               \/ ThreadJoin(t, u) \/ JoinExited(t, u) \/ ThreadDetach(t, u)
          \/ \E c \in Pids : WaitSpecific(t, c)
          \/ JoinReturns(t)
          \/ ExecNoTask(t)
          \/ ThreadExit(t) \/ Exit(t) \/ ExitOfInit(t)
          \/ SpecificReturns(t)
          \/ WaitAny(t) \/ AnyReturns(t) \/ ExitLoop(t)
  \/ Stopped

Spec == Init /\ [][Next]_vars

-----------------------------------------------------------------------------
(***************************************************************************)
(* Safety.                                                                 *)
(***************************************************************************)

(***************************************************************************)
(* The process tree: a process is in the list of children of its parent,   *)
(* exactly, and its parent is alive; and it is in the exited list of its   *)
(* parent exactly when it is a zombie, once.  No process is lost when its  *)
(* parent ends before it does, and a PCB that is used again starts without *)
(* the children, the zombies and the threads of its previous life.         *)
(***************************************************************************)
TreeExact ==
  /\ \A p, q \in Pids : p \in children_list[q] <=> p > 1 /\ ChildOf(p, q)
  /\ \A p \in Pids : p > 1 /\ pstate[p] # "FREE" =>
       parent[p] # NULL /\ parent[p] # 0 /\ pstate[parent[p]] = "ALIVE"
  /\ \A p, q \in Pids : p \in ToSet(exited_list[q]) <=>
       pstate[p] = "ZOMBIE" /\ p \in children_list[q]
  /\ \A q \in Pids : IsInjective(exited_list[q])

(***************************************************************************)
(* The free list links the FREE PCBs, each once, and process_count counts  *)
(* the others.                                                             *)
(***************************************************************************)
LinkedFrom[n \in Nat] ==
  IF n = 0 THEN {pcb_freelist} \ {NULL}
  ELSE LinkedFrom[n - 1] \cup ({parent[p] : p \in LinkedFrom[n - 1]} \ {NULL})

FreelistExact ==
  /\ LinkedFrom[MAX_PROC] = {p \in Pids : pstate[p] = "FREE"}
  /\ process_count = Cardinality({p \in Pids : pstate[p] # "FREE"})

(***************************************************************************)
(* thread_count counts the threads of a process; a process without threads *)
(* is a zombie or FREE, unless it was given no task, and keeps no PTCB;    *)
(* and every thread has its PTCB, in the list of its own process.          *)
(***************************************************************************)
ThreadsOf(p) == {t \in Threads : owner_pcb[t] = p}
HasTask(p) == pstate[p] = "ALIVE" /\ p \notin taskless

ThreadsExact ==
  /\ \A p \in Pids :
       /\ thread_count[p] = Cardinality(ThreadsOf(p))
       /\ HasTask(p) <=> ThreadsOf(p) # {}
       /\ ThreadsOf(p) \subseteq ptcb_list[p]
       /\ ThreadsOf(p) = {} => ptcb_list[p] = {}
  /\ \A t \in Threads : at[t] = "none" <=> owner_pcb[t] = NULL
  /\ \A t \in Threads, p \in Pids : t \in ptcb_list[p] =>
       IF exited[t] THEN owner_pcb[t] = NULL ELSE owner_pcb[t] = p
  /\ \A p, q \in Pids : p # q => ptcb_list[p] \cap ptcb_list[q] = {}

(***************************************************************************)
(* While a thread waits in ThreadJoin(), the PTCB it waits on is not freed *)
(* and not recycled: it stays in the list of the process that both belong  *)
(* to, and its refcount is the number of those who wait.                   *)
(***************************************************************************)
JoinsExact ==
  /\ \A t \in Threads : at[t] = "join" => target[t] \in ptcb_list[owner_pcb[t]]
  /\ \A p \in Pids : \A u \in ptcb_list[p] :
       refcount[u] = Cardinality(Joiners(u))

(***************************************************************************)
(* No lost wake-up: a thread that sleeps, and that no broadcast has woken, *)
(* has reason to sleep.                                                    *)
(***************************************************************************)
SleepersHaveReason ==
  \A t \in Threads : ~ woken[t] /\ kernel # t =>
    /\ at[t] = "join" => ~ exited[target[t]] /\ ~ detached[target[t]]
    /\ at[t] = "child" => pstate[target[t]] = "ALIVE"
    /\ at[t] \in {"any", "last"} => MustWait(owner_pcb[t])

(***************************************************************************)
(* What WaitChild() reaps is a zombie, among the exited children of its    *)
(* parent; and a thread that waits for a child returns when that child is  *)
(* a zombie, and is the one that reaps it.                                 *)
(***************************************************************************)
ReapsOwnZombies ==
  [][/\ \A p \in Pids : pstate[p] # "FREE" /\ pstate'[p] = "FREE" =>
          pstate[p] = "ZOMBIE" /\ p \in ToSet(exited_list[parent[p]])
     /\ \A t \in Threads : at[t] = "child" /\ at'[t] = "user" =>
          /\ ChildOf(target[t], owner_pcb[t])
          /\ pstate[target[t]] = "ZOMBIE"
          /\ pstate'[target[t]] = "FREE"]_vars

-----------------------------------------------------------------------------
(***************************************************************************)
(* What a comment or an assertion says, and the code does not keep.        *)
(***************************************************************************)

(***************************************************************************)
(* "On success, WaitChild returns the pid of an exited child"              *)
(* (tinyos.h:274): when a wait for a child ends, the child is a zombie     *)
(* still, and not reaped already, nor the PCB of another process.          *)
(***************************************************************************)
WaitedChildIsZombie ==
  [][\A t \in Threads : at[t] = "child" /\ at'[t] = "user" =>
       pstate[target[t]] = "ZOMBIE"]_vars

=============================================================================
