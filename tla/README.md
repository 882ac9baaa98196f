# A verification of tinyos3

tinyos3 is a teaching operating system: a kernel that runs on a simulated
multi-core machine (`bios.c`), with preemptive threads, processes, condition
variables, file streams, pipes, sockets and serial terminals. This directory
holds TLA+ models of the kernel, the TLC configurations that check them on small
instances, and TLAPS proofs of their invariants. All paths below are relative to
`src/tinyOS3_project/tinyos3/`.

Run a check with `tlc -config X.cfg M` and the proofs with `tlapm M.tla`.

## 1. Inventory

How the parts fit together: an application calls a system call (`kernel_sys.c`),
which takes the kernel lock (`kernel_cc.c`), runs one `sys_...` function alone in
the kernel, and gives the lock back. Inside it may sleep on a condition variable
of a kernel object, which gives the lock to others meanwhile. Condition variables
put threads to sleep and wake them through the scheduler (`kernel_sched.c`), which
every core also enters by itself when the ALARM of a quantum interrupts it.
Interrupt handlers of the serial lines (`kernel_dev.c`) broadcast condition
variables without holding the kernel lock.

| Part | State | Operations | What is hard | What makes it correct |
|---|---|---|---|---|
| Scheduler (`kernel_sched.c`, `kernel_init.c`) | `SCHED`, `TIMEOUT_LIST`, `active_threads`; per TCB `state`, `phase`, `wakeup_time`; per core `current_thread`, `previous_thread` | spawn, wakeup, sleep, exit, yield and gain, expiry of timeouts, shutdown | a context switch has two halves with no lock between them; wake-ups, exits and selections by other cores in the gap; a clock that moves | no stack is used by two cores; a READY thread is queued once and gets a core; sleepers wake on time; the machine stops when no thread is left |
| Kernel lock and condition variables (`kernel_cc.c`, `kernel_sys.c`) | `kernel_mutex`, `kernel_sem`, the ring and the lock of every `CondVar` | lock, unlock, wait (timed or not), signal, broadcast, sleep | the lock is itself a monitor; signals race with sleeps that are not complete and with timeouts | at most one thread is in the kernel; no wake-up is lost or wasted; no ring keeps a dead stack frame |
| Processes (`kernel_proc.c`) | the PCB table, its free list, `children_list`, `exited_list`; the cursor of an information stream | Exec, Exit, WaitChild, GetPid, OpenInfo | waits on one condition for several reasons; orphans; PCBs used again | every process has a living parent that knows it; a zombie is reaped once |
| Threads of a process (`kernel_threads.c`) | PTCBs with `exited`, `detached`, `refcount`; `thread_count` | CreateThread, ThreadJoin, ThreadDetach, ThreadExit | several joiners of one thread; the PTCB must outlive all of them | joiners see the exit; a PTCB is freed once, by the last one |
| Streams (`kernel_streams.c`) | the FCB pool, reference counts, the FIDT of each process | Read, Write, Close, Dup2, reserve and unreserve | an FCB that is used during a sleep while others close it; a reservation that fails half-way | an FCB is free iff nothing refers to it; no leak |
| Pipes (`kernel_pipe.c`) | a ring buffer, its two ends | Pipe, read, write, close of either end | blocking on full and empty; an end that closes meanwhile | bytes come out once, in order; end of file and broken pipe are noticed |
| Sockets (`kernel_socket.c`) | `PORT_MAP`, the socket's kind, the queue of requests, reference counts | Socket, Listen, Accept, Connect, ShutDown, Close | a connect that times out while it is being accepted; a listener that closes under its waiters | a request is admitted at most once and while its issuer waits |
| Devices (`kernel_dev.c`) | the serial DCBs | serial read and write, rx handler, open, close | handlers run without the kernel lock | no wake-up is lost, no self-deadlock |
| Machine (`bios.c`) | per core: pending interrupts, halted flag, timer | raise and dispatch interrupts, halt, restart | a halt that races with the interrupt that should end it; contexts that move to another core while they dispatch | no interrupt is lost |
| User library, symposium (`tinyoslib.c`, `symposium.c`) | barriers; argument vectors; streams of the C library; the philosophers | BarrierSync; Execute; eating and thinking | reuse of a barrier; deadlock of philosophers | a barrier opens for full groups; strings arrive as sent; the symposium ends |
| Utilities (`util.h`) | intrusive rings | push, pop, splice, remove, append, reverse | pointers that are read after they were written | the rings are the sequences they stand for |
| Shell and programs (`tinyos_shell.c`, `mtask.c`, `console.c`) | descriptors that are handed to children; the globals of the remote server | pipelines, RunTerm, the server with its listener and clients, filters | threads that share globals in the frame of one of them | a pipeline is connected and ends; the server returns after all of its threads |
| Initialization, tests, host tools | - | - | - | not modelled |

`PROJECT.json` lists the hazards of the code at their lines, with the properties
that cover each, and for those that none covers the reason.

## 2. Modules

| Module | Models | Extends |
|---|---|---|
| `Scheduler` | `kernel_sched.c` | |
| `KernelMonitor` | `kernel_cc.c`, and the return of a task in `kernel_threads.c` | |
| `Processes` | `kernel_proc.c`, `kernel_threads.c` | |
| `Streams` | `kernel_streams.c`, and what `kernel_pipe.c`, Exec and the end of a process do to descriptors | |
| `BoundedFifo` | what a pipe promises: a bounded queue with two ends (abstract) | |
| `Pipe` | `kernel_pipe.c`, and the references of `kernel_streams.c` | `BoundedFifo` (INSTANCE) |
| `Sockets` | `kernel_socket.c` | |
| `Machine` | `bios.c`: interrupts, halting, timers, the PIC daemon | |
| `SerialDriver` | `kernel_dev.c` and the idle threads, on the machine | `Machine` |
| `RemoteServer` | the remote server of `tinyos_shell.c` | |
| `Symposium` | `symposium.c` | |
| `RingLists` | the rings of `util.h`, as pointers | |
| `ArgVectors` | packed arguments (`util.h`), Execute and its helpers (`tinyoslib.c`) | |
| `Inheritance` | descriptors from the shell and the boot programs to their children | |
| `TextTools` | filters, Hanoi, and loops of the shell and of its client | |
| `ProcInfo` | the information stream, and SystemInfo that reads it | |
| `Devices` | device table, null device, polling I/O, standard streams, terminals, timers | |
| `Barriers` | BarrierSync | |
| `MC...` | instances of these for TLC; `MCPrograms` holds the assumptions about operators | |
| `ListLemmas` | theorems about the rings of `RingLists`; lemmas on lists without repetition (pushing at either end, popping the head, unlinking, linking in the middle, concatenation) and on sets of natural numbers | `RingLists` |
| `SchedulerProofs`, `KernelMonitorProofs`, `ProcessesProofs`, `StreamsProofs`, `PipeProofs`, `SocketsProofs` | proofs about the module each is named for | |
| `AroundKernelProofs` | proofs about what is above and below the kernel: `Symposium`, `RemoteServer` and `SerialDriver`; so that it can extend all three, the last two name their formulas with a prefix (`RsrvSpec`, `SerialSpec`) | |

The models stack. `Machine` is the bottom, with `SerialDriver` on it. `Scheduler`
shows that a thread that is not STOPPED runs on one core at a time and gets one
eventually; `KernelMonitor` takes that as given (a thread is reduced to whether it is
STOPPED, its steps are fair) and shows that system calls exclude each other and that
waits and signals meet; `Processes`, `Streams`, `Pipe` and `Sockets` take *that* as given
(a system call between two sleeps is one step) and are about the data that system
calls keep; `RemoteServer` and `Symposium` are programs on top. Each relies on the one
below only through what that one has a property for.

A state machine has a run of its own. The last seven modules of the table before
`MC...` are operators without state: what a program computes from its input, or what
a list operation does to a heap. TLC compares them with reference definitions on
all small inputs, in the assumptions of `MCScheduler` (`RingLists`: `ListsAreSequences`)
and of `MCPrograms`, which `MCRemoteServer` extends.

### Scheduler

Variables carry the names of the code. A TCB is a member of `Threads`, or, for the
idle thread embedded in the CCB of a core, the core. A section under
`sched_spinlock` is a step, but for the one of `yield()`, which is a loop: it takes
the lock in `YieldBegin`, wakes one expired sleeper per `ExpireOne`, chooses the
next thread and lets go in `Select`. `GainSame` and `GainSwitch` are `gain()`, on
the new stack. Any core may call `yield()` at any time (the ALARM). `Spawn`,
`Wakeup`, `Sleep` and `Exit` are what threads do; as in the code, a thread that
went to sleep still has to call `yield()`, and may be woken before it does.
Priorities have no effect in this code, quanta are constant; both are left out.

Run `scheduler`: two cores, two threads, timeouts 0 and 1 and none, a clock up to 1.
Two cores are what it takes for the halves of two switches to interleave; two
threads, with the idle ones, let one be retired while the other is chosen elsewhere;
two timeouts that differ, one of which has come at once, give both orders of
registration and a yield that wakes two sleepers. The proofs drop every one of these
bounds.

* `QueueExact`: a normal thread is in `SCHED`, once, exactly when it is READY, its
  context is saved, and no core has chosen it.
* `OneCorePerStack`: no thread is the current one, or is still being saved, on two
  cores.
* `GainAssertion`: `gain()` never meets a state its `switch` does not expect
  (`kernel_sched.c:489`).
* `TimeoutsExact`: `TIMEOUT_LIST` has exactly the sleepers with a `wakeup_time`, in
  order: the test by which `sched_make_ready()` decides which list a node is in is
  right.
* `ActiveThreadsExact`: `active_threads` counts the existing threads, and a core
  that shut down leaves none behind.
* `YieldWakesExpired` (action): a yield wakes *every* sleeper whose time had come,
  although it stops at the first list entry that has not expired.
* `ReadyRuns`, `SleeperWakes`, `MachineShutsDown` (liveness).

Fairness: an ALARM follows every `gain()`, so a core yields again and again
(`SF` of `YieldBegin`: the lock may be taken by others in between); a core that
spins on `sched_spinlock` gets it eventually (`SF` of `gain()`); the holder goes on,
and so does the clock (`WF`). No thread has to wake, spawn, sleep or exit. Strong
fairness of the spinlock is what hardware test-and-set gives in practice and the
code assumes; nothing in it orders the cores.

### KernelMonitor

`kernel_lock()` is a monitor: `kernel_mutex` guards `kernel_sem`, and
`kernel_sem_cv` is where threads wait for it. `KernelLock`, `Acquire` and
`WaitForSemaphore` are its parts; `Release`, with `KernelUnlock`, `KernelWait` and
`KernelSleep`, the ways to leave the kernel. `CvPush`, `CvSleep`, `CvWoken` and
`CvRelock` are `cv_wait()`, and `LockWaitset`, `SignalOne` and `SignalEnd` the loop
of `cv_signal()`. What happens under a `waitset_lock` is visible to those who take
it only, so an iteration is a step; the lock itself is modelled, since a timeout
may wake a waiter at any time without it (`Timeout`). A `Mutex` is an atomic
test-and-set that is not enabled while it is taken. `Notify` by a thread outside
the kernel stands for the interrupt handlers.

* `SemaphoreExact`: `kernel_sem` and the threads inside the kernel add up to one,
  plus the units that intruders gave back.
* `KernelExclusionUnlessIntruded`, `RingsExact`, `SignalsTrue`, `NoLostWakeup`, and
  the action property `SignalFindsSleeper`: see the comments in the module.
* `KernelIsUsed`: the kernel does not stay idle while a thread wants it;
  `TimedWaitEnds` (liveness), under the fairness that the scheduler gives:
  threads go on with what they have begun, and a mutex that is free again and
  again is got. Which thread gets in is open, and a single thread may starve: a
  newcomer can overtake the one that was signalled.

Run `kernel_monitor`: three threads on one channel, one of which may return from its
task: one is inside, one on its way and one asleep, or two waiters in a ring with a
timeout for either. Four threads were tried too and give the same answers.

Run `kernel_exclusion` (a violation) shows a bug of the code: `start_process_thread()`
(`kernel_threads.c:20`) calls `sys_ThreadExit()` without `kernel_lock()`. It runs
beside a system call, and its `kernel_sleep()` increments a semaphore that this
thread never decremented; from then on two threads can be in the kernel at once.
It is the only way exclusion fails, as `KernelExclusionUnlessIntruded` says and
the proofs confirm.

### Processes

The PCB table with its free list (linked by the `parent` field, as in the code),
the tree, the zombies, the PTCBs. A thread name stands for a TCB and a PTCB, and is
used again once both are gone, as memory is. A call that sleeps is two actions:
`ThreadJoin` and `JoinReturns`, `WaitSpecific` and `SpecificReturns`, `WaitAny` and
`AnyReturns`; a broadcast marks the sleepers of a condition `woken`, and they test
again in any order. `sys_Exit()` of the init process keeps the kernel from one
reaped child to the next (`ExitOfInit`, `ExitLoop`), and `kernel` is the thread that
does. `ThreadExit` is also what a returning task runs; that it does so unlocked is
the subject of `KernelMonitor`, and this model is of the programs where it is not
interrupted. Exec without a task (`ExecNoTask`) makes a process without a thread; `taskless` has
the processes whose `main_task` is NULL, of which process 0 is one. CreateThread without a
task changes nothing that is modelled. Calls that fail and change nothing are not steps. Whether an exit
value was stored is kept (`exitval`), the value is not.

Run `processes`: five PCBs (0, init and three more), four threads, up to three of them
in one process. The constraint `RoomForThreads` cuts off states in which a process has
several threads and also the table is full, the threads are used up, or freed PCBs are used
in another order than before: each of these occurs with one thread per process. It also
admits at most one process without a task beside process 0, and none together with several
threads. So a
process whose parent is not init can end with a zombie of its own while init waits,
and PCBs are used again; two threads can join a third, and one can be detached under its joiners. The
constant `ConcurrentWaits` is FALSE: a thread does not wait for a child that another
thread of its process waits for. With TRUE the code does not keep its promises
(`double_reap`).

* `TreeExact`: parents and their lists agree, the parent of every process is alive,
  the zombies are exactly the exited lists.
* `FreelistExact`: the free list has the FREE PCBs; `process_count` the others.
* `ThreadsExact`: `thread_count`, the lists of PTCBs and the threads agree; a process has a
  thread exactly while it is alive and was given a task.
* `JoinsExact`: a PTCB stays while somebody waits on it, and `refcount` says how
  many do.
* `SleepersHaveReason`: who sleeps and was not broadcast has a reason to sleep.
* `ReapsOwnZombies` (action): only zombies are reaped, by their parents, once.

Run `double_reap` (a violation): two threads wait for one child; the second one wakes up to
a PCB that is FREE or belongs to another process, and releases it again.

### Streams

The pool of FCBs with its free list, the descriptor table of each process, the
reference counts. `Open`, `OpenFails` and `Pipe` are what the calls that make streams do
with `FCB_reserve()` and `FCB_unreserve()`; `FallsAsleep` and `Returns` are a Read or a Write
that holds a reference while it sleeps in any stream; `Exec` lets a child inherit; `Exit`,
`ClosesNext` and `Ends` are the loop of the last thread over its table. Run `streams`: init
and a child, three FCBs and three descriptors each (so that each of the two runs
out while the other does not), two calls that sleep.

* `FcbsExact`: an FCB is in the free list, once, exactly when nothing refers to it;
  otherwise its count is the number of descriptors and sleeping calls.
* `StreamsExact`: a stream is open as long as anybody refers to it, also while a call
  sleeps in it, and is closed with the last reference.

### Pipe

The ring buffer has the positions and the counter of the code, and bytes of which
there are two. A call that does not sleep is a step (`Write`, `Read`), one that does
is two: `FallsAsleep`, and `WriteReturns` or `ReadReturns` once it was broadcast,
which tests the condition again and may sleep again. The loops over bytes are
written as what they do to the whole array, wrap included. An end of the pipe has
a number of descriptors, in whatever process, and its FCB a `refcount`; `sys_Read()`
and `sys_Write()` refer to the FCB while they sleep, so that the *call* may be the one
that closes the end, and frees the pipe, when it returns. Closing an end wakes the
sleepers of the other. Nothing keeps a program from reading and writing with any
sizes, zero included, from any thread.

`BoundedFifo` is what is promised: a queue, of which a write appends what fits and a
read takes a prefix, and two ends that close once. `Pipe` implements it with the
content of the ring buffer, from `r_position` on, as the queue.

Run `pipe`: three threads (two that compete for an end and one at the other), a
buffer of two bytes and calls of up to two, so that calls are cut short, wrap and fill the
buffer; two descriptors of an end, so that one is closed while another stays. The
proofs drop these bounds.

* `EndsExact`: an end is open exactly while a descriptor or a sleeping call refers to
  it; the pipe is freed with the second one.
* `SleepersHaveReason`: no wake-up is lost.
* `ReturnsForAReason` (action): who slept returns with a byte moved, or as the other
  end closed.
* `ImplementsFifo`: the refinement.
* `ClosedEndIsNoticed` (liveness): nobody sleeps for ever on a pipe whose other end is
  closed. Fairness: a thread that was broadcast gets the kernel in the end and goes
  on (`WF` of `Returns`). It is ready, and each call that others make is short; that
  newcomers, who may overtake it at `kernel_lock()`, do not do so for ever is an
  assumption that the lock itself does not enforce. Nobody has to read, write or close.

### Sockets

`Socket`, `Listen`, `Accept` with `AcceptReturns`, `Connect` with `ConnectReturns` and
`ConnectTimesOut`, `Close`. A request is in the queue of its listener, and stays
in use as long as it is there or its Connect sleeps. What `Accept` does with the descriptors is what the code does:
it makes both of them ends of *one* pipe (section 5). After an `Accept` that
writes to an FCB of somebody else (its peer closed the descriptor meanwhile), `corrupt`
is set and nothing more is said. Run `sockets`: three threads (two acceptors and one that
connects, or the reverse), three descriptors, two requests, one port that is
given up and taken again.

* `PortsExact`: a port has at most one listener; that owns it exactly while its
  descriptor is open.
* `AcceptorsAreWoken`: no wake-up is lost between requests, acceptors and Close.
* `RequestsAreKept` (action): a request is taken from a queue only by an Accept that
  admits it or finds no descriptor left.

### Machine and SerialDriver

`Machine` has what `bios.c` keeps per core: the bits of `intr_pending`, the one SIGUSR1 that
can be pending, the timer, whether it is halted or down; per context, where it
is in `dispatch_interrupts()` and whether interrupts are masked; the PIC daemon, whose
round (`PicRound`) raises alarms of any set of expired timers and the interrupt of a device that is
ready or has timed out. A context switch in a handler takes the context, in the
middle of `dispatch_interrupts()`, to whatever core runs it next. `SerialDriver` adds
threads that read (`Calls`, `Polls`, `FallsAsleep`), the handlers (`HandlesAlarm`,
`HandlesRx`), exits, and `idle_thread()` (`IdleYields`, `IdleTests`, `IdleHalts`).

Run `serial`: two cores (contexts move), a reader, a thread that computes, both of
which may exit; nobody types, and the timeout of the device wakes the reader all the same. Run
`serial_readers`: the same with a byte, and no exits. They are two since both at once take
TLC more than the time a check should.

* `InterruptsAreCovered` (action): a pending interrupt has a signal on its way or a
  context that will come to it; it loses them in one way only, when the context that
  dispatches finds itself on another core (section 5). The timer of the core, or the
  timeout of the device, makes up for that:
* `ReadersAreServed` (liveness): a Read returns when there are bytes, although the byte
  and its interrupt may come between the failed poll and the sleep.
* `MachineStops` (liveness): after the last exit every core comes to its end.

Fairness: cores and the PIC daemon are pthreads of the host (`WF` of their steps), timers
expire and the device times out (`WF`). Strong fairness is stated where an interrupt
may come again and again before the step: an idle thread, the return of a handler
and the handler of the second of two interrupts get done in the end, as quanta are long
compared with handlers. Nobody has to read, exit or type.

### RemoteServer

The main thread at the console, the listener and a thread per connection, which share
a record in the frame of the first. A section under `mx` is a step, but an update of
`active_conn` is a load and a store, as the listener makes it without the mutex. `raced`
records that an update was lost. Run `remote_server`: three connections.

* `LeavesNobodyBehind`: when the server returns, no thread will use its globals any more,
  unless an update was lost.
* `ConsoleIsWoken`: the main thread does not sleep while the count is zero; and unless an
  update was lost it does not sleep with no connection left to wake it. After a lost
  decrement it may sleep for ever (section 5).

### Symposium

Philosophers in a monitor, with a condition variable each, and the host that creates them, waits and frees
the table. Run `symposium`: five philosophers who eat twice; with five, two
eat at once and each has two neighbours that are not neighbours of each other.

* `TableExact`: neighbours never eat at once, who eats was let to, and nobody sleeps but
  while a neighbour eats who will look at it when done.
* `SymposiumEnds` (liveness): all get their bites and the table is freed. Fairness: the
  scheduler runs every thread that is ready (`WF` of each thread).

### Operators

* `RingLists`: a heap is a pair of pointer functions. `ListsAreSequences` (in `MCScheduler`)
  compares every operation with what it does to the sequence of nodes, for all
  heaps of a few nodes; this is what lets the other models use sequences.
* `ArgVectors`, `Inheritance`, `TextTools`, `ProcInfo`, `Devices`, `Barriers`: each assumption of
  `MCPrograms` says in its comment what is compared, and on which inputs. The inputs are
  cut where nothing new can happen: arguments of up to three strings of two
  characters, pipelines of up to four commands, texts of up to five characters over
  the classes the code tells apart, seven steps of three threads at a barrier.

### Mistakes

Definitions whose name begins with `Bug` are plausible mistakes in the definition
that follows them. Nothing uses them; put in its place, each makes TLC find a
violation of the properties listed for it in `PROJECT.json`.

## 3. Proofs

**Scheduler.** For every number of cores and threads and every set of timeouts,
from the assumptions on the constants (names differ, the threads are finitely many,
times stay below `NO_TIMEOUT`): `TypeOK`, `QueueExact`, `OneCorePerStack`,
`GainAssertion`, `TimeoutsExact`, `ActiveThreadsExact`, `YieldWakesExpired`. The
inductive invariant is `TypeOK`, `QueueExact`, `OneCorePerStack`, `TimeoutsExact`,
`ActiveThreadsExact` and `CoresAgree`. The last one is the strengthening: it says
what the state and phase of the current and the previous thread of a core can be
at each point of a switch, and that a DIRTY context is always on some core.
Without it, nothing keeps another core from making a thread CLEAN while it is being
saved. The proof has one lemma per action; `ListLemmas` carries what they need
about lists without repetition.

**KernelMonitor.** For every set of threads and channels: `TypeOK`, `SemaphoreExact`,
`RingsExact`, `SignalsTrue`, `KernelExclusionUnlessIntruded`, `NoLostWakeup`,
`SignalFindsSleeper`; and `KernelExclusion` itself when no thread returns from its
task. The inductive invariant is `TypeOK`, `ThreadsAgree` (who holds a lock can be
read off from where the threads are), `SemaphoreExact`, `RingsExact`, `SignalsTrue`
and `WakeupsSuffice`. `NoLostWakeup` alone is not inductive: with several units of
the semaphore (after an intruder) one thread on its way would use one of them and
leave the others without. `WakeupsSuffice` counts: as long as anybody waits, there
are at least as many threads on their way as there are units.

**Processes.** For every number of PCBs and every finite set of threads: `TypeOK`,
`TreeExact`, `FreelistExact`, `ThreadsExact`, `JoinsExact`, `SleepersHaveReason` and
`ReapsOwnZombies`, under the hypothesis `~ ConcurrentWaits`, which the run has too:
without it the code breaks them (`double_reap`). The inductive invariant adds to them:
* a rank of the PCBs that grows from parent to child. `TreeExact` by itself
  allows a cycle of parents away from init; with the rank, every process descends from
  process 1, so that the init process of `ExitLoop` really is the last one;
* the free list as an explicit sequence (`IsFreelist`): no PCB twice in it, linked in
  its order through `parent`, which a process in use needs for something else.
  `FreelistExact` speaks of the set that following the links gives; `FreelistFollows`
  derives it;
* `WaitsInv`: who waits for a child still is the parent of that child, and
  nobody else of its process waits for it. It is what makes `SpecificReturns` find its own
  zombie and not a PCB that was used again, and it is where the hypothesis is used.

`MaxThreads` bounds the threads of a process in the run; the proofs hold for any value.

**Streams.** For every number of FCBs and descriptors and all finite sets of processes and
threads: `TypeOK`, `FcbsExact` and `StreamsExact`. To be inductive they need two facts:
the descriptor that a failed `Pipe()` leaves behind is not of a free FCB (or its number
could be reserved by somebody else), and a process that is not alive has an
empty table (or Exec would lose references by writing over it). A lemma per
way in which a reference comes or goes (`FCB_incref()`, `FCB_decref()`, a
descriptor set, a descriptor copied) says what becomes of the set of users of
an FCB and of its cardinality; the actions cite them.

**Pipe.** For every buffer size, every finite set of threads and every bound on the
sizes of calls and on descriptors: `TypeOK`, `EndsExact`, `SleepersHaveReason`,
`ReturnsForAReason`, and the refinement `ImplementsFifo`. The inductive invariant is
`RingOk` (the positions stay in the buffer, and `w_position` is as far ahead of
`r_position` as there are bytes), `EndsOk` (`EndsExact` with its types) and `CallsOk`.
That the number of sleepers changes by one when one of them falls asleep or
returns is cardinality of finite sets. For the refinement, `PutAppends` and `GetDrops`
say what the two loops do to the content as a sequence; they rest on `AdvanceTwice` and
`AheadOfAdvance`, the arithmetic of a ring. `SleepersHaveReason` is inductive
relative to that invariant: bytes are put only when no unwoken writer sleeps, and
got only when no unwoken reader does.

**Sockets.** For every number of ports and threads, from the assumption that
pipe ends and sockets differ: `TypeOK`, `PortsExact`, `AcceptorsAreWoken` and
`RequestsAreKept`. The inductive invariant adds:
* `OneDescriptor`: a socket has one descriptor at most, so that `Close` ends it;
* `ListenersHavePorts`: an open listener has a port, and owns it. It may stop to hold
  when a descriptor is overwritten, hence the `~ corrupt`;
* `CallersExact`: `refcount` is the number of calls that sleep in the socket;
* `AcceptorsKnowPort`, `RequestsHavePeers` and `ClosedQueuesStayEmpty`: who sleeps in
  Accept does so on the port of its socket; a request in a queue came from the
  Connect of a socket; a listener that is closed while somebody still sleeps there has
  an empty queue, and keeps it. They make `AcceptorsAreWoken` inductive: it compares
  the length of the queue with the number of acceptors that are on their way, and each
  call changes both.

**Symposium.** For any number of philosophers and bites: types, the part `ForksExact` of
`TableExact`, and `TableExact` itself. The inductive invariant says that a
philosopher's state can be read off from where it is in its program (`Agree`), that
neighbours do not eat at once (`Apart`), and that who is hungry has a neighbour that
eats (`Fed`); it is inductive, where `TableExact` is not, as `trytoeat()` reads the states
and not the programs. The arithmetic of left and right modulo N is proved once, as lemmas.

**RemoteServer.** For any number of connections and any `size_t` that can count them
(each takes a thread, and thus memory): types, that `conn_id_counter` is the number of
connections that took a number, `LeavesNobodyBehind`, and both parts of `ConsoleIsWoken`. The
inductive invariant counts (`CountInv`): while no update was lost, `active_conn` is the
number of clients between their creation and their last store, plus one while the listener
has counted a connection and not yet created its thread. That the count does not wrap
needs `ListenerInv`: a connection is counted only if there is a thread to serve it. Past
the loop that waits for the connections the listener has returned (`ConsoleInv`), so
that nobody is served again.

**SerialDriver.** For every number of cores, threads and readers: types and
`InterruptsAreCovered`. The inductive invariant says that a context has a core whose interrupts
it dispatches exactly while it is in `dispatch_interrupts()` (`DispatchInv`): a
signal is therefore never taken by a context that is already bound to another core, and
the only step that unbinds one from a core with interrupts is its return on another core. All
other steps keep the signals that are there and send one with each new interrupt
(`SignalsKept`).

**Lists.** For heaps of any size: `rl_splice()` keeps `next` and `prev` inverse to each
other, and `rlist_remove()`, `rlist_pop_front()` and `rlist_push_back()` do what they
say; `PushThenRemove`; and `PopBackEmptiesList`, which says what `rlist_pop_back()` does
(section 5). What the operations do to the list as a sequence is recursive and stays
with TLC. These theorems are in `ListLemmas`.

The only recursion in an invariant is `LinkedFrom` in `Processes`, a recursive function on the
naturals. What it computes is proved by `NatSetInduction`: an induction stated on the
set of the numbers for which the fact holds, so that it needs no operator as parameter.

**Not proved, and left to TLC:** liveness (it needs ENABLED and fairness); what the
operator modules compute with recursion and folds; the violations.

## 4. What is not modelled

* The `mutex` of `kernel_cc.c` yields while it spins and behaves differently in
  interrupt context: left to the scheduler. Deadlocks between spinlocks and
  preemption (`kernel_sched.c:203`, `kernel_dev.c:101`) are thus out of these models: they
  need a creator that loses its quantum within one statement, and a machine of one core.
* `active_threads_spinlock` is taken for one statement: part of the step.
* The argument buffer of Exec and the exit values; the fields of a `procinfo`.
* A client of the remote server whose request has a length out of 1..2048 fails an assertion
  (`tinyos_shell.c:735`) and stops the machine: a behaviour of `RemoteServer` that ends
  there, and the run checks nothing that must happen.
* The descriptors that an unset `listener_socket` may name (`tinyos_shell.c:556`): no
  connection has one yet, and the console has read its last line. In the model
  Close() gets the listener's socket or has no effect.
* `ShutDown`, and Read and Write on a socket: they do nothing but fail (section 5).
* Signals, `select()`, fifos and clocks of the host under `bios.c`; the statistics it keeps.
* A writer to the terminal polls and yields. `Devices` has what it writes; that it goes on
  polling while the terminal is full, with the kernel locked, is not in `SerialDriver`.
* `kernel_init.c`: each module has its part of it as Init. The order of the parts does
  not matter, as no other core runs before the barrier that follows them.
* Menus, help and messages of the shell; `terminal.c` (a program of the host that copies
  bytes between a terminal and two fifos); the examples of the machine but for
  reading and writing lines; the tests.

## 5. Where the code does not do what is said of it

Shown by runs: `kernel_exclusion` (a returning task enters the kernel without its lock) and
`double_reap` (two waits for one child). The following have no run of their own: the
models have the behaviour of the code, or the properties are worded so as to hold of it.

Kernel:
* `kernel_sched.h:61` says that a TCB is in the scheduler queue iff it is READY and CLEAN. The
  thread that `yield()` chose is both, and out of the queue, until `gain()` marks it;
  and idle threads are never queued. `QueueExact` is the corrected form.
* The last thread of init that leaves by ThreadExit with a child left fails the
  assertion at `kernel_threads.c:204` (`AssertionFails` in `Processes`).
* Exit by one of several threads does not terminate the process, as `tinyos.h:246` says:
  `sys_Exit()` (`kernel_proc.c:332`) ends its thread only.
* `FCB_reserve()` leaves the state unchanged when it fails (`kernel_streams.h:88`), but
  `sys_Pipe()` reserves in two calls and does not undo the first when the second fails
  (`kernel_pipe.c:13`): a descriptor without a stream stays in the table (`leftover` in
  `Streams`), and an operation on it uses whatever stream its FCB had (`astray`).
* `procinfo_read()` (`kernel_proc.c:383`) writes through the pointer `info`, which nothing has set,
  copies to the reader from the address of that pointer and not from what it points to
  (`kernel_proc.c:403`), and never visits the last entry of the table. What SystemInfo prints
  is therefore no process (`printed` in `ProcInfo`; `described` is what was meant).
* Exec without a task (`kernel_proc.c:217`) makes a process that nobody can end: WaitChild on
  it sleeps for ever. CreateThread without a task returns a Tid that is in no list
  (`kernel_threads.c:55`) and that no other call accepts; its PTCB is never freed.

Sockets:
* `sys_Accept()` calls `create_peer_pipe()` twice on the same two FCBs; the second call
  overwrites the first. The connecting descriptor becomes the writer and the accepted
  one the reader of one pipe; nothing flows the other way. The FCBs no longer lead to a `Socket_cb`, so
  that `ShutDown`, which looks for a peer socket, fails, and `socket_read()` and `socket_write()`
  never find one.
* `sys_Socket()` passes `&FIDT[MAX_FILEID]` (`kernel_socket.c:61`) to `FCB_reserve()`, which
  stores a pointer there: one past the table.
* A request whose Connect timed out stays in the queue (`kernel_socket.c:267`); a later Accept
  admits it.
* An acceptor whose listener was closed and whose port another listener took before
  it ran again goes back to sleep, as it tests the port map and not its socket, and nobody will wake it.
* A negative timeout of Connect (`kernel_socket.c:270`), which is to mean for ever, is
  multiplied and becomes a large unsigned number, or not so large.
* No `Socket_cb` is ever freed.

Machine: `dispatch_interrupts()` leaves, when its context has moved to another core, without
the signal that would make the old core look again (`bios.c:338`, commented out): what
is pending there waits for the next interrupt. `InterruptsAreCovered` names this exception.

Lists: `rlist_pop_back()` (`util.h:479`) takes the list out of its own ring instead of the tail,
and so leaves it empty, whatever it held (proved: `PopBackEmptiesList`). The test
(`test_util.c:128`) does not notice.

Programs:
* The listener of the remote server increments `active_conn` without the mutex (`tinyos_shell.c:496`)
  under which clients decrement it (766). If an update is lost, "q" waits for ever or
  returns early: `RemoteServer` has these behaviours, and its properties are about the others.
  "q" before the listener has stored its socket closes whatever
  `listener_socket` holds (556), and may then wait for a listener that goes on accepting; the end of the console's input leaves without waiting (544).
* Every command of a pipeline but the last inherits the end from which the next one
  reads (`tinyos_shell.c:922` executes it before that end is closed): a command whose
  reader has ended does not get an error from Write, but sleeps once the pipe is full
  (`WritersKeepReaders`).
* A line of bars only makes one more fragment than `Vargc` has room for
  (`tinyos_shell.c:874`; `LinesAreSplit`).
* `WordCount` counts the end of a line as a word when the line is empty or ends with
  a blank; a byte 255 ends the input of every filter, as `char c` is compared with
  EOF; `more 0` divides by zero; `repeat` with a negative number prints a refusal and
  then runs until the number wraps.
* `ParseProcInfo()` (`tinyoslib.c:130`) unpacks into its own copy of the pointer.

## 6. Plan

Done: everything above. Next, in this order:
1. `SerialDriver`: that no context runs on two cores and no ready thread is missing from
   both the queue and the cores, as `Scheduler` has it for the halves of a switch.
2. Operators without recursion (`Inheritance`, `Devices`): their assumptions as lemmas.
