----------------------------- MODULE SerialDriver -----------------------------
(***************************************************************************)
(* The serial driver (kernel_dev.c) on the virtual machine: threads that   *)
(* read from the terminal with preemption off, the handler that wakes them *)
(* from the core that takes the interrupt, and the switches of contexts    *)
(* that the quanta of the scheduler cause meanwhile.                       *)
(*                                                                         *)
(* Grain.  A switch, yield() with gain(), is one step (see Scheduler for   *)
(* its halves), so is the handler.  serial_read() polls the device in one  *)
(* step and goes to sleep in another.  It holds the kernel (see            *)
(* KernelMonitor) but while it sleeps.                                     *)
(***************************************************************************)
EXTENDS Machine, Sequences, SequencesExt

CONSTANTS Readers,    \* the threads that read; the others compute
          Mortals,    \* the threads that may exit
          size,       \* of a read
          MaxBytes    \* bound on the bytes that wait in the terminal

ASSUME DriverAssumption ==
  /\ Readers \subseteq Threads /\ Mortals \subseteq Threads
  /\ size \in Nat \ {0}
  /\ MaxBytes \in Nat

VARIABLES
  SCHED,
  prog,      \* "user"; in serial_read() "polls", "waits" from a failed poll
             \* to its sleep, "asleep"; or "exited"
  count,     \* of serial_read()
  holder,    \* the reader that holds the kernel
  idle       \* the idle context of a core has still to "yield", or may "test"
             \* active_threads, or "halt"

kernel_vars == <<SCHED, prog, count, holder, idle>>
serial_vars == <<machine_vars, kernel_vars>>

SerialTypeOK ==
  /\ MachineTypeOK
  /\ SCHED \in Seq(Threads)
  /\ prog \in [Threads -> {"user", "polls", "waits", "asleep", "exited"}]
  /\ count \in [Threads -> 0..size]
  /\ holder \in Readers \cup {NONE}
  /\ idle \in [Cores -> {"yield", "test", "halt"}]

\* The threads are in the queue, the cores come to the scheduler.
SerialInit ==
  /\ MachineInit
  /\ SCHED \in {s \in [1..Cardinality(Threads) -> Threads] : IsInjective(s)}
  /\ prog = [t \in Threads |-> "user"]
  /\ count = [t \in Threads |-> 0]
  /\ holder = NONE
  /\ idle = [c \in Cores |-> "yield"]

active_threads == {t \in Threads : prog[t] # "exited"}

Asleep == {t \in Threads : prog[t] = "asleep"}

-----------------------------------------------------------------------------
(***************************************************************************)
(* yield() with gain() on core c, when the queue is q.  The current thread *)
(* goes behind the queue if it stays ready; a thread that is retired to    *)
(* the queue restarts a core.                                              *)
(***************************************************************************)
Chosen(c, q, stays) ==
  IF q # << >> THEN Head(q) ELSE IF stays THEN current[c] ELSE c

\* gain() sets the timer.
BugNoTimerWhenIdle(c) == timer' = [timer EXCEPT ![c] = current'[c] # c]
SetsTimer(c) == timer' = [timer EXCEPT ![c] = TRUE]

Yield(c, q, stays) ==
  LET u == current[c]
      n == Chosen(c, q, stays)
      retired == stays /\ u \in Threads /\ n # u
  IN  /\ current' = [current EXCEPT ![c] = n]
      /\ SCHED' = (IF q = << >> THEN q ELSE Tail(q)) \o (IF retired THEN <<u>> ELSE << >>)
      /\ SetsTimer(c)
      /\ Restarts(IF retired THEN RestartedOne ELSE {})

\* ALARM: yield_handler().
HandlesAlarm(c) ==
  /\ c \notin down
  /\ Fetches(c, "ALARM")
  /\ Yield(c, SCHED, TRUE)
  /\ UNCHANGED <<down, context_vars, pic_vars, device_vars,
                 prog, count, holder, idle>>

\* serial_rx_handler() wakes every reader.
HandlesRx(c) ==
  /\ c \notin down
  /\ Fetches(c, "SERIAL_RX_READY")
  /\ SCHED' \in {SCHED \o s : s \in SetToSeqs(Asleep)}
  /\ prog' = [t \in Threads |-> IF t \in Asleep THEN "polls" ELSE prog[t]]
  /\ Restarts(IF Asleep = {} THEN {} ELSE RestartedOne)
  /\ UNCHANGED <<timer, current, down, context_vars, pic_vars, device_vars,
                 count, holder, idle>>

-----------------------------------------------------------------------------
(***************************************************************************)
(* The threads.                                                            *)
(***************************************************************************)

\* serial_read() is called: preemption off, count 0.
Calls(c) ==
  LET t == current[c]
  IN  /\ t \in Readers /\ at[t] = "runs" /\ prog[t] = "user" /\ holder = NONE
      /\ at' = [at EXCEPT ![t] = "masked"]
      /\ prog' = [prog EXCEPT ![t] = "polls"]
      /\ count' = [count EXCEPT ![t] = 0]
      /\ holder' = t
      /\ UNCHANGED <<core_vars, dispatches, pic_vars, device_vars, SCHED, idle>>

\* One round of its loop.
Polls(c) ==
  LET t == current[c]
      Returns0 == /\ at' = [at EXCEPT ![t] = "runs"]
                  /\ prog' = [prog EXCEPT ![t] = "user"]
                  /\ holder' = NONE
  IN  /\ t \in Threads /\ at[t] = "masked" /\ prog[t] = "polls"
      /\ holder \in {t, NONE}
      /\ \/ /\ ReadsByte
            /\ count' = [count EXCEPT ![t] = @ + 1]
            /\ \/ count'[t] = size /\ Returns0
               \/ count'[t] < size /\ holder' = t /\ UNCHANGED <<at, prog>>
         \/ /\ ReadsNothing
            /\ \/ count[t] > 0 /\ Returns0
               \/ /\ count[t] = 0
                  /\ prog' = [prog EXCEPT ![t] = "waits"]
                  /\ holder' = t
                  /\ UNCHANGED at
            /\ UNCHANGED count
      /\ UNCHANGED <<core_vars, dispatches, PIC_active, off, monitored,
                     SCHED, idle>>

\* kernel_wait(): it is on the list of rx_ready, and gives up the core and
\* the kernel.
FallsAsleep(c) ==
  LET t == current[c]
  IN  /\ t \in Threads /\ prog[t] = "waits"
      /\ prog' = [prog EXCEPT ![t] = "asleep"]
      /\ holder' = NONE
      /\ Yield(c, SCHED, FALSE)
      /\ UNCHANGED <<intr_pending, down, context_vars, pic_vars, device_vars,
                     count, idle>>

Exits(c) ==
  LET t == current[c]
  IN  /\ t \in Mortals /\ at[t] = "runs" /\ prog[t] = "user"
      /\ prog' = [prog EXCEPT ![t] = "exited"]
      /\ Yield(c, SCHED, FALSE)
      /\ UNCHANGED <<intr_pending, down, context_vars, pic_vars, device_vars,
                     count, holder, idle>>

-----------------------------------------------------------------------------
(***************************************************************************)
(* idle_thread().                                                          *)
(***************************************************************************)
Idles(c) == current[c] = c /\ at[c] = "runs" /\ c \notin down

IdleYields(c) ==
  /\ Idles(c) /\ idle[c] = "yield"
  /\ idle' = [idle EXCEPT ![c] = "test"]
  /\ Yield(c, SCHED, TRUE)
  /\ UNCHANGED <<intr_pending, down, context_vars, pic_vars, device_vars,
                 prog, count, holder>>

IdleTests(c) ==
  /\ Idles(c) /\ idle[c] = "test"
  /\ \/ /\ active_threads # {}
        /\ idle' = [idle EXCEPT ![c] = "halt"]
        /\ UNCHANGED machine_vars
     \/ /\ active_threads = {}
        /\ ShutsDown(c)
        /\ UNCHANGED idle
  /\ UNCHANGED <<SCHED, prog, count, holder>>

IdleHalts(c) ==
  /\ Idles(c) /\ idle[c] = "halt"
  /\ Halts(c)
  /\ idle' = [idle EXCEPT ![c] = "yield"]
  /\ UNCHANGED <<SCHED, prog, count, holder>>

IdleStep(c) == IdleYields(c) \/ IdleTests(c) \/ IdleHalts(c)

-----------------------------------------------------------------------------
\* What a core does of its own accord.
CoreStep(c) ==
  \/ (TakesSignal(c) \/ Ignores(c) \/ Returns(c)) /\ UNCHANGED kernel_vars
  \/ HandlesAlarm(c) \/ HandlesRx(c)
  \/ Polls(c) \/ FallsAsleep(c)

\* A key is pressed.
Types ==
  /\ fifo < MaxBytes
  /\ fifo' = fifo + 1
  /\ UNCHANGED <<core_vars, context_vars, pic_vars, ready, kernel_vars>>

Step ==
  \/ PicStep /\ UNCHANGED kernel_vars
  \/ \E c \in Cores : CoreStep(c) \/ IdleStep(c) \/ Calls(c) \/ Exits(c)
  \/ Types

SerialSpec == SerialInit /\ [][Step]_serial_vars

(***************************************************************************)
(* Fairness.  Cores and the PIC daemon are pthreads of the host, which     *)
(* schedules them all; time passes, for every timer and for the device.    *)
(* Interrupts do not come as fast as a core can handle them: quanta and    *)
(* timeouts are long, so that a core comes to the second of two that are   *)
(* pending, a handler returns, and the idle context gets a step done,      *)
(* however often they are interrupted.  A thread need not ever read or     *)
(* exit, nor need anybody type.                                            *)
(***************************************************************************)
Expires(c) == \E cs \in SUBSET Cores, late \in BOOLEAN : c \in cs /\ PicRound(cs, late)

FairSerialSpec ==
  /\ SerialSpec
  /\ \A c \in Cores :
       /\ WF_serial_vars(CoreStep(c))
       /\ SF_serial_vars(IdleStep(c))
       /\ SF_serial_vars(Returns(c) /\ UNCHANGED kernel_vars)
       /\ WF_serial_vars(Expires(c) /\ UNCHANGED kernel_vars)
  /\ SF_serial_vars(HandlesRx(0))
  /\ WF_serial_vars(\E cs \in SUBSET Cores : PicRound(cs, TRUE) /\ UNCHANGED kernel_vars)

-----------------------------------------------------------------------------
(***************************************************************************)
(* An interrupt that is pending has a signal on its way, or a context that *)
(* will come to it in dispatch_interrupts(), on whatever core that is now. *)
(* It loses them in one way only: when the context that dispatches finds   *)
(* itself on another core, and leaves without a signal (the line that      *)
(* would send it is commented out).                                        *)
(***************************************************************************)
Covered(c) ==
  intr_pending[c] # {} => usr1[c] \/ \E u \in Contexts : dispatches[u] = c

InterruptsAreCovered ==
  [][\A c \in Cores : Covered(c) /\ ~ Covered(c)' =>
       \E d \in Cores \ {c} : dispatches[current[d]] = c]_serial_vars

(***************************************************************************)
(* A Read of the terminal returns when there are bytes, although the byte  *)
(* may come and its interrupt be handled between the failed poll and the   *)
(* sleep, on another core.                                                 *)
(***************************************************************************)
ReadersAreServed ==
  \A t \in Readers :
    (prog[t] \in {"polls", "waits", "asleep"} /\ fifo > 0) ~> (prog[t] = "user" \/ fifo = 0)

(***************************************************************************)
(* When every thread has exited the machine stops: no core halts for ever, *)
(* although one may have tested active_threads before the last exit and    *)
(* halt after the others were restarted.                                   *)
(***************************************************************************)
MachineStops == (active_threads = {}) ~> off

=============================================================================
