------------------------------- MODULE Machine -------------------------------
(***************************************************************************)
(* The virtual machine under the kernel (bios.c): cores that are pthreads, *)
(* interrupts that are bits of intr_pending and a SIGUSR1, cores that halt *)
(* in sigwaitinfo(), timers, one serial input, and the PIC daemon, which   *)
(* polls timers and device and raises their interrupts.                    *)
(*                                                                         *)
(* A core runs a context (a thread of the kernel, or the idle context of   *)
(* the core).  A handler may switch contexts, and the context that was in  *)
(* the middle of dispatch_interrupts() may go on on another core.          *)
(*                                                                         *)
(* Grain.  An access to intr_pending, to halt_vector or to the device is a *)
(* step, and the signal that may follow it belongs to it.  A round of the  *)
(* PIC daemon, from the return of select(), is one step.  SIGUSR1 is a     *)
(* standard signal: one at most is pending.  Of the interrupts there are   *)
(* the two whose handlers do anything.                                     *)
(***************************************************************************)
EXTENDS Naturals, FiniteSets

CONSTANTS NCores,
          Threads,         \* the contexts of the kernel's threads
          physical_cores,
          NONE

Cores == 0 .. (NCores - 1)

ASSUME MachineAssumption ==
  /\ NCores \in Nat \ {0}
  /\ physical_cores \in Nat
  /\ IsFiniteSet(Threads)
  /\ Threads \cap Cores = {}
  /\ NONE \notin Threads \cup Cores

\* The idle context of a core has the core's name.
Contexts == Threads \cup Cores

VARIABLES
  \* a core
  intr_pending,
  usr1,          \* SIGUSR1 is pending
  timer,         \* is set
  current,       \* the context that runs on it
  halt_vector,
  down,          \* cores whose bootfunc() has returned
  \* a context
  at,            \* "runs", or with SIGUSR1 blocked: "masked", in "dispatch"
                 \* of interrupts, or "halts" in sigwaitinfo()
  dispatches,    \* the core whose interrupts it dispatches
  \* the PIC daemon
  PIC_active,
  off,           \* PIC_daemon() has ended
  notified,      \* its SIGUSR1
  monitored,     \* the device is in the set of select()
  \* the serial input
  fifo,          \* the number of bytes in it
  ready

core_vars    == <<intr_pending, usr1, timer, current, halt_vector, down>>
context_vars == <<at, dispatches>>
pic_vars     == <<PIC_active, off, notified, monitored>>
device_vars  == <<fifo, ready>>
machine_vars == <<core_vars, context_vars, pic_vars, device_vars>>

Interrupts == {"ALARM", "SERIAL_RX_READY"}

MachineTypeOK ==
  /\ intr_pending \in [Cores -> SUBSET Interrupts]
  /\ usr1 \in [Cores -> BOOLEAN]
  /\ timer \in [Cores -> BOOLEAN]
  /\ current \in [Cores -> Contexts]
  /\ halt_vector \subseteq Cores /\ down \subseteq Cores
  /\ at \in [Contexts -> {"runs", "masked", "dispatch", "halts"}]
  /\ dispatches \in [Contexts -> Cores \cup {NONE}]
  /\ PIC_active \in BOOLEAN /\ off \in BOOLEAN
  /\ notified \in BOOLEAN /\ monitored \in BOOLEAN
  /\ fifo \in Nat /\ ready \in BOOLEAN

\* All cores have booted and run their idle context.
MachineInit ==
  /\ intr_pending = [c \in Cores |-> {}]
  /\ usr1 = [c \in Cores |-> FALSE]
  /\ timer = [c \in Cores |-> FALSE]
  /\ current = [c \in Cores |-> c]
  /\ halt_vector = {} /\ down = {}
  /\ at = [u \in Contexts |-> "runs"]
  /\ dispatches = [u \in Contexts |-> NONE]
  /\ PIC_active = TRUE /\ off = FALSE
  /\ notified = FALSE /\ monitored = TRUE
  /\ fifo = 0 /\ ready = FALSE

(***************************************************************************)
(* Definitions named Bug... are mistakes one could make in the definition  *)
(* that follows them.  Nothing uses them.                                  *)
(***************************************************************************)

-----------------------------------------------------------------------------
(***************************************************************************)
(* The PIC daemon.                                                         *)
(***************************************************************************)

\* raise_interrupt() of interrupts is[c] of each core c: a signal, unless
\* the bit was set before.
BugSignalsWhoHalts(is) ==
  [c \in Cores |-> usr1[c] \/ (is[c] # {} /\ c \in halt_vector)]
Signalled(is) ==
  [c \in Cores |-> usr1[c] \/ is[c] \ intr_pending[c] # {}]

BugNoTimeout(late) == monitored /\ fifo > 0
IsDue(late) == (monitored /\ fifo > 0) \/ late

\* select() returns: the timers of cores cs have expired, or it was notified,
\* the device is readable, or time is over (late, the SERIAL_TIMEOUT).  The
\* interrupts of the device go to core 0.
PicRound(cs, late) ==
  /\ ~ off
  /\ \A c \in cs : timer[c]
  /\ cs # {} \/ notified \/ (monitored /\ fifo > 0) \/ late
  /\ LET is == [c \in Cores |->
                  (IF c \in cs THEN {"ALARM"} ELSE {}) \cup
                  (IF c = 0 /\ IsDue(late) THEN {"SERIAL_RX_READY"} ELSE {})]
     IN  /\ intr_pending' = [c \in Cores |-> intr_pending[c] \cup is[c]]
         /\ usr1' = Signalled(is)
  /\ timer' = [c \in Cores |-> timer[c] /\ c \notin cs]
  /\ ready' = (ready \/ IsDue(late))
  /\ notified' = FALSE
  /\ monitored' = ~ ready'
  /\ off' = ~ PIC_active
  /\ UNCHANGED <<current, halt_vector, down, context_vars, PIC_active, fifo>>

PicStep == \E cs \in SUBSET Cores, late \in BOOLEAN : PicRound(cs, late)

-----------------------------------------------------------------------------
(***************************************************************************)
(* The cores.                                                              *)
(***************************************************************************)

\* The signal handler begins, or sigwaitinfo() returns.
TakesSignal(c) ==
  /\ usr1[c] /\ at[current[c]] \in {"runs", "halts"}
  /\ usr1' = [usr1 EXCEPT ![c] = FALSE]
  /\ at' = [at EXCEPT ![current[c]] = "dispatch"]
  /\ dispatches' = [dispatches EXCEPT ![current[c]] = c]
  /\ UNCHANGED <<intr_pending, timer, current, halt_vector, down, pic_vars, device_vars>>

\* dispatch_interrupts() can go on: its context is still on its core.
GoesOn(c) ==
  /\ at[current[c]] = "dispatch" /\ dispatches[current[c]] = c
  /\ intr_pending[c] # {}

\* intr_fetch_lowest(); the handler is the business of the kernel.
Fetches(c, i) ==
  /\ GoesOn(c)
  /\ i \in intr_pending[c]
  /\ i = "SERIAL_RX_READY" => "ALARM" \notin intr_pending[c]
  /\ intr_pending' = [intr_pending EXCEPT ![c] = @ \ {i}]

\* On a core that is down the handlers are NULL.
Ignores(c) ==
  /\ c \in down
  /\ \E i \in Interrupts : Fetches(c, i)
  /\ UNCHANGED <<usr1, timer, current, halt_vector, down,
                 context_vars, pic_vars, device_vars>>

\* dispatch_interrupts() ends, and with it the handler or cpu_core_halt().
Returns(c) ==
  LET u == current[c]
  IN  /\ at[u] = "dispatch" /\ ~ GoesOn(c)
      /\ at' = [at EXCEPT ![u] = "runs"]
      /\ dispatches' = [dispatches EXCEPT ![u] = NONE]
      /\ halt_vector' = halt_vector \ {u}
      /\ UNCHANGED <<intr_pending, usr1, timer, current, down, pic_vars, device_vars>>

\* cpu_core_halt() up to sigwaitinfo(); only the idle context halts.
Halts(c) ==
  /\ current[c] = c /\ at[c] = "runs"
  /\ halt_vector' = halt_vector \cup {c}
  /\ at' = [at EXCEPT ![c] = "halts"]
  /\ UNCHANGED <<intr_pending, usr1, timer, current, down,
                 dispatches, pic_vars, device_vars>>

\* cpu_core_restart_one() restarts the first core whose bit is set, if that
\* core is one of the first physical_cores.
RestartedOne ==
  {c \in halt_vector : c < physical_cores /\ \A d \in halt_vector : c <= d}

\* What restarting cores cs does.
Restarts(cs) ==
  /\ halt_vector' = halt_vector \ cs
  /\ usr1' = [c \in Cores |-> usr1[c] \/ c \in cs]

\* The idle context of a core leaves bootfunc() and restarts all cores that
\* halt.  The last core stops the PIC daemon.
ShutsDown(c) ==
  /\ current[c] = c /\ at[c] = "runs" /\ c \notin down
  /\ timer' = [timer EXCEPT ![c] = FALSE]
  /\ Restarts(halt_vector)
  /\ down' = down \cup {c}
  /\ PIC_active' = (down' # Cores)
  /\ notified' = (notified \/ down' = Cores)
  /\ UNCHANGED <<intr_pending, current, context_vars, device_vars,
                 off, monitored>>

-----------------------------------------------------------------------------
(***************************************************************************)
(* The device.                                                             *)
(***************************************************************************)

\* io_device_read(): a byte, or the device is not ready and the PIC daemon
\* must monitor it.
ReadsByte ==
  /\ fifo > 0
  /\ fifo' = fifo - 1
  /\ UNCHANGED <<ready, notified>>

ReadsNothing ==
  /\ fifo = 0
  /\ ready' = FALSE
  /\ notified' = (notified \/ ready)
  /\ UNCHANGED fifo

=============================================================================
