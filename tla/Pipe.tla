-------------------------------- MODULE Pipe --------------------------------
(***************************************************************************)
(* A pipe (kernel_pipe.c): a ring buffer, its two ends, and the threads    *)
(* that sleep on a full or an empty buffer; with the reference counts of   *)
(* its two FCBs (kernel_streams.c), which decide when an end is closed and *)
(* when the pipe is freed.                                                 *)
(*                                                                         *)
(* Grain.  A call holds the kernel but while it sleeps in kernel_wait():   *)
(* what it does before that, and what it does after, is a step.            *)
(*                                                                         *)
(* The descriptors of an end, in whatever process, are only counted, and   *)
(* any thread may use them.                                                *)
(***************************************************************************)
EXTENDS Integers, Sequences, FiniteSets

CONSTANTS Threads,
          Bytes,
          PIPE_BUFFER_SIZE,
          MaxSize,    \* bound on the bytes of a call
          MaxFds      \* bound on the descriptors of an end

ASSUME ConstantsAssumption ==
  /\ IsFiniteSet(Threads)
  /\ PIPE_BUFFER_SIZE \in Nat \ {0}
  /\ MaxSize \in Nat
  /\ MaxFds \in Nat

VARIABLES
  BUFFER, w_position, r_position, empty_space,
  open,       \* which of pipe_cb->reader and ->writer are not NULL
  freed,      \* free(pipe_cb)
  fds,        \* the descriptors of an end
  refcount,   \* of the FCB of an end
  at,         \* "write" and "read": asleep in pipe_write(), pipe_read()
  buf,        \* the bytes that a sleeping writer wants to write
  size,       \* how many bytes a sleeping reader wants
  woken       \* its sleep was broadcast

ring_vars == <<BUFFER, w_position, r_position, empty_space>>
end_vars  == <<open, freed, fds, refcount>>
call_vars == <<at, buf, size, woken>>

vars == <<ring_vars, end_vars, call_vars>>

Ends == {"reader", "writer"}

Position == 0 .. (PIPE_BUFFER_SIZE - 1)

Bufs == UNION {[1..k -> Bytes] : k \in 0..MaxSize}

TypeOK ==
  /\ BUFFER \in [Position -> Bytes]
  /\ w_position \in Position
  /\ r_position \in Position
  /\ empty_space \in 0..PIPE_BUFFER_SIZE
  /\ open \in [Ends -> BOOLEAN]
  /\ freed \in BOOLEAN
  /\ fds \in [Ends -> Nat]
  /\ refcount \in [Ends -> Nat]
  /\ at \in [Threads -> {"user", "write", "read"}]
  /\ buf \in [Threads -> Seq(Bytes)]
  /\ size \in [Threads -> Nat]
  /\ woken \in [Threads -> BOOLEAN]

\* sys_Pipe() returned 0.  What malloc() left in the buffer is arbitrary.
Init ==
  /\ \E b \in Bytes : BUFFER = [p \in Position |-> b]
  /\ w_position = 0
  /\ r_position = 0
  /\ empty_space = PIPE_BUFFER_SIZE
  /\ open = [e \in Ends |-> TRUE]
  /\ freed = FALSE
  /\ fds = [e \in Ends |-> 1]
  /\ refcount = [e \in Ends |-> 1]
  /\ at = [t \in Threads |-> "user"]
  /\ buf = [t \in Threads |-> << >>]
  /\ size = [t \in Threads |-> 0]
  /\ woken = [t \in Threads |-> FALSE]

(***************************************************************************)
(* Definitions named Bug... are mistakes one could make in the definition  *)
(* that follows them.  Nothing uses them: each shows that some property    *)
(* below would notice.                                                     *)
(***************************************************************************)

Writers == {t \in Threads : at[t] = "write"}   \* asleep on has_space
Readers == {t \in Threads : at[t] = "read"}    \* asleep on has_data

Full  == empty_space = 0
Empty == empty_space = PIPE_BUFFER_SIZE

WokenWith(sleepers) == [u \in Threads |-> woken[u] \/ u \in sleepers]

-----------------------------------------------------------------------------
(***************************************************************************)
(* The ends.                                                               *)
(***************************************************************************)

\* pipe_writer_close() and pipe_reader_close() wake the other end.
BugWakesNobody(e) == {}
WokenByClose(e) == IF e = "writer" THEN Readers ELSE Writers

\* The descriptors of end e and the calls on it change: FCB_incref() and
\* FCB_decref(), which closes the stream with the last reference.
References(e, n) ==
  /\ refcount' = [refcount EXCEPT ![e] = n]
  /\ open' = [open EXCEPT ![e] = @ /\ n > 0]
  /\ freed' = (freed \/ \A d \in Ends : ~ open'[d])

\* Whom the close wakes.
ClosedWakes(e, n) == IF n = 0 THEN WokenByClose(e) ELSE {}

\* Dup2() to a free descriptor, or an Exec() that inherits the descriptor.
Dup(e) ==
  /\ fds[e] \in 1 .. (MaxFds - 1)
  /\ fds' = [fds EXCEPT ![e] = @ + 1]
  /\ References(e, refcount[e] + 1)
  /\ UNCHANGED <<ring_vars, call_vars>>

\* Close(), or the end of a process.
Close(e) ==
  /\ fds[e] > 0
  /\ fds' = [fds EXCEPT ![e] = @ - 1]
  /\ References(e, refcount[e] - 1)
  /\ woken' = WokenWith(ClosedWakes(e, refcount[e] - 1))
  /\ UNCHANGED <<ring_vars, at, buf, size>>

-----------------------------------------------------------------------------
(***************************************************************************)
(* The ring buffer.                                                        *)
(***************************************************************************)
BugWrapsEarly(position, k) == (position + k) % (PIPE_BUFFER_SIZE - 1)
Advance(position, k) == (position + k) % PIPE_BUFFER_SIZE

\* How far p lies ahead of a position.
Ahead(p, position) ==
  IF p >= position THEN p - position ELSE p - position + PIPE_BUFFER_SIZE

\* The bytes fit or do not: so many of them are written, or read.
Fitting(n) == IF n <= empty_space THEN n ELSE empty_space

Available(n) ==
  IF n <= PIPE_BUFFER_SIZE - empty_space THEN n ELSE PIPE_BUFFER_SIZE - empty_space

\* The loop of pipe_write()
PutBytes(b) ==
  LET k == Fitting(Len(b))
  IN  /\ BUFFER' = [p \in Position |->
                      IF Ahead(p, w_position) < k
                      THEN b[Ahead(p, w_position) + 1] ELSE BUFFER[p]]
      /\ w_position' = Advance(w_position, k)
      /\ empty_space' = empty_space - k
      /\ UNCHANGED r_position

\* The loop of pipe_read()
GetBytes(n) ==
  LET k == Available(n)
  IN  /\ r_position' = Advance(r_position, k)
      /\ empty_space' = empty_space + k
      /\ UNCHANGED <<BUFFER, w_position>>

-----------------------------------------------------------------------------
(***************************************************************************)
(* sys_Write() and pipe_write().  While a call sleeps it keeps a reference *)
(* to the FCB; else the reference comes and goes within the step.  A call  *)
(* that fails at once, as the reading end is closed, changes nothing.      *)
(***************************************************************************)
BugNoReference(e) == refcount[e]
OneMoreReference(e) == refcount[e] + 1

\* A call on end e goes to sleep.
FallsAsleep(t, e, place, b, n) ==
  /\ References(e, OneMoreReference(e))
  /\ at' = [at EXCEPT ![t] = place]
  /\ buf' = [buf EXCEPT ![t] = b]
  /\ size' = [size EXCEPT ![t] = n]
  /\ UNCHANGED <<ring_vars, fds, woken>>

\* A call on end e that has slept gives its reference back and returns.
Finishes(t, e, wakes) ==
  /\ References(e, refcount[e] - 1)
  /\ at' = [at EXCEPT ![t] = "user"]
  /\ buf' = [buf EXCEPT ![t] = << >>]
  /\ size' = [size EXCEPT ![t] = 0]
  /\ woken' = [WokenWith(wakes \cup ClosedWakes(e, refcount[e] - 1))
                 EXCEPT ![t] = FALSE]
  /\ UNCHANGED fds

\* The condition is tested again, and the thread sleeps again.
SleepsOn(t) ==
  /\ woken' = [woken EXCEPT ![t] = FALSE]
  /\ UNCHANGED <<ring_vars, end_vars, at, buf, size>>

Write(t, b) ==
  /\ at[t] = "user" /\ fds["writer"] > 0
  /\ open["reader"]
  /\ \/ /\ Full
        /\ FallsAsleep(t, "writer", "write", b, 0)
     \/ /\ ~ Full
        /\ PutBytes(b)
        /\ woken' = WokenWith(Readers)
        /\ UNCHANGED <<end_vars, at, buf, size>>

BugTestsOnce == FALSE
StillFull == Full /\ open["reader"]

WriteReturns(t) ==
  /\ at[t] = "write" /\ woken[t]
  /\ \/ /\ StillFull
        /\ SleepsOn(t)
     \/ /\ ~ open["reader"]
        /\ Finishes(t, "writer", {})
        /\ UNCHANGED ring_vars
     \/ /\ open["reader"] /\ ~ StillFull
        /\ PutBytes(buf[t])
        /\ Finishes(t, "writer", Readers)

(***************************************************************************)
(* sys_Read() and pipe_read().                                             *)
(***************************************************************************)
BugIgnoresEof == Empty
MustWaitForData == Empty /\ open["writer"]

Read(t, n) ==
  /\ at[t] = "user" /\ fds["reader"] > 0
  /\ \/ /\ MustWaitForData
        /\ FallsAsleep(t, "reader", "read", << >>, n)
     \/ /\ ~ MustWaitForData
        /\ GetBytes(n)
        /\ woken' = WokenWith(Writers)
        /\ UNCHANGED <<end_vars, at, buf, size>>

ReadReturns(t) ==
  /\ at[t] = "read" /\ woken[t]
  /\ \/ /\ MustWaitForData
        /\ SleepsOn(t)
     \/ /\ ~ MustWaitForData
        /\ GetBytes(size[t])
        /\ Finishes(t, "reader", Writers)

Returns(t) == WriteReturns(t) \/ ReadReturns(t)

\* Nobody can call the pipe any more.
Gone == (\A e \in Ends : fds[e] = 0) /\ UNCHANGED vars

Next ==
  \/ \E e \in Ends : Dup(e) \/ Close(e)
  \/ \E t \in Threads :
       \/ \E b \in Bufs : Write(t, b)
       \/ \E n \in 0..MaxSize : Read(t, n)
       \/ Returns(t)
  \/ Gone

Spec == Init /\ [][Next]_vars

-----------------------------------------------------------------------------
(***************************************************************************)
(* Safety.                                                                 *)
(***************************************************************************)

(***************************************************************************)
(* An end is open while a descriptor of it is, or a call on it sleeps; and *)
(* the pipe is freed with its second end, so that no descriptor and no     *)
(* sleeping call is left with a pipe that was freed.                       *)
(***************************************************************************)
CallsOn(e) == IF e = "writer" THEN Writers ELSE Readers

EndsExact ==
  /\ \A e \in Ends : /\ refcount[e] = fds[e] + Cardinality(CallsOn(e))
                     /\ open[e] <=> refcount[e] > 0
  /\ freed <=> \A e \in Ends : ~ open[e]

\* What the refinement rests on: the three counters of the ring buffer agree.
RingExact ==
  w_position = Advance(r_position, PIPE_BUFFER_SIZE - empty_space)

(***************************************************************************)
(* No lost wake-up: a thread that sleeps, and that no broadcast has woken, *)
(* could not do anything.                                                  *)
(***************************************************************************)
SleepersHaveReason ==
  \A t \in Threads : ~ woken[t] =>
    /\ at[t] = "write" => Full /\ open["reader"]
    /\ at[t] = "read" => MustWaitForData

(***************************************************************************)
(* A call that slept returns for a reason: a read with at least one byte,  *)
(* or at the end of file, with the buffer drained; a write with at least   *)
(* one byte written, or as the reading end was closed.  (Unless it asked   *)
(* for no byte.)                                                           *)
(***************************************************************************)
ReturnsForAReason ==
  [][\A t \in Threads : at'[t] = "user" =>
       /\ at[t] = "read" /\ size[t] > 0 =>
            empty_space' > empty_space \/ (Empty /\ ~ open["writer"])
       /\ at[t] = "write" /\ Len(buf[t]) > 0 =>
            empty_space' < empty_space \/ ~ open["reader"]]_vars

(***************************************************************************)
(* Refinement: the pipe is a bounded FIFO queue.                           *)
(***************************************************************************)
Content == [i \in 1 .. (PIPE_BUFFER_SIZE - empty_space) |->
              BUFFER[Advance(r_position, i - 1)]]

Fifo == INSTANCE BoundedFifo WITH
          Capacity <- PIPE_BUFFER_SIZE,
          queue <- Content,
          writing <- open["writer"],
          reading <- open["reader"]

\* Bytes come out once, in the order they went in, whatever the sizes of the
\* reads and writes; and what is in the pipe outlives its writers.
ImplementsFifo == Fifo!Spec

-----------------------------------------------------------------------------
(***************************************************************************)
(* Liveness.  A thread that was woken gets the kernel and goes on.         *)
(***************************************************************************)
FairSpec == Spec /\ \A t \in Threads : WF_vars(Returns(t))

\* Nobody sleeps for ever on a pipe whose other end was closed.
Abandoned(t) == \/ at[t] = "read" /\ ~ open["writer"]
                \/ at[t] = "write" /\ ~ open["reader"]

ClosedEndIsNoticed == \A t \in Threads : Abandoned(t) ~> at[t] = "user"

=============================================================================
