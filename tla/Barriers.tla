------------------------------- MODULE Barriers -------------------------------
(***************************************************************************)
(* The barrier of the user library (tinyoslib.c).  Its mutex is held from  *)
(* one Cond_Wait() to the next, so that a call is a section in which it    *)
(* arrives, and one for each time that it wakes.                           *)
(***************************************************************************)
EXTENDS Integers, Sequences, SequencesExt

CONSTANT Threads

BARRIER_INIT == [count |-> 0, epoch |-> 0]

Arrives(bar, n) ==
  IF bar.count + 1 = n THEN [count |-> 0, epoch |-> bar.epoch + 1]
  ELSE [bar EXCEPT !.count = @ + 1]

\* The condition of its loop, for a thread that arrived in epoch.
MustWait(bar, epoch) == epoch = bar.epoch

\* The threads that are outside when they get the mutex call BarrierSync(n),
\* the others have woken, in the order of schedule.  s.epoch[t] is the
\* variable of the call of t, or -1 outside; s.passed[t] how often t has
\* returned.
BarrierSync(schedule, n) ==
  LET Section(s, t) ==
        LET epoch == IF s.epoch[t] = -1 THEN s.bar.epoch ELSE s.epoch[t]
            bar   == IF s.epoch[t] = -1 THEN Arrives(s.bar, n) ELSE s.bar
        IN  [bar    |-> bar,
             epoch  |-> [s.epoch EXCEPT ![t] = IF MustWait(bar, epoch) THEN epoch ELSE -1],
             passed |-> [s.passed EXCEPT ![t] = IF MustWait(bar, epoch) THEN @ ELSE @ + 1]]
  IN  FoldLeft(Section,
               [bar    |-> BARRIER_INIT,
                epoch  |-> [t \in Threads |-> -1],
                passed |-> [t \in Threads |-> 0]], schedule)

=============================================================================
