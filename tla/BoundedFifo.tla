---------------------------- MODULE BoundedFifo ----------------------------
(***************************************************************************)
(* What a pipe promises: a queue of bytes of a bounded capacity between a  *)
(* writing and a reading end.  Whatever is written is read once, in order; *)
(* what is in the queue when the writing end closes can still be read.     *)
(***************************************************************************)
EXTENDS Naturals, Sequences

CONSTANTS Bytes, Capacity

VARIABLES queue, writing, reading

fifo_vars == <<queue, writing, reading>>

Init ==
  /\ queue = << >>
  /\ writing = TRUE
  /\ reading = TRUE

\* A write puts bytes, as many as there is room for.  If the descriptors of
\* its end were closed meanwhile, it closes the end when it is done.
Put(bytes) ==
  /\ writing /\ reading
  /\ Len(queue) + Len(bytes) <= Capacity
  /\ queue' = queue \o bytes
  /\ writing' \in BOOLEAN
  /\ UNCHANGED reading

\* A read gets the first n bytes.
Get(n) ==
  /\ reading
  /\ n <= Len(queue)
  /\ queue' = SubSeq(queue, n + 1, Len(queue))
  /\ reading' \in BOOLEAN
  /\ UNCHANGED writing

CloseWrite == writing /\ writing' = FALSE /\ UNCHANGED <<queue, reading>>

CloseRead == reading /\ reading' = FALSE /\ UNCHANGED <<queue, writing>>

Next ==
  \/ \E k \in 1..Capacity : \E bytes \in [1..k -> Bytes] : Put(bytes)
  \/ \E n \in 1..Capacity : Get(n)
  \/ CloseWrite
  \/ CloseRead

Spec == Init /\ [][Next]_fifo_vars

=============================================================================
