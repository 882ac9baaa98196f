----------------------------- MODULE PipeProofs -----------------------------
(***************************************************************************)
(* For every size of the buffer, every set of threads and all sizes of     *)
(* reads and writes: the pipe is a bounded FIFO queue.                     *)
(***************************************************************************)
EXTENDS Pipe, SequenceTheorems, FiniteSetTheorems, TLAPS

S == PIPE_BUFFER_SIZE

LEMMA AdvanceWraps ==
  ASSUME NEW p \in Position, NEW k \in 0..S
  PROVE  Advance(p, k) = IF p + k < S THEN p + k ELSE p + k - S
<1>1. S \in Nat /\ S > 0
  BY ConstantsAssumption DEF S
<1>2. CASE p + k < S
  <2>1. p + k \in Nat /\ (p + k) % S = p + k
    BY <1>1, <1>2 DEF Position, S
  <2> QED
    BY <2>1, <1>2 DEF Advance, S
<1>3. CASE p + k >= S
  <2>1. p + k - S \in 0 .. (S - 1)
    BY <1>1, <1>3 DEF Position, S
  <2>2. (p + k) % S = p + k - S
    BY <1>1, <2>1 DEF Position, S
  <2> QED
    BY <2>2, <1>1, <1>3 DEF Advance, S, Position
<1> QED
  BY <1>1, <1>2, <1>3 DEF Position, S

(***************************************************************************)
(* The inductive invariant, in three parts: what the ring buffer, the ends *)
(* of the pipe, and the calls on it keep.                                  *)
(***************************************************************************)
RingOk ==
  /\ BUFFER \in [Position -> Bytes]
  /\ w_position \in Position
  /\ r_position \in Position
  /\ empty_space \in 0..S
  /\ RingExact

EndsOk ==
  /\ open \in [Ends -> BOOLEAN]
  /\ freed \in BOOLEAN
  /\ fds \in [Ends -> Nat]
  /\ refcount \in [Ends -> Nat]
  /\ at \in [Threads -> {"user", "write", "read"}]
  /\ EndsExact

CallsOk ==
  /\ buf \in [Threads -> Seq(Bytes)]
  /\ size \in [Threads -> Nat]
  /\ woken \in [Threads -> BOOLEAN]

IInv == RingOk /\ EndsOk /\ CallsOk

-----------------------------------------------------------------------------
(***************************************************************************)
(* Arithmetic of the ring.                                                 *)
(***************************************************************************)

\* Two advances are one.
LEMMA AdvanceTwice ==
  ASSUME NEW p \in Position, NEW j \in 0..S, NEW k \in 0..S, j + k <= S
  PROVE  /\ Advance(p, j) \in Position
         /\ Advance(Advance(p, j), k) = Advance(p, j + k)
<1>1. S \in Nat /\ S > 0 /\ Position = 0 .. (S - 1)
  BY ConstantsAssumption DEF S, Position
<1>2. Advance(p, j) \in Position
  BY <1>1, AdvanceWraps
<1> DEFINE q == Advance(p, j)
<1>3. q = IF p + j < S THEN p + j ELSE p + j - S
  BY AdvanceWraps
<1>4. Advance(q, k) = IF q + k < S THEN q + k ELSE q + k - S
  BY <1>2, AdvanceWraps
<1>5. Advance(p, j + k) = IF p + (j + k) < S THEN p + (j + k) ELSE p + (j + k) - S
  <2>1. j + k \in 0..S
    BY <1>1
  <2> QED
    BY <2>1, AdvanceWraps
<1> HIDE DEF q
<1>6. Advance(q, k) = Advance(p, j + k)
  BY <1>1, <1>3, <1>4, <1>5
<1> QED
  BY <1>2, <1>6 DEF q

\* Different advances, short of a whole turn, lead to different places; and
\* Ahead is the inverse of Advance.
LEMMA AheadOfAdvance ==
  ASSUME NEW p \in Position, NEW k \in 0 .. (S - 1)
  PROVE  Ahead(Advance(p, k), p) = k
<1>1. S \in Nat /\ S > 0 /\ Position = 0 .. (S - 1)
  BY ConstantsAssumption DEF S, Position
<1>2. Advance(p, k) = IF p + k < S THEN p + k ELSE p + k - S
  BY <1>1, AdvanceWraps
<1> QED
  BY <1>1, <1>2 DEF Ahead, S

-----------------------------------------------------------------------------
(***************************************************************************)
(* What the parts of the actions do to the parts of the invariant.         *)
(***************************************************************************)

LEMMA InitEstablishes == Init => IInv
<1> SUFFICES ASSUME Init PROVE IInv
  OBVIOUS
<1>1. S \in Nat /\ S > 0 /\ 0 \in Position
  BY ConstantsAssumption DEF S, Position
<1>2. RingOk
  <2>1. Advance(0, 0) = 0
    BY <1>1, AdvanceWraps
  <2> QED
    BY <1>1, <2>1 DEF Init, RingOk, RingExact, S
<1>3. EndsOk
  <2>1. Writers = {} /\ Readers = {}
    BY DEF Init, Writers, Readers
  <2>2. \A e \in Ends : Cardinality(CallsOn(e)) = 0
    BY <2>1, FS_EmptySet DEF CallsOn
  <2>3. /\ \A e \in Ends : refcount[e] = 1 /\ fds[e] = 1 /\ open[e]
        /\ "writer" \in Ends
    BY DEF Init, Ends
  <2>4. EndsExact
    BY <2>2, <2>3 DEF Init, EndsExact
  <2> QED
    BY <2>4 DEF Init, EndsOk
<1>4. CallsOk
  BY DEF Init, CallsOk
<1> QED
  BY <1>2, <1>3, <1>4 DEF IInv

LEMMA PutKeepsRing ==
  ASSUME RingOk, NEW b \in Seq(Bytes), PutBytes(b)
  PROVE  RingOk'
<1>1. S \in Nat /\ S > 0 /\ Position = 0 .. (S - 1)
  BY ConstantsAssumption DEF S, Position
<1> DEFINE k == Fitting(Len(b))
           len == S - empty_space
<1>2. k \in 0..empty_space /\ k <= Len(b) /\ empty_space \in 0..S /\ Len(b) \in Nat
  BY <1>1 DEF Fitting, RingOk
<1>3. r_position \in Position /\ w_position \in Position
      /\ BUFFER \in [Position -> Bytes]
  BY DEF RingOk
<1>4. w_position = Advance(r_position, len)
  BY DEF RingOk, RingExact, S
<1>5. len \in 0..S /\ k \in 0..S /\ len + k <= S
  BY <1>1, <1>2
<1>6. w_position' = Advance(w_position, k) /\ empty_space' = empty_space - k
      /\ r_position' = r_position
  BY DEF PutBytes
<1>7. BUFFER' \in [Position -> Bytes]
  <2>1. \A p \in Position : Ahead(p, w_position) \in Nat
    BY <1>1, <1>3 DEF Ahead, S
  <2>2. \A p \in Position :
          Ahead(p, w_position) < k => b[Ahead(p, w_position) + 1] \in Bytes
    BY <1>2, <2>1
  <2> QED
    BY <1>3, <2>2 DEF PutBytes
<1>8. w_position' \in Position /\ w_position' = Advance(r_position, len + k)
  BY <1>3, <1>4, <1>5, <1>6, AdvanceTwice
<1>9. empty_space' \in 0..S /\ S - empty_space' = len + k
  BY <1>1, <1>2, <1>6
<1> QED
  BY <1>3, <1>6, <1>7, <1>8, <1>9 DEF RingOk, RingExact, S

LEMMA GetKeepsRing ==
  ASSUME RingOk, NEW n \in Nat, GetBytes(n)
  PROVE  RingOk'
<1>1. S \in Nat /\ S > 0 /\ Position = 0 .. (S - 1)
  BY ConstantsAssumption DEF S, Position
<1> DEFINE k == Available(n)
           len == S - empty_space
<1>2. k \in 0..len /\ len \in 0..S /\ empty_space \in 0..S
  BY <1>1 DEF Available, RingOk, S
<1>3. r_position \in Position /\ w_position \in Position
  BY DEF RingOk
<1>4. w_position = Advance(r_position, len)
  BY DEF RingOk, RingExact, S
<1>5. r_position' = Advance(r_position, k) /\ empty_space' = empty_space + k
      /\ w_position' = w_position /\ BUFFER' = BUFFER
  BY DEF GetBytes
<1>6. k \in 0..S /\ len - k \in 0..S /\ k + (len - k) = len /\ len <= S
  BY <1>1, <1>2
<1>7. r_position' \in Position
      /\ Advance(Advance(r_position, k), len - k) = Advance(r_position, k + (len - k))
  BY <1>3, <1>5, <1>6, AdvanceTwice
<1>8. empty_space' \in 0..S /\ S - empty_space' = len - k
  BY <1>1, <1>2, <1>5
<1>9. w_position' = Advance(r_position', S - empty_space')
  BY <1>4, <1>5, <1>6, <1>7, <1>8
<1> QED
  BY <1>3, <1>5, <1>7, <1>8, <1>9 DEF RingOk, RingExact, S

\* What References() does to the flags, when the counts stay right.
LEMMA ReferencesKeepEnds ==
  ASSUME EndsOk, NEW e \in Ends, NEW n \in Nat, References(e, n), open[e],
         fds' \in [Ends -> Nat],
         at' \in [Threads -> {"user", "write", "read"}],
         n = fds'[e] + Cardinality(CallsOn(e)'),
         \A d \in Ends \ {e} : refcount[d] = fds'[d] + Cardinality(CallsOn(d)')
  PROVE  EndsOk'
<1>1. refcount' \in [Ends -> Nat] /\ open' \in [Ends -> BOOLEAN]
  BY DEF EndsOk, References
<1>2. \A d \in Ends : refcount'[d] = fds'[d] + Cardinality(CallsOn(d)')
  BY DEF EndsOk, References
<1>3. \A d \in Ends : open'[d] <=> refcount'[d] > 0
  BY DEF EndsOk, EndsExact, References
<1>4. freed' \in BOOLEAN /\ (freed' <=> \A d \in Ends : ~ open'[d])
  BY DEF EndsOk, EndsExact, References
<1> QED
  BY <1>1, <1>2, <1>3, <1>4 DEF EndsOk, EndsExact

LEMMA CallsAreCounted ==
  ASSUME EndsOk
  PROVE  \A e \in Ends : /\ IsFiniteSet(CallsOn(e))
                         /\ Cardinality(CallsOn(e)) \in Nat
<1>1. \A e \in Ends : CallsOn(e) \subseteq Threads
  BY DEF CallsOn, Writers, Readers
<1> QED
  BY <1>1, ConstantsAssumption, FS_Subset, FS_CardinalityType

\* A broadcast keeps the type of woken.
LEMMA WokenIsTyped ==
  ASSUME CallsOk, NEW sleepers, NEW t \in Threads
  PROVE  /\ WokenWith(sleepers) \in [Threads -> BOOLEAN]
         /\ [WokenWith(sleepers) EXCEPT ![t] = FALSE] \in [Threads -> BOOLEAN]
<1>1. \A u \in Threads : (woken[u] \/ u \in sleepers) \in BOOLEAN
  BY DEF CallsOk
<1>2. WokenWith(sleepers) \in [Threads -> BOOLEAN]
  BY <1>1 DEF WokenWith
<1>3. [WokenWith(sleepers) EXCEPT ![t] = FALSE] \in [Threads -> BOOLEAN]
  BY <1>2
<1> QED
  BY <1>2, <1>3

\* A call falls asleep: one more reference, one more call.
LEMMA FallsAsleepKeeps ==
  ASSUME IInv, NEW t \in Threads, NEW e \in Ends, NEW place,
         place = (IF e = "writer" THEN "write" ELSE "read"),
         NEW b \in Seq(Bytes), NEW n \in Nat,
         at[t] = "user", open[e], FallsAsleep(t, e, place, b, n)
  PROVE  IInv'
<1>1. RingOk'
  BY DEF IInv, RingOk, RingExact, FallsAsleep, ring_vars
<1>2. CallsOk'
  BY DEF IInv, CallsOk, FallsAsleep
<1>3. at' \in [Threads -> {"user", "write", "read"}] /\ fds' = fds
  BY DEF IInv, EndsOk, FallsAsleep
<1>4. CallsOn(e)' = CallsOn(e) \cup {t} /\ t \notin CallsOn(e)
  BY DEF IInv, EndsOk, FallsAsleep, CallsOn, Writers, Readers, Ends
<1>5. \A d \in Ends \ {e} : CallsOn(d)' = CallsOn(d)
  BY DEF IInv, EndsOk, FallsAsleep, CallsOn, Writers, Readers, Ends
<1>6. Cardinality(CallsOn(e)') = Cardinality(CallsOn(e)) + 1
  BY <1>4, CallsAreCounted, FS_AddElement DEF IInv
<1>7. EndsOk'
  <2>1. EndsOk /\ fds \in [Ends -> Nat] /\ refcount[e] \in Nat
        /\ \A d \in Ends : refcount[d] = fds[d] + Cardinality(CallsOn(d))
    BY DEF IInv, EndsOk, EndsExact
  <2>2. References(e, refcount[e] + 1) /\ refcount[e] + 1 \in Nat
    BY <2>1 DEF FallsAsleep, OneMoreReference
  <2>3. refcount[e] + 1 = fds'[e] + Cardinality(CallsOn(e)')
    BY <1>3, <1>6, <2>1, CallsAreCounted
  <2>4. \A d \in Ends \ {e} : refcount[d] = fds'[d] + Cardinality(CallsOn(d)')
    BY <1>3, <1>5, <2>1
  <2> QED
    BY <1>3, <2>1, <2>2, <2>3, <2>4, ReferencesKeepEnds
<1> QED
  BY <1>1, <1>2, <1>7 DEF IInv

\* A call that slept returns: one reference and one call less.
LEMMA FinishesKeeps ==
  ASSUME IInv, NEW t \in Threads, NEW e \in Ends,
         at[t] = (IF e = "writer" THEN "write" ELSE "read"),
         NEW wakes \in SUBSET Threads, Finishes(t, e, wakes)
  PROVE  EndsOk' /\ CallsOk' /\ open[e]
<1>1. CallsOk'
  <2>1. buf' \in [Threads -> Seq(Bytes)] /\ size' \in [Threads -> Nat]
    BY DEF IInv, CallsOk, Finishes
  <2>2. woken' \in [Threads -> BOOLEAN]
    BY WokenIsTyped DEF IInv, Finishes
  <2> QED
    BY <2>1, <2>2 DEF CallsOk
<1>2. at' \in [Threads -> {"user", "write", "read"}] /\ fds' = fds
  BY DEF IInv, EndsOk, Finishes
<1>3. CallsOn(e)' = CallsOn(e) \ {t} /\ t \in CallsOn(e)
  BY DEF IInv, EndsOk, Finishes, CallsOn, Writers, Readers, Ends
<1>4. \A d \in Ends \ {e} : CallsOn(d)' = CallsOn(d)
  BY DEF IInv, EndsOk, Finishes, CallsOn, Writers, Readers, Ends
<1>5. EndsOk /\ fds \in [Ends -> Nat] /\ refcount[e] \in Nat
      /\ \A d \in Ends : /\ refcount[d] = fds[d] + Cardinality(CallsOn(d))
                         /\ open[d] <=> refcount[d] > 0
  BY DEF IInv, EndsOk, EndsExact
<1>6. Cardinality(CallsOn(e)') = Cardinality(CallsOn(e)) - 1
      /\ Cardinality(CallsOn(e)') \in Nat /\ Cardinality(CallsOn(e)) \in Nat
  <2>1. IsFiniteSet(CallsOn(e)) /\ IsFiniteSet(CallsOn(e) \ {t})
    BY <1>5, CallsAreCounted, FS_RemoveElement
  <2> QED
    BY <1>3, <2>1, FS_RemoveElement, FS_CardinalityType
<1>7. refcount[e] > 0 /\ open[e] /\ refcount[e] - 1 \in Nat
  BY <1>5, <1>6
<1>8. EndsOk'
  <2>1. References(e, refcount[e] - 1)
    BY DEF Finishes
  <2>2. refcount[e] - 1 = fds'[e] + Cardinality(CallsOn(e)')
    BY <1>2, <1>5, <1>6
  <2>3. \A d \in Ends \ {e} : refcount[d] = fds'[d] + Cardinality(CallsOn(d)')
    BY <1>2, <1>4, <1>5
  <2> QED
    BY <1>2, <1>5, <1>7, <2>1, <2>2, <2>3, ReferencesKeepEnds
<1> QED
  BY <1>1, <1>7, <1>8

-----------------------------------------------------------------------------
(***************************************************************************)
(* The invariant is inductive.                                             *)
(***************************************************************************)

\* Where the ends and the calls on them stay, their invariants do.
LEMMA UnchangedKeeps ==
  /\ RingOk /\ UNCHANGED ring_vars => RingOk'
  /\ EndsOk /\ UNCHANGED <<end_vars, at>> => EndsOk'
<1>1. RingOk /\ UNCHANGED ring_vars => RingOk'
  BY DEF RingOk, RingExact, ring_vars
<1>2. EndsOk /\ UNCHANGED <<end_vars, at>> => EndsOk'
  <2> SUFFICES ASSUME EndsOk, UNCHANGED <<end_vars, at>> PROVE EndsOk'
    OBVIOUS
  <2>1. \A e \in Ends : Cardinality(CallsOn(e)') = Cardinality(CallsOn(e))
    BY DEF CallsOn, Writers, Readers
  <2>2. /\ open' = open /\ freed' = freed /\ fds' = fds
        /\ refcount' = refcount /\ at' = at
    BY DEF end_vars
  <2> QED
    BY <2>1, <2>2 DEF EndsOk, EndsExact
<1> QED
  BY <1>1, <1>2

LEMMA DupStep == ASSUME IInv, NEW e \in Ends, Dup(e) PROVE IInv'
<1>1. RingOk' /\ CallsOk'
  BY UnchangedKeeps DEF IInv, Dup, CallsOk, call_vars
<1>2. EndsOk /\ fds[e] > 0 /\ \A d \in Ends :
        /\ refcount[d] = fds[d] + Cardinality(CallsOn(d))
        /\ refcount[d] \in Nat /\ fds[d] \in Nat
        /\ open[d] <=> refcount[d] > 0
        /\ Cardinality(CallsOn(d)) \in Nat
  BY CallsAreCounted DEF IInv, EndsOk, EndsExact, Dup
<1>3. \A d \in Ends : CallsOn(d)' = CallsOn(d)
  BY DEF Dup, call_vars, CallsOn, Writers, Readers
<1>4. fds' = [fds EXCEPT ![e] = fds[e] + 1] /\ at' = at
      /\ References(e, refcount[e] + 1)
  BY DEF Dup, call_vars
<1>5. fds' \in [Ends -> Nat] /\ at' \in [Threads -> {"user", "write", "read"}]
  BY <1>2, <1>4 DEF EndsOk
<1>6. refcount[e] + 1 = fds'[e] + Cardinality(CallsOn(e)')
      /\ refcount[e] + 1 \in Nat /\ open[e]
  BY <1>2, <1>3, <1>4 DEF EndsOk
<1>7. \A d \in Ends \ {e} : refcount[d] = fds'[d] + Cardinality(CallsOn(d)')
  BY <1>2, <1>3, <1>4 DEF EndsOk
<1>8. EndsOk'
  BY <1>2, <1>4, <1>5, <1>6, <1>7, ReferencesKeepEnds
<1> QED
  BY <1>1, <1>8 DEF IInv

LEMMA CloseStep == ASSUME IInv, NEW e \in Ends, Close(e) PROVE IInv' /\ open[e]
<1>1. RingOk'
  BY UnchangedKeeps DEF IInv, Close
<1>2. CallsOk'
  <2>1. WokenWith(ClosedWakes(e, refcount[e] - 1)) \in [Threads -> BOOLEAN]
    BY DEF WokenWith, IInv, CallsOk
  <2> QED
    BY <2>1 DEF IInv, CallsOk, Close
<1>3. EndsOk /\ fds[e] > 0 /\ \A d \in Ends :
        /\ refcount[d] = fds[d] + Cardinality(CallsOn(d))
        /\ refcount[d] \in Nat /\ fds[d] \in Nat
        /\ open[d] <=> refcount[d] > 0
        /\ Cardinality(CallsOn(d)) \in Nat
  BY CallsAreCounted DEF IInv, EndsOk, EndsExact, Close
<1>4. \A d \in Ends : CallsOn(d)' = CallsOn(d)
  BY DEF Close, CallsOn, Writers, Readers
<1>5. fds' = [fds EXCEPT ![e] = fds[e] - 1] /\ at' = at
      /\ References(e, refcount[e] - 1)
  BY DEF Close
<1>6. fds' \in [Ends -> Nat] /\ at' \in [Threads -> {"user", "write", "read"}]
  BY <1>3, <1>5 DEF EndsOk
<1>7. refcount[e] - 1 = fds'[e] + Cardinality(CallsOn(e)')
      /\ refcount[e] - 1 \in Nat /\ open[e]
  BY <1>3, <1>4, <1>5 DEF EndsOk
<1>8. \A d \in Ends \ {e} : refcount[d] = fds'[d] + Cardinality(CallsOn(d)')
  BY <1>3, <1>4, <1>5 DEF EndsOk
<1>9. EndsOk'
  BY <1>3, <1>5, <1>6, <1>7, <1>8, ReferencesKeepEnds
<1> QED
  BY <1>1, <1>2, <1>7, <1>9 DEF IInv

\* Where a descriptor is, the end is open.
LEMMA DescriptorsKeepOpen ==
  ASSUME IInv, NEW e \in Ends, fds[e] > 0
  PROVE  open[e]
<1>1. fds[e] \in Nat /\ refcount[e] = fds[e] + Cardinality(CallsOn(e))
      /\ (open[e] <=> refcount[e] > 0)
  BY DEF IInv, EndsOk, EndsExact
<1>2. Cardinality(CallsOn(e)) \in Nat
  BY CallsAreCounted DEF IInv
<1> QED
  BY <1>1, <1>2

LEMMA BufsAreSequences == Bufs \subseteq Seq(Bytes)
  BY ConstantsAssumption DEF Bufs

LEMMA WriteStep == ASSUME IInv, NEW t \in Threads, NEW b \in Bufs, Write(t, b) PROVE IInv'
<1>1. b \in Seq(Bytes) /\ "writer" \in Ends
  BY BufsAreSequences DEF Ends
<1>2. CASE FallsAsleep(t, "writer", "write", b, 0)
  <2>1. at[t] = "user" /\ open["writer"]
    BY <1>1, DescriptorsKeepOpen DEF Write
  <2> QED
    BY <1>1, <1>2, <2>1, FallsAsleepKeeps
<1>3. CASE PutBytes(b) /\ woken' = WokenWith(Readers) /\ UNCHANGED <<end_vars, at, buf, size>>
  <2>1. RingOk'
    BY <1>1, <1>3, PutKeepsRing DEF IInv
  <2>2. EndsOk'
    BY <1>3, UnchangedKeeps DEF IInv
  <2>3. CallsOk'
    BY <1>3, WokenIsTyped DEF IInv, CallsOk
  <2> QED
    BY <2>1, <2>2, <2>3 DEF IInv
<1> QED
  BY <1>2, <1>3 DEF Write

LEMMA ReadStep == ASSUME IInv, NEW t \in Threads, NEW n \in Nat, Read(t, n) PROVE IInv'
<1>1. "reader" \in Ends /\ << >> \in Seq(Bytes)
  BY DEF Ends
<1>2. CASE FallsAsleep(t, "reader", "read", << >>, n)
  <2>1. at[t] = "user" /\ open["reader"]
    BY <1>1, DescriptorsKeepOpen DEF Read
  <2> QED
    BY <1>1, <1>2, <2>1, FallsAsleepKeeps
<1>3. CASE GetBytes(n) /\ woken' = WokenWith(Writers) /\ UNCHANGED <<end_vars, at, buf, size>>
  <2>1. RingOk'
    BY <1>3, GetKeepsRing DEF IInv
  <2>2. EndsOk'
    BY <1>3, UnchangedKeeps DEF IInv
  <2>3. CallsOk'
    BY <1>3, WokenIsTyped DEF IInv, CallsOk
  <2> QED
    BY <2>1, <2>2, <2>3 DEF IInv
<1> QED
  BY <1>2, <1>3 DEF Read

LEMMA SleepsOnStep == ASSUME IInv, NEW t \in Threads, SleepsOn(t) PROVE IInv'
<1>1. RingOk' /\ EndsOk'
  BY UnchangedKeeps DEF IInv, SleepsOn
<1>2. CallsOk'
  BY DEF IInv, CallsOk, SleepsOn
<1> QED
  BY <1>1, <1>2 DEF IInv

LEMMA WriteReturnsStep == ASSUME IInv, NEW t \in Threads, WriteReturns(t) PROVE IInv'
<1>1. "writer" \in Ends /\ at[t] = "write" /\ buf[t] \in Seq(Bytes)
      /\ Readers \subseteq Threads
  BY DEF Ends, WriteReturns, IInv, CallsOk, Readers
<1>2. CASE SleepsOn(t)
  BY <1>2, SleepsOnStep
<1>3. CASE Finishes(t, "writer", {}) /\ UNCHANGED ring_vars
  BY <1>1, <1>3, FinishesKeeps, UnchangedKeeps DEF IInv
<1>4. CASE PutBytes(buf[t]) /\ Finishes(t, "writer", Readers)
  BY <1>1, <1>4, FinishesKeeps, PutKeepsRing DEF IInv
<1> QED
  BY <1>2, <1>3, <1>4 DEF WriteReturns

LEMMA ReadReturnsStep == ASSUME IInv, NEW t \in Threads, ReadReturns(t) PROVE IInv'
<1>1. "reader" \in Ends /\ at[t] = "read" /\ size[t] \in Nat
      /\ Writers \subseteq Threads
  BY DEF Ends, ReadReturns, IInv, CallsOk, Writers
<1>2. CASE SleepsOn(t)
  BY <1>2, SleepsOnStep
<1>3. CASE GetBytes(size[t]) /\ Finishes(t, "reader", Writers)
  BY <1>1, <1>3, FinishesKeeps, GetKeepsRing DEF IInv
<1> QED
  BY <1>2, <1>3 DEF ReadReturns

LEMMA NextKeeps == IInv /\ [Next]_vars => IInv'
<1> SUFFICES ASSUME IInv, [Next]_vars PROVE IInv'
  OBVIOUS
<1>1. ASSUME NEW e \in Ends, Dup(e) \/ Close(e) PROVE IInv'
  BY <1>1, DupStep, CloseStep
<1>2. ASSUME NEW t \in Threads, NEW b \in Bufs, Write(t, b) PROVE IInv'
  BY <1>2, WriteStep
<1>3. ASSUME NEW t \in Threads, NEW n \in 0..MaxSize, Read(t, n) PROVE IInv'
  BY <1>3, ReadStep
<1>4. ASSUME NEW t \in Threads, Returns(t) PROVE IInv'
  BY <1>4, WriteReturnsStep, ReadReturnsStep DEF Returns
<1>5. CASE UNCHANGED vars
  BY <1>5, UnchangedKeeps DEF vars, IInv, CallsOk, call_vars, end_vars
<1> QED
  BY <1>1, <1>2, <1>3, <1>4, <1>5 DEF Next, Gone

\* The invariant holds in every reachable state.
THEOREM InvariantHolds == Spec => []IInv
<1> QED
  BY InitEstablishes, NextKeeps, PTL DEF Spec

\* The variables have their types.
THEOREM TypeCorrect == Spec => []TypeOK
<1>1. IInv => TypeOK
  BY DEF IInv, RingOk, EndsOk, CallsOk, TypeOK, S
<1> QED
  BY <1>1, InvariantHolds, PTL

\* An end is open while anybody refers to it, and no call is left with a pipe
\* that was freed.
THEOREM EndsAreExact == Spec => []EndsExact
<1>1. IInv => EndsExact
  BY DEF IInv, EndsOk
<1> QED
  BY <1>1, InvariantHolds, PTL

-----------------------------------------------------------------------------
(***************************************************************************)
(* The pipe implements the bounded FIFO queue.                             *)
(***************************************************************************)

\* The content of a ring buffer B, from position r, with e bytes of space left.
ContentOf(B, r, e) == [i \in 1 .. (S - e) |-> B[Advance(r, i - 1)]]

LEMMA ContentIsSequence ==
  ASSUME NEW B \in [Position -> Bytes], NEW r \in Position, NEW e \in 0..S
  PROVE  /\ ContentOf(B, r, e) \in Seq(Bytes)
         /\ Len(ContentOf(B, r, e)) = S - e
         /\ S - e \in 0..S
         /\ \A i \in 1 .. (S - e) : ContentOf(B, r, e)[i] = B[Advance(r, i - 1)]
<1>1. S \in Nat /\ S > 0 /\ S - e \in 0..S
  BY ConstantsAssumption DEF S
<1>2. \A i \in 1 .. (S - e) : B[Advance(r, i - 1)] \in Bytes
  <2> TAKE i \in 1 .. (S - e)
  <2>1. i - 1 \in 0..S /\ 0 \in 0..S /\ (i - 1) + 0 <= S
    BY <1>1
  <2>2. Advance(r, i - 1) \in Position
    BY <2>1, AdvanceTwice
  <2> QED
    BY <2>2
<1>3. ContentOf(B, r, e) \in [1 .. (S - e) -> Bytes]
  BY <1>2 DEF ContentOf
<1>4. ContentOf(B, r, e) \in Seq(Bytes) /\ DOMAIN ContentOf(B, r, e) = 1 .. (S - e)
  BY <1>1, <1>3
<1>5. Len(ContentOf(B, r, e)) = S - e
  BY <1>1, <1>4
<1> QED
  BY <1>1, <1>4, <1>5 DEF ContentOf

LEMMA ContentIs ==
  /\ Content = ContentOf(BUFFER, r_position, empty_space)
  /\ Content' = ContentOf(BUFFER', r_position', empty_space')
BY DEF Content, ContentOf, S

\* The loop of pipe_write() appends to the content.
LEMMA PutAppends ==
  ASSUME RingOk, NEW b \in Seq(Bytes), PutBytes(b)
  PROVE  /\ Content' = Content \o SubSeq(b, 1, Fitting(Len(b)))
         /\ SubSeq(b, 1, Fitting(Len(b))) \in [1 .. Fitting(Len(b)) -> Bytes]
         /\ Fitting(Len(b)) \in 0..S
         /\ Len(Content) + Fitting(Len(b)) <= S
<1> DEFINE k == Fitting(Len(b))
           len == S - empty_space
           bytes == SubSeq(b, 1, k)
<1>1. S \in Nat /\ S > 0 /\ Position = 0 .. (S - 1)
  BY ConstantsAssumption DEF S, Position
<1>2. k \in 0..empty_space /\ k <= Len(b) /\ Len(b) \in Nat /\ empty_space \in 0..S
      /\ len \in 0..S /\ len + k <= S /\ k \in 0..S
  BY <1>1 DEF Fitting, RingOk
<1>3. bytes \in Seq(Bytes) /\ Len(bytes) = k /\ \A i \in 1..k : bytes[i] = b[i]
      /\ bytes \in [1..k -> Bytes]
  <2>1. 1 \in Int /\ k \in Int /\ \A i \in 1..k : b[i] \in Bytes
    BY <1>2
  <2>2. /\ bytes \in Seq(Bytes)
        /\ Len(bytes) = IF 1 <= k THEN k - 1 + 1 ELSE 0
        /\ \A i \in 1 .. k - 1 + 1 : bytes[i] = b[1 + i - 1]
    BY <2>1, SubSeqProperties
  <2>3. Len(bytes) = k /\ \A i \in 1..k : bytes[i] = b[i]
    BY <1>2, <2>2
  <2>4. bytes \in [1..k -> Bytes]
    BY <2>2, <2>3, LenProperties
  <2> QED
    BY <2>2, <2>3, <2>4
<1>4. RingOk'
  BY PutKeepsRing
<1>5. r_position' = r_position /\ S - empty_space' = len + k
      /\ r_position \in Position /\ w_position \in Position
      /\ w_position = Advance(r_position, len)
      /\ BUFFER' = [p \in Position |->
                      IF Ahead(p, w_position) < k
                      THEN b[Ahead(p, w_position) + 1] ELSE BUFFER[p]]
  BY <1>1, <1>2 DEF PutBytes, RingOk, RingExact, S
<1>6. /\ Content \in Seq(Bytes) /\ Len(Content) = len
      /\ \A i \in 1..len : Content[i] = BUFFER[Advance(r_position, i - 1)]
  BY <1>5, ContentIsSequence, ContentIs DEF RingOk
<1>7. /\ Content' \in Seq(Bytes) /\ Len(Content') = len + k
      /\ \A i \in 1 .. (len + k) :
           Content'[i] = BUFFER'[Advance(r_position, i - 1)]
  <2>1. BUFFER' \in [Position -> Bytes] /\ r_position' \in Position /\ empty_space' \in 0..S
    BY <1>4 DEF RingOk
  <2>2. /\ Content' \in Seq(Bytes) /\ Len(Content') = S - empty_space'
        /\ \A i \in 1 .. (S - empty_space') :
             Content'[i] = BUFFER'[Advance(r_position', i - 1)]
    BY <2>1, ContentIsSequence, ContentIs
  <2> QED
    BY <1>5, <2>2
<1>8. ASSUME NEW i \in 1..len
      PROVE  Content'[i] = Content[i]
  <2>1. r_position \in Position /\ i - 1 \in 0 .. (S - 1)
    BY <1>1, <1>2, <1>5
  <2> DEFINE p == Advance(r_position, i - 1)
  <2>2. p = IF r_position + (i - 1) < S THEN r_position + (i - 1)
                                        ELSE r_position + (i - 1) - S
    BY <1>1, <2>1, AdvanceWraps
  <2>3. w_position = IF r_position + len < S THEN r_position + len
                                             ELSE r_position + len - S
    BY <1>2, <1>5, AdvanceWraps
  <2>4. p \in Position
    BY <1>1, <1>5, <2>1, <2>2
  <2> HIDE DEF p
  <2>5. ~ (Ahead(p, w_position) < k)
    <3>1. Ahead(p, w_position) = IF p >= w_position THEN p - w_position
                                                    ELSE p - w_position + S
      BY DEF Ahead, S
    <3>2. /\ r_position \in Nat /\ r_position < S /\ i \in Nat /\ 1 <= i /\ i <= len
          /\ k \in Nat /\ len \in Nat /\ len + k <= S
      BY <1>1, <1>2, <1>5
    <3> HIDE DEF k, len
    <3> QED
      BY <1>1, <2>2, <2>3, <3>1, <3>2
  <2>6. BUFFER'[p] = BUFFER[p]
    BY <1>5, <2>4, <2>5
  <2> QED
    BY <1>2, <1>6, <1>7, <2>6 DEF p
<1>9. ASSUME NEW j \in 1..k
      PROVE  Content'[len + j] = bytes[j]
  <2>1. j - 1 \in 0 .. (S - 1) /\ j - 1 \in 0..S /\ len + (j - 1) <= S
        /\ len + j \in 1 .. (len + k) /\ (len + j) - 1 = len + (j - 1)
    BY <1>1, <1>2
  <2>2. Advance(r_position, (len + j) - 1) = Advance(w_position, j - 1)
    BY <1>2, <1>5, <2>1, AdvanceTwice
  <2>3. Ahead(Advance(w_position, j - 1), w_position) = j - 1
    BY <1>5, <2>1, AheadOfAdvance
  <2>4. Advance(w_position, j - 1) \in Position
    <3>1. 0 \in 0..S /\ (j - 1) + 0 <= S
      BY <1>1, <2>1
    <3> QED
      BY <1>5, <2>1, <3>1, AdvanceTwice
  <2>5. BUFFER'[Advance(w_position, j - 1)] = b[(j - 1) + 1]
    BY <1>2, <1>5, <2>3, <2>4
  <2> QED
    BY <1>3, <1>7, <2>1, <2>2, <2>5
<1>10. Content' = Content \o bytes
  <2> HIDE DEF bytes, k, len
  <2>1. /\ Content \o bytes \in Seq(Bytes) /\ Len(Content \o bytes) = len + k
        /\ \A i \in 1 .. (len + k) :
             (Content \o bytes)[i] = IF i <= len THEN Content[i] ELSE bytes[i - len]
    BY <1>3, <1>6, ConcatProperties
  <2>2. \A i \in 1 .. (len + k) : Content'[i] = (Content \o bytes)[i]
    <3> TAKE i \in 1 .. (len + k)
    <3>1. len \in Nat /\ k \in Nat /\ i \in Nat /\ 1 <= i /\ i <= len + k
      BY <1>2
    <3>2. CASE i <= len
      <4>1. i \in 1..len
        BY <3>1, <3>2
      <4>2. Content'[i] = Content[i]
        BY <1>8, <4>1
      <4> QED
        BY <2>1, <3>2, <4>2
    <3>3. CASE ~ (i <= len)
      <4> DEFINE j == i - len
      <4>1. j \in 1..k /\ len + j = i
        BY <3>1, <3>3
      <4>2. Content'[len + j] = bytes[j]
        BY <1>9, <4>1
      <4> QED
        BY <2>1, <3>3, <4>1, <4>2
    <3> QED
      BY <3>2, <3>3
  <2> QED
    BY <1>2, <1>7, <2>1, <2>2, SeqEqual
<1> QED
  BY <1>2, <1>3, <1>6, <1>10

\* The loop of pipe_read() drops bytes from the front.
LEMMA GetDrops ==
  ASSUME RingOk, NEW n \in Nat, GetBytes(n)
  PROVE  /\ Content' = SubSeq(Content, Available(n) + 1, Len(Content))
         /\ Available(n) \in 0..S
         /\ Available(n) <= Len(Content)
<1> DEFINE k == Available(n)
           len == S - empty_space
           rest == SubSeq(Content, k + 1, Len(Content))
<1>1. S \in Nat /\ S > 0
  BY ConstantsAssumption DEF S
<1>2. k \in 0..len /\ len \in 0..S /\ k \in 0..S /\ len \in Nat /\ k \in Nat
  BY <1>1 DEF Available, RingOk, S
<1>3. /\ BUFFER' = BUFFER /\ r_position' = Advance(r_position, k)
      /\ empty_space' = empty_space + k /\ S - empty_space' = len - k
      /\ r_position \in Position /\ BUFFER \in [Position -> Bytes]
      /\ empty_space \in 0..S
  BY <1>1, <1>2 DEF GetBytes, RingOk, S
<1>4. /\ Content \in Seq(Bytes) /\ Len(Content) = len
      /\ \A i \in 1..len : Content[i] = BUFFER[Advance(r_position, i - 1)]
  BY <1>3, ContentIsSequence, ContentIs
<1>5. /\ Content' \in Seq(Bytes) /\ Len(Content') = len - k
      /\ \A i \in 1 .. (len - k) : Content'[i] = BUFFER[Advance(r_position', i - 1)]
  <2>1. RingOk'
    BY GetKeepsRing
  <2>2. BUFFER' \in [Position -> Bytes] /\ r_position' \in Position /\ empty_space' \in 0..S
    BY <2>1 DEF RingOk
  <2>3. /\ Content' \in Seq(Bytes) /\ Len(Content') = S - empty_space'
        /\ \A i \in 1 .. (S - empty_space') :
             Content'[i] = BUFFER'[Advance(r_position', i - 1)]
    BY <2>2, ContentIsSequence, ContentIs
  <2> QED
    BY <1>3, <2>3
<1> HIDE DEF k, len
<1>6. /\ rest \in Seq(Bytes) /\ Len(rest) = len - k
      /\ \A i \in 1 .. (len - k) : rest[i] = Content[k + i]
  <2>1. k + 1 \in Int /\ len \in Int /\ \A i \in (k + 1) .. len : Content[i] \in Bytes
    BY <1>2, <1>4
  <2>2. /\ rest \in Seq(Bytes)
        /\ Len(rest) = IF k + 1 <= len THEN len - (k + 1) + 1 ELSE 0
        /\ \A i \in 1 .. len - (k + 1) + 1 : rest[i] = Content[(k + 1) + i - 1]
    BY <1>4, <2>1, SubSeqProperties
  <2> QED
    BY <1>2, <2>2
<1>7. ASSUME NEW i \in 1 .. (len - k)
      PROVE  Content'[i] = rest[i]
  <2>1. i - 1 \in 0..S /\ k + (i - 1) <= S /\ k + i \in 1..len
        /\ (k + i) - 1 = k + (i - 1)
    BY <1>1, <1>2
  <2>2. Advance(Advance(r_position, k), i - 1) = Advance(r_position, k + (i - 1))
    BY <1>2, <1>3, <2>1, AdvanceTwice
  <2>3. Content'[i] = BUFFER[Advance(r_position, k + (i - 1))]
    BY <1>3, <1>5, <2>2
  <2>4. rest[i] = Content[k + i]
    BY <1>6
  <2>5. Content[k + i] = BUFFER[Advance(r_position, k + (i - 1))]
    BY <1>4, <2>1
  <2> QED
    BY <2>3, <2>4, <2>5
<1>8. Content' = rest
  BY <1>2, <1>5, <1>6, <1>7, SeqEqual
<1> QED
  BY <1>2, <1>4, <1>8 DEF k, len

\* The content stays where the ring buffer does.
LEMMA ContentStays == UNCHANGED ring_vars => Content' = Content
BY ContentIs DEF ring_vars

-----------------------------------------------------------------------------
(***************************************************************************)
(* Every step of the pipe is a step of the queue, or none.                 *)
(***************************************************************************)

LEMMA InitRefines == Init => Fifo!Init
<1> SUFFICES ASSUME Init PROVE Fifo!Init
  OBVIOUS
<1>1. S \in Nat /\ S > 0 /\ empty_space = S
  BY ConstantsAssumption DEF S, Init
<1>2. RingOk
  BY InitEstablishes DEF IInv
<1>3. Content \in Seq(Bytes) /\ Len(Content) = 0
  BY <1>1, <1>2, ContentIsSequence, ContentIs DEF RingOk
<1>4. Content = << >>
  BY <1>3
<1> QED
  BY <1>4 DEF Init, Fifo!Init, Ends

\* Only the end whose references change may close.
LEMMA ReferencesClose ==
  ASSUME IInv, NEW e \in Ends, NEW n, References(e, n)
  PROVE  /\ \A d \in Ends \ {e} : open'[d] = open[d]
         /\ open'[e] \in BOOLEAN /\ (open'[e] => open[e])
<1>1. open \in [Ends -> BOOLEAN]
  BY DEF IInv, EndsOk
<1> QED
  BY <1>1 DEF References

\* A step that moves no bytes and closes at most one end.
LEMMA QuietStepRefines ==
  ASSUME IInv, Content' = Content, NEW e \in Ends,
         \A d \in Ends \ {e} : open'[d] = open[d],
         open'[e] \in BOOLEAN, open'[e] => open[e]
  PROVE  [Fifo!Next]_(Fifo!fifo_vars)
<1>1. open[e] \in BOOLEAN /\ Ends = {"reader", "writer"}
  BY DEF IInv, EndsOk, Ends
<1>2. CASE open'[e] = open[e]
  BY <1>1, <1>2 DEF Fifo!fifo_vars
<1>3. CASE open'[e] # open[e] /\ e = "writer"
  <2>1. Fifo!CloseWrite
    BY <1>1, <1>3 DEF Fifo!CloseWrite
  <2> QED
    BY <2>1 DEF Fifo!Next
<1>4. CASE open'[e] # open[e] /\ e = "reader"
  <2>1. Fifo!CloseRead
    BY <1>1, <1>4 DEF Fifo!CloseRead
  <2> QED
    BY <2>1 DEF Fifo!Next
<1> QED
  BY <1>1, <1>2, <1>3, <1>4

\* A step of pipe_write() that puts bytes, and may close its end.
LEMMA PutRefines ==
  ASSUME IInv, NEW b \in Seq(Bytes), PutBytes(b), open["writer"], open["reader"],
         open'["reader"] = open["reader"], open'["writer"] \in BOOLEAN
  PROVE  [Fifo!Next]_(Fifo!fifo_vars)
<1> DEFINE k == Fitting(Len(b))
           bytes == SubSeq(b, 1, k)
<1>1. /\ Content' = Content \o bytes /\ bytes \in [1..k -> Bytes]
      /\ k \in 0..S /\ Len(Content) + k <= S /\ S \in Nat
  BY PutAppends, ConstantsAssumption DEF IInv, S
<1> HIDE DEF k, bytes
<1>2. CASE k = 0
  <2>1. bytes = << >>
    BY <1>1, <1>2
  <2>2. Content \in Seq(Bytes)
    BY ContentIsSequence, ContentIs DEF IInv, RingOk
  <2>3. Content' = Content
    BY <1>1, <2>1, <2>2, ConcatEmptySeq
  <2>4. "writer" \in Ends /\ Ends \ {"writer"} = {"reader"}
    BY DEF Ends
  <2> QED
    BY <2>3, <2>4, QuietStepRefines
<1>3. CASE k > 0
  <2>1. k \in 1..S /\ Len(bytes) = k
    BY <1>1, <1>3
  <2>2. Fifo!Put(bytes)
    BY <1>1, <2>1 DEF Fifo!Put, S
  <2> QED
    BY <1>1, <2>1, <2>2 DEF Fifo!Next, S
<1> QED
  BY <1>1, <1>2, <1>3

\* A step of pipe_read() that gets bytes, and may close its end.
LEMMA GetRefines ==
  ASSUME IInv, NEW n \in Nat, GetBytes(n), open["reader"],
         open'["writer"] = open["writer"], open'["reader"] \in BOOLEAN
  PROVE  [Fifo!Next]_(Fifo!fifo_vars)
<1> DEFINE k == Available(n)
<1>1. /\ Content' = SubSeq(Content, k + 1, Len(Content))
      /\ k \in 0..S /\ k <= Len(Content) /\ S \in Nat
  BY GetDrops, ConstantsAssumption DEF IInv, S
<1>2. CASE k = 0
  <2>1. Content \in Seq(Bytes)
    BY ContentIsSequence, ContentIs DEF IInv, RingOk
  <2>2. empty_space' = empty_space + 0 /\ r_position' = Advance(r_position, 0)
        /\ BUFFER' = BUFFER
    BY <1>2 DEF GetBytes
  <2>3. r_position' = r_position /\ empty_space' = empty_space
    <3>1. r_position \in Position /\ empty_space \in 0..S /\ 0 \in 0..S
      BY <1>1 DEF IInv, RingOk
    <3>2. Advance(r_position, 0) = r_position
      BY <1>1, <3>1, AdvanceWraps DEF Position, S
    <3> QED
      BY <1>1, <2>2, <3>1, <3>2
  <2>4. Content' = Content
    BY <2>2, <2>3, ContentIs
  <2>5. "reader" \in Ends /\ Ends \ {"reader"} = {"writer"}
    BY DEF Ends
  <2> QED
    BY <2>4, <2>5, QuietStepRefines
<1>3. CASE k > 0
  <2>1. k \in 1..S
    BY <1>1, <1>3
  <2> HIDE DEF k
  <2>2. Fifo!Get(k)
    BY <1>1, <2>1 DEF Fifo!Get
  <2> QED
    BY <2>1, <2>2 DEF Fifo!Next, S
<1> QED
  BY <1>1, <1>2, <1>3

\* A call goes to sleep, or sleeps again.
LEMMA SleepRefines ==
  ASSUME IInv, NEW t \in Threads, NEW e \in Ends, NEW place, NEW b, NEW n,
         FallsAsleep(t, e, place, b, n)
  PROVE  [Fifo!Next]_(Fifo!fifo_vars)
<1>1. Content' = Content
  BY ContentStays DEF FallsAsleep
<1>2. References(e, OneMoreReference(e))
  BY DEF FallsAsleep
<1> QED
  BY <1>1, <1>2, ReferencesClose, QuietStepRefines

LEMMA SleepAgainRefines ==
  ASSUME IInv, NEW t \in Threads, SleepsOn(t)
  PROVE  [Fifo!Next]_(Fifo!fifo_vars)
<1>1. Content' = Content /\ open' = open
  BY ContentStays DEF SleepsOn, end_vars
<1> QED
  BY <1>1 DEF Fifo!fifo_vars

LEMMA DupRefines ==
  ASSUME IInv, NEW e \in Ends, Dup(e)
  PROVE  [Fifo!Next]_(Fifo!fifo_vars)
<1>1. Content' = Content
  BY ContentStays DEF Dup
<1>2. References(e, refcount[e] + 1)
  BY DEF Dup
<1> QED
  BY <1>1, <1>2, ReferencesClose, QuietStepRefines

LEMMA CloseRefines ==
  ASSUME IInv, NEW e \in Ends, Close(e)
  PROVE  [Fifo!Next]_(Fifo!fifo_vars)
<1>1. Content' = Content
  BY ContentStays DEF Close
<1>2. References(e, refcount[e] - 1)
  BY DEF Close
<1> QED
  BY <1>1, <1>2, ReferencesClose, QuietStepRefines

LEMMA WriteRefines ==
  ASSUME IInv, NEW t \in Threads, NEW b \in Bufs, Write(t, b)
  PROVE  [Fifo!Next]_(Fifo!fifo_vars)
<1>1. b \in Seq(Bytes) /\ "writer" \in Ends /\ fds["writer"] > 0 /\ open["reader"]
  BY BufsAreSequences DEF Ends, Write
<1>2. open["writer"]
  BY <1>1, DescriptorsKeepOpen
<1>3. CASE FallsAsleep(t, "writer", "write", b, 0)
  BY <1>1, <1>3, SleepRefines
<1>4. CASE PutBytes(b) /\ UNCHANGED end_vars
  <2>1. open' = open /\ open["writer"] \in BOOLEAN
    BY <1>1, <1>4 DEF end_vars, IInv, EndsOk
  <2> QED
    BY <1>1, <1>2, <1>4, <2>1, PutRefines
<1> QED
  BY <1>3, <1>4 DEF Write

LEMMA WriteReturnsRefines ==
  ASSUME IInv, NEW t \in Threads, WriteReturns(t)
  PROVE  [Fifo!Next]_(Fifo!fifo_vars)
<1>1. /\ "writer" \in Ends /\ "reader" \in Ends \ {"writer"}
      /\ at[t] = "write" /\ buf[t] \in Seq(Bytes)
      /\ {} \in SUBSET Threads /\ Readers \in SUBSET Threads
  BY DEF Ends, WriteReturns, IInv, CallsOk, Readers
<1>2. CASE SleepsOn(t)
  BY <1>2, SleepAgainRefines
<1>3. CASE Finishes(t, "writer", {}) /\ UNCHANGED ring_vars
  <2>1. Content' = Content
    BY <1>3, ContentStays
  <2>2. References("writer", refcount["writer"] - 1)
    BY <1>3 DEF Finishes
  <2> QED
    BY <1>1, <2>1, <2>2, ReferencesClose, QuietStepRefines
<1>4. CASE open["reader"] /\ PutBytes(buf[t]) /\ Finishes(t, "writer", Readers)
  <2>1. open["writer"]
    BY <1>1, <1>4, FinishesKeeps
  <2>2. References("writer", refcount["writer"] - 1)
    BY <1>4 DEF Finishes
  <2>3. open'["reader"] = open["reader"] /\ open'["writer"] \in BOOLEAN
    BY <1>1, <2>2, ReferencesClose
  <2> QED
    BY <1>1, <1>4, <2>1, <2>3, PutRefines
<1> QED
  BY <1>2, <1>3, <1>4 DEF WriteReturns

LEMMA ReadRefines ==
  ASSUME IInv, NEW t \in Threads, NEW n \in Nat, Read(t, n)
  PROVE  [Fifo!Next]_(Fifo!fifo_vars)
<1>1. "reader" \in Ends /\ fds["reader"] > 0
  BY DEF Ends, Read
<1>2. open["reader"]
  BY <1>1, DescriptorsKeepOpen
<1>3. CASE FallsAsleep(t, "reader", "read", << >>, n)
  BY <1>1, <1>3, SleepRefines
<1>4. CASE GetBytes(n) /\ UNCHANGED end_vars
  <2>1. open' = open /\ open["reader"] \in BOOLEAN
    BY <1>1, <1>4 DEF end_vars, IInv, EndsOk
  <2> QED
    BY <1>2, <1>4, <2>1, GetRefines
<1> QED
  BY <1>3, <1>4 DEF Read

LEMMA ReadReturnsRefines ==
  ASSUME IInv, NEW t \in Threads, ReadReturns(t)
  PROVE  [Fifo!Next]_(Fifo!fifo_vars)
<1>1. /\ "reader" \in Ends /\ "writer" \in Ends \ {"reader"}
      /\ at[t] = "read" /\ size[t] \in Nat /\ Writers \in SUBSET Threads
  BY DEF Ends, ReadReturns, IInv, CallsOk, Writers
<1>2. CASE SleepsOn(t)
  BY <1>2, SleepAgainRefines
<1>3. CASE GetBytes(size[t]) /\ Finishes(t, "reader", Writers)
  <2>1. open["reader"]
    BY <1>1, <1>3, FinishesKeeps
  <2>2. References("reader", refcount["reader"] - 1)
    BY <1>3 DEF Finishes
  <2>3. open'["writer"] = open["writer"] /\ open'["reader"] \in BOOLEAN
    BY <1>1, <2>2, ReferencesClose
  <2> QED
    BY <1>1, <1>3, <2>1, <2>3, GetRefines
<1> QED
  BY <1>2, <1>3 DEF ReadReturns

LEMMA NextRefines == IInv /\ [Next]_vars => [Fifo!Next]_(Fifo!fifo_vars)
<1> SUFFICES ASSUME IInv, [Next]_vars PROVE [Fifo!Next]_(Fifo!fifo_vars)
  OBVIOUS
<1>1. ASSUME NEW e \in Ends, Dup(e) \/ Close(e)
      PROVE  [Fifo!Next]_(Fifo!fifo_vars)
  BY <1>1, DupRefines, CloseRefines
<1>2. ASSUME NEW t \in Threads, NEW b \in Bufs, Write(t, b)
      PROVE  [Fifo!Next]_(Fifo!fifo_vars)
  BY <1>2, WriteRefines
<1>3. ASSUME NEW t \in Threads, NEW n \in 0..MaxSize, Read(t, n)
      PROVE  [Fifo!Next]_(Fifo!fifo_vars)
  BY <1>3, ReadRefines
<1>4. ASSUME NEW t \in Threads, Returns(t)
      PROVE  [Fifo!Next]_(Fifo!fifo_vars)
  BY <1>4, WriteReturnsRefines, ReadReturnsRefines DEF Returns
<1>5. CASE UNCHANGED vars
  <2>1. Content' = Content /\ open' = open
    BY <1>5, ContentStays DEF vars, end_vars
  <2> QED
    BY <2>1 DEF Fifo!fifo_vars
<1> QED
  BY <1>1, <1>2, <1>3, <1>4, <1>5 DEF Next, Gone

\* The pipe is a bounded FIFO queue: for every buffer size, any number of
\* readers and writers and any sizes of their calls, the bytes written are read
\* once and in order, those left behind by the last writer included.
THEOREM ImplementsBoundedFifo == Spec => ImplementsFifo
<1> QED
  BY InitRefines, NextRefines, InvariantHolds, PTL DEF Spec, ImplementsFifo, Fifo!Spec

-----------------------------------------------------------------------------
(***************************************************************************)
(* No wake-up is lost.                                                     *)
(***************************************************************************)
HasReason(u) ==
  /\ at[u] = "write" => Full /\ open["reader"]
  /\ at[u] = "read" => MustWaitForData

\* The bytes stay where they are: what a thread sleeps for changes only as the
\* other end closes, and that wakes it.
LEMMA QuietKeepsReason ==
  ASSUME IInv, SleepersHaveReason, NEW e \in Ends, NEW n \in Nat, References(e, n),
         UNCHANGED ring_vars, NEW u \in Threads, at'[u] = at[u],
         ~ woken'[u], woken[u] => woken'[u],
         u \in ClosedWakes(e, n) => woken'[u]
  PROVE  HasReason(u)'
<1>1. HasReason(u) /\ empty_space' = empty_space
  BY DEF SleepersHaveReason, HasReason, ring_vars
<1>2. open \in [Ends -> BOOLEAN] /\ Ends = {"reader", "writer"}
  BY DEF IInv, EndsOk, Ends
<1>3. u \notin ClosedWakes(e, n)
  OBVIOUS
<1>4. open' = [open EXCEPT ![e] = open[e] /\ n > 0]
  BY DEF References
<1>5. ASSUME at[u] = "write" PROVE Full' /\ open'["reader"]
  <2>1. Full /\ open["reader"] /\ Full'
    BY <1>1, <1>5 DEF HasReason, Full
  <2>2. e = "reader" => n > 0
    BY <1>3, <1>5 DEF ClosedWakes, WokenByClose, Writers
  <2> QED
    BY <1>2, <1>4, <2>1, <2>2
<1>6. ASSUME at[u] = "read" PROVE MustWaitForData'
  <2>1. Empty /\ open["writer"] /\ Empty'
    BY <1>1, <1>6 DEF HasReason, MustWaitForData, Empty
  <2>2. e = "writer" => n > 0
    BY <1>3, <1>6 DEF ClosedWakes, WokenByClose, Readers
  <2> QED
    BY <1>2, <1>4, <2>1, <2>2 DEF MustWaitForData
<1> QED
  BY <1>5, <1>6 DEF HasReason

\* Bytes were put: the readers are woken, and no writer slept that was not.
LEMMA PutKeepsReason ==
  ASSUME SleepersHaveReason, ~ Full, NEW u \in Threads, at'[u] = at[u],
         ~ woken'[u], woken[u] => woken'[u], u \in Readers => woken'[u]
  PROVE  HasReason(u)'
BY DEF SleepersHaveReason, HasReason, Readers

\* Bytes were got: the writers are woken, and no reader slept that was not.
LEMMA GetKeepsReason ==
  ASSUME SleepersHaveReason, ~ MustWaitForData, NEW u \in Threads, at'[u] = at[u],
         ~ woken'[u], woken[u] => woken'[u], u \in Writers => woken'[u]
  PROVE  HasReason(u)'
BY DEF SleepersHaveReason, HasReason, Writers

LEMMA EndsKeepReason ==
  ASSUME IInv, SleepersHaveReason, NEW e \in Ends, Dup(e) \/ Close(e),
         NEW u \in Threads, ~ woken'[u]
  PROVE  HasReason(u)'
<1>1. CASE Dup(e)
  <2>1. References(e, refcount[e] + 1) /\ UNCHANGED ring_vars
        /\ at' = at /\ woken' = woken
    BY <1>1 DEF Dup, call_vars
  <2>2. refcount[e] + 1 \in Nat /\ refcount[e] + 1 # 0
    BY DEF IInv, EndsOk
  <2>3. u \notin ClosedWakes(e, refcount[e] + 1)
    BY <2>2 DEF ClosedWakes
  <2> QED
    BY <2>1, <2>2, <2>3, QuietKeepsReason
<1>2. CASE Close(e)
  <2> DEFINE n == refcount[e] - 1
  <2>1. References(e, n) /\ UNCHANGED ring_vars /\ at' = at
        /\ woken' = WokenWith(ClosedWakes(e, n))
    BY <1>2 DEF Close
  <2>2. n \in Nat
    <3>1. open[e]
      BY <1>2, CloseStep
    <3> QED
      BY <3>1 DEF IInv, EndsOk, EndsExact
  <2>3. (woken[u] => woken'[u]) /\ (u \in ClosedWakes(e, n) => woken'[u])
    BY <2>1 DEF WokenWith
  <2> HIDE DEF n
  <2> QED
    BY <2>1, <2>2, <2>3, QuietKeepsReason
<1> QED
  BY <1>1, <1>2

\* Who wakes up while a call ends, and who ends it.
LEMMA FinishesWakes ==
  ASSUME IInv, NEW t \in Threads, NEW e \in Ends, NEW wakes, Finishes(t, e, wakes),
         NEW u \in Threads
  PROVE  /\ u = t => at'[u] = "user"
         /\ u # t => /\ at'[u] = at[u]
                     /\ woken[u] => woken'[u]
                     /\ u \in wakes => woken'[u]
                     /\ u \in ClosedWakes(e, refcount[e] - 1) => woken'[u]
<1>1. at \in [Threads -> {"user", "write", "read"}] /\ at' = [at EXCEPT ![t] = "user"]
  BY DEF IInv, EndsOk, Finishes
<1>2. woken' = [WokenWith(wakes \cup ClosedWakes(e, refcount[e] - 1)) EXCEPT ![t] = FALSE]
  BY DEF Finishes
<1>3. u # t => woken'[u] = (woken[u] \/ u \in (wakes \cup ClosedWakes(e, refcount[e] - 1)))
  BY <1>2 DEF WokenWith
<1> QED
  BY <1>1, <1>3

LEMMA FallsAsleepKeepsReason ==
  ASSUME IInv, SleepersHaveReason, NEW t \in Threads, NEW e \in Ends, NEW place, NEW b,
         NEW n, FallsAsleep(t, e, place, b, n), NEW u \in Threads, ~ woken'[u], u # t
  PROVE  HasReason(u)'
<1>1. References(e, refcount[e] + 1) /\ UNCHANGED ring_vars /\ woken' = woken
  BY DEF FallsAsleep, OneMoreReference
<1>2. at'[u] = at[u]
  BY DEF FallsAsleep, IInv, EndsOk
<1>3. refcount[e] + 1 \in Nat /\ refcount[e] + 1 # 0
  BY DEF IInv, EndsOk
<1>4. u \notin ClosedWakes(e, refcount[e] + 1)
  BY <1>3 DEF ClosedWakes
<1> QED
  BY <1>1, <1>2, <1>3, <1>4, QuietKeepsReason

LEMMA SleepsOnKeepsReason ==
  ASSUME IInv, SleepersHaveReason, NEW t \in Threads, SleepsOn(t), HasReason(t),
         NEW u \in Threads, ~ woken'[u]
  PROVE  HasReason(u)'
<1>1. /\ at' = at /\ open' = open /\ empty_space' = empty_space
  BY DEF SleepsOn, end_vars, ring_vars
<1>2. u # t => ~ woken[u]
  BY DEF SleepsOn, IInv, CallsOk
<1>3. HasReason(u)
  BY <1>2 DEF SleepersHaveReason, HasReason
<1> QED
  BY <1>1, <1>3 DEF HasReason, Full, MustWaitForData, Empty

LEMMA WriteKeepsReason ==
  ASSUME IInv, SleepersHaveReason, NEW t \in Threads, NEW b \in Bufs, Write(t, b),
         NEW u \in Threads, ~ woken'[u]
  PROVE  HasReason(u)'
<1>1. "writer" \in Ends /\ open["reader"] /\ open \in [Ends -> BOOLEAN]
  BY DEF Ends, Write, IInv, EndsOk
<1>2. CASE Full /\ FallsAsleep(t, "writer", "write", b, 0)
  <2>1. CASE u # t
    BY <1>1, <1>2, <2>1, FallsAsleepKeepsReason
  <2>2. CASE u = t
    <3>1. at'[u] = "write" /\ Full'
      BY <1>2, <2>2 DEF FallsAsleep, IInv, EndsOk, Full, ring_vars
    <3>2. open'["reader"]
      BY <1>1, <1>2 DEF FallsAsleep, References
    <3> QED
      BY <3>1, <3>2 DEF HasReason
  <2> QED
    BY <2>1, <2>2
<1>3. CASE ~ Full /\ woken' = WokenWith(Readers) /\ UNCHANGED at
  <2>1. (woken[u] => woken'[u]) /\ (u \in Readers => woken'[u])
    BY <1>3 DEF WokenWith
  <2> QED
    BY <1>3, <2>1, PutKeepsReason
<1> QED
  BY <1>2, <1>3 DEF Write

LEMMA ReadKeepsReason ==
  ASSUME IInv, SleepersHaveReason, NEW t \in Threads, NEW n, Read(t, n),
         NEW u \in Threads, ~ woken'[u]
  PROVE  HasReason(u)'
<1>1. "reader" \in Ends /\ open \in [Ends -> BOOLEAN]
  BY DEF Ends, IInv, EndsOk
<1>2. CASE MustWaitForData /\ FallsAsleep(t, "reader", "read", << >>, n)
  <2>1. CASE u # t
    BY <1>1, <1>2, <2>1, FallsAsleepKeepsReason
  <2>2. CASE u = t
    <3>1. at'[u] = "read" /\ Empty'
      BY <1>2, <2>2 DEF FallsAsleep, IInv, EndsOk, MustWaitForData, Empty, ring_vars
    <3>2. open'["writer"]
      BY <1>1, <1>2 DEF FallsAsleep, References, MustWaitForData
    <3> QED
      BY <3>1, <3>2 DEF HasReason, MustWaitForData
  <2> QED
    BY <2>1, <2>2
<1>3. CASE ~ MustWaitForData /\ woken' = WokenWith(Writers) /\ UNCHANGED at
  <2>1. (woken[u] => woken'[u]) /\ (u \in Writers => woken'[u])
    BY <1>3 DEF WokenWith
  <2> QED
    BY <1>3, <2>1, GetKeepsReason
<1> QED
  BY <1>2, <1>3 DEF Read

LEMMA WriteReturnsKeepsReason ==
  ASSUME IInv, SleepersHaveReason, NEW t \in Threads, WriteReturns(t),
         NEW u \in Threads, ~ woken'[u]
  PROVE  HasReason(u)'
<1>1. "writer" \in Ends /\ at[t] = "write" /\ {} \in SUBSET Threads /\ Readers \in SUBSET Threads
  BY DEF Ends, WriteReturns, Readers
<1>2. CASE StillFull /\ SleepsOn(t)
  <2>1. HasReason(t)
    BY <1>1, <1>2 DEF HasReason, StillFull
  <2> QED
    BY <1>2, <2>1, SleepsOnKeepsReason
<1>3. CASE Finishes(t, "writer", {}) /\ UNCHANGED ring_vars
  <2>1. CASE u = t
    BY <1>1, <1>3, <2>1, FinishesWakes DEF HasReason
  <2>2. CASE u # t
    <3>1. refcount["writer"] - 1 \in Nat
      <4>1. open["writer"]
        BY <1>1, <1>3, FinishesKeeps
      <4> QED
        BY <1>1, <4>1 DEF IInv, EndsOk, EndsExact
    <3>2. References("writer", refcount["writer"] - 1)
      BY <1>3 DEF Finishes
    <3>3. /\ at'[u] = at[u]
          /\ woken[u] => woken'[u]
          /\ u \in ClosedWakes("writer", refcount["writer"] - 1) => woken'[u]
      BY <1>1, <1>3, <2>2, FinishesWakes
    <3> QED
      BY <1>1, <1>3, <3>1, <3>2, <3>3, QuietKeepsReason
  <2> QED
    BY <2>1, <2>2
<1>4. CASE open["reader"] /\ ~ StillFull /\ Finishes(t, "writer", Readers)
  <2>1. CASE u = t
    BY <1>1, <1>4, <2>1, FinishesWakes DEF HasReason
  <2>2. CASE u # t
    <3>1. /\ at'[u] = at[u]
          /\ woken[u] => woken'[u]
          /\ u \in Readers => woken'[u]
      BY <1>1, <1>4, <2>2, FinishesWakes
    <3>2. ~ Full
      BY <1>4 DEF StillFull
    <3> QED
      BY <3>1, <3>2, PutKeepsReason
  <2> QED
    BY <2>1, <2>2
<1> QED
  BY <1>2, <1>3, <1>4 DEF WriteReturns

LEMMA ReadReturnsKeepsReason ==
  ASSUME IInv, SleepersHaveReason, NEW t \in Threads, ReadReturns(t),
         NEW u \in Threads, ~ woken'[u]
  PROVE  HasReason(u)'
<1>1. "reader" \in Ends /\ at[t] = "read" /\ Writers \in SUBSET Threads
  BY DEF Ends, ReadReturns, Writers
<1>2. CASE MustWaitForData /\ SleepsOn(t)
  <2>1. HasReason(t)
    BY <1>1, <1>2 DEF HasReason
  <2> QED
    BY <1>2, <2>1, SleepsOnKeepsReason
<1>3. CASE ~ MustWaitForData /\ Finishes(t, "reader", Writers)
  <2>1. CASE u = t
    BY <1>1, <1>3, <2>1, FinishesWakes DEF HasReason
  <2>2. CASE u # t
    <3>1. /\ at'[u] = at[u]
          /\ woken[u] => woken'[u]
          /\ u \in Writers => woken'[u]
      BY <1>1, <1>3, <2>2, FinishesWakes
    <3> QED
      BY <1>3, <3>1, GetKeepsReason
  <2> QED
    BY <2>1, <2>2
<1> QED
  BY <1>2, <1>3 DEF ReadReturns

LEMMA NextKeepsReason ==
  IInv /\ SleepersHaveReason /\ [Next]_vars => SleepersHaveReason'
<1> SUFFICES ASSUME IInv, SleepersHaveReason, [Next]_vars,
                    NEW u \in Threads, ~ woken'[u]
             PROVE  HasReason(u)'
  BY DEF SleepersHaveReason, HasReason
<1>1. ASSUME NEW e \in Ends, Dup(e) \/ Close(e) PROVE HasReason(u)'
  BY <1>1, EndsKeepReason
<1>2. ASSUME NEW t \in Threads, NEW b \in Bufs, Write(t, b) PROVE HasReason(u)'
  BY <1>2, WriteKeepsReason
<1>3. ASSUME NEW t \in Threads, NEW n \in 0..MaxSize, Read(t, n) PROVE HasReason(u)'
  BY <1>3, ReadKeepsReason
<1>4. ASSUME NEW t \in Threads, Returns(t) PROVE HasReason(u)'
  BY <1>4, WriteReturnsKeepsReason, ReadReturnsKeepsReason DEF Returns
<1>5. CASE UNCHANGED vars
  <2>1. HasReason(u)
    BY <1>5 DEF SleepersHaveReason, HasReason, vars, call_vars
  <2> QED
    BY <1>5, <2>1 DEF HasReason, Full, MustWaitForData, Empty, vars,
                      call_vars, end_vars, ring_vars
<1> QED
  BY <1>1, <1>2, <1>3, <1>4, <1>5 DEF Next, Gone

\* No wake-up is lost: a thread that sleeps and was not woken finds the buffer
\* still full, or still empty, and the other end still open.
THEOREM NoLostWakeup == Spec => []SleepersHaveReason
<1>1. Init => SleepersHaveReason
  BY DEF Init, SleepersHaveReason
<1> QED
  BY <1>1, NextKeepsReason, InvariantHolds, PTL DEF Spec

-----------------------------------------------------------------------------
(***************************************************************************)
(* A call that slept returns for a reason.                                 *)
(***************************************************************************)
ReturnsWithReason(t) ==
  at'[t] = "user" =>
    /\ at[t] = "read" /\ size[t] > 0 =>
         empty_space' > empty_space \/ (Empty /\ ~ open["writer"])
    /\ at[t] = "write" /\ Len(buf[t]) > 0 =>
         empty_space' < empty_space \/ ~ open["reader"]

\* Only the thread that returns from its sleep goes back to its program.
LEMMA SleepersStay ==
  ASSUME IInv, [Next]_vars, NEW u \in Threads, at[u] # "user", ~ Returns(u)
  PROVE  at'[u] # "user"
<1>1. at \in [Threads -> {"user", "write", "read"}]
  BY DEF IInv, EndsOk
<1>2. ASSUME NEW t \in Threads, Returns(t) PROVE at'[u] # "user"
  BY <1>1, <1>2 DEF Returns, WriteReturns, ReadReturns, SleepsOn, Finishes
<1>3. ASSUME NEW e \in Ends, Dup(e) \/ Close(e) PROVE at' = at
  BY <1>3 DEF Dup, Close, call_vars
<1>4. ASSUME NEW t \in Threads, NEW b \in Bufs, Write(t, b) PROVE at'[u] # "user"
  BY <1>1, <1>4 DEF Write, FallsAsleep
<1>5. ASSUME NEW t \in Threads, NEW n \in 0..MaxSize, Read(t, n) PROVE at'[u] # "user"
  BY <1>1, <1>5 DEF Read, FallsAsleep
<1>6. UNCHANGED vars => at' = at
  BY DEF vars, call_vars
<1> QED
  BY <1>2, <1>3, <1>4, <1>5, <1>6 DEF Next, Gone

LEMMA WriteReturnsWithReason ==
  ASSUME IInv, NEW t \in Threads, WriteReturns(t)
  PROVE  ReturnsWithReason(t)
<1>1. /\ at[t] = "write" /\ buf[t] \in Seq(Bytes) /\ empty_space \in 0..S /\ S \in Nat
      /\ at \in [Threads -> {"user", "write", "read"}]
  BY ConstantsAssumption DEF WriteReturns, IInv, CallsOk, RingOk, EndsOk, S
<1>2. CASE SleepsOn(t)
  BY <1>1, <1>2 DEF SleepsOn, ReturnsWithReason
<1>3. CASE ~ open["reader"]
  BY <1>1, <1>3 DEF ReturnsWithReason
<1>4. CASE open["reader"] /\ ~ StillFull /\ PutBytes(buf[t])
  <2>1. Len(buf[t]) \in Nat /\ empty_space > 0
    BY <1>1, <1>4, LenProperties DEF StillFull, Full
  <2>2. Len(buf[t]) > 0 => Fitting(Len(buf[t])) \in Nat /\ Fitting(Len(buf[t])) > 0
    BY <1>1, <2>1 DEF Fitting
  <2>3. empty_space' = empty_space - Fitting(Len(buf[t]))
    BY <1>4 DEF PutBytes
  <2> QED
    BY <1>1, <2>1, <2>2, <2>3 DEF ReturnsWithReason
<1> QED
  BY <1>2, <1>3, <1>4 DEF WriteReturns

LEMMA ReadReturnsWithReason ==
  ASSUME IInv, NEW t \in Threads, ReadReturns(t)
  PROVE  ReturnsWithReason(t)
<1>1. /\ at[t] = "read" /\ size[t] \in Nat /\ empty_space \in 0..S /\ S \in Nat
      /\ at \in [Threads -> {"user", "write", "read"}]
  BY ConstantsAssumption DEF ReadReturns, IInv, CallsOk, RingOk, EndsOk, S
<1>2. CASE SleepsOn(t)
  BY <1>1, <1>2 DEF SleepsOn, ReturnsWithReason
<1>3. CASE Empty /\ ~ MustWaitForData
  BY <1>1, <1>3 DEF MustWaitForData, ReturnsWithReason
<1>4. CASE ~ Empty /\ GetBytes(size[t])
  <2>1. S - empty_space > 0
    BY <1>1, <1>4 DEF Empty, S
  <2>2. size[t] > 0 => Available(size[t]) \in Nat /\ Available(size[t]) > 0
    BY <1>1, <2>1 DEF Available, S
  <2>3. empty_space' = empty_space + Available(size[t])
    BY <1>4 DEF GetBytes
  <2> QED
    BY <1>1, <2>2, <2>3 DEF ReturnsWithReason
<1> QED
  BY <1>2, <1>3, <1>4 DEF ReadReturns

\* A read that slept returns bytes or the end of file of a drained pipe; a write
\* that slept has written bytes, or found the reading end closed.
THEOREM CallsReturnForAReason == Spec => ReturnsForAReason
<1>1. ASSUME IInv, [Next]_vars, NEW t \in Threads PROVE ReturnsWithReason(t)
  <2>1. CASE at[t] \notin {"write", "read"}
    BY <2>1 DEF ReturnsWithReason
  <2>2. CASE at[t] \in {"write", "read"} /\ ~ Returns(t)
    BY <1>1, <2>2, SleepersStay DEF ReturnsWithReason
  <2>3. CASE Returns(t)
    BY <1>1, <2>3, WriteReturnsWithReason, ReadReturnsWithReason DEF Returns
  <2> QED
    BY <2>1, <2>2, <2>3
<1>2. IInv /\ [Next]_vars =>
        [\A t \in Threads : at'[t] = "user" =>
           /\ at[t] = "read" /\ size[t] > 0 =>
                empty_space' > empty_space \/ (Empty /\ ~ open["writer"])
           /\ at[t] = "write" /\ Len(buf[t]) > 0 =>
                empty_space' < empty_space \/ ~ open["reader"]]_vars
  BY <1>1 DEF ReturnsWithReason
<1> QED
  BY <1>2, InvariantHolds, PTL DEF Spec, ReturnsForAReason

=============================================================================
