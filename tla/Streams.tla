------------------------------- MODULE Streams -------------------------------
(***************************************************************************)
(* Streams (kernel_streams.c): the pool of FCBs, the descriptor tables of  *)
(* the processes, and the calls that refer to an FCB while they sleep;     *)
(* with the calls of other files that open, inherit or close descriptors:  *)
(* sys_Pipe(), sys_OpenInfo(), sys_Exec() and the end of a process.        *)
(*                                                                         *)
(* Grain.  A call holds the kernel but while it sleeps in the Read or      *)
(* Write of its stream.  What a stream does with the bytes, and when it    *)
(* lets a call return, is left open.  The loop that closes the descriptors *)
(* of a process that ends is a step per descriptor; nobody else gets the   *)
(* kernel in between.  A call that fails and changes nothing is no step.   *)
(***************************************************************************)
EXTENDS Integers, Sequences, FiniteSets, SequencesExt

CONSTANTS Procs,
          InitProc,
          Threads,     \* the threads that sleep in calls, of any process
          MAX_FILES,
          MAX_FILEID,
          NULL

ASSUME ConstantsAssumption ==
  /\ IsFiniteSet(Procs)
  /\ IsFiniteSet(Threads)
  /\ InitProc \in Procs
  /\ MAX_FILES \in Nat
  /\ MAX_FILEID \in Nat
  /\ NULL \notin 1..MAX_FILES
  /\ NULL \notin Procs

FT   == 1..MAX_FILES
Fids == 0 .. (MAX_FILEID - 1)

VARIABLES
  FCB_freelist,
  refcount,
  stream,     \* the stream that the fields of an FCB belong to: "none" yet,
              \* an "open" one, or one that was "closed"
  leftover,   \* FCBs in the table of a process that never got a stream
  FIDT,
  alive,      \* processes that have begun and not ended
  ending,     \* the process whose last thread closes its descriptors
  caller,     \* the process of a thread that sleeps in a call, and
  call,       \* the FCB of that call
  astray      \* an operation of a stream was called that is not open

fcb_vars  == <<FCB_freelist, refcount, stream, leftover>>
proc_vars == <<FIDT, alive, ending>>
call_vars == <<caller, call>>
vars == <<fcb_vars, proc_vars, call_vars, astray>>

TypeOK ==
  /\ FCB_freelist \in Seq(FT)
  /\ refcount \in [FT -> Nat]
  /\ stream \in [FT -> {"none", "open", "closed"}]
  /\ leftover \subseteq FT
  /\ FIDT \in [Procs -> [Fids -> FT \cup {NULL}]]
  /\ alive \subseteq Procs
  /\ ending \in Procs \cup {NULL}
  /\ caller \in [Threads -> Procs \cup {NULL}]
  /\ call \in [Threads -> FT \cup {NULL}]
  /\ astray \in BOOLEAN

\* initialize_files(); init begins without descriptors.
Init ==
  /\ FCB_freelist = [f \in FT |-> f]
  /\ refcount = [f \in FT |-> 0]
  /\ stream = [f \in FT |-> "none"]
  /\ leftover = {}
  /\ FIDT = [p \in Procs |-> [i \in Fids |-> NULL]]
  /\ alive = {InitProc}
  /\ ending = NULL
  /\ caller = [t \in Threads |-> NULL]
  /\ call = [t \in Threads |-> NULL]
  /\ astray = FALSE

(***************************************************************************)
(* Definitions named Bug... are mistakes one could make in the definition  *)
(* that follows them.  Nothing uses them.                                  *)
(***************************************************************************)

\* Process p can make a call: nobody is in the kernel, and the program is
\* still within what this module describes.
Runs(p) == p \in alive /\ ending = NULL /\ ~ astray

Descriptors(f) == {d \in Procs \X Fids : FIDT[d[1]][d[2]] = f}
Calls(f)       == {t \in Threads : call[t] = f}

-----------------------------------------------------------------------------
(***************************************************************************)
(* References.                                                             *)
(***************************************************************************)

\* FCB_decref() of FCBs fs (one of them, or none) while refcount counts as
\* the function count: the last reference closes the stream and releases the
\* FCB.  The Close of a stream that is not open leads out of this module.
Vanishes(f, count) == count[f] = 1

Decref(fs, count) ==
  /\ refcount' = [f \in FT |-> IF f \in fs THEN count[f] - 1 ELSE count[f]]
  /\ LET gone == {f \in fs : Vanishes(f, count)}
     IN  /\ stream' = [f \in FT |-> IF f \in gone THEN "closed" ELSE stream[f]]
         /\ leftover' = leftover \ gone
         /\ astray' = (\E f \in gone : stream[f] # "open")
         /\ \/ gone = {} /\ FCB_freelist' = FCB_freelist
            \/ \E f \in gone : FCB_freelist' = Append(FCB_freelist, f)

\* The FCB of a descriptor, as a set: empty if the descriptor is not open.
FcbsAt(p, i) == {FIDT[p][i]} \ {NULL}

-----------------------------------------------------------------------------
(***************************************************************************)
(* FCB_reserve(1, ...): the lowest free descriptor and the first free FCB. *)
(* It fails without a change if either is missing.                         *)
(***************************************************************************)
FreeFids(p) == {i \in Fids : FIDT[p][i] = NULL}

Lowest(fids) == CHOOSE i \in fids : \A j \in fids : i <= j

CanReserve(p) == FreeFids(p) # {} /\ FCB_freelist # << >>

\* OpenNull(), OpenTerminal() and OpenInfo().
Open(p) ==
  /\ Runs(p) /\ CanReserve(p)
  /\ LET f == Head(FCB_freelist)
     IN  /\ FIDT' = [FIDT EXCEPT ![p][Lowest(FreeFids(p))] = f]
         /\ FCB_freelist' = Tail(FCB_freelist)
         /\ refcount' = [refcount EXCEPT ![f] = 1]
         /\ stream' = [stream EXCEPT ![f] = "open"]
  /\ UNCHANGED <<leftover, alive, ending, call_vars, astray>>

\* OpenTerminal() of a terminal that does not exist.  FCB_unreserve() gives
\* the descriptor and the FCB back; the FCB keeps the reference it was given.
Unreserved(f) == Append(Tail(FCB_freelist), f)

OpenFails(p) ==
  /\ Runs(p) /\ CanReserve(p)
  /\ LET f == Head(FCB_freelist)
     IN  /\ FCB_freelist' = Unreserved(f)
         /\ refcount' = [refcount EXCEPT ![f] = 1]
  /\ UNCHANGED <<stream, leftover, proc_vars, call_vars, astray>>

\* sys_Pipe() reserves one descriptor after the other.  If it fails with the
\* second, the first stays, with an FCB whose fields nobody has set.
Pipe(p) ==
  /\ Runs(p) /\ CanReserve(p)
  /\ LET f == Head(FCB_freelist)
         i == Lowest(FreeFids(p))
         rest == Tail(FCB_freelist)
         more == FreeFids(p) \ {i}
     IN  \/ /\ rest # << >> /\ more # {}
            /\ LET g == Head(rest)
               IN  /\ FIDT' = [FIDT EXCEPT ![p][i] = f, ![p][Lowest(more)] = g]
                   /\ FCB_freelist' = Tail(rest)
                   /\ refcount' = [refcount EXCEPT ![f] = 1, ![g] = 1]
                   /\ stream' = [stream EXCEPT ![f] = "open", ![g] = "open"]
                   /\ UNCHANGED leftover
         \/ /\ rest = << >> \/ more = {}
            /\ FIDT' = [FIDT EXCEPT ![p][i] = f]
            /\ FCB_freelist' = rest
            /\ refcount' = [refcount EXCEPT ![f] = 1]
            /\ leftover' = leftover \cup {f}
            /\ UNCHANGED stream
  /\ UNCHANGED <<alive, ending, call_vars, astray>>

-----------------------------------------------------------------------------
(***************************************************************************)
(* Calls on descriptors.                                                   *)
(***************************************************************************)

BugNoReference(f) == refcount
OneMoreReference(f) == [refcount EXCEPT ![f] = @ + 1]

\* sys_Read() and sys_Write() of a stream that puts the caller to sleep.
FallsAsleep(p, i, t) ==
  /\ Runs(p) /\ call[t] = NULL
  /\ FIDT[p][i] # NULL
  /\ LET f == FIDT[p][i]
     IN  \/ /\ stream[f] = "open"
            /\ refcount' = OneMoreReference(f)
            /\ call' = [call EXCEPT ![t] = f]
            /\ caller' = [caller EXCEPT ![t] = p]
            /\ UNCHANGED astray
         \/ /\ stream[f] # "open"
            /\ astray' = TRUE
            /\ UNCHANGED <<refcount, call_vars>>
  /\ UNCHANGED <<FCB_freelist, stream, leftover, proc_vars>>

\* ... and their end, which may be what closes the stream.
Returns(t) ==
  /\ call[t] # NULL
  /\ ending = NULL /\ ~ astray
  /\ Decref({call[t]}, refcount)
  /\ call' = [call EXCEPT ![t] = NULL]
  /\ caller' = [caller EXCEPT ![t] = NULL]
  /\ UNCHANGED proc_vars

Close(p, i) ==
  /\ Runs(p)
  /\ FIDT[p][i] # NULL
  /\ FIDT' = [FIDT EXCEPT ![p][i] = NULL]
  /\ Decref(FcbsAt(p, i), refcount)
  /\ UNCHANGED <<alive, ending, call_vars>>

\* sys_Dup2(): what newfd refers to is closed, unless it is the same stream.
Dup2(p, oldfd, newfd) ==
  /\ Runs(p)
  /\ FIDT[p][oldfd] # NULL /\ FIDT[p][newfd] # FIDT[p][oldfd]
  /\ FIDT' = [FIDT EXCEPT ![p][newfd] = FIDT[p][oldfd]]
  /\ Decref(FcbsAt(p, newfd), OneMoreReference(FIDT[p][oldfd]))
  /\ UNCHANGED <<alive, ending, call_vars>>

-----------------------------------------------------------------------------
(***************************************************************************)
(* Processes.                                                              *)
(***************************************************************************)

\* sys_Exec(): the child inherits every descriptor.
BugInheritsOnce(p, f) == IF \E i \in Fids : FIDT[p][i] = f THEN 1 ELSE 0
Inherited(p, f) == Cardinality({i \in Fids : FIDT[p][i] = f})

Exec(p, child) ==
  /\ Runs(p) /\ child \notin alive /\ child # InitProc
  /\ alive' = alive \cup {child}
  /\ FIDT' = [FIDT EXCEPT ![child] = FIDT[p]]
  /\ refcount' = [f \in FT |-> refcount[f] + Inherited(p, f)]
  /\ UNCHANGED <<FCB_freelist, stream, leftover, ending, call_vars, astray>>

\* The last thread of p begins to clean up in sys_ThreadExit(): no thread of
\* p is in a call.  Init stays until the others are gone.
Exit(p) ==
  /\ Runs(p)
  /\ \A t \in Threads : caller[t] # p
  /\ p = InitProc => alive = {InitProc}
  /\ ending' = p
  /\ UNCHANGED <<fcb_vars, FIDT, alive, call_vars, astray>>

ClosesNext(i) ==
  /\ ending # NULL /\ ~ astray
  /\ FIDT[ending][i] # NULL
  /\ \A j \in Fids : j < i => FIDT[ending][j] = NULL
  /\ FIDT' = [FIDT EXCEPT ![ending][i] = NULL]
  /\ Decref(FcbsAt(ending, i), refcount)
  /\ UNCHANGED <<alive, ending, call_vars>>

Ends ==
  /\ ending # NULL /\ ~ astray
  /\ \A i \in Fids : FIDT[ending][i] = NULL
  /\ alive' = alive \ {ending}
  /\ ending' = NULL
  /\ UNCHANGED <<fcb_vars, FIDT, call_vars, astray>>

\* Nothing is left to run, or nothing that this module describes.
Over == (alive = {} \/ astray) /\ UNCHANGED vars

Next ==
  \/ \E p \in Procs :
       \/ Open(p) \/ OpenFails(p) \/ Pipe(p) \/ Exit(p)
       \/ \E i \in Fids : Close(p, i) \/ \E t \in Threads : FallsAsleep(p, i, t)
       \/ \E oldfd \in Fids, newfd \in Fids : Dup2(p, oldfd, newfd)
       \/ \E child \in Procs : Exec(p, child)
  \/ \E t \in Threads : Returns(t)
  \/ \E i \in Fids : ClosesNext(i)
  \/ Ends
  \/ Over

Spec == Init /\ [][Next]_vars

-----------------------------------------------------------------------------
(***************************************************************************)
(* No FCB is leaked, none is released while it is used, none twice: the    *)
(* free list holds, once each, the FCBs that no descriptor of any process  *)
(* and no sleeping call refers to, and refcount counts those that do.      *)
(***************************************************************************)
FcbsExact ==
  /\ IsInjective(FCB_freelist)
  /\ \A f \in FT :
       LET users == Cardinality(Descriptors(f)) + Cardinality(Calls(f))
       IN  IF f \in ToSet(FCB_freelist)
           THEN users = 0
           ELSE refcount[f] = users /\ users > 0

(***************************************************************************)
(* The stream of an FCB is open as long as anybody refers to it, and is    *)
(* closed with the last reference; a sleeping call keeps its stream.  Only *)
(* the descriptor that a failed Pipe() left has none.                      *)
(***************************************************************************)
StreamsExact ==
  /\ \A f \in FT : stream[f] = "open" <=> f \notin ToSet(FCB_freelist) \cup leftover
  /\ \A t \in Threads : call[t] # NULL => stream[call[t]] = "open"

=============================================================================
