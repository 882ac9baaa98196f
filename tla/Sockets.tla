------------------------------- MODULE Sockets -------------------------------
(***************************************************************************)
(* Sockets (kernel_socket.c): the port map, listeners with their queues of *)
(* requests, Accept() and Connect() that sleep, and what becomes of the    *)
(* descriptors when a request is admitted.                                 *)
(*                                                                         *)
(* Grain.  A call holds the kernel but while it sleeps.  A call that fails *)
(* and changes nothing is no step, and nobody makes a socket's call on a   *)
(* descriptor of something else.  Socket(), Listen() and Close() are made  *)
(* by threads that do not sleep; there are always enough of them.          *)
(*                                                                         *)
(* sys_Accept() calls create_peer_pipe() twice on the same two FCBs, and   *)
(* the second call overwrites what the first has written: the descriptor   *)
(* that connected becomes the writer, the one that Accept() returns the    *)
(* reader of one pipe.  From then on both are ends of a pipe (see Pipe);   *)
(* no socket call knows them any more, and their Socket_cbs are forgotten. *)
(* So is every Socket_cb that nothing refers to: its name may be that of a *)
(* new one.                                                                *)
(***************************************************************************)
EXTENDS Naturals, Sequences, FiniteSets, SequencesExt

CONSTANTS Threads,
          Fids,       \* the descriptors; which one is taken does not matter
          SCBs,       \* Socket_cbs
          Requests,   \* connection_requests
          MAX_PORT,
          NULL

PipeEnds == {"reader", "writer"}

ASSUME ConstantsAssumption ==
  /\ MAX_PORT \in Nat
  /\ IsFiniteSet(Threads)
  /\ NULL \notin Fids \cup SCBs \cup Requests \cup PipeEnds
  /\ SCBs \cap PipeEnds = {}

Ports == 1..MAX_PORT
NOPORT == 0

VARIABLES
  port_map,
  FIDT,         \* the stream of a descriptor: the Socket_cb, or a pipe's end
  type, port, refcount, fcb, queue,   \* the fields of a Socket_cb
  peer, admitted,                     \* the fields of a request
  at,           \* "accept", "connect": asleep in that call
  socket_cb,    \* the Socket_cb the call is on
  lport,        \* "accept": the local variable port
  req,          \* "connect": its request
  woken,        \* its sleep was signalled or broadcast
  corrupt       \* an Accept() wrote to an FCB that its peer does not own

socket_vars  == <<type, port, refcount, fcb, queue>>
request_vars == <<peer, admitted>>
call_vars    == <<at, socket_cb, lport, req, woken>>
vars == <<port_map, FIDT, socket_vars, request_vars, call_vars, corrupt>>

TypeOK ==
  /\ port_map \in [Ports -> SCBs \cup {NULL}]
  /\ FIDT \in [Fids -> SCBs \cup PipeEnds \cup {NULL}]
  /\ type \in [SCBs -> {"unbound", "listener"}]
  /\ port \in [SCBs -> Ports \cup {NOPORT}]
  /\ refcount \in [SCBs -> Nat]
  /\ fcb \in [SCBs -> Fids \cup {NULL}]
  /\ queue \in [SCBs -> Seq(Requests)]
  /\ peer \in [Requests -> SCBs \cup {NULL}]
  /\ admitted \in [Requests -> BOOLEAN]
  /\ at \in [Threads -> {"user", "accept", "connect"}]
  /\ socket_cb \in [Threads -> SCBs \cup {NULL}]
  /\ lport \in [Threads -> Ports \cup {NOPORT}]
  /\ req \in [Threads -> Requests \cup {NULL}]
  /\ woken \in [Threads -> BOOLEAN]
  /\ corrupt \in BOOLEAN

Init ==
  /\ port_map = [p \in Ports |-> NULL]
  /\ FIDT = [i \in Fids |-> NULL]
  /\ type = [s \in SCBs |-> "unbound"]
  /\ port = [s \in SCBs |-> NOPORT]
  /\ refcount = [s \in SCBs |-> 0]
  /\ fcb = [s \in SCBs |-> NULL]
  /\ queue = [s \in SCBs |-> << >>]
  /\ peer = [r \in Requests |-> NULL]
  /\ admitted = [r \in Requests |-> FALSE]
  /\ at = [t \in Threads |-> "user"]
  /\ socket_cb = [t \in Threads |-> NULL]
  /\ lport = [t \in Threads |-> NOPORT]
  /\ req = [t \in Threads |-> NULL]
  /\ woken = [t \in Threads |-> FALSE]
  /\ corrupt = FALSE

(***************************************************************************)
(* Definitions named Bug... are mistakes one could make in the definition  *)
(* that follows them.  Nothing uses them.                                  *)
(***************************************************************************)

Acceptors(s)  == {t \in Threads : at[t] = "accept" /\ socket_cb[t] = s}
Sleepers(s)   == {t \in Acceptors(s) : ~ woken[t]}
Connectors(s) == {t \in Threads : at[t] = "connect" /\ socket_cb[t] = s}

\* The descriptors whose stream is the socket s: one, or none.
OpenAs(s) == {i \in Fids : FIDT[i] = s}

\* The listeners whose queue somebody can still come to.
Watched == {s \in SCBs : type[s] = "listener" /\ OpenAs(s) \cup Acceptors(s) # {}}

Queued == UNION {ToSet(queue[s]) : s \in Watched}

FreeFids == {i \in Fids : FIDT[i] = NULL}

FreeSCBs ==
  {s \in SCBs : /\ OpenAs(s) = {} /\ \A p \in Ports : port_map[p] # s
                /\ \A t \in Threads : socket_cb[t] # s
                /\ \A r \in Queued : peer[r] # s}

FreeRequests == {r \in Requests : r \notin Queued /\ \A t \in Threads : req[t] # r}

-----------------------------------------------------------------------------
(***************************************************************************)
(* Socket(), Listen() and Close().                                         *)
(***************************************************************************)

Socket(p) ==
  /\ \E i \in FreeFids, s \in FreeSCBs :
       /\ FIDT' = [FIDT EXCEPT ![i] = s]
       /\ type' = [type EXCEPT ![s] = "unbound"]
       /\ port' = [port EXCEPT ![s] = p]
       /\ refcount' = [refcount EXCEPT ![s] = 0]
       /\ fcb' = [fcb EXCEPT ![s] = i]
       /\ queue' = [queue EXCEPT ![s] = << >>]
  /\ UNCHANGED <<port_map, request_vars, call_vars, corrupt>>

BugPortTaken(s) == FALSE
PortTaken(s) == port_map[port[s]] # NULL

Listen(i) ==
  /\ FIDT[i] \in SCBs
  /\ LET s == FIDT[i]
     IN  /\ port[s] # NOPORT /\ ~ PortTaken(s)
         /\ type[s] = "unbound"
         /\ port_map' = [port_map EXCEPT ![port[s]] = s]
         /\ type' = [type EXCEPT ![s] = "listener"]
         /\ queue' = [queue EXCEPT ![s] = << >>]
  /\ UNCHANGED <<FIDT, port, refcount, fcb, request_vars, call_vars, corrupt>>

\* socket_close(), or the Close of a pipe's end (see Pipe).
Close(i) ==
  /\ FIDT[i] # NULL
  /\ FIDT' = [FIDT EXCEPT ![i] = NULL]
  /\ LET s == FIDT[i]
     IN  \/ /\ s \in SCBs
            /\ fcb' = [fcb EXCEPT ![s] = NULL]
            /\ \/ /\ type[s] = "listener"
                  /\ port_map' = [port_map EXCEPT ![port[s]] = NULL]
                  /\ woken' = [t \in Threads |-> woken[t] \/ t \in Acceptors(s)]
               \/ /\ type[s] = "unbound"
                  /\ UNCHANGED <<port_map, woken>>
         \/ /\ s \in PipeEnds
            /\ UNCHANGED <<fcb, port_map, woken>>
  /\ UNCHANGED <<type, port, refcount, queue, request_vars,
                 at, socket_cb, lport, req, corrupt>>

-----------------------------------------------------------------------------
(***************************************************************************)
(* Accept().                                                               *)
(***************************************************************************)

\* The condition of its loop.
MustWait(s, p) == queue[s] = << >> /\ port_map[p] # NULL

\* The request belongs to a socket that is as Connect() has left it.
Intact(r) ==
  LET s == peer[r]
  IN  type[s] = "unbound" /\ fcb[s] # NULL /\ FIDT[fcb[s]] = s

\* What follows the loop.  The request is gone also when no descriptor is
\* left.
BugPopsFirst(s, p) ==
  /\ port_map[p] = NULL /\ queue[s] # << >>
  /\ queue' = [queue EXCEPT ![s] = Tail(@)]
  /\ UNCHANGED <<FIDT, admitted, corrupt>>

AcceptGoesOn(s, p) ==
  \/ /\ port_map[p] = NULL
     /\ UNCHANGED <<FIDT, queue, admitted, corrupt>>
  \/ /\ port_map[p] # NULL
     /\ queue' = [queue EXCEPT ![s] = Tail(@)]
     /\ LET r == Head(queue[s])
        IN  \/ /\ FreeFids = {}
               /\ UNCHANGED <<FIDT, admitted, corrupt>>
            \/ /\ Intact(r)
               /\ \E i \in FreeFids :
                    FIDT' = [FIDT EXCEPT ![i] = "reader", ![fcb[peer[r]]] = "writer"]
               /\ admitted' = [admitted EXCEPT ![r] = TRUE]
               /\ UNCHANGED corrupt
            \/ /\ FreeFids # {} /\ ~ Intact(r)
               /\ corrupt' = TRUE
               /\ UNCHANGED <<FIDT, admitted>>

\* kernel_broadcast(&accepted_req->connected_cv) wakes who waits for it.
Admitted(t) == at[t] = "connect" /\ admitted[req[t]]

Accept(t, i) ==
  /\ at[t] = "user"
  /\ FIDT[i] \in SCBs
  /\ LET s == FIDT[i]
     IN  /\ type[s] = "listener" /\ port_map[port[s]] # NULL
         /\ \/ /\ MustWait(s, port[s])
               /\ refcount' = [refcount EXCEPT ![s] = @ + 1]
               /\ at' = [at EXCEPT ![t] = "accept"]
               /\ socket_cb' = [socket_cb EXCEPT ![t] = s]
               /\ lport' = [lport EXCEPT ![t] = port[s]]
               /\ UNCHANGED <<FIDT, queue, admitted, corrupt>>
            \/ /\ ~ MustWait(s, port[s])
               /\ AcceptGoesOn(s, port[s])
               /\ UNCHANGED <<refcount, at, socket_cb, lport>>
  /\ UNCHANGED <<port_map, type, port, fcb, peer, req, woken>>

\* The thread has returned from its call.
Leaves(t) ==
  /\ at' = [at EXCEPT ![t] = "user"]
  /\ socket_cb' = [socket_cb EXCEPT ![t] = NULL]
  /\ lport' = [lport EXCEPT ![t] = NOPORT]
  /\ req' = [req EXCEPT ![t] = NULL]
  /\ refcount' = [refcount EXCEPT ![socket_cb[t]] = @ - 1]

AcceptReturns(t) ==
  /\ at[t] = "accept" /\ woken[t]
  /\ woken' = [woken EXCEPT ![t] = FALSE]
  /\ \/ /\ MustWait(socket_cb[t], lport[t])
        /\ UNCHANGED <<FIDT, refcount, queue, admitted, corrupt,
                       at, socket_cb, lport, req>>
     \/ /\ ~ MustWait(socket_cb[t], lport[t])
        /\ AcceptGoesOn(socket_cb[t], lport[t])
        /\ Leaves(t)
  /\ UNCHANGED <<port_map, type, port, fcb, peer>>

-----------------------------------------------------------------------------
(***************************************************************************)
(* Connect().                                                              *)
(***************************************************************************)

\* kernel_signal(&listener->req_available) wakes one of the sleepers.
BugSignals(s) == IF queue[s] = << >> THEN {{t} : t \in Sleepers(s)} ELSE {}
Signals(s) == {{t} : t \in Sleepers(s)}

Connect(t, i, p) ==
  /\ at[t] = "user"
  /\ FIDT[i] \in SCBs
  /\ port_map[p] # NULL
  /\ LET s == FIDT[i]
         listener == port_map[p]
     IN  /\ type[s] # "listener" /\ refcount[s] = 0
         /\ refcount' = [refcount EXCEPT ![s] = 1]
         /\ \E r \in FreeRequests :
              /\ peer' = [peer EXCEPT ![r] = s]
              /\ admitted' = [admitted EXCEPT ![r] = FALSE]
              /\ queue' = [queue EXCEPT ![listener] = Append(@, r)]
              /\ req' = [req EXCEPT ![t] = r]
         /\ at' = [at EXCEPT ![t] = "connect"]
         /\ socket_cb' = [socket_cb EXCEPT ![t] = s]
         /\ \/ /\ Signals(listener) = {}
               /\ UNCHANGED woken
            \/ \E w \in Signals(listener) :
                 woken' = [u \in Threads |-> woken[u] \/ u \in w]
  /\ UNCHANGED <<port_map, FIDT, type, port, fcb, lport, corrupt>>

\* It was admitted, and returns 0; or its time is over, and it returns -1.
\* An admission between the end of the time and the return counts.
ConnectReturns(t) ==
  /\ Admitted(t)
  /\ Leaves(t)
  /\ UNCHANGED <<port_map, FIDT, type, port, fcb, queue, request_vars, woken, corrupt>>

ConnectTimesOut(t) ==
  /\ at[t] = "connect" /\ ~ Admitted(t)
  /\ Leaves(t)
  /\ UNCHANGED <<port_map, FIDT, type, port, fcb, queue, request_vars, woken, corrupt>>

-----------------------------------------------------------------------------
Works ==
  \/ \E p \in Ports \cup {NOPORT} : Socket(p)
  \/ \E i \in Fids :
       \/ Listen(i) \/ Close(i)
       \/ \E t \in Threads : Accept(t, i) \/ \E p \in Ports : Connect(t, i, p)
  \/ \E t \in Threads : AcceptReturns(t) \/ ConnectReturns(t) \/ ConnectTimesOut(t)

\* After memory was overwritten nothing is said.
Next == (~ corrupt /\ Works) \/ (corrupt /\ UNCHANGED vars)

Spec == Init /\ [][Next]_vars

-----------------------------------------------------------------------------
(***************************************************************************)
(* Each port has one listener at most, and a listener owns its port as     *)
(* long as its descriptor is open, and no longer.                          *)
(***************************************************************************)
PortsExact ==
  ~ corrupt =>
    /\ \A p \in Ports : port_map[p] # NULL =>
         LET s == port_map[p]
         IN  type[s] = "listener" /\ port[s] = p /\ OpenAs(s) # {}
    /\ \A s \in SCBs : type[s] = "listener" /\ OpenAs(s) # {} => port_map[port[s]] = s

(***************************************************************************)
(* No lost wake-up: when requests wait for the Accept() of a listener that *)
(* still has sleepers, as many threads are on their way to take them.      *)
(***************************************************************************)
AcceptorsAreWoken ==
  \A s \in SCBs : Sleepers(s) # {} =>
    Len(queue[s]) <= Cardinality(Acceptors(s) \ Sleepers(s))

(***************************************************************************)
(* A request that came to a listener stays in its queue until it is at the *)
(* head and an Accept() admits it, or drops it because no descriptor is    *)
(* left; a timeout of its Connect() or a Close() of the listener do not    *)
(* take it away from those who still watch the queue.                      *)
(***************************************************************************)
RequestsAreKept ==
  [][\A s \in Watched : s \in Watched' /\ queue'[s] # queue[s] =>
       \/ \E r \in Requests : queue'[s] = Append(queue[s], r)
       \/ /\ queue'[s] = Tail(queue[s])
          /\ admitted'[Head(queue[s])] \/ FreeFids = {} \/ corrupt']_vars

=============================================================================
