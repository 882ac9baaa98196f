---------------------------- MODULE SocketsProofs ----------------------------
(***************************************************************************)
(* For every number of threads, descriptors, sockets, requests and ports:  *)
(* who owns a port, whom a request wakes, and what becomes of it.          *)
(***************************************************************************)
EXTENDS Sockets, SequenceTheorems, FiniteSetTheorems, TLAPS

(***************************************************************************)
(* The strengthening.  A Socket_cb is the stream of one descriptor.  An    *)
(* open listener has a port.  Who sleeps in Accept() still knows the port  *)
(* of the listener; and when the listener was closed meanwhile, and its    *)
(* port taken by another one, its queue is empty for ever.  The refcount   *)
(* of a Socket_cb is the number of the calls that sleep on it.             *)
(***************************************************************************)
OneDescriptor ==
  \A i, j \in Fids : FIDT[i] \in SCBs /\ FIDT[i] = FIDT[j] => i = j

OpenListener(s) == type[s] = "listener" /\ OpenAs(s) # {}

ListenersHavePorts == \A s \in SCBs : OpenListener(s) => port[s] \in Ports

AcceptorsKnowPort ==
  \A t \in Threads : at[t] = "accept" =>
    /\ socket_cb[t] \in SCBs
    /\ type[socket_cb[t]] = "listener"
    /\ lport[t] = port[socket_cb[t]] /\ lport[t] \in Ports

ClosedQueuesStayEmpty ==
  \A s \in SCBs : Sleepers(s) # {} => queue[s] = << >> \/ OpenListener(s)

\* A request in a queue was put there by the Connect() of a socket.
RequestsHavePeers ==
  \A s \in SCBs : \A k \in DOMAIN queue[s] : peer[queue[s][k]] \in SCBs

Callers(s) == {t \in Threads : socket_cb[t] = s}

CallersExact ==
  /\ \A t \in Threads : at[t] = "user" <=> socket_cb[t] = NULL
  /\ \A s \in SCBs : refcount[s] = Cardinality(Callers(s))

IInv ==
  /\ TypeOK
  /\ PortsExact
  /\ OneDescriptor
  /\ ~ corrupt => ListenersHavePorts
  /\ CallersExact
  /\ AcceptorsKnowPort
  /\ RequestsHavePeers
  /\ ClosedQueuesStayEmpty
  /\ AcceptorsAreWoken

Awake(s) == Acceptors(s) \ Sleepers(s)

-----------------------------------------------------------------------------
(***************************************************************************)
(* What is known before a step.                                            *)
(***************************************************************************)
LEMMA ConstantsTyped ==
  /\ MAX_PORT \in Nat /\ IsFiniteSet(Threads)
  /\ NULL \notin Fids /\ NULL \notin SCBs /\ NULL \notin Requests /\ NULL \notin PipeEnds
  /\ "reader" \notin SCBs /\ "writer" \notin SCBs
  /\ NOPORT \notin Ports
BY ConstantsAssumption DEF PipeEnds, Ports, NOPORT

LEMMA Typed ==
  ASSUME IInv
  PROVE  /\ port_map \in [Ports -> SCBs \cup {NULL}]
         /\ FIDT \in [Fids -> SCBs \cup PipeEnds \cup {NULL}]
         /\ type \in [SCBs -> {"unbound", "listener"}]
         /\ port \in [SCBs -> Ports \cup {NOPORT}]
         /\ refcount \in [SCBs -> Nat]
         /\ fcb \in [SCBs -> Fids \cup {NULL}]
         /\ queue \in [SCBs -> Seq(Requests)]
         /\ peer \in [Requests -> SCBs \cup {NULL}]
         /\ admitted \in [Requests -> BOOLEAN]
         /\ at \in [Threads -> {"user", "accept", "connect"}]
         /\ socket_cb \in [Threads -> SCBs \cup {NULL}]
         /\ lport \in [Threads -> Ports \cup {NOPORT}]
         /\ req \in [Threads -> Requests \cup {NULL}]
         /\ woken \in [Threads -> BOOLEAN]
         /\ corrupt \in BOOLEAN
BY DEF IInv, TypeOK

LEMMA AwakeAreCounted ==
  ASSUME NEW s
  PROVE  /\ IsFiniteSet(Awake(s)) /\ Cardinality(Awake(s)) \in Nat
         /\ Awake(s) = {t \in Threads : at[t] = "accept" /\ socket_cb[t] = s /\ woken[t]}
<1>1. Awake(s) \in SUBSET Threads
  BY DEF Awake, Acceptors
<1>2. IsFiniteSet(Awake(s))
  BY <1>1, ConstantsTyped, FS_Subset
<1>3. Awake(s) = {t \in Threads : at[t] = "accept" /\ socket_cb[t] = s /\ woken[t]}
  BY DEF Awake, Sleepers, Acceptors
<1> QED
  BY <1>2, <1>3, FS_CardinalityType

\* An open listener owns its port.
LEMMA OpenListenerFacts ==
  ASSUME IInv, ~ corrupt, NEW s \in SCBs, OpenListener(s)
  PROVE  port[s] \in Ports /\ port_map[port[s]] = s
BY DEF IInv, ListenersHavePorts, PortsExact, OpenListener

-----------------------------------------------------------------------------
(***************************************************************************)
(* The two halves of the invariant, and what keeps each.                   *)
(***************************************************************************)
PortsInv ==
  /\ PortsExact
  /\ OneDescriptor
  /\ ~ corrupt => ListenersHavePorts

CallsInv ==
  /\ AcceptorsKnowPort
  /\ RequestsHavePeers
  /\ ClosedQueuesStayEmpty
  /\ AcceptorsAreWoken

LEMMA CallersStay ==
  ASSUME IInv, UNCHANGED <<at, socket_cb>>, \A s \in SCBs : refcount'[s] = refcount[s]
  PROVE  CallersExact'
<1>1. \A s : Callers(s)' = Callers(s)
  BY DEF Callers
<1> QED
  BY <1>1, Zenon DEF IInv, CallersExact

\* A thread falls asleep in a call on s.
LEMMA CallerComes ==
  ASSUME IInv, NEW t \in Threads, NEW s \in SCBs, NEW call \in {"accept", "connect"},
         at[t] = "user",
         at' = [at EXCEPT ![t] = call],
         socket_cb' = [socket_cb EXCEPT ![t] = s],
         refcount' = [refcount EXCEPT ![s] = @ + 1]
  PROVE  CallersExact'
<1>1. CallersExact
  BY DEF IInv
<1>2. \A u \in Threads : at'[u] = "user" <=> socket_cb'[u] = NULL
  BY <1>1, Typed, ConstantsTyped DEF CallersExact
<1>3. ASSUME NEW l \in SCBs PROVE refcount'[l] = Cardinality(Callers(l)')
  <2>1. socket_cb[t] = NULL /\ refcount[l] = Cardinality(Callers(l)) /\ refcount[l] \in Nat
    BY <1>1, Typed DEF CallersExact
  <2>2. CASE l = s
    <3>1. Callers(l) \in SUBSET Threads /\ t \notin Callers(l)
      BY <2>1, ConstantsTyped DEF Callers
    <3>2. Callers(l)' = Callers(l) \cup {t}
      BY <2>2, Typed DEF Callers
    <3>3. IsFiniteSet(Callers(l))
      BY <3>1, ConstantsTyped, FS_Subset
    <3>4. Cardinality(Callers(l) \cup {t}) = Cardinality(Callers(l)) + 1
      BY <3>1, <3>3, FS_AddElement
    <3>5. refcount'[l] = refcount[l] + 1
      BY <2>2, Typed
    <3> QED
      BY <2>1, <3>2, <3>4, <3>5, Zenon
  <2>3. CASE l # s
    <3>1. Callers(l)' = Callers(l)
      BY <2>1, <2>3, Typed, ConstantsTyped DEF Callers
    <3>2. refcount'[l] = refcount[l]
      BY <2>3, Typed
    <3> QED
      BY <2>1, <3>1, <3>2, Zenon
  <2> QED
    BY <2>2, <2>3
<1> QED
  BY <1>2, <1>3 DEF CallersExact

\* And returns from it.
LEMMA CallerLeaves ==
  ASSUME IInv, NEW t \in Threads, at[t] # "user", Leaves(t)
  PROVE  CallersExact' /\ refcount' \in [SCBs -> Nat]
<1>1. CallersExact
  BY DEF IInv
<1> PICK s : s = socket_cb[t]
  OBVIOUS
<1>2. /\ s \in SCBs
      /\ at' = [at EXCEPT ![t] = "user"]
      /\ socket_cb' = [socket_cb EXCEPT ![t] = NULL]
      /\ refcount' = [refcount EXCEPT ![s] = @ - 1]
  BY <1>1, Typed DEF CallersExact, Leaves
<1>3. \A u \in Threads : at'[u] = "user" <=> socket_cb'[u] = NULL
  BY <1>1, <1>2, Typed DEF CallersExact
<1>4. /\ IsFiniteSet(Callers(s)) /\ t \in Callers(s)
      /\ Callers(s)' = Callers(s) \ {t}
  <2>1. Callers(s) \in SUBSET Threads /\ t \in Callers(s)
    BY DEF Callers
  <2>2. Callers(s)' = Callers(s) \ {t}
    BY <1>2, Typed, ConstantsTyped DEF Callers
  <2> QED
    BY <2>1, <2>2, ConstantsTyped, FS_Subset
<1>5. /\ Cardinality(Callers(s) \ {t}) = Cardinality(Callers(s)) - 1
      /\ Cardinality(Callers(s) \ {t}) \in Nat
  <2>1. Cardinality(Callers(s) \ {t}) = Cardinality(Callers(s)) - 1
    BY <1>4, FS_RemoveElement
  <2>2. IsFiniteSet(Callers(s) \ {t})
    BY <1>4, FS_RemoveElement
  <2> QED
    BY <2>1, <2>2, FS_CardinalityType
<1>6. refcount[s] = Cardinality(Callers(s)) /\ refcount'[s] = refcount[s] - 1
  BY <1>1, <1>2, Typed DEF CallersExact
<1>7. refcount'[s] = Cardinality(Callers(s)') /\ refcount'[s] \in Nat
  BY <1>4, <1>5, <1>6, Zenon
<1>8. ASSUME NEW l \in SCBs, l # s PROVE refcount'[l] = Cardinality(Callers(l)')
  <2>1. Callers(l)' = Callers(l)
    BY <1>2, <1>8, Typed, ConstantsTyped DEF Callers
  <2>2. refcount'[l] = refcount[l]
    BY <1>2, <1>8, Typed
  <2> QED
    BY <1>1, <2>1, <2>2, Zenon DEF CallersExact
<1>9. refcount' \in [SCBs -> Nat]
  BY <1>2, <1>7, Typed
<1> QED
  BY <1>3, <1>7, <1>8, <1>9 DEF CallersExact

\* Calls that leave the map, the listeners and their descriptors.
ListenersStay ==
  \A s \in SCBs : type[s] = "listener" => \A i \in Fids : FIDT'[i] = s <=> FIDT[i] = s

LEMMA PortsStay ==
  ASSUME IInv, ~ corrupt, OneDescriptor', ListenersStay,
         UNCHANGED <<port_map, type, port>>
  PROVE  PortsInv' /\ \A s \in SCBs : OpenListener(s)' <=> OpenListener(s)
<1>1. PortsExact /\ ListenersHavePorts
  BY DEF IInv
<1>2. \A s \in SCBs : OpenListener(s)' <=> OpenListener(s)
  BY DEF OpenListener, OpenAs, ListenersStay
<1>3. PortsExact'
  <2>1. ASSUME NEW p \in Ports, port_map[p] # NULL
        PROVE  /\ port_map[p] \in SCBs
               /\ type[port_map[p]] = "listener" /\ port[port_map[p]] = p
               /\ \E i \in Fids : FIDT'[i] = port_map[p]
    <3>1. /\ port_map[p] \in SCBs
          /\ type[port_map[p]] = "listener" /\ port[port_map[p]] = p
          /\ \E i \in Fids : FIDT[i] = port_map[p]
      BY <2>1, <1>1, Typed DEF PortsExact, OpenAs
    <3> QED
      BY <3>1 DEF ListenersStay
  <2>2. ASSUME NEW s \in SCBs, type[s] = "listener", \E i \in Fids : FIDT'[i] = s
        PROVE  port_map[port[s]] = s
    <3>1. \E i \in Fids : FIDT[i] = s
      BY <2>2 DEF ListenersStay
    <3> QED
      BY <3>1, <2>2, <1>1 DEF PortsExact, OpenAs
  <2> QED
    BY <2>1, <2>2 DEF PortsExact, OpenAs
<1>4. ListenersHavePorts'
  BY <1>1, <1>2 DEF ListenersHavePorts
<1> QED
  BY <1>2, <1>3, <1>4 DEF PortsInv

\* Calls that leave those who sleep in Accept(), and their queues, but may
\* wake some of them.
LEMMA CallsStay ==
  ASSUME IInv, UNCHANGED <<at, socket_cb, lport, peer>>,
         woken' \in [Threads -> BOOLEAN],
         \A t \in Threads : woken[t] => woken'[t],
         \A s \in SCBs : Acceptors(s) # {} =>
           type'[s] = type[s] /\ port'[s] = port[s] /\ queue'[s] = queue[s],
         \A s \in SCBs : queue'[s] = queue[s] \/ queue'[s] = << >>,
         \A s \in SCBs : Sleepers(s)' # {} /\ OpenListener(s) => OpenListener(s)'
  PROVE  CallsInv'
<1>1. /\ AcceptorsKnowPort /\ RequestsHavePeers
      /\ ClosedQueuesStayEmpty /\ AcceptorsAreWoken
  BY DEF IInv
<1>2. AcceptorsKnowPort'
  <2>1. ASSUME NEW t \in Threads, at[t] = "accept"
        PROVE  Acceptors(socket_cb[t]) # {}
    BY <2>1 DEF Acceptors
  <2> QED
    BY <2>1, <1>1 DEF AcceptorsKnowPort
<1>3. RequestsHavePeers'
  BY <1>1, EmptySeq DEF RequestsHavePeers
<1>4. ASSUME NEW s \in SCBs, Sleepers(s)' # {}
      PROVE  /\ Sleepers(s) # {} /\ queue'[s] = queue[s]
             /\ Awake(s) \subseteq Awake(s)'
  <2>1. Sleepers(s)' \subseteq Sleepers(s) /\ Sleepers(s) \subseteq Acceptors(s)
    BY Typed DEF Sleepers, Acceptors
  <2>2. Awake(s) \subseteq Awake(s)'
    BY Typed DEF Awake, Sleepers, Acceptors
  <2> QED
    BY <2>1, <2>2, <1>4
<1>5. ClosedQueuesStayEmpty'
  BY <1>1, <1>4 DEF ClosedQueuesStayEmpty
<1>6. AcceptorsAreWoken'
  <2>1. ASSUME NEW s \in SCBs, Sleepers(s)' # {}
        PROVE  Len(queue'[s]) <= Cardinality(Awake(s)')
    <3>1. Len(queue[s]) <= Cardinality(Awake(s))
      BY <2>1, <1>1, <1>4 DEF AcceptorsAreWoken, Awake
    <3>2. IsFiniteSet(Awake(s)')
      <4>1. Awake(s)' \in SUBSET Threads
        BY DEF Awake, Acceptors
      <4> QED
        BY <4>1, ConstantsTyped, FS_Subset
    <3>3. Cardinality(Awake(s)) <= Cardinality(Awake(s)')
      BY <2>1, <3>2, <1>4, FS_Subset
    <3>4. Cardinality(Awake(s)) \in Nat /\ Cardinality(Awake(s)') \in Nat
      BY <3>2, AwakeAreCounted, FS_CardinalityType
    <3>5. Len(queue[s]) \in Nat /\ queue'[s] = queue[s]
      BY <2>1, <1>4, Typed
    <3> QED
      BY <3>1, <3>3, <3>4, <3>5
  <2> QED
    BY <2>1 DEF AcceptorsAreWoken, Awake
<1> QED
  BY <1>2, <1>3, <1>5, <1>6 DEF CallsInv

-----------------------------------------------------------------------------
(***************************************************************************)
(* The steps.                                                              *)
(***************************************************************************)
LEMMA InitEstablishes == Init => IInv
<1> SUFFICES ASSUME Init PROVE IInv
  OBVIOUS
<1>1. TypeOK
  BY ConstantsTyped, EmptySeq DEF Init, TypeOK
<1>2. PortsExact /\ OneDescriptor /\ ListenersHavePorts
  BY ConstantsTyped DEF Init, PortsExact, OneDescriptor, ListenersHavePorts, OpenListener
<1>3. AcceptorsKnowPort /\ RequestsHavePeers
  BY EmptySeq DEF Init, AcceptorsKnowPort, RequestsHavePeers
<1>4. \A s : Sleepers(s) = {}
  BY DEF Init, Sleepers, Acceptors
<1>5. CallersExact
  <2>1. ASSUME NEW s \in SCBs PROVE refcount[s] = Cardinality(Callers(s))
    <3>1. Callers(s) = {} /\ refcount[s] = 0
      BY ConstantsTyped DEF Init, Callers
    <3> QED
      BY <3>1, FS_EmptySet, Zenon
  <2> QED
    BY <2>1, ConstantsTyped DEF Init, CallersExact
<1> QED
  BY <1>1, <1>2, <1>3, <1>4, <1>5 DEF IInv, ClosedQueuesStayEmpty, AcceptorsAreWoken

LEMMA SocketStep == ASSUME IInv, ~ corrupt, NEW p \in Ports \cup {NOPORT}, Socket(p) PROVE IInv'
<1>1. PICK i \in FreeFids, s \in FreeSCBs :
        /\ FIDT' = [FIDT EXCEPT ![i] = s]
        /\ type' = [type EXCEPT ![s] = "unbound"]
        /\ port' = [port EXCEPT ![s] = p]
        /\ refcount' = [refcount EXCEPT ![s] = 0]
        /\ fcb' = [fcb EXCEPT ![s] = i]
        /\ queue' = [queue EXCEPT ![s] = << >>]
  BY DEF Socket
<1>2. UNCHANGED <<port_map, peer, admitted, at, socket_cb, lport, req, woken, corrupt>>
  BY DEF Socket, request_vars, call_vars
<1>3. /\ i \in Fids /\ FIDT[i] = NULL
      /\ s \in SCBs /\ (\A j \in Fids : FIDT[j] # s)
      /\ \A q \in Ports : port_map[q] # s
      /\ \A t \in Threads : socket_cb[t] # s
  BY DEF FreeFids, FreeSCBs, OpenAs
<1>4. \A j \in Fids : FIDT'[j] = IF j = i THEN s ELSE FIDT[j]
  BY <1>1, Typed
<1>5. TypeOK'
  BY <1>1, <1>2, <1>3, Typed, EmptySeq DEF TypeOK
<1>6. PortsInv'
  <2>1. OneDescriptor'
    BY <1>3, <1>4 DEF IInv, OneDescriptor
  <2>2. \A l \in SCBs : type'[l] = "listener" =>
          /\ l # s /\ type[l] = "listener" /\ port'[l] = port[l]
          /\ \A j \in Fids : FIDT'[j] = l <=> FIDT[j] = l
    BY <1>1, <1>3, <1>4, Typed, ConstantsTyped
  <2>3. PortsExact'
    <3>1. ASSUME NEW q \in Ports, port_map[q] # NULL
          PROVE  /\ type'[port_map[q]] = "listener" /\ port'[port_map[q]] = q
                 /\ \E j \in Fids : FIDT'[j] = port_map[q]
      <4>1. /\ port_map[q] \in SCBs /\ port_map[q] # s
            /\ type[port_map[q]] = "listener" /\ port[port_map[q]] = q
            /\ \E j \in Fids : FIDT[j] = port_map[q]
        BY <3>1, <1>3, Typed DEF IInv, PortsExact, OpenAs
      <4>2. type'[port_map[q]] = "listener"
        BY <4>1, <1>1, Typed
      <4> QED
        BY <4>1, <4>2, <2>2
    <3>2. ASSUME NEW l \in SCBs, type'[l] = "listener", \E j \in Fids : FIDT'[j] = l
          PROVE  port_map[port'[l]] = l
      BY <3>2, <2>2 DEF IInv, PortsExact, OpenAs
    <3> QED
      BY <3>1, <3>2, <1>2 DEF PortsExact, OpenAs
  <2>4. ListenersHavePorts'
    BY <2>2 DEF IInv, ListenersHavePorts, OpenListener, OpenAs
  <2> QED
    BY <2>1, <2>3, <2>4 DEF PortsInv
<1>7. CallsInv'
  <2>1. \A l \in SCBs : Acceptors(l) # {} => l # s
    BY <1>3 DEF Acceptors
  <2>2. \A l \in SCBs : Acceptors(l) # {} =>
          type'[l] = type[l] /\ port'[l] = port[l] /\ queue'[l] = queue[l]
    BY <2>1, <1>1, Typed
  <2>3. \A l \in SCBs : queue'[l] = queue[l] \/ queue'[l] = << >>
    BY <1>1, Typed
  <2>4. ASSUME NEW l \in SCBs, OpenListener(l)
        PROVE  OpenListener(l)'
    <3>1. PICK j \in Fids : FIDT[j] = l
      BY <2>4 DEF OpenListener, OpenAs
    <3>2. l # s /\ FIDT'[j] = l
      BY <3>1, <1>3, <1>4, ConstantsTyped
    <3>3. type'[l] = "listener"
      BY <3>2, <2>4, <1>1, Typed DEF OpenListener
    <3> QED
      BY <3>2, <3>3 DEF OpenListener, OpenAs
  <2> QED
    BY <2>2, <2>3, <2>4, <1>2, Typed, CallsStay
<1>8. CallersExact'
  <2>1. refcount[s] = Cardinality(Callers(s)) /\ Callers(s) = {}
    BY <1>3 DEF IInv, CallersExact, Callers
  <2>2. refcount[s] = 0
    BY <2>1, FS_EmptySet, Zenon
  <2> QED
    BY <2>2, <1>1, <1>2, Typed, CallersStay
<1> QED
  BY <1>5, <1>6, <1>7, <1>8 DEF IInv, PortsInv, CallsInv

LEMMA ListenStep == ASSUME IInv, ~ corrupt, NEW i \in Fids, Listen(i) PROVE IInv'
<1> DEFINE s == FIDT[i]
<1>1. /\ s \in SCBs /\ port[s] # NOPORT /\ port_map[port[s]] = NULL /\ type[s] = "unbound"
      /\ port_map' = [port_map EXCEPT ![port[s]] = s]
      /\ type' = [type EXCEPT ![s] = "listener"]
      /\ queue' = [queue EXCEPT ![s] = << >>]
      /\ UNCHANGED <<FIDT, port, refcount, fcb, peer, admitted,
                     at, socket_cb, lport, req, woken, corrupt>>
  BY DEF Listen, PortTaken, request_vars, call_vars
<1>2. s \in SCBs /\ port[s] \in Ports /\ FIDT[i] = s
  BY <1>1, Typed
<1> HIDE DEF s
<1>3. TypeOK'
  BY <1>1, <1>2, Typed, EmptySeq DEF TypeOK
<1>4. PortsInv'
  <2>1. OneDescriptor'
    BY <1>1 DEF IInv, OneDescriptor
  <2>2. \A l \in SCBs : type'[l] = "listener" <=> l = s \/ type[l] = "listener"
    BY <1>1, <1>2, Typed
  <2>3. \A q \in Ports : port_map'[q] = IF q = port[s] THEN s ELSE port_map[q]
    BY <1>1, <1>2, Typed
  <2>4. PortsExact'
    <3>1. ASSUME NEW q \in Ports, port_map'[q] # NULL
          PROVE  /\ type'[port_map'[q]] = "listener" /\ port[port_map'[q]] = q
                 /\ \E j \in Fids : FIDT[j] = port_map'[q]
      <4>1. CASE q = port[s]
        BY <4>1, <1>2, <2>2, <2>3
      <4>2. CASE q # port[s]
        <5>1. /\ port_map[q] \in SCBs
              /\ type[port_map[q]] = "listener" /\ port[port_map[q]] = q
              /\ \E j \in Fids : FIDT[j] = port_map[q]
          BY <3>1, <4>2, <2>3, Typed DEF IInv, PortsExact, OpenAs
        <5> QED
          BY <4>2, <5>1, <2>2, <2>3
      <4> QED
        BY <4>1, <4>2
    <3>2. ASSUME NEW l \in SCBs, type'[l] = "listener", \E j \in Fids : FIDT[j] = l
          PROVE  port_map'[port[l]] = l
      <4>1. CASE l = s
        BY <4>1, <1>2, <2>3
      <4>2. CASE l # s
        <5>1. OpenListener(l)
          BY <3>2, <4>2, <2>2 DEF OpenListener, OpenAs
        <5>2. port[l] \in Ports /\ port_map[port[l]] = l
          BY <5>1, OpenListenerFacts
        <5>3. port[l] # port[s]
          BY <5>2, <1>1, ConstantsTyped
        <5> QED
          BY <5>2, <5>3, <2>3
      <4> QED
        BY <4>1, <4>2
    <3> QED
      BY <3>1, <3>2, <1>1 DEF PortsExact, OpenAs
  <2>5. ListenersHavePorts'
    BY <1>1, <1>2, <2>2 DEF IInv, ListenersHavePorts, OpenListener, OpenAs
  <2> QED
    BY <2>1, <2>4, <2>5 DEF PortsInv
<1>5. CallsInv'
  <2>1. \A l \in SCBs : Acceptors(l) # {} => l # s
    BY <1>1 DEF IInv, AcceptorsKnowPort, Acceptors
  <2>2. \A l \in SCBs : Acceptors(l) # {} =>
          type'[l] = type[l] /\ port'[l] = port[l] /\ queue'[l] = queue[l]
    BY <2>1, <1>1, Typed
  <2>3. \A l \in SCBs : queue'[l] = queue[l] \/ queue'[l] = << >>
    BY <1>1, Typed
  <2>4. \A l \in SCBs : OpenListener(l) => OpenListener(l)'
    BY <1>1, Typed DEF OpenListener, OpenAs
  <2> QED
    BY <2>2, <2>3, <2>4, <1>1, Typed, CallsStay
<1>6. CallersExact'
  BY <1>1, CallersStay
<1> QED
  BY <1>3, <1>4, <1>5, <1>6 DEF IInv, PortsInv, CallsInv

LEMMA CloseStep == ASSUME IInv, ~ corrupt, NEW i \in Fids, Close(i) PROVE IInv'
<1> PICK s : s = FIDT[i]
  OBVIOUS
<1>1. /\ s # NULL
      /\ FIDT' = [FIDT EXCEPT ![i] = NULL]
      /\ UNCHANGED <<type, port, refcount, queue, peer, admitted,
                     at, socket_cb, lport, req, corrupt>>
      /\ \/ /\ s \in SCBs
            /\ fcb' = [fcb EXCEPT ![s] = NULL]
            /\ \/ /\ type[s] = "listener"
                  /\ port_map' = [port_map EXCEPT ![port[s]] = NULL]
                  /\ woken' = [t \in Threads |-> woken[t] \/ t \in Acceptors(s)]
               \/ /\ type[s] = "unbound"
                  /\ UNCHANGED <<port_map, woken>>
         \/ /\ s \notin SCBs
            /\ UNCHANGED <<fcb, port_map, woken>>
  BY ConstantsAssumption DEF Close, request_vars
<1>2. \A j \in Fids : FIDT'[j] = IF j = i THEN NULL ELSE FIDT[j]
  BY <1>1, Typed
<1>3. FIDT[i] = s /\ (s \in SCBs => \A j \in Fids : FIDT[j] = s => j = i)
  BY DEF IInv, OneDescriptor
<1>4. OneDescriptor'
  BY <1>2, ConstantsTyped DEF IInv, OneDescriptor
<1>8. CallersExact'
  BY <1>1, CallersStay
<1>5. \A l \in SCBs \ {s} : OpenListener(l)' <=> OpenListener(l)
  BY <1>1, <1>2, <1>3, ConstantsTyped DEF OpenListener, OpenAs
<1>6. CASE s \in SCBs /\ type[s] = "listener"
  <2>1. OpenListener(s) /\ ~ OpenListener(s)'
    BY <1>1, <1>2, <1>3, <1>6, ConstantsTyped DEF OpenListener, OpenAs
  <2>2. port[s] \in Ports /\ port_map[port[s]] = s
    BY <1>6, <2>1, OpenListenerFacts
  <2>3. /\ fcb' = [fcb EXCEPT ![s] = NULL]
        /\ port_map' = [port_map EXCEPT ![port[s]] = NULL]
        /\ woken' = [t \in Threads |-> woken[t] \/ t \in Acceptors(s)]
    BY <1>1, <1>6
  <2>4. TypeOK'
    BY <1>1, <1>6, <2>2, <2>3, Typed DEF TypeOK
  <2>5. \A q \in Ports : port_map'[q] = IF q = port[s] THEN NULL ELSE port_map[q]
    BY <2>2, <2>3, Typed
  <2>6. PortsExact'
    <3>1. ASSUME NEW q \in Ports, port_map'[q] # NULL
          PROVE  /\ type[port_map'[q]] = "listener" /\ port[port_map'[q]] = q
                 /\ \E j \in Fids : FIDT'[j] = port_map'[q]
      <4>1. q # port[s] /\ port_map'[q] = port_map[q]
        BY <3>1, <2>5
      <4>2. /\ port_map[q] \in SCBs
            /\ type[port_map[q]] = "listener" /\ port[port_map[q]] = q
        BY <3>1, <4>1, Typed DEF IInv, PortsExact
      <4>3. PICK j \in Fids : FIDT[j] = port_map[q]
        BY <3>1, <4>1 DEF IInv, PortsExact, OpenAs
      <4>4. j # i
        BY <4>1, <4>2, <4>3, <1>3
      <4> QED
        BY <4>1, <4>2, <4>3, <4>4, <1>2
    <3>2. ASSUME NEW l \in SCBs, type[l] = "listener", \E j \in Fids : FIDT'[j] = l
          PROVE  port_map'[port[l]] = l
      <4>1. OpenListener(l)'
        BY <3>2, <1>1 DEF OpenListener, OpenAs
      <4>2. l # s /\ OpenListener(l)
        BY <4>1, <2>1, <1>5
      <4>3. port[l] \in Ports /\ port_map[port[l]] = l
        BY <4>2, OpenListenerFacts
      <4> QED
        BY <4>2, <4>3, <2>2, <2>5
    <3> QED
      BY <3>1, <3>2, <1>1 DEF PortsExact, OpenAs
  <2>7. ListenersHavePorts'
    BY <1>1, <1>5, <2>1 DEF IInv, ListenersHavePorts
  <2>8. CallsInv'
    <3>1. Sleepers(s)' = {}
      BY <1>1, <2>3 DEF Sleepers, Acceptors
    <3>2. woken' \in [Threads -> BOOLEAN] /\ \A t \in Threads : woken[t] => woken'[t]
      BY <2>3, Typed
    <3>3. \A l \in SCBs : Sleepers(l)' # {} /\ OpenListener(l) => OpenListener(l)'
      BY <3>1, <1>5
    <3> QED
      BY <3>2, <3>3, <1>1, CallsStay
  <2> QED
    BY <1>4, <1>8, <2>4, <2>6, <2>7, <2>8 DEF IInv, CallsInv
<1>7. CASE ~ (s \in SCBs /\ type[s] = "listener")
  <2>1. port_map' = port_map /\ woken' = woken
    BY <1>1, <1>7
  <2>2. fcb' \in [SCBs -> Fids \cup {NULL}]
    BY <1>1, <1>7, Typed
  <2>3. TypeOK'
    BY <1>1, <2>1, <2>2, Typed DEF TypeOK
  <2>4. ListenersStay
    BY <1>2, <1>3, <1>7, ConstantsTyped DEF ListenersStay
  <2>5. PortsInv' /\ \A l \in SCBs : OpenListener(l)' <=> OpenListener(l)
    BY <1>1, <1>4, <2>1, <2>4, PortsStay
  <2>6. CallsInv'
    BY <1>1, <2>1, <2>5, Typed, CallsStay
  <2> QED
    BY <1>8, <2>3, <2>5, <2>6 DEF IInv, PortsInv, CallsInv
<1> QED
  BY <1>6, <1>7

\* What Accept() does when it need not wait (any more).
LEMMA GoesOnFacts ==
  ASSUME IInv, ~ corrupt, NEW s \in SCBs, NEW p \in Ports,
         AcceptGoesOn(s, p), ~ MustWait(s, p)
  PROVE  /\ FIDT' \in [Fids -> SCBs \cup PipeEnds \cup {NULL}]
         /\ admitted' \in [Requests -> BOOLEAN]
         /\ corrupt' \in BOOLEAN
         /\ OneDescriptor'
         /\ ListenersStay
         /\ \/ port_map[p] = NULL /\ queue' = queue
            \/ /\ port_map[p] # NULL /\ queue[s] # << >>
               /\ queue' = [queue EXCEPT ![s] = Tail(@)]
<1>1. CASE port_map[p] = NULL /\ UNCHANGED <<FIDT, queue, admitted, corrupt>>
  <2>1. OneDescriptor' /\ ListenersStay
    BY <1>1 DEF IInv, OneDescriptor, ListenersStay
  <2> QED
    BY <1>1, <2>1, Typed
<1>2. CASE /\ port_map[p] # NULL
           /\ queue' = [queue EXCEPT ![s] = Tail(@)]
           /\ UNCHANGED FIDT
           /\ admitted' = admitted
           /\ corrupt' \in BOOLEAN
  <2>1. OneDescriptor' /\ ListenersStay
    BY <1>2 DEF IInv, OneDescriptor, ListenersStay
  <2>2. queue[s] # << >>
    BY <1>2 DEF MustWait
  <2> QED
    BY <1>2, <2>1, <2>2, Typed
<1>3. ASSUME port_map[p] # NULL,
             queue' = [queue EXCEPT ![s] = Tail(@)],
             Intact(Head(queue[s])),
             NEW i \in FreeFids,
             FIDT' = [FIDT EXCEPT ![i] = "reader", ![fcb[peer[Head(queue[s])]]] = "writer"],
             admitted' = [admitted EXCEPT ![Head(queue[s])] = TRUE],
             corrupt' = corrupt
      PROVE  /\ FIDT' \in [Fids -> SCBs \cup PipeEnds \cup {NULL}]
             /\ admitted' \in [Requests -> BOOLEAN]
             /\ corrupt' \in BOOLEAN
             /\ OneDescriptor'
             /\ ListenersStay
             /\ queue[s] # << >>
  <2> DEFINE q == queue[s]
  <2>1. q # << >> /\ q \in Seq(Requests)
    BY <1>3, Typed DEF MustWait
  <2>2. Head(q) = q[1] /\ 1 \in DOMAIN q
    BY <2>1, LenProperties, EmptySeq
  <2>3. peer[Head(q)] \in SCBs
    BY <2>2 DEF IInv, RequestsHavePeers
  <2> DEFINE u == peer[Head(q)]
             j == fcb[u]
  <2>4. /\ u \in SCBs /\ j \in Fids /\ FIDT[j] = u /\ type[u] = "unbound"
    BY <2>3, <1>3, Typed DEF Intact
  <2>5. i \in Fids /\ FIDT[i] = NULL
    BY DEF FreeFids
  <2> HIDE DEF u, j
  <2>6. FIDT' = [FIDT EXCEPT ![i] = "reader", ![j] = "writer"]
    BY <1>3 DEF u, j
  <2>7. \A k \in Fids :
          FIDT'[k] = IF k = j THEN "writer" ELSE IF k = i THEN "reader" ELSE FIDT[k]
    BY <2>4, <2>5, <2>6, Typed
  <2>8. FIDT' \in [Fids -> SCBs \cup PipeEnds \cup {NULL}]
    BY <2>4, <2>5, <2>6, Typed DEF PipeEnds
  <2>9. OneDescriptor'
    BY <2>7, ConstantsTyped DEF IInv, OneDescriptor
  <2>10. ASSUME NEW l \in SCBs, type[l] = "listener", NEW k \in Fids
         PROVE  FIDT'[k] = l <=> FIDT[k] = l
    <3>1. l # "writer" /\ l # "reader" /\ l # NULL /\ l # u
      BY <2>4, <2>10, ConstantsTyped
    <3> QED
      BY <3>1, <2>4, <2>5, <2>7
  <2>11. admitted' \in [Requests -> BOOLEAN]
    BY <1>3, Typed
  <2> QED
    BY <1>3, <2>1, <2>8, <2>9, <2>10, <2>11, Typed DEF ListenersStay
<1> QED
  BY <1>1, <1>2, <1>3, Typed DEF AcceptGoesOn

\* A call that touches one queue and those who sleep on it.
LEMMA OneQueue ==
  ASSUME IInv, NEW s \in SCBs,
         AcceptorsKnowPort', RequestsHavePeers',
         \A l \in SCBs \ {s} :
           Sleepers(l)' = Sleepers(l) /\ Awake(l)' = Awake(l) /\ queue'[l] = queue[l],
         \A l \in SCBs : OpenListener(l) => OpenListener(l)',
         Sleepers(s)' # {} => /\ queue'[s] = << >> \/ OpenListener(s)'
                              /\ Len(queue'[s]) <= Cardinality(Awake(s)')
  PROVE  CallsInv'
<1>1. ClosedQueuesStayEmpty'
  BY DEF IInv, ClosedQueuesStayEmpty
<1>2. ASSUME NEW l \in SCBs, Sleepers(l)' # {}
      PROVE  Len(queue'[l]) <= Cardinality(Awake(l)')
  <2>1. CASE l = s
    BY <1>2, <2>1
  <2>2. CASE l # s
    <3>1. Sleepers(l) # {} /\ Awake(l)' = Awake(l) /\ queue'[l] = queue[l]
      BY <1>2, <2>2
    <3>2. Len(queue[l]) <= Cardinality(Awake(l))
      BY <3>1 DEF IInv, AcceptorsAreWoken, Awake
    <3> QED
      BY <3>1, <3>2, Zenon
  <2> QED
    BY <2>1, <2>2
<1>3. AcceptorsAreWoken'
  BY <1>2 DEF AcceptorsAreWoken, Awake
<1> QED
  BY <1>1, <1>3 DEF CallsInv

\* The empty queue is no longer than anything, whoever is awake.
LEMMA EmptyQueue ==
  ASSUME NEW s, queue'[s] = << >>
  PROVE  Len(queue'[s]) <= Cardinality(Awake(s)')
<1>1. Awake(s)' \in SUBSET Threads
  BY DEF Awake, Acceptors
<1>2. Cardinality(Awake(s)') \in Nat
  BY <1>1, ConstantsTyped, FS_Subset, FS_CardinalityType
<1>3. Len(queue'[s]) = 0
  BY EmptySeq
<1> QED
  BY <1>2, <1>3

\* A request is taken from the head of a queue.
LEMMA TailFacts ==
  ASSUME IInv, NEW s \in SCBs, queue[s] # << >>,
         queue' = [queue EXCEPT ![s] = Tail(@)], peer' = peer
  PROVE  /\ queue' \in [SCBs -> Seq(Requests)]
         /\ RequestsHavePeers'
         /\ queue'[s] = Tail(queue[s])
         /\ Len(queue'[s]) = Len(queue[s]) - 1
<1>1. queue[s] \in Seq(Requests)
  BY Typed
<1>2. /\ Tail(queue[s]) \in Seq(Requests)
      /\ Len(Tail(queue[s])) = Len(queue[s]) - 1
      /\ \A k \in 1..Len(Tail(queue[s])) : Tail(queue[s])[k] = queue[s][k + 1]
  BY <1>1, HeadTailProperties
<1>3. queue'[s] = Tail(queue[s])
  BY Typed
<1>4. RequestsHavePeers'
  <2>1. ASSUME NEW l \in SCBs, NEW k \in DOMAIN queue'[l]
        PROVE  peer[queue'[l][k]] \in SCBs
    <3>1. CASE l = s
      <4>1. k \in 1..Len(Tail(queue[s])) /\ Len(queue[s]) \in Nat
        BY <2>1, <3>1, <1>1, <1>2, <1>3, LenProperties
      <4>2. queue'[l][k] = queue[s][k + 1]
        BY <4>1, <3>1, <1>2, <1>3
      <4>4. k + 1 \in 1..Len(queue[s])
        BY <4>1, <1>2
      <4>3. k + 1 \in DOMAIN queue[s]
        BY <4>4, <1>1, LenProperties
      <4> QED
        BY <4>2, <4>3 DEF IInv, RequestsHavePeers
    <3>2. CASE l # s
      BY <2>1, <3>2, Typed DEF IInv, RequestsHavePeers
    <3> QED
      BY <3>1, <3>2
  <2> QED
    BY <2>1 DEF RequestsHavePeers
<1>5. queue' \in [SCBs -> Seq(Requests)]
  BY <1>2, Typed
<1> QED
  BY <1>2, <1>3, <1>4, <1>5

LEMMA AcceptStep ==
  ASSUME IInv, ~ corrupt, NEW t \in Threads, NEW i \in Fids, Accept(t, i)
  PROVE  IInv'
<1> PICK s : s = FIDT[i]
  OBVIOUS
<1>1. /\ at[t] = "user" /\ s \in SCBs /\ FIDT[i] = s
      /\ type[s] = "listener" /\ port_map[port[s]] # NULL
      /\ UNCHANGED <<port_map, type, port, fcb, peer, req, woken>>
  BY DEF Accept
<1>2. OpenListener(s)
  BY <1>1 DEF OpenListener, OpenAs
<1>3. port[s] \in Ports /\ port_map[port[s]] = s
  BY <1>1, <1>2, OpenListenerFacts
<1>4. CASE /\ MustWait(s, port[s])
           /\ refcount' = [refcount EXCEPT ![s] = @ + 1]
           /\ at' = [at EXCEPT ![t] = "accept"]
           /\ socket_cb' = [socket_cb EXCEPT ![t] = s]
           /\ lport' = [lport EXCEPT ![t] = port[s]]
           /\ UNCHANGED <<FIDT, queue, admitted, corrupt>>
  <2>1. TypeOK'
    BY <1>1, <1>3, <1>4, Typed DEF TypeOK
  <2>2. OneDescriptor' /\ ListenersStay
    BY <1>4 DEF IInv, OneDescriptor, ListenersStay
  <2>3. PortsInv' /\ \A l \in SCBs : OpenListener(l)' <=> OpenListener(l)
    BY <1>1, <2>2, PortsStay
  <2>4. CallersExact'
    BY <1>1, <1>4, CallerComes
  <2>5. AcceptorsKnowPort'
    BY <1>1, <1>3, <1>4, Typed DEF IInv, AcceptorsKnowPort
  <2>6. RequestsHavePeers'
    BY <1>1, <1>4 DEF IInv, RequestsHavePeers
  <2>7. socket_cb[t] = NULL
    BY <1>1 DEF IInv, CallersExact
  <2>8. \A l \in SCBs \ {s} : Sleepers(l)' = Sleepers(l) /\ Awake(l)' = Awake(l)
    <3>1. ASSUME NEW l \in SCBs \ {s} PROVE Acceptors(l)' = Acceptors(l)
      BY <1>1, <1>4, <2>7, Typed, ConstantsTyped DEF Acceptors
    <3> QED
      BY <3>1, <1>1 DEF Sleepers, Awake
  <2>9. queue'[s] = << >>
    BY <1>4 DEF MustWait
  <2>10. /\ \A l \in SCBs \ {s} :
              Sleepers(l)' = Sleepers(l) /\ Awake(l)' = Awake(l) /\ queue'[l] = queue[l]
         /\ \A l \in SCBs : OpenListener(l) => OpenListener(l)'
         /\ Len(queue'[s]) <= Cardinality(Awake(s)')
    BY <1>4, <2>3, <2>8, <2>9, EmptyQueue
  <2>11. CallsInv'
    BY <1>1, <2>5, <2>6, <2>9, <2>10, OneQueue
  <2> QED
    BY <2>1, <2>3, <2>4, <2>11 DEF IInv, PortsInv, CallsInv
<1>5. CASE /\ ~ MustWait(s, port[s])
           /\ AcceptGoesOn(s, port[s])
           /\ UNCHANGED <<refcount, at, socket_cb, lport>>
  <2>1. /\ FIDT' \in [Fids -> SCBs \cup PipeEnds \cup {NULL}]
        /\ admitted' \in [Requests -> BOOLEAN]
        /\ corrupt' \in BOOLEAN
        /\ OneDescriptor'
        /\ ListenersStay
        /\ queue[s] # << >>
        /\ queue' = [queue EXCEPT ![s] = Tail(@)]
    BY <1>1, <1>3, <1>5, GoesOnFacts
  <2>2. /\ queue' \in [SCBs -> Seq(Requests)] /\ RequestsHavePeers'
        /\ Len(queue'[s]) = Len(queue[s]) - 1
    BY <1>1, <2>1, TailFacts
  <2>3. TypeOK'
    BY <1>1, <1>5, <2>1, <2>2, Typed DEF TypeOK
  <2>4. PortsInv' /\ \A l \in SCBs : OpenListener(l)' <=> OpenListener(l)
    BY <1>1, <2>1, PortsStay
  <2>5. CallersExact'
    BY <1>5, CallersStay
  <2>6. AcceptorsKnowPort'
    BY <1>1, <1>5 DEF IInv, AcceptorsKnowPort
  <2>7. \A l : Sleepers(l)' = Sleepers(l) /\ Awake(l)' = Awake(l)
    BY <1>1, <1>5 DEF Sleepers, Awake, Acceptors
  <2>8. \A l \in SCBs \ {s} : queue'[l] = queue[l]
    BY <2>1, Typed
  <2>9. ASSUME Sleepers(s)' # {}
        PROVE  Len(queue'[s]) <= Cardinality(Awake(s)')
    <3>3. Sleepers(s) # {}
      BY <2>7, <2>9, Zenon
    <3>1. Len(queue[s]) <= Cardinality(Awake(s)) /\ Len(queue[s]) \in Nat
      BY <3>3, <1>1, Typed DEF IInv, AcceptorsAreWoken, Awake
    <3>2. Cardinality(Awake(s)) \in Nat /\ Cardinality(Awake(s)') = Cardinality(Awake(s))
      BY <2>7, AwakeAreCounted, Zenon
    <3> QED
      BY <3>1, <3>2, <2>2
  <2>10. /\ \A l \in SCBs \ {s} :
              Sleepers(l)' = Sleepers(l) /\ Awake(l)' = Awake(l) /\ queue'[l] = queue[l]
         /\ \A l \in SCBs : OpenListener(l) => OpenListener(l)'
         /\ OpenListener(s)'
    BY <1>1, <1>2, <2>4, <2>7, <2>8
  <2>11. CallsInv'
    BY <1>1, <2>2, <2>6, <2>9, <2>10, OneQueue
  <2> QED
    BY <2>3, <2>4, <2>5, <2>11 DEF IInv, PortsInv, CallsInv
<1> QED
  BY <1>1, <1>4, <1>5 DEF Accept

LEMMA AcceptReturnsStep ==
  ASSUME IInv, ~ corrupt, NEW t \in Threads, AcceptReturns(t)
  PROVE  IInv'
<1> PICK s : s = socket_cb[t]
  OBVIOUS
<1> PICK p : p = lport[t]
  OBVIOUS
<1>1. /\ at[t] = "accept" /\ woken[t]
      /\ woken' = [woken EXCEPT ![t] = FALSE]
      /\ UNCHANGED <<port_map, type, port, fcb, peer>>
  BY DEF AcceptReturns
<1>2. s \in SCBs /\ type[s] = "listener" /\ p = port[s] /\ p \in Ports
  BY <1>1 DEF IInv, AcceptorsKnowPort
<1>3. CASE /\ MustWait(s, p)
           /\ UNCHANGED <<FIDT, refcount, queue, admitted, corrupt,
                          at, socket_cb, lport, req>>
  <2>1. TypeOK'
    BY <1>1, <1>3, Typed DEF TypeOK
  <2>2. OneDescriptor' /\ ListenersStay
    BY <1>3 DEF IInv, OneDescriptor, ListenersStay
  <2>3. PortsInv' /\ \A l \in SCBs : OpenListener(l)' <=> OpenListener(l)
    BY <1>1, <2>2, PortsStay
  <2>4. CallersExact'
    BY <1>3, CallersStay
  <2>5. AcceptorsKnowPort' /\ RequestsHavePeers'
    BY <1>1, <1>3 DEF IInv, AcceptorsKnowPort, RequestsHavePeers
  <2>6. queue'[s] = << >>
    BY <1>3 DEF MustWait
  <2>7. \A l \in SCBs \ {s} : Sleepers(l)' = Sleepers(l) /\ Awake(l)' = Awake(l)
    <3>1. ASSUME NEW l \in SCBs \ {s} PROVE Acceptors(l)' = Acceptors(l) /\ t \notin Acceptors(l)
      BY <1>3 DEF Acceptors
    <3> QED
      BY <3>1, <1>1, Typed DEF Sleepers, Awake
  <2>8. /\ \A l \in SCBs \ {s} :
             Sleepers(l)' = Sleepers(l) /\ Awake(l)' = Awake(l) /\ queue'[l] = queue[l]
        /\ \A l \in SCBs : OpenListener(l) => OpenListener(l)'
        /\ Len(queue'[s]) <= Cardinality(Awake(s)')
    BY <1>3, <2>3, <2>6, <2>7, EmptyQueue
  <2>9. CallsInv'
    BY <1>2, <2>5, <2>6, <2>8, OneQueue
  <2> QED
    BY <2>1, <2>3, <2>4, <2>9 DEF IInv, PortsInv, CallsInv
<1>4. CASE ~ MustWait(s, p) /\ AcceptGoesOn(s, p) /\ Leaves(t)
  <2>1. /\ at' = [at EXCEPT ![t] = "user"]
        /\ socket_cb' = [socket_cb EXCEPT ![t] = NULL]
        /\ lport' = [lport EXCEPT ![t] = NOPORT]
        /\ req' = [req EXCEPT ![t] = NULL]
    BY <1>4 DEF Leaves
  <2>2. CallersExact' /\ refcount' \in [SCBs -> Nat]
    BY <1>1, <1>4, CallerLeaves
  <2>3. /\ FIDT' \in [Fids -> SCBs \cup PipeEnds \cup {NULL}]
        /\ admitted' \in [Requests -> BOOLEAN]
        /\ corrupt' \in BOOLEAN
        /\ OneDescriptor'
        /\ ListenersStay
        /\ \/ port_map[p] = NULL /\ queue' = queue
           \/ /\ port_map[p] # NULL /\ queue[s] # << >>
              /\ queue' = [queue EXCEPT ![s] = Tail(@)]
    BY <1>2, <1>4, GoesOnFacts
  <2>4. queue' \in [SCBs -> Seq(Requests)] /\ RequestsHavePeers'
    <3>1. CASE queue' = queue
      BY <3>1, <1>1, Typed DEF IInv, RequestsHavePeers
    <3>2. CASE queue[s] # << >> /\ queue' = [queue EXCEPT ![s] = Tail(@)]
      BY <3>2, <1>1, <1>2, TailFacts
    <3> QED
      BY <2>3, <3>1, <3>2
  <2>5. TypeOK'
    BY <1>1, <2>1, <2>2, <2>3, <2>4, Typed DEF TypeOK
  <2>6. PortsInv' /\ \A l \in SCBs : OpenListener(l)' <=> OpenListener(l)
    BY <1>1, <2>3, PortsStay
  <2>7. AcceptorsKnowPort'
    BY <1>1, <2>1, Typed DEF IInv, AcceptorsKnowPort
  <2>8. ASSUME NEW l \in SCBs \ {s}
        PROVE  Sleepers(l)' = Sleepers(l) /\ Awake(l)' = Awake(l) /\ queue'[l] = queue[l]
    <3>1. Acceptors(l)' = Acceptors(l) /\ t \notin Acceptors(l)
      BY <1>1, <2>1, Typed, ConstantsTyped DEF Acceptors
    <3>2. Sleepers(l)' = Sleepers(l) /\ Awake(l)' = Awake(l)
      BY <3>1, <1>1, Typed DEF Sleepers, Awake
    <3>3. queue'[l] = queue[l]
      BY <2>3, Typed
    <3> QED
      BY <3>2, <3>3
  <2>9. /\ Sleepers(s)' = Sleepers(s) /\ Awake(s)' = Awake(s) \ {t}
        /\ t \in Awake(s)
    <3>1. t \in Acceptors(s) /\ Acceptors(s)' = Acceptors(s) \ {t}
      BY <1>1, <2>1, Typed, ConstantsTyped DEF Acceptors
    <3> QED
      BY <3>1, <1>1, Typed DEF Sleepers, Awake
  <2>10. ASSUME Sleepers(s)' # {}
         PROVE  /\ queue'[s] = << >> \/ OpenListener(s)'
                /\ Len(queue'[s]) <= Cardinality(Awake(s)')
    <3>1. Sleepers(s) # {}
      BY <2>9, <2>10, Zenon
    <3>2. queue[s] = << >> \/ OpenListener(s)
      BY <1>2, <3>1 DEF IInv, ClosedQueuesStayEmpty
    <3>3. CASE port_map[p] = NULL /\ queue' = queue
      <4>1. ~ OpenListener(s)
        BY <1>2, <3>3, OpenListenerFacts, ConstantsTyped
      <4>2. queue'[s] = << >>
        BY <3>2, <3>3, <4>1
      <4> QED
        BY <4>2, EmptyQueue
    <3>4. CASE queue[s] # << >> /\ queue' = [queue EXCEPT ![s] = Tail(@)]
      <4>1. Len(queue'[s]) = Len(queue[s]) - 1
        BY <3>4, <1>1, <1>2, TailFacts
      <4>2. Len(queue[s]) <= Cardinality(Awake(s)) /\ Len(queue[s]) \in Nat
        BY <3>1, <1>2, Typed DEF IInv, AcceptorsAreWoken, Awake
      <4>3. /\ Cardinality(Awake(s) \ {t}) = Cardinality(Awake(s)) - 1
            /\ Cardinality(Awake(s)) \in Nat
        BY <2>9, AwakeAreCounted, FS_RemoveElement
      <4>4. Len(queue'[s]) <= Cardinality(Awake(s) \ {t})
        BY <4>1, <4>2, <4>3
      <4>5. Len(queue'[s]) <= Cardinality(Awake(s)')
        BY <4>4, <2>9, Zenon
      <4>6. OpenListener(s)'
        BY <3>2, <3>4, <1>2, <2>6
      <4> QED
        BY <4>5, <4>6
    <3> QED
      BY <2>3, <3>3, <3>4
  <2>11. \A l \in SCBs : OpenListener(l) => OpenListener(l)'
    BY <2>6
  <2>12. CallsInv'
    BY <1>2, <2>4, <2>7, <2>8, <2>10, <2>11, OneQueue
  <2> QED
    BY <2>2, <2>5, <2>6, <2>12 DEF IInv, PortsInv, CallsInv
<1> QED
  BY <1>1, <1>3, <1>4 DEF AcceptReturns

LEMMA ConnectStep ==
  ASSUME IInv, ~ corrupt, NEW t \in Threads, NEW i \in Fids, NEW p \in Ports,
         Connect(t, i, p)
  PROVE  IInv'
<1> PICK s : s = FIDT[i]
  OBVIOUS
<1> PICK l : l = port_map[p]
  OBVIOUS
<1>1. /\ at[t] = "user" /\ s \in SCBs /\ l # NULL /\ refcount[s] = 0
      /\ refcount' = [refcount EXCEPT ![s] = 1]
      /\ at' = [at EXCEPT ![t] = "connect"]
      /\ socket_cb' = [socket_cb EXCEPT ![t] = s]
      /\ UNCHANGED <<port_map, FIDT, type, port, fcb, lport, corrupt>>
  BY DEF Connect
<1>2. PICK r \in FreeRequests :
        /\ peer' = [peer EXCEPT ![r] = s]
        /\ admitted' = [admitted EXCEPT ![r] = FALSE]
        /\ queue' = [queue EXCEPT ![l] = Append(@, r)]
        /\ req' = [req EXCEPT ![t] = r]
  BY DEF Connect
<1>3. \/ Sleepers(l) = {} /\ woken' = woken
      \/ \E x \in Sleepers(l) : woken' = [u \in Threads |-> woken[u] \/ u = x]
  <2>1. CASE Signals(l) = {} /\ woken' = woken
    <3>1. ASSUME NEW x \in Sleepers(l) PROVE FALSE
      <4>1. {x} \in Signals(l)
        BY DEF Signals
      <4> QED
        BY <4>1, <2>1
    <3> QED
      BY <3>1, <2>1
  <2>2. CASE \E w \in Signals(l) : woken' = [u \in Threads |-> woken[u] \/ u \in w]
    BY <2>2 DEF Signals
  <2> QED
    BY <2>1, <2>2 DEF Connect
<1>4. /\ l \in SCBs /\ type[l] = "listener" /\ OpenListener(l)
      /\ r \in Requests
  <2>1. l \in SCBs
    BY <1>1, Typed
  <2>2. type[l] = "listener" /\ OpenAs(l) # {}
    BY <1>1 DEF IInv, PortsExact
  <2> QED
    BY <2>1, <2>2 DEF OpenListener, FreeRequests
<1>5. queue[l] \in Seq(Requests)
  BY <1>4, Typed
<1>6. /\ Append(queue[l], r) \in Seq(Requests)
      /\ Len(Append(queue[l], r)) = Len(queue[l]) + 1
      /\ DOMAIN Append(queue[l], r) = 1..(Len(queue[l]) + 1)
      /\ \A k \in 1..Len(queue[l]) : Append(queue[l], r)[k] = queue[l][k]
      /\ Append(queue[l], r)[Len(queue[l]) + 1] = r
  BY <1>4, <1>5, AppendProperties, LenProperties
<1>7. queue'[l] = Append(queue[l], r)
  BY <1>2, <1>4, Typed
<1>8. TypeOK'
  <2>1. woken' \in [Threads -> BOOLEAN]
    BY <1>3, Typed
  <2>2. queue' \in [SCBs -> Seq(Requests)]
    BY <1>2, <1>4, <1>6, Typed
  <2> QED
    BY <1>1, <1>2, <1>4, <2>1, <2>2, Typed DEF TypeOK
<1>9. OneDescriptor' /\ ListenersStay
  BY <1>1 DEF IInv, OneDescriptor, ListenersStay
<1>10. PortsInv' /\ \A m \in SCBs : OpenListener(m)' <=> OpenListener(m)
  BY <1>1, <1>9, PortsStay
<1>11. CallersExact'
  <2>1. refcount' = [refcount EXCEPT ![s] = @ + 1]
    BY <1>1, Typed
  <2> QED
    BY <1>1, <2>1, CallerComes
<1>12. AcceptorsKnowPort'
  BY <1>1, Typed DEF IInv, AcceptorsKnowPort
<1>13. RequestsHavePeers'
  <2>1. \A q \in Requests : peer[q] \in SCBs => peer'[q] \in SCBs
    BY <1>1, <1>2, Typed
  <2>2. ASSUME NEW m \in SCBs, NEW k \in DOMAIN queue[m]
        PROVE  queue[m][k] \in Requests /\ peer'[queue[m][k]] \in SCBs
    <3>1. queue[m][k] \in Requests
      <4>1. queue[m] \in Seq(Requests)
        BY Typed
      <4> QED
        BY <4>1, <2>2, ElementOfSeq, LenProperties
    <3> QED
      BY <2>1, <3>1 DEF IInv, RequestsHavePeers
  <2>3. ASSUME NEW m \in SCBs, NEW k \in DOMAIN queue'[m]
        PROVE  peer'[queue'[m][k]] \in SCBs
    <3>1. CASE m # l
      <4>1. queue'[m] = queue[m]
        BY <3>1, <1>2, Typed
      <4> QED
        BY <4>1, <2>2, <2>3
    <3>2. CASE m = l /\ k = Len(queue[l]) + 1
      <4>1. queue'[m][k] = r
        BY <3>2, <1>6, <1>7
      <4>2. peer'[r] = s
        BY <1>2, <1>4, Typed
      <4> QED
        BY <4>1, <4>2, <1>1
    <3>3. CASE m = l /\ k # Len(queue[l]) + 1
      <4>1. k \in 1..Len(queue[l])
        <5>1. k \in 1..(Len(queue[l]) + 1) /\ Len(queue[l]) \in Nat
          BY <2>3, <3>3, <1>5, <1>6, <1>7, LenProperties
        <5> QED
          BY <5>1, <3>3
      <4>2. queue'[m][k] = queue[m][k] /\ k \in DOMAIN queue[m]
        BY <3>3, <4>1, <1>5, <1>6, <1>7, LenProperties
      <4> QED
        BY <4>2, <2>2
    <3> QED
      BY <3>1, <3>2, <3>3
  <2> QED
    BY <2>3 DEF RequestsHavePeers
<1>14. \A m \in SCBs : Acceptors(m)' = Acceptors(m)
  <2>1. socket_cb[t] = NULL
    BY <1>1 DEF IInv, CallersExact
  <2> QED
    BY <2>1, <1>1, Typed DEF Acceptors
<1>15. ASSUME NEW m \in SCBs \ {l}
       PROVE  Sleepers(m)' = Sleepers(m) /\ Awake(m)' = Awake(m) /\ queue'[m] = queue[m]
  <2>1. \A u \in Acceptors(m) : woken'[u] = woken[u]
    BY <1>3, Typed DEF Sleepers, Acceptors
  <2>2. Sleepers(m)' = Sleepers(m) /\ Awake(m)' = Awake(m)
    BY <2>1, <1>14 DEF Sleepers, Awake
  <2>3. queue'[m] = queue[m]
    BY <1>2, Typed
  <2> QED
    BY <2>2, <2>3
<1>16. ASSUME Sleepers(l)' # {}
       PROVE  OpenListener(l)' /\ Len(queue'[l]) <= Cardinality(Awake(l)')
  <2>1. OpenListener(l)'
    BY <1>4, <1>10
  <2>2. PICK x \in Sleepers(l) : woken' = [u \in Threads |-> woken[u] \/ u = x]
    <3>1. CASE Sleepers(l) = {} /\ woken' = woken
      <4>1. Sleepers(l)' = {}
        BY <3>1, <1>4, <1>14 DEF Sleepers
      <4> QED
        BY <4>1, <1>16
    <3> QED
      BY <3>1, <1>3
  <2>3. x \in Acceptors(l) /\ x \in Threads /\ x \notin Awake(l)
    BY DEF Sleepers, Acceptors, Awake
  <2>4. Awake(l)' = Awake(l) \cup {x}
    <3>1. \A u \in Acceptors(l) : u \in Threads /\ woken'[u] = (woken[u] \/ u = x)
      BY <2>2 DEF Acceptors
    <3> QED
      BY <3>1, <2>3, <1>4, <1>14 DEF Awake, Sleepers
  <2>5. Cardinality(Awake(l) \cup {x}) = Cardinality(Awake(l)) + 1
    BY <2>3, AwakeAreCounted, FS_AddElement
  <2>6. Len(queue[l]) <= Cardinality(Awake(l)) /\ Len(queue[l]) \in Nat
    BY <1>4, <2>2, Typed DEF IInv, AcceptorsAreWoken, Awake
  <2>7. Cardinality(Awake(l)) \in Nat
    BY AwakeAreCounted
  <2>8. Len(queue'[l]) <= Cardinality(Awake(l) \cup {x})
    BY <2>5, <2>6, <2>7, <1>6, <1>7
  <2>9. Len(queue'[l]) <= Cardinality(Awake(l)')
    BY <2>4, <2>8, Zenon
  <2> QED
    BY <2>1, <2>9
<1>17. \A m \in SCBs : OpenListener(m) => OpenListener(m)'
  BY <1>10
<1>18. CallsInv'
  BY <1>4, <1>12, <1>13, <1>15, <1>16, <1>17, OneQueue
<1> QED
  BY <1>8, <1>10, <1>11, <1>18 DEF IInv, PortsInv, CallsInv

\* Connect() returns: admitted, or because its time is over.
LEMMA ConnectLeavesStep ==
  ASSUME IInv, ~ corrupt, NEW t \in Threads, at[t] = "connect", Leaves(t),
         UNCHANGED <<port_map, FIDT, type, port, fcb, queue, request_vars, woken, corrupt>>
  PROVE  IInv'
<1>1. /\ at' = [at EXCEPT ![t] = "user"]
      /\ socket_cb' = [socket_cb EXCEPT ![t] = NULL]
      /\ lport' = [lport EXCEPT ![t] = NOPORT]
      /\ req' = [req EXCEPT ![t] = NULL]
      /\ UNCHANGED <<peer, admitted>>
  BY DEF Leaves, request_vars
<1>2. CallersExact' /\ refcount' \in [SCBs -> Nat]
  BY CallerLeaves
<1>3. TypeOK'
  BY <1>1, <1>2, Typed DEF TypeOK
<1>4. OneDescriptor' /\ ListenersStay
  BY DEF IInv, OneDescriptor, ListenersStay
<1>5. PortsInv' /\ \A l \in SCBs : OpenListener(l)' <=> OpenListener(l)
  BY <1>4, PortsStay
<1>6. AcceptorsKnowPort' /\ RequestsHavePeers'
  BY <1>1, Typed DEF IInv, AcceptorsKnowPort, RequestsHavePeers
<1>7. \A l : Sleepers(l)' = Sleepers(l) /\ Awake(l)' = Awake(l)
  <2>1. ASSUME NEW l PROVE Acceptors(l)' = Acceptors(l)
    BY <1>1, Typed DEF Acceptors
  <2> QED
    BY <2>1 DEF Sleepers, Awake
<1>8. ClosedQueuesStayEmpty'
  BY <1>5, <1>7 DEF IInv, ClosedQueuesStayEmpty
<1>9. AcceptorsAreWoken'
  <2>1. AcceptorsAreWoken
    BY DEF IInv
  <2> QED
    BY <2>1, <1>7, Zenon DEF AcceptorsAreWoken, Awake
<1> QED
  BY <1>2, <1>3, <1>5, <1>6, <1>8, <1>9 DEF IInv, PortsInv

LEMMA NextKeeps == ASSUME IInv, [Next]_vars PROVE IInv'
<1>1. CASE UNCHANGED vars
  <2>1. /\ UNCHANGED <<port_map, FIDT, type, port, refcount, fcb, queue>>
        /\ UNCHANGED <<peer, admitted, at, socket_cb, lport, req, woken, corrupt>>
    BY <1>1 DEF vars, socket_vars, request_vars, call_vars
  <2>2. TypeOK'
    BY <2>1 DEF IInv, TypeOK
  <2>3. PortsExact' /\ OneDescriptor' /\ (~ corrupt' => ListenersHavePorts')
    BY <2>1 DEF IInv, PortsExact, OneDescriptor, ListenersHavePorts, OpenListener, OpenAs
  <2>4. CallersExact'
    BY <2>1, CallersStay
  <2>5. AcceptorsKnowPort' /\ RequestsHavePeers'
    BY <2>1 DEF IInv, AcceptorsKnowPort, RequestsHavePeers
  <2>6. \A s : /\ Sleepers(s)' = Sleepers(s) /\ Awake(s)' = Awake(s)
               /\ OpenListener(s)' <=> OpenListener(s)
    BY <2>1 DEF Sleepers, Awake, Acceptors, OpenListener, OpenAs
  <2>7. ClosedQueuesStayEmpty'
    BY <2>1, <2>6 DEF IInv, ClosedQueuesStayEmpty
  <2>8. AcceptorsAreWoken'
    <3>1. AcceptorsAreWoken
      BY DEF IInv
    <3> QED
      BY <2>1, <2>6, <3>1, Zenon DEF AcceptorsAreWoken, Awake
  <2> QED
    BY <2>2, <2>3, <2>4, <2>5, <2>7, <2>8 DEF IInv
<1>2. CASE ~ corrupt /\ Works
  <2>1. ASSUME NEW p \in Ports \cup {NOPORT}, Socket(p) PROVE IInv'
    BY <1>2, <2>1, SocketStep
  <2>2. ASSUME NEW i \in Fids, Listen(i) PROVE IInv'
    BY <1>2, <2>2, ListenStep
  <2>3. ASSUME NEW i \in Fids, Close(i) PROVE IInv'
    BY <1>2, <2>3, CloseStep
  <2>4. ASSUME NEW i \in Fids, NEW t \in Threads, Accept(t, i) PROVE IInv'
    BY <1>2, <2>4, AcceptStep
  <2>5. ASSUME NEW i \in Fids, NEW t \in Threads, NEW p \in Ports, Connect(t, i, p) PROVE IInv'
    BY <1>2, <2>5, ConnectStep
  <2>6. ASSUME NEW t \in Threads, AcceptReturns(t) PROVE IInv'
    BY <1>2, <2>6, AcceptReturnsStep
  <2>7. ASSUME NEW t \in Threads, ConnectReturns(t) PROVE IInv'
    BY <1>2, <2>7, ConnectLeavesStep DEF ConnectReturns, Admitted
  <2>8. ASSUME NEW t \in Threads, ConnectTimesOut(t) PROVE IInv'
    BY <1>2, <2>8, ConnectLeavesStep DEF ConnectTimesOut
  <2> QED
    BY <1>2, <2>1, <2>2, <2>3, <2>4, <2>5, <2>6, <2>7, <2>8 DEF Works
<1> QED
  BY <1>1, <1>2 DEF Next

-----------------------------------------------------------------------------
(***************************************************************************)
(* The theorems.                                                           *)
(***************************************************************************)

\* The strengthened invariant holds in every reachable state.
THEOREM InvariantHolds == Spec => []IInv
<1>1. IInv /\ [Next]_vars => IInv'
  BY NextKeeps
<1> QED
  BY InitEstablishes, <1>1, PTL DEF Spec

\* Every variable keeps its type; refcount, which the calls that return
\* decrement, does not fall below zero.
THEOREM TypeCorrect == Spec => []TypeOK
<1>1. IInv => TypeOK
  BY DEF IInv
<1> QED
  BY InvariantHolds, <1>1, PTL

\* Each port has one listener at most, and a listener owns its port from
\* Listen() until its descriptor is closed, and no longer.
THEOREM PortsAreExact == Spec => []PortsExact
<1>1. IInv => PortsExact
  BY DEF IInv
<1> QED
  BY InvariantHolds, <1>1, PTL

\* kernel_signal() in Connect() and kernel_broadcast() in socket_close()
\* lose no wake-up: nobody sleeps in Accept() while more requests wait than
\* threads are on their way to take them, even when the port has a new
\* listener.
THEOREM AcceptorsGetWoken == Spec => []AcceptorsAreWoken
<1>1. IInv => AcceptorsAreWoken
  BY DEF IInv
<1> QED
  BY InvariantHolds, <1>1, PTL

\* How a queue may change.
QueueKept(s) ==
  \/ \E r \in Requests : queue'[s] = Append(queue[s], r)
  \/ /\ queue'[s] = Tail(queue[s])
     /\ admitted'[Head(queue[s])] \/ FreeFids = {} \/ corrupt'

\* What Accept() does after its loop.
LEMMA GoesOnKeeps ==
  ASSUME IInv, NEW s \in SCBs, NEW p \in Ports,
         AcceptGoesOn(s, p), ~ MustWait(s, p), NEW l \in SCBs, queue'[l] # queue[l]
  PROVE  QueueKept(l)
<1>1. /\ queue' = [queue EXCEPT ![s] = Tail(@)]
      /\ \/ FreeFids = {} \/ corrupt'
         \/ admitted' = [admitted EXCEPT ![Head(queue[s])] = TRUE]
      /\ queue[s] # << >>
  BY DEF AcceptGoesOn, MustWait
<1>2. l = s /\ queue'[l] = Tail(queue[l])
  BY <1>1, Typed
<1>3. Head(queue[s]) \in Requests
  <2>1. queue[s] \in Seq(Requests)
    BY Typed
  <2> QED
    BY <1>1, <2>1, HeadTailProperties
<1> QED
  BY <1>1, <1>2, <1>3, Typed DEF QueueKept

LEMMA StepKeepsRequests ==
  ASSUME IInv, Next, NEW s \in Watched, s \in Watched', queue'[s] # queue[s]
  PROVE  QueueKept(s)
<1>1. /\ s \in SCBs /\ type[s] = "listener"
      /\ OpenAs(s) # {} \/ Acceptors(s) # {}
  BY DEF Watched
<1>2. ~ corrupt /\ Works
  BY DEF Next, vars, socket_vars
<1>3. ASSUME NEW p \in Ports \cup {NOPORT}, Socket(p) PROVE FALSE
  <2>1. PICK u \in FreeSCBs : queue' = [queue EXCEPT ![u] = << >>]
    BY <1>3 DEF Socket
  <2>2. u # s
    BY <1>1 DEF FreeSCBs, Acceptors
  <2> QED
    BY <2>1, <2>2, Typed
<1>4. ASSUME NEW i \in Fids, Listen(i) PROVE FALSE
  <2>1. type[FIDT[i]] = "unbound" /\ queue' = [queue EXCEPT ![FIDT[i]] = << >>]
    BY <1>4 DEF Listen
  <2> QED
    BY <1>1, <2>1, Typed
<1>5. ASSUME NEW i \in Fids, NEW t \in Threads, Accept(t, i) PROVE QueueKept(s)
  <2> PICK l : l = FIDT[i]
    OBVIOUS
  <2>1. l \in SCBs /\ type[l] = "listener" /\ FIDT[i] = l
    BY <1>5 DEF Accept
  <2>2. port[l] \in Ports
    BY <1>2, <2>1, OpenListenerFacts DEF OpenListener, OpenAs
  <2>3. AcceptGoesOn(l, port[l]) /\ ~ MustWait(l, port[l])
    BY <1>5 DEF Accept
  <2> QED
    BY <1>1, <2>1, <2>2, <2>3, GoesOnKeeps
<1>6. ASSUME NEW t \in Threads, AcceptReturns(t) PROVE QueueKept(s)
  <2> PICK l : l = socket_cb[t]
    OBVIOUS
  <2> PICK p : p = lport[t]
    OBVIOUS
  <2>1. l \in SCBs /\ p \in Ports
    BY <1>6 DEF AcceptReturns, IInv, AcceptorsKnowPort
  <2>2. AcceptGoesOn(l, p) /\ ~ MustWait(l, p)
    BY <1>6 DEF AcceptReturns
  <2> QED
    BY <1>1, <2>1, <2>2, GoesOnKeeps
<1>7. ASSUME NEW i \in Fids, NEW t \in Threads, NEW p \in Ports, Connect(t, i, p)
      PROVE  QueueKept(s)
  <2>1. PICK r \in Requests : queue' = [queue EXCEPT ![port_map[p]] = Append(@, r)]
    BY <1>7 DEF Connect, FreeRequests
  <2>2. queue'[s] = Append(queue[s], r)
    BY <1>1, <2>1, Typed
  <2> QED
    BY <2>2 DEF QueueKept
<1>8. /\ \A i \in Fids : ~ Close(i)
      /\ \A t \in Threads : ~ ConnectReturns(t) /\ ~ ConnectTimesOut(t)
  BY DEF Close, ConnectReturns, ConnectTimesOut
<1> QED
  BY <1>2, <1>3, <1>4, <1>5, <1>6, <1>7, <1>8 DEF Works

\* A request that came to a listener stays in its queue until Accept()
\* admits it or drops it for want of a descriptor: no timeout of its
\* Connect(), and no Close() of the listener, takes it away from those who
\* still watch the queue.
THEOREM RequestsStay == Spec => RequestsAreKept
<1>1. ASSUME IInv, [Next]_vars
      PROVE  [\A s \in Watched : s \in Watched' /\ queue'[s] # queue[s] =>
                \/ \E r \in Requests : queue'[s] = Append(queue[s], r)
                \/ /\ queue'[s] = Tail(queue[s])
                   /\ admitted'[Head(queue[s])] \/ FreeFids = {} \/ corrupt']_vars
  BY <1>1, StepKeepsRequests DEF QueueKept
<1> QED
  BY InvariantHolds, <1>1, PTL DEF Spec, RequestsAreKept

=============================================================================
