----------------------------- MODULE RemoteServer -----------------------------
(***************************************************************************)
(* The remote server of the shell (RemoteServer() in tinyos_shell.c): the  *)
(* main thread at the console, a thread that listens, and a thread per     *)
(* connection.  They share the record of globals in the frame of the main  *)
(* thread.                                                                 *)
(*                                                                         *)
(* Grain.  A section under the mutex mx is one step, but for the one that  *)
(* decrements active_conn: the listener increments it without the mutex,   *)
(* so that either update is a load and a store.  The commands that only    *)
(* print change nothing.                                                   *)
(***************************************************************************)
EXTENDS Naturals, FiniteSets, Sequences

CONSTANTS Clients,    \* the threads rsrv_client()
          SIZE_MAX,   \* of size_t
          MaxLog      \* bound on the records of the log

\* A thread takes memory, whose bytes a size_t can count.
ASSUME ServerAssumption ==
  /\ IsFiniteSet(Clients)
  /\ SIZE_MAX \in Nat \ {0} /\ Cardinality(Clients) <= SIZE_MAX
  /\ MaxLog \in Nat

VARIABLES
  \* the globals
  quit, listener_socket, active_conn, conn_id_counter, log, logcount,
  \* the threads
  console,    \* of RemoteServer()
  listener,   \* of rsrv_listener_thread()
  client,     \* of rsrv_client(), per thread
  loaded,     \* what listener and client hold of active_conn
  \* the kernel
  lsock,      \* the socket of the listener
  \* history
  raced       \* an update of active_conn was lost

log_vars == <<log, logcount>>
conn_vars == <<active_conn, loaded, raced>>
rsrv_vars == <<quit, listener_socket, conn_vars, conn_id_counter, log_vars,
          console, listener, client, lsock>>

RsrvTypeOK ==
  /\ quit \in BOOLEAN /\ listener_socket \in BOOLEAN
  /\ active_conn \in 0..SIZE_MAX
  /\ conn_id_counter \in 0..Cardinality(Clients)
  /\ log \in Seq(1..MaxLog) /\ logcount \in 0..MaxLog
  /\ console \in {"reads", "closes", "joins", "counts", "sleeps", "truncates",
                  "left", "left at end of file"}
  /\ listener \in {"opens", "listens", "tells", "accepts", "tests", "logs",
                   "loads", "stores", "creates", "returned"}
  /\ client \in [Clients -> {"none", "numbers", "greets", "serves", "reports",
                             "finishes", "stores", "done"}]
  /\ loaded \in [{"listener", "client"} -> 0..SIZE_MAX]
  /\ lsock \in {"none", "open", "listens", "closed"}
  /\ raced \in BOOLEAN

\* The listener has been created, the console prompts.
RsrvInit ==
  /\ quit = FALSE /\ listener_socket = FALSE
  /\ active_conn = 0 /\ conn_id_counter = 0
  /\ log = << >> /\ logcount = 0
  /\ console = "reads" /\ listener = "opens"
  /\ client = [c \in Clients |-> "none"]
  /\ loaded = [who \in {"listener", "client"} |-> 0]
  /\ lsock = "none"
  /\ raced = FALSE

\* Nobody is in the middle of a section.
mx_free == \A c \in Clients : client[c] # "stores"

(***************************************************************************)
(* Definitions named Bug... are mistakes one could make in the definition  *)
(* that follows them.  Nothing uses them.                                  *)
(***************************************************************************)

log_message ==
  /\ mx_free
  /\ logcount < MaxLog
  /\ logcount' = logcount + 1
  /\ log' = Append(log, logcount')

Loads(who) ==
  /\ loaded' = [loaded EXCEPT ![who] = active_conn]
  /\ UNCHANGED <<active_conn, raced>>

\* The value that was loaded may be stale by now.
Stores(who, by) ==
  /\ active_conn' = (loaded[who] + by) % (SIZE_MAX + 1)
  /\ raced' = (raced \/ active_conn # loaded[who])
  /\ UNCHANGED loaded

-----------------------------------------------------------------------------
(***************************************************************************)
(* The console.                                                            *)
(***************************************************************************)
ReadsQ ==
  /\ console = "reads"
  /\ console' = "closes"
  /\ quit' = TRUE
  /\ UNCHANGED <<listener_socket, conn_vars, conn_id_counter, log_vars,
                 listener, client, lsock>>

ReadsEndOfFile ==
  /\ console = "reads"
  /\ console' = "left at end of file"
  /\ UNCHANGED <<quit, listener_socket, conn_vars, conn_id_counter, log_vars,
                 listener, client, lsock>>

\* Close(listener_socket).  Before the listener has stored it, it is
\* whatever was on the stack: its descriptor, no descriptor, or another one of
\* the process.  No connection has one yet, and the console has read its last
\* line, so that the loss of another one changes nothing here.
Closes ==
  /\ console = "closes"
  /\ console' = "joins"
  /\ \/ lsock # "none" /\ lsock' = "closed"
     \/ ~ listener_socket /\ UNCHANGED lsock
  /\ UNCHANGED <<quit, listener_socket, conn_vars, conn_id_counter, log_vars,
                 listener, client>>

Joins ==
  /\ console = "joins" /\ listener = "returned"
  /\ console' = "counts"
  /\ UNCHANGED <<quit, listener_socket, conn_vars, conn_id_counter, log_vars,
                 listener, client, lsock>>

\* A round of the loop that waits for the connections.
Counts ==
  /\ console = "counts" /\ mx_free
  /\ console' = IF active_conn > 0 THEN "sleeps" ELSE "truncates"
  /\ UNCHANGED <<quit, listener_socket, conn_vars, conn_id_counter, log_vars,
                 listener, client, lsock>>

\* log_truncate(), and RemoteServer() returns.
Truncates ==
  /\ console = "truncates" /\ mx_free
  /\ console' = "left"
  /\ log' = << >>
  /\ UNCHANGED <<quit, listener_socket, conn_vars, conn_id_counter, logcount,
                 listener, client, lsock>>

Console == ReadsQ \/ ReadsEndOfFile \/ Closes \/ Joins \/ Counts \/ Truncates

-----------------------------------------------------------------------------
(***************************************************************************)
(* The listener.                                                           *)
(***************************************************************************)

\* Socket() may fail, and then Listen() fails.
Opens ==
  /\ listener = "opens"
  /\ listener' = "listens"
  /\ lsock' \in {"open", "closed"}
  /\ UNCHANGED <<quit, listener_socket, conn_vars, conn_id_counter, log_vars,
                 console, client>>

\* Listen() may fail, because the port is taken or the socket closed.
Listens ==
  /\ listener = "listens"
  /\ \/ lsock = "open" /\ lsock' = "listens" /\ listener' = "tells"
     \/ listener' = "returned" /\ UNCHANGED lsock
  /\ UNCHANGED <<quit, listener_socket, conn_vars, conn_id_counter, log_vars,
                 console, client>>

Tells ==
  /\ listener = "tells"
  /\ listener' = "accepts"
  /\ listener_socket' = TRUE
  /\ UNCHANGED <<quit, conn_vars, conn_id_counter, log_vars, console, client, lsock>>

\* Accept() returns a connection, or fails: the socket is closed or the
\* process has no descriptor left.
Accepts ==
  /\ listener = "accepts"
  /\ \/ /\ lsock = "listens"
        /\ \E c \in Clients : client[c] = "none"
        /\ listener' = "loads"
     \/ listener' = "tests"
  /\ UNCHANGED <<quit, listener_socket, conn_vars, conn_id_counter, log_vars,
                 console, client, lsock>>

TestsQuit ==
  /\ listener = "tests"
  /\ listener' = IF quit THEN "returned" ELSE "logs"
  /\ UNCHANGED <<quit, listener_socket, conn_vars, conn_id_counter, log_vars,
                 console, client, lsock>>

LogsFailure ==
  /\ listener = "logs"
  /\ listener' = "accepts"
  /\ log_message
  /\ UNCHANGED <<quit, listener_socket, conn_vars, conn_id_counter, console, client, lsock>>

CountsConnection ==
  /\ \/ listener = "loads" /\ Loads("listener") /\ listener' = "stores"
     \/ listener = "stores" /\ Stores("listener", 1) /\ listener' = "creates"
  /\ UNCHANGED <<quit, listener_socket, conn_id_counter, log_vars, console, client, lsock>>

CreatesClient ==
  /\ listener = "creates"
  /\ listener' = "accepts"
  /\ \E c \in Clients : /\ client[c] = "none"
                        /\ client' = [client EXCEPT ![c] = "numbers"]
  /\ UNCHANGED <<quit, listener_socket, conn_vars, conn_id_counter, log_vars,
                 console, lsock>>

Listener ==
  \/ Opens \/ Listens \/ Tells \/ Accepts \/ TestsQuit \/ LogsFailure
  \/ CountsConnection \/ CreatesClient

-----------------------------------------------------------------------------
(***************************************************************************)
(* The clients.                                                            *)
(***************************************************************************)
Goes(c, from, to) ==
  /\ client[c] = from
  /\ client' = [client EXCEPT ![c] = to]

Numbers(c) ==
  /\ Goes(c, "numbers", "greets")
  /\ mx_free
  /\ conn_id_counter' = conn_id_counter + 1
  /\ UNCHANGED <<quit, listener_socket, conn_vars, log_vars, console, listener, lsock>>

\* "started", and at last "finished" or "error".
Logs(c) ==
  /\ Goes(c, "greets", "serves") \/ Goes(c, "reports", "finishes")
  /\ log_message
  /\ UNCHANGED <<quit, listener_socket, conn_vars, conn_id_counter,
                 console, listener, lsock>>

\* It receives the request and waits for the process that executes it, or
\* the request does not arrive.  A length out of 1..2048 fails an assertion:
\* the machine stops, which needs no step, as nothing must happen here.
Serves(c) ==
  /\ Goes(c, "serves", "reports")
  /\ UNCHANGED <<quit, listener_socket, conn_vars, conn_id_counter, log_vars,
                 console, listener, lsock>>

LoadsCount(c) ==
  /\ Goes(c, "finishes", "stores")
  /\ mx_free
  /\ Loads("client")
  /\ UNCHANGED <<quit, listener_socket, conn_id_counter, log_vars,
                 console, listener, lsock>>

\* Cond_Broadcast(conn_done).
BugWakesAtZero ==
  console' = IF console = "sleeps" /\ loaded["client"] = 0 THEN "counts" ELSE console
BugIfNotWhile == console' = IF console = "sleeps" THEN "truncates" ELSE console
Wakes == console' = IF console = "sleeps" THEN "counts" ELSE console

StoresCount(c) ==
  /\ Goes(c, "stores", "done")
  /\ Stores("client", SIZE_MAX)
  /\ Wakes
  /\ UNCHANGED <<quit, listener_socket, conn_id_counter, log_vars, listener, lsock>>

Client(c) == Numbers(c) \/ Logs(c) \/ Serves(c) \/ LoadsCount(c) \/ StoresCount(c)

RsrvNext == Console \/ Listener \/ \E c \in Clients : Client(c)

RsrvSpec == RsrvInit /\ [][RsrvNext]_rsrv_vars

-----------------------------------------------------------------------------
Served == {c \in Clients : client[c] \notin {"none", "done"}}

(***************************************************************************)
(* When the server returns after "q", no thread will use its globals any   *)
(* more, unless an update of active_conn was lost.                         *)
(***************************************************************************)
LeavesNobodyBehind ==
  console = "left" /\ ~ raced => listener = "returned" /\ Served = {}

(***************************************************************************)
(* The main thread does not sleep while the count is zero, whatever became *)
(* of it; and unless an update was lost, it does not sleep when there is   *)
(* no connection left to wake it.  (After a lost decrement it may sleep    *)
(* for ever.)                                                              *)
(***************************************************************************)
ConsoleIsWoken ==
  console = "sleeps" => active_conn > 0 /\ (~ raced => Served # {})

=============================================================================
