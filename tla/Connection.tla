----------------------------- MODULE Connection -----------------------------
(* The life of the server's connections, net/net-connections.c.  A          *)
(* connection is two jobs: the connection job (class net-cpu: parsing,      *)
(* closing, statistics) and the socket job (class net-io for reading and    *)
(* writing, main thread for failing), which point at each other; the event  *)
(* table maps the descriptor to the socket job, and any thread may look a   *)
(* connection up there.  The jobs are used as module Job specifies them:    *)
(* a set of pending signals, one handler at a time, freed when nothing is   *)
(* pending and nobody holds a reference.  Bytes are abstracted away; what   *)
(* they make the handlers do is chosen nondeterministically.                *)
EXTENDS Integers, FiniteSets

CONSTANTS Fd,          \* descriptors; a connection is named by its own
          Listener,    \* listening sockets with SM_SPECIAL
          MaxSpecial,  \* max_special_connections
          NoFd         \* "no descriptor"

ASSUME ConnectionAssumption == /\ MaxSpecial \in Nat \ {0}
                               /\ NoFd \notin Fd
                               /\ IsFiniteSet(Fd) /\ IsFiniteSet(Listener)

VARIABLES conn,       \* connection_info and its job, per descriptor
          sock,       \* socket_connection_info and its job
          ev,         \* event_descr of the descriptor: refcnt, and data # NULL
          main,       \* where the main thread is
          user,       \* where a thread that looks a connection up is
          listening,  \* the listener is in epoll
          aux,        \* JS_AUX is pending for the listener
          special,    \* active_special_connections
          stat,       \* MODULE_STAT: allocated, in, out, active connections
          down        \* an assertion has failed: the process is gone
vars == <<conn, sock, ev, main, user, listening, aux, special, stat, down>>

NoConn == [kind |-> "none", flags |-> {}, status |-> "none", io |-> FALSE,
           refs |-> {}, pend |-> {}, at |-> "idle"]
NoSock == [alive |-> FALSE, flags |-> {}, refs |-> {}, pend |-> {}, at |-> "idle"]

Init == /\ conn = [c \in Fd |-> NoConn]
        /\ sock = [c \in Fd |-> NoSock]
        /\ ev = [c \in Fd |-> [refcnt |-> 0, data |-> FALSE]]
        /\ main = [at |-> "idle", c |-> NoFd, l |-> NoFd]
        /\ user = [at |-> "idle", c |-> NoFd]
        /\ listening = [l \in Listener |-> TRUE]
        /\ aux = [l \in Listener |-> FALSE]
        /\ special = 0
        /\ stat = [allocated |-> 0, inbound |-> 0, outbound |-> 0, active |-> 0]
        /\ down = FALSE

MainIdle == ~down /\ main.at = "idle"
MainTo(at, c) == main' = [at |-> at, c |-> c, l |-> NoFd]
MainDone == MainTo("idle", NoFd)

\* connection_is_active
IsActive(flags) == "CONNECTED" \in flags /\ "READY_PENDING" \notin flags

-----------------------------------------------------------------------------
(* Main thread: creation *)

\* net_accept_new_connections, alloc_new_connection up to the fetch_and_add
Accept(l, c) ==
    /\ MainIdle /\ listening[l] /\ conn[c].kind = "none" /\ ~sock[c].alive
    /\ conn' = [conn EXCEPT ![c] = [NoConn EXCEPT !.kind = "in", !.status = "working",
                    !.flags = {"CONNECTED", "SPECIAL"}, !.refs = {"creator"}, !.at = "new"]]
    /\ stat' = [stat EXCEPT !.inbound = @ + 1, !.active = @ + 1]
    /\ special' = special + 1
    /\ main' = [at |-> "limit", c |-> c, l |-> l]
    /\ UNCHANGED <<sock, ev, user, listening, aux, down>>

\* active_special_connections is read again, after the addition
AcceptLimit ==
    /\ ~down /\ main.at = "limit"
    /\ main' = [main EXCEPT !.at = IF special >= MaxSpecial THEN "remove" ELSE "socket"]
    /\ UNCHANGED <<conn, sock, ev, user, listening, aux, special, stat, down>>

AcceptRemove ==
    /\ ~down /\ main.at = "remove"
    /\ listening' = [listening EXCEPT ![main.l] = FALSE]
    /\ main' = [main EXCEPT !.at = "socket"]
    /\ UNCHANGED <<conn, sock, ev, user, aux, special, stat, down>>

\* alloc_new_connection for an outbound connection
Connect(c) ==
    /\ MainIdle /\ conn[c].kind = "none" /\ ~sock[c].alive
    /\ conn' = [conn EXCEPT ![c] = [NoConn EXCEPT !.kind = "out", !.status = "connecting",
                    !.refs = {"creator"}, !.at = "new"]]
    /\ stat' = [stat EXCEPT !.outbound = @ + 1]
    /\ MainTo("socket", c)
    /\ UNCHANGED <<sock, ev, user, listening, aux, special, down>>

\* alloc_new_socket_connection, with its two assertions, and unlock_job
AllocSocket ==
    /\ ~down /\ main.at = "socket"
    /\ LET c == main.c IN
       IF ev[c].data \/ ev[c].refcnt # 0
       THEN down' = TRUE /\ UNCHANGED <<conn, sock, ev, stat>>
       ELSE /\ ev' = [ev EXCEPT ![c] = [refcnt |-> 1, data |-> TRUE]]
            /\ sock' = [sock EXCEPT ![c] = [NoSock EXCEPT !.alive = TRUE, !.refs = {"table", "io"},
                           !.flags = conn[c].flags \intersect {"CONNECTED"}]]
            /\ conn' = [conn EXCEPT ![c].io = TRUE, ![c].refs = {"socket"}, ![c].at = "idle"]
            /\ stat' = [stat EXCEPT !.allocated = @ + 1]
            /\ UNCHANGED down
    /\ MainDone
    /\ UNCHANGED <<user, listening, aux, special>>

\* do_listening_connection_job, JS_AUX: epoll_insert whatever the counter is now
ListenerAux(l) ==
    /\ MainIdle /\ aux[l]
    /\ aux' = [aux EXCEPT ![l] = FALSE]
    /\ listening' = [listening EXCEPT ![l] = TRUE]
    /\ UNCHANGED <<conn, sock, ev, main, user, special, stat, down>>

-----------------------------------------------------------------------------
(* Main thread: events and failure of the socket *)

\* net_server_socket_read_write_gateway: JS_ABORT on an error, JS_RUN otherwise
Gateway(c, s) ==
    /\ MainIdle /\ ev[c].data /\ s \notin sock[c].pend
    /\ sock' = [sock EXCEPT ![c].pend = @ \union {s}]
    /\ UNCHANGED <<conn, ev, main, user, listening, aux, special, stat, down>>

\* Faulty variant: every caller takes the table's reference.
EventDecrefEach(c, s) ==
    /\ ev' = [ev EXCEPT ![c] = [refcnt |-> @.refcnt - 1, data |-> FALSE]]
    /\ sock' = [sock EXCEPT ![c] = [s EXCEPT !.refs = @ \ {"table"}]]

\* connection_event_incref (fd, -1): the last one takes the table's reference
EventDecref(c, s) ==
    /\ ev' = [ev EXCEPT ![c] = [refcnt |-> @.refcnt - 1, data |-> @.data /\ @.refcnt # 1]]
    /\ sock' = [sock EXCEPT ![c] =
           IF ev[c].refcnt = 1 THEN [s EXCEPT !.refs = @ \ {"table"}] ELSE s]

\* do_socket_connection_job, JS_ABORT; fail_socket_connection
SocketAbort(c) ==
    /\ MainIdle /\ sock[c].at = "idle" /\ "ABORT" \in sock[c].pend
    /\ LET s == [sock[c] EXCEPT !.pend = @ \ {"ABORT"}] IN
       IF "ERROR" \in s.flags
       THEN /\ sock' = [sock EXCEPT ![c] = s]
            /\ UNCHANGED <<ev, main>>
       ELSE /\ EventDecref(c, [s EXCEPT !.flags = @ \union {"ERROR"}, !.at = "abort"])
            /\ MainTo("fail", c)
    /\ UNCHANGED <<conn, user, listening, aux, special, stat, down>>

(* fail_connection: the first caller sets C_ERROR, then the status, then    *)
(* signals.  It runs in any thread, with no lock on the connection.         *)
MarkError(c) == conn' = [conn EXCEPT ![c].flags = @ \union {"ERROR"}]
ReportError(c) == conn' = [conn EXCEPT ![c].status = "error", ![c].pend = @ \union {"ABORT"}]

\* all three at once, where nothing depends on what others do in between
Failed(k) == IF "ERROR" \in k.flags THEN k
             ELSE [k EXCEPT !.flags = @ \union {"ERROR"}, !.status = "error",
                            !.pend = @ \union {"ABORT"}]

MainFail ==
    /\ ~down /\ main.at = "fail"
    /\ MarkError(main.c)
    /\ IF "ERROR" \in conn[main.c].flags
       THEN /\ sock' = [sock EXCEPT ![main.c].at = "idle"]
            /\ MainDone
       ELSE /\ main' = [main EXCEPT !.at = "report"]
            /\ UNCHANGED sock
    /\ UNCHANGED <<ev, user, listening, aux, special, stat, down>>

MainReport ==
    /\ ~down /\ main.at = "report"
    /\ ReportError(main.c)
    /\ sock' = [sock EXCEPT ![main.c].at = "idle"]
    /\ MainDone
    /\ UNCHANGED <<ev, user, listening, aux, special, stat, down>>

-----------------------------------------------------------------------------
(* I/O thread: do_socket_connection_job, JS_RUN and JS_FINISH *)

SocketRunnable(c) == ~down /\ sock[c].alive /\ sock[c].at = "idle" /\ "RUN" \in sock[c].pend
Ran(c) == [sock[c] EXCEPT !.pend = @ \ {"RUN"}]

\* net_server_socket_read_write on a connected or a failed socket: data goes to
\* the connection, an error back to the main thread, or nothing happens
SocketRun(c) ==
    /\ SocketRunnable(c)
    /\ \/ /\ "ERROR" \notin sock[c].flags /\ "CONNECTED" \in sock[c].flags
          /\ \/ /\ sock' = [sock EXCEPT ![c] = Ran(c)]
                /\ conn' = [conn EXCEPT ![c].pend = @ \union {"RUN"}]
             \/ /\ sock' = [sock EXCEPT ![c] = [Ran(c) EXCEPT !.pend = @ \union {"ABORT"}]]
                /\ UNCHANGED conn
       \/ /\ sock' = [sock EXCEPT ![c] = Ran(c)]
          /\ UNCHANGED conn
    /\ UNCHANGED <<ev, main, user, listening, aux, special, stat, down>>

\* the outgoing connection is established: the flags and JS_RUN
SocketConnected(c) ==
    /\ SocketRunnable(c) /\ sock[c].flags \intersect {"ERROR", "CONNECTED"} = {}
    /\ sock' = [sock EXCEPT ![c] = [Ran(c) EXCEPT !.flags = @ \union {"CONNECTED"}]]
    /\ conn' = [conn EXCEPT ![c].flags = @ \union {"READY_PENDING", "CONNECTED"},
                            ![c].pend = @ \union {"RUN"}]
    /\ UNCHANGED <<ev, main, user, listening, aux, special, stat, down>>

\* net_server_socket_free, with its assertions
SocketFinish(c) ==
    /\ ~down /\ sock[c].alive /\ sock[c].at = "idle"
    /\ sock[c].refs = {} /\ sock[c].pend = {}
    /\ IF "ERROR" \notin sock[c].flags   \* C_ERROR is set where c->ev is cleared
       THEN down' = TRUE /\ UNCHANGED <<conn, sock>>
       ELSE /\ LET k == Failed(conn[c])
               IN conn' = [conn EXCEPT ![c] = [k EXCEPT !.refs = @ \ {"socket"}]]
            /\ sock' = [sock EXCEPT ![c] = NoSock]
            /\ UNCHANGED down
    /\ UNCHANGED <<ev, main, user, listening, aux, special, stat>>

-----------------------------------------------------------------------------
(* Net-cpu thread: do_connection_job *)

Runnable(c, s) == ~down /\ conn[c].at = "idle" /\ s \in conn[c].pend

\* JS_RUN: C_ERROR is tested first ...
ConnRun(c) ==
    /\ Runnable(c, "RUN")
    /\ conn' = [conn EXCEPT ![c].pend = @ \ {"RUN"},
                            ![c].at = IF "ERROR" \in conn[c].flags THEN "idle" ELSE "rw"]
    /\ UNCHANGED <<sock, ev, main, user, listening, aux, special, stat, down>>

\* Faulty variant: READY_PENDING is left set.
ReadiedAgain(k) == IF "READY_PENDING" \notin k.flags THEN k
                   ELSE [k EXCEPT !.status = IF @ = "connecting" THEN "working" ELSE @]

\* ... then a connection that has just connected becomes active; the
\* compare-and-swap spares a status of error.
Readied(k) == IF "READY_PENDING" \notin k.flags THEN k
              ELSE [k EXCEPT !.flags = @ \ {"READY_PENDING"},
                             !.status = IF @ = "connecting" THEN "working" ELSE @]

\* read_write or alarm of the connection's type: it may wake the socket, fail
\* the connection, or (HTTP connections) ask for connection_write_close
ConnReadWrite(c) ==
    /\ ~down /\ conn[c].at = "rw"
    /\ LET k == [Readied(conn[c]) EXCEPT !.at = "idle"] IN
       \/ /\ sock' = [sock EXCEPT ![c].pend = @ \union {"RUN"}]
          /\ conn' = [conn EXCEPT ![c] = k]
       \/ /\ conn' = [conn EXCEPT ![c] = Failed(k)]
          /\ UNCHANGED sock
       \/ /\ k.status = "working"
          /\ conn' = [conn EXCEPT ![c] = [k EXCEPT !.at = "wclose"]]
          /\ UNCHANGED sock
    /\ stat' = [stat EXCEPT !.active = IF "READY_PENDING" \in conn[c].flags THEN @ + 1 ELSE @]
    /\ UNCHANGED <<ev, main, user, listening, aux, special, down>>

\* connection_write_close stores the status it decided on before
ConnWriteClose(c) ==
    /\ ~down /\ conn[c].at = "wclose"
    /\ conn' = [conn EXCEPT ![c].status = "write_close", ![c].pend = @ \union {"RUN"},
                            ![c].at = "idle"]
    /\ UNCHANGED <<sock, ev, main, user, listening, aux, special, stat, down>>

\* Faulty variant: the link to the socket job is dropped without a signal.
ConnAbortSilent(c) ==
    /\ Runnable(c, "ABORT") /\ conn[c].status = "error"
    /\ LET k == conn[c] IN
       /\ conn' = [conn EXCEPT ![c] = [k EXCEPT !.pend = @ \ {"ABORT"}, !.io = FALSE,
               !.flags = (@ \union {"FAILED"}) \ {"SPECIAL"},
               !.at = IF "SPECIAL" \in k.flags THEN "special" ELSE "idle"]]
       /\ sock' = [sock EXCEPT ![c].refs = @ \ {"io"}]
       /\ stat' = [stat EXCEPT !.inbound = IF k.kind = "in" THEN @ - 1 ELSE @,
                               !.outbound = IF k.kind = "out" THEN @ - 1 ELSE @,
                               !.active = IF IsActive(k.flags) THEN @ - 1 ELSE @]
    /\ UNCHANGED <<ev, main, user, listening, aux, special, down>>

\* JS_ABORT: cpu_server_close_connection once, with its assertions
ConnAbort(c) ==
    /\ Runnable(c, "ABORT")
    /\ LET k == conn[c] IN
       IF "FAILED" \in k.flags
       THEN /\ conn' = [conn EXCEPT ![c].pend = @ \ {"ABORT"}]
            /\ UNCHANGED <<sock, stat, down>>
       ELSE IF k.status # "error" \/ ~k.io \/ "ERROR" \notin k.flags
       THEN down' = TRUE /\ UNCHANGED <<conn, sock, stat>>
       ELSE /\ conn' = [conn EXCEPT ![c] = [k EXCEPT !.pend = @ \ {"ABORT"}, !.io = FALSE,
                   !.flags = (@ \union {"FAILED"}) \ {"SPECIAL"},
                   !.at = IF "SPECIAL" \in k.flags THEN "special" ELSE "idle"]]
            /\ sock' = [sock EXCEPT ![c].refs = @ \ {"io"}, ![c].pend = @ \union {"ABORT"}]
            /\ stat' = [stat EXCEPT !.inbound = IF k.kind = "in" THEN @ - 1 ELSE @,
                                    !.outbound = IF k.kind = "out" THEN @ - 1 ELSE @,
                                    !.active = IF IsActive(k.flags) THEN @ - 1 ELSE @]
            /\ UNCHANGED down
    /\ UNCHANGED <<ev, main, user, listening, aux, special>>

\* Faulty variant: the listeners are told only when the limit was exceeded.
ConnSpecialLate(c) ==
    /\ ~down /\ conn[c].at = "special"
    /\ special' = special - 1
    /\ conn' = [conn EXCEPT ![c].at = IF special > MaxSpecial THEN "notify" ELSE "idle"]
    /\ UNCHANGED <<sock, ev, main, user, listening, aux, stat, down>>

\* __sync_fetch_and_add (&active_special_connections, -1)
ConnSpecial(c) ==
    /\ ~down /\ conn[c].at = "special"
    /\ special' = special - 1
    /\ conn' = [conn EXCEPT ![c].at = IF special = MaxSpecial THEN "notify" ELSE "idle"]
    /\ UNCHANGED <<sock, ev, main, user, listening, aux, stat, down>>

\* JS_AUX to every special listener
ConnNotify(c) ==
    /\ ~down /\ conn[c].at = "notify"
    /\ aux' = [l \in Listener |-> TRUE]
    /\ conn' = [conn EXCEPT ![c].at = "idle"]
    /\ UNCHANGED <<sock, ev, main, user, listening, special, stat, down>>

\* cpu_server_free_connection, with its assertions; the descriptor is closed
ConnFinish(c) ==
    /\ ~down /\ conn[c].kind # "none" /\ conn[c].at = "idle"
    /\ conn[c].refs = {} /\ conn[c].pend = {}
    /\ IF {"ERROR", "FAILED"} \subseteq conn[c].flags /\ ~conn[c].io
       THEN /\ conn' = [conn EXCEPT ![c] = NoConn]
            /\ stat' = [stat EXCEPT !.allocated = @ - 1]
            /\ UNCHANGED down
       ELSE /\ down' = TRUE
            /\ UNCHANGED <<conn, stat>>
    /\ UNCHANGED <<sock, ev, main, user, listening, aux, special>>

-----------------------------------------------------------------------------
(* Any thread: connection_get_by_fd and what is done with the connection *)

UserTo(at) == user' = [user EXCEPT !.at = at]

LookupPin(c) ==
    /\ ~down /\ user.at = "idle" /\ ev[c].refcnt > 0
    /\ ev' = [ev EXCEPT ![c].refcnt = @ + 1]
    /\ user' = [at |-> "pinned", c |-> c]
    /\ UNCHANGED <<conn, sock, main, listening, aux, special, stat, down>>

LookupIncref ==
    /\ ~down /\ user.at = "pinned"
    /\ EventDecref(user.c, [sock[user.c] EXCEPT !.refs = @ \union {"lookup"}])
    /\ UserTo("socket")
    /\ UNCHANGED <<conn, main, listening, aux, special, stat, down>>

LookupConn ==
    /\ ~down /\ user.at = "socket"
    /\ sock' = [sock EXCEPT ![user.c].refs = @ \ {"lookup"}]
    /\ \/ /\ "ERROR" \in sock[user.c].flags
          /\ UNCHANGED conn
          /\ user' = [at |-> "idle", c |-> NoFd]
       \/ /\ "ERROR" \notin sock[user.c].flags
          /\ conn' = [conn EXCEPT ![user.c].refs = @ \union {"user"}]
          /\ UserTo("holds")
    /\ UNCHANGED <<ev, main, listening, aux, special, stat, down>>

\* fail_connection, or output and JS_RUN; then job_decref
UserDone ==
    /\ ~down /\ user.at = "holds"
    /\ \E k \in {Failed(conn[user.c]), [conn[user.c] EXCEPT !.pend = @ \union {"RUN"}]} :
           conn' = [conn EXCEPT ![user.c] = [k EXCEPT !.refs = @ \ {"user"}]]
    /\ user' = [at |-> "idle", c |-> NoFd]
    /\ UNCHANGED <<sock, ev, main, listening, aux, special, stat, down>>

-----------------------------------------------------------------------------
MainStep == AcceptLimit \/ AcceptRemove \/ AllocSocket \/ MainFail \/ MainReport
UserStep == LookupIncref \/ LookupConn \/ UserDone
SocketStep(c) == SocketRun(c) \/ SocketConnected(c) \/ SocketFinish(c)
ConnStep(c) == \/ ConnRun(c) \/ ConnReadWrite(c) \/ ConnWriteClose(c)
               \/ ConnAbort(c) \/ ConnSpecial(c) \/ ConnNotify(c) \/ ConnFinish(c)

Dead == down /\ UNCHANGED vars

Next == \/ MainStep \/ UserStep \/ Dead
        \/ \E l \in Listener : ListenerAux(l) \/ \E c \in Fd : Accept(l, c)
        \/ \E c \in Fd : \/ Connect(c) \/ SocketAbort(c) \/ LookupPin(c)
                         \/ \E s \in {"RUN", "ABORT"} : Gateway(c, s)
                         \/ SocketStep(c) \/ ConnStep(c)

Spec == Init /\ [][Next]_vars

-----------------------------------------------------------------------------
(* Properties *)

TypeOK ==
    /\ conn \in [Fd -> [kind : {"none", "in", "out"},
          flags : SUBSET {"ERROR", "FAILED", "CONNECTED", "READY_PENDING", "SPECIAL"},
          status : {"none", "connecting", "working", "write_close", "error"}, io : BOOLEAN,
          refs : SUBSET {"creator", "socket", "user"}, pend : SUBSET {"RUN", "ABORT"},
          at : {"idle", "new", "rw", "wclose", "special", "notify"}]]
    /\ sock \in [Fd -> [alive : BOOLEAN, flags : SUBSET {"ERROR", "CONNECTED"},
          refs : SUBSET {"table", "io", "lookup"}, pend : SUBSET {"RUN", "ABORT"},
          at : {"idle", "abort"}]]
    /\ ev \in [Fd -> [refcnt : 0 .. 2, data : BOOLEAN]]
    /\ main \in [at : {"idle", "limit", "remove", "socket", "fail", "report"},
                 c : Fd \union {NoFd}, l : Listener \union {NoFd}]
    /\ user \in [at : {"idle", "pinned", "socket", "holds"},
                 c : Fd \union {NoFd}]
    /\ listening \in [Listener -> BOOLEAN] /\ aux \in [Listener -> BOOLEAN]
    /\ special \in 0 .. Cardinality(Fd)
    /\ stat \in [allocated : 0 .. Cardinality(Fd), inbound : 0 .. Cardinality(Fd),
                 outbound : 0 .. Cardinality(Fd), active : 0 .. Cardinality(Fd)]
    /\ down \in BOOLEAN

Closed(c) == "FAILED" \in conn[c].flags

(* The statistics a graceful shutdown and the limits rely on count what is  *)
(* there: MODULE_STAT's connections by direction and activity, and          *)
(* active_special_connections, through connects racing with failures.       *)
CountersExact ==
    /\ TypeOK
    /\ stat.active = Cardinality({c \in Fd : IsActive(conn[c].flags) /\ ~Closed(c)})
    /\ stat.inbound = Cardinality({c \in Fd : conn[c].kind = "in" /\ ~Closed(c)})
    /\ stat.outbound = Cardinality({c \in Fd : conn[c].kind = "out" /\ ~Closed(c)})
    /\ stat.allocated = Cardinality({c \in Fd : conn[c].kind # "none" /\ conn[c].at # "new"})
    /\ special = Cardinality({c \in Fd : "SPECIAL" \in conn[c].flags \/ conn[c].at = "special"})

(* No listener is left out of epoll below the limit: when fewer than        *)
(* max_special_connections are open and no JS_AUX is on its way, all listen.*)
NotStranded ==
    (special < MaxSpecial /\ main.at # "remove" /\ \A c \in Fd : conn[c].at # "notify")
        => \A l \in Listener : listening[l] \/ aux[l]

(* A thread that is looking a connection up never meets freed memory: the   *)
(* socket job lives from the pin in the event table to the last use, and so *)
(* does the connection it points to and anything a handler still runs on.   *)
(* The assertions about io_conn, the event table and the flags hold on      *)
(* every path: only the one about the status at the close can fail.         *)
NoDangling ==
    /\ down => \E c \in Fd : conn[c].status = "write_close"
    /\ user.at \in {"pinned", "socket"} => sock[user.c].alive
    /\ user.at = "pinned" => ev[user.c].data
    /\ \A c \in Fd : /\ sock[c].alive => conn[c].kind # "none"
                     /\ conn[c].io => sock[c].alive
                     /\ ev[c].data => sock[c].alive /\ "table" \in sock[c].refs
                     /\ ev[c].refcnt > 0 <=> ev[c].data
    /\ user.at = "holds" => conn[user.c].kind # "none"

(* A failure is never forgotten: until a connection with C_ERROR is gone,   *)
(* somebody is in the middle of it, a JS_ABORT is on its way to one of its  *)
(* two jobs, or one of them can be finished.                                *)
FailureProceeds ==
    \A c \in Fd : "ERROR" \in conn[c].flags /\ ~down =>
        \/ main.c = c \/ user.c = c \/ conn[c].at # "idle"
        \/ "ABORT" \in conn[c].pend \union sock[c].pend
        \/ sock[c].alive /\ sock[c].refs = {}
        \/ conn[c].refs = {}

(* "assert (c->status == conn_error)" in cpu_server_close_connection: the   *)
(* status fail_connection stored is the one the close finds.                *)
StatusAtClose ==
    \A c \in Fd : conn[c].at = "idle" /\ "ABORT" \in conn[c].pend /\ ~Closed(c)
        => conn[c].status = "error"
=============================================================================
