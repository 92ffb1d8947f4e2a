--------------------------- MODULE ExtConnections ---------------------------
(* The relay of the proxy without direct mode, mtproto/mtproto-proxy.c:     *)
(* every client connection that has sent a query has an entry in the table  *)
(* of ext_connections, which ties it to a connection to a Telegram middle-  *)
(* end server under a number (out_conn_id) the two sides use for it.        *)
(* Entries name connections by descriptor and generation, so they survive   *)
(* the connections they name.  All of this runs in the engine thread, which *)
(* learns of packets and of connections that open and close through two     *)
(* different queues.                                                        *)
EXTENDS Integers, Sequences, FiniteSets, SequencesExt

CONSTANTS ClientFd, MiddleFd,  \* descriptors clients and middle-ends may get
          MaxGen,              \* bound on the connections ever opened
          MaxQueries           \* bound on the clients' queries

ASSUME RelayAssumption == MaxGen \in Nat /\ MaxQueries \in Nat

Fd == ClientFd \union MiddleFd

VARIABLES conn,      \* the connection that has the descriptor
          gen,       \* conn_generation
          ext,       \* the ext_connection with this in_fd
          last,      \* OutExtConnections[in_fd].out_conn_id
          heads,     \* descriptors whose ExtConnectionHead has an o_next
          lru,       \* ConnLRU: in_fd of its members, the oldest first
          engine,    \* queue of the class JC_ENGINE
          notes,     \* queue of the notification job
          draining,  \* the engine thread is in notification_event_run
          peer,      \* the numbers a middle-end knows of
          waiting,   \* queries a middle-end has not answered
          asked,     \* the connection that sent each query
          answered,  \* answers given to a connection
          down       \* an assertion has failed
vars == <<conn, gen, ext, last, heads, lru, engine, notes, draining, peer,
          waiting, asked, answered, down>>
table == <<ext, last, heads, lru>>
middle == <<peer, waiting>>
log == <<asked, answered>>

NoConn == [kind |-> "none", gen |-> 0, flags |-> {}, tag |-> FALSE, dropped |-> FALSE]
NoExt == [k |-> 0, in_gen |-> 0, out_fd |-> 0, out_gen |-> 0, late |-> FALSE]
Notify == [op |-> "notify"]

Init == /\ conn = [f \in Fd |-> NoConn] /\ gen = 0
        /\ ext = [f \in Fd |-> NoExt] /\ last = [f \in Fd |-> 0]
        /\ heads = {} /\ lru = <<>>
        /\ engine = <<>> /\ notes = <<>> /\ draining = FALSE
        /\ peer = [f \in Fd |-> {}] /\ waiting = [f \in Fd |-> {}]
        /\ asked = <<>> /\ answered = {} /\ down = FALSE

-----------------------------------------------------------------------------
(* Connections.  C_ERROR and C_FAILED are flags of the connection, SOCKERR  *)
(* is C_ERROR of its socket, which hides it from connection_get_by_fd.      *)

Opened(kind) == [NoConn EXCEPT !.kind = kind, !.gen = gen + 1]

\* net_accept_new_connections, or an outbound connection to a middle-end
Open(f, kind) ==
    /\ ~down /\ conn[f].kind = "none" /\ gen < MaxGen
    /\ f \in IF kind = "client" THEN ClientFd ELSE MiddleFd
    /\ conn' = [conn EXCEPT ![f] = Opened(kind)]
    /\ gen' = gen + 1
    /\ UNCHANGED <<table, engine, notes, draining, middle, log, down>>

\* notification_event_insert_conn; the job is queued at most once, and one
\* that runs looks into its queue again
Insert(ev, f) ==
    /\ notes' = Append(notes, [ev |-> ev, fd |-> f])
    /\ engine' = IF draining \/ Notify \in ToSet(engine) THEN engine ELSE Append(engine, Notify)

\* the handshake with a middle-end is over: tcp_rpcc_parse_execute
Handshake(f) ==
    /\ ~down /\ conn[f].kind = "middle" /\ conn[f].flags = {}
    /\ conn' = [conn EXCEPT ![f].flags = {"READY"}]
    /\ Insert("ready", f)
    /\ UNCHANGED <<gen, table, draining, middle, log, down>>

Marked(f, flags) == [conn EXCEPT ![f].flags = @ \union flags]

\* fail_connection by its own handlers, or the socket fails first
Fails(f, flags) ==
    /\ ~down /\ conn[f].kind # "none" /\ ~(flags \subseteq conn[f].flags)
    /\ conn' = Marked(f, flags)
    /\ UNCHANGED <<gen, table, engine, notes, draining, middle, log, down>>

\* do_connection_job, JS_ABORT: tcp_rpcs_close_connection, tcp_rpcc_close_connection
Close(f) ==
    /\ ~down /\ "ERROR" \in conn[f].flags /\ "FAILED" \notin conn[f].flags
    /\ conn' = Marked(f, {"FAILED"})
    /\ Insert("close", f)
    /\ UNCHANGED <<gen, table, draining, middle, log, down>>

\* events and jobs hold a reference to their connection
Referenced(f) == \/ \E i \in DOMAIN notes : notes[i].fd = f
                 \/ \E i \in DOMAIN engine : engine[i] # Notify /\ engine[i].fd = f

\* cpu_server_free_connection: the descriptor can be given to another one
Free(f) ==
    /\ ~down /\ {"FAILED", "SOCKERR"} \subseteq conn[f].flags /\ ~Referenced(f)
    /\ conn' = [conn EXCEPT ![f] = NoConn]
    /\ peer' = [peer EXCEPT ![f] = {}] /\ waiting' = [waiting EXCEPT ![f] = {}]
    /\ UNCHANGED <<gen, table, engine, notes, draining, log, down>>

\* ext_rpcs_execute: a packet of a client becomes a job of the engine
Query(f) ==
    /\ ~down /\ conn[f].kind = "client" /\ "ERROR" \notin conn[f].flags
    /\ Len(asked) < MaxQueries
    /\ asked' = Append(asked, <<f, conn[f].gen>>)
    /\ engine' = Append(engine, [op |-> "query", fd |-> f, n |-> Len(asked) + 1])
    /\ UNCHANGED <<conn, gen, table, notes, draining, middle, answered, down>>

-----------------------------------------------------------------------------
(* The middle-end.  The delay of the network is that of the engine's queue. *)

Talks(d) == ~down /\ conn[d].kind = "middle" /\ conn[d].flags = {"READY"}

\* RPC_PROXY_ANS or RPC_SIMPLE_ACK, through rpcc_execute
MiddleAnswers(d) ==
    /\ Talks(d)
    /\ \E w \in waiting[d] :
          /\ waiting' = [waiting EXCEPT ![d] = @ \ {w}]
          /\ engine' = Append(engine, [op |-> "answer", fd |-> d, id |-> w.id, n |-> w.n])
    /\ UNCHANGED <<conn, gen, table, notes, draining, peer, log, down>>

\* RPC_CLOSE_EXT
MiddleCloses(d) ==
    /\ Talks(d)
    /\ \E id \in peer[d] :
          /\ peer' = [peer EXCEPT ![d] = @ \ {id}]
          /\ waiting' = [waiting EXCEPT ![d] = {w \in @ : w.id # id}]
          /\ engine' = Append(engine, [op |-> "closeExt", fd |-> d, id |-> id])
    /\ UNCHANGED <<conn, gen, table, notes, draining, log, down>>

Hears(d) == conn[d].kind = "middle" /\ "ERROR" \notin conn[d].flags
HasClosed(id) == \E i \in DOMAIN engine : engine[i].op = "closeExt" /\ engine[i].id = id

\* RPC_PROXY_REQ arrives; what belongs to a number it has closed is discarded
Forward(p, w, d, id, n) ==
    LET open == Hears(d) /\ ~HasClosed(id) IN
    /\ peer' = [p EXCEPT ![d] = IF open THEN @ \union {id} ELSE @]
    /\ waiting' = [w EXCEPT ![d] = IF open THEN @ \union {[id |-> id, n |-> n]} ELSE @]

-----------------------------------------------------------------------------
(* The table *)

\* Faulty variant: whoever has the descriptor now.
LookupByFd(f, g) == conn[f].kind # "none" /\ "SOCKERR" \notin conn[f].flags

\* connection_get_by_fd_generation
Lookup(f, g) == conn[f].kind # "none" /\ conn[f].gen = g /\ "SOCKERR" \notin conn[f].flags

Has(f) == ext[f] # NoExt
Id(f) == <<f, ext[f].k>>

\* find_ext_connection_by_out_conn_id
Found(id) == Has(id[1]) /\ Id(id[1]) = id

\* the entry's middle-end is still there, with its target
Usable(f) == /\ Has(f) /\ Lookup(ext[f].out_fd, ext[f].out_gen)
             /\ "FAILED" \notin conn[ext[f].out_fd].flags

\* _notify_remote_closed, RPC_CLOSE_CONN, for the numbers of S on connection d
Told(p, d, S) == [p EXCEPT ![d] = IF Hears(d) THEN {x \in @ : x \notin S} ELSE @]
ToldWaiting(w, d, S) == [w EXCEPT ![d] = IF Hears(d) THEN {x \in @ : x.id \notin S} ELSE @]

\* Faulty variant: the middle-end is not told.
PeerAfterSilent(f) == peer

\* remove_ext_connection (Ex, 1): what the middle-end knows afterwards
PeerAfter(f) == IF Has(f) /\ Lookup(ext[f].out_fd, ext[f].out_gen)
                THEN Told(peer, ext[f].out_fd, {Id(f)}) ELSE peer
WaitingAfter(f) == IF Has(f) /\ Lookup(ext[f].out_fd, ext[f].out_gen)
                   THEN ToldWaiting(waiting, ext[f].out_fd, {Id(f)}) ELSE waiting

\* lru_delete_ext_conn of the entries in S.  A recursive function and no SelectSeq:
\* proofs can unfold it
Unlinked(s, S) ==
    LET F[i \in 0 .. Len(s)] == IF i = 0 THEN <<>>
                                ELSE IF s[i] \in S THEN F[i - 1] ELSE Append(F[i - 1], s[i])
    IN F[Len(s)]

\* get_ext_connection_by_in_conn_id, mode 1, of the entries in S
Without(S) == /\ ext' = [f \in Fd |-> IF f \in S THEN NoExt ELSE ext[f]]
              /\ lru' = Unlinked(lru, S)

\* remove_ext_connection (Ex, 2): the clients that are failed
Victims(S) == {f \in S : Has(f) /\ Lookup(f, ext[f].in_gen)}
Failed(S) == [f \in Fd |-> IF f \in Victims(S) THEN [conn[f] EXCEPT !.flags = @ \union {"ERROR"}]
                           ELSE conn[f]]

-----------------------------------------------------------------------------
(* The engine thread: notifications *)

Running == ~down /\ ~draining /\ engine # <<>>

\* notification_event_run pops until its queue is empty.  The ready event of a
\* client is left out: lru_insert_conn has no entry to insert yet
RunNotify ==
    /\ Running /\ Head(engine) = Notify
    /\ draining' = TRUE /\ engine' = Tail(engine)
    /\ UNCHANGED <<conn, gen, table, notes, middle, log, down>>

DrainEnd ==
    /\ ~down /\ draining /\ notes = <<>>
    /\ draining' = FALSE
    /\ UNCHANGED <<conn, gen, table, engine, notes, middle, log, down>>

Event(ev, kind) == ~down /\ draining /\ notes # <<>> /\ Head(notes).ev = ev
                   /\ conn[Head(notes).fd].kind = kind

\* mtfront_client_ready, with its assertions
MiddleReady ==
    /\ Event("ready", "middle")
    /\ LET f == Head(notes).fd IN
       IF f \in heads \/ conn[f].tag
       THEN down' = TRUE /\ UNCHANGED <<conn, heads>>
       ELSE /\ conn' = [conn EXCEPT ![f].tag = TRUE]
            /\ heads' = heads \union {f} /\ UNCHANGED down
    /\ notes' = Tail(notes)
    /\ UNCHANGED <<gen, ext, last, lru, engine, draining, middle, log>>

\* mtfront_client_close: every entry of its list goes, and its client with it
MiddleClose ==
    /\ Event("close", "middle")
    /\ LET f == Head(notes).fd  S == {c \in Fd : Has(c) /\ ext[c].out_fd = f} IN
       IF ~conn[f].tag THEN UNCHANGED <<conn, ext, lru, heads>>
       ELSE /\ conn' = [Failed(S) EXCEPT ![f].tag = FALSE] /\ Without(S)
            /\ heads' = heads \ {f}
    /\ notes' = Tail(notes)
    /\ UNCHANGED <<gen, last, engine, draining, middle, log, down>>

\* Faulty variant: only an entry the middle-end still serves is removed.
ClientCloseSome ==
    /\ Event("close", "client")
    /\ LET f == Head(notes).fd IN
       /\ Without(IF Usable(f) THEN {f} ELSE {})
       /\ peer' = PeerAfter(f) /\ waiting' = WaitingAfter(f)
    /\ notes' = Tail(notes)
    /\ UNCHANGED <<conn, gen, last, heads, engine, draining, log, down>>

\* mtproto_ext_rpc_close: the entry is looked up by the descriptor
ClientClose ==
    /\ Event("close", "client")
    /\ LET f == Head(notes).fd IN
       Without({f}) /\ peer' = PeerAfter(f) /\ waiting' = WaitingAfter(f)
    /\ notes' = Tail(notes)
    /\ UNCHANGED <<conn, gen, last, heads, engine, draining, log, down>>

-----------------------------------------------------------------------------
(* The engine thread: packets *)

Item(op) == Running /\ Head(engine).op = op
Done == engine' = Tail(engine) /\ UNCHANGED <<gen, notes, draining, asked, down>>

\* do_rpcs_execute: lru_insert_conn
Refreshed(f) == IF Has(f) /\ ext[f].in_gen = conn[f].gen
                THEN Append(Unlinked(lru, {f}), f) ELSE lru

Ready == {d \in Fd : conn[d].kind = "middle" /\ conn[d].flags = {"READY"}}
Tagged == {d \in Ready : conn[d].tag}

\* the close of f has already been processed
Ended(f) == "FAILED" \in conn[f].flags /\ ~\E i \in DOMAIN notes : notes[i] = [ev |-> "close", fd |-> f]

\* forward_tcp_query along the entry the client has
ForwardQuery ==
    /\ Item("query")
    /\ LET f == Head(engine).fd IN
       /\ Usable(f)
       /\ Forward(peer, waiting, ext[f].out_fd, Id(f), Head(engine).n)
       /\ lru' = Refreshed(f)
    /\ Done /\ UNCHANGED <<conn, ext, last, heads, answered>>

\* forward_mtproto_packet finds the packet too short or of no known kind
RejectQuery ==
    /\ Item("query")
    /\ lru' = Refreshed(Head(engine).fd)
    /\ Done /\ UNCHANGED <<conn, ext, last, heads, middle, answered>>

\* ... with a new entry, create_ext_connection, after an unusable one is removed.
\* The number is the next one of its slot of OutExtConnections; the slot of the
\* descriptor is free, since a descriptor has one entry at most.
CreateEntry ==
    /\ Item("query")
    /\ LET f == Head(engine).fd IN
       /\ ~Usable(f) /\ ~conn[f].dropped
       /\ \E d \in Tagged :
             /\ last' = [last EXCEPT ![f] = @ + 1]
             /\ ext' = [ext EXCEPT ![f] = [k |-> last[f] + 1, in_gen |-> conn[f].gen, out_fd |-> d,
                                           out_gen |-> conn[d].gen, late |-> Ended(f)]]
             /\ Forward(PeerAfter(f), WaitingAfter(f), d, <<f, last[f] + 1>>, Head(engine).n)
       /\ lru' = Unlinked(lru, {f})
    /\ Done /\ UNCHANGED <<conn, heads, answered>>

\* ... a connection that has lost a query is closed
FailDropped ==
    /\ Item("query")
    /\ LET f == Head(engine).fd IN
       /\ ~Usable(f) /\ conn[f].dropped /\ Tagged # {}
       /\ Without({f}) /\ peer' = PeerAfter(f) /\ waiting' = WaitingAfter(f)
       /\ conn' = Marked(f, {"ERROR"})
    /\ Done /\ UNCHANGED <<last, heads, answered>>

\* ... there is no middle-end, or five random attempts met none that is tagged
DropQuery ==
    /\ Item("query")
    /\ LET f == Head(engine).fd IN
       /\ ~Usable(f) /\ (Tagged = {} \/ Ready # Tagged)
       /\ Without({f}) /\ peer' = PeerAfter(f) /\ waiting' = WaitingAfter(f)
       /\ conn' = [conn EXCEPT ![f].dropped = TRUE]
    /\ Done /\ UNCHANGED <<last, heads, answered>>

\* process_client_packet: the entry of the number, if this middle-end has it
Addressee(it) == /\ Found(it.id)
                 /\ ext[it.id[1]].out_fd = it.fd /\ ext[it.id[1]].out_gen = conn[it.fd].gen
                 /\ Lookup(it.id[1], ext[it.id[1]].in_gen)

\* client_send_message, push_rpc_confirmation: check_conn_buffers may refuse
Answer ==
    /\ Item("answer") /\ Addressee(Head(engine))
    /\ LET f == Head(engine).id[1] IN
       \/ /\ answered' = answered \union {<<Head(engine).n, f, conn[f].gen>>}
          /\ UNCHANGED conn
       \/ /\ conn' = Marked(f, {"ERROR"})
          /\ UNCHANGED answered
    /\ Done /\ UNCHANGED <<table, middle>>

DropAnswer ==
    /\ Item("answer") /\ ~Addressee(Head(engine))
    /\ LET it == Head(engine) IN
       /\ peer' = Told(peer, it.fd, {it.id}) /\ waiting' = ToldWaiting(waiting, it.fd, {it.id})
    /\ Done /\ UNCHANGED <<conn, table, answered>>

CloseExt ==
    /\ Item("closeExt")
    /\ LET S == IF Found(Head(engine).id) THEN {Head(engine).id[1]} ELSE {} IN
       conn' = Failed(S) /\ Without(S)
    /\ Done /\ UNCHANGED <<last, heads, middle, answered>>

\* check_all_conn_buffers, from cron: the least recently used goes first
Evict ==
    /\ ~down /\ ~draining /\ lru # <<>>
    /\ conn' = Failed({Head(lru)})
    /\ lru' = Tail(lru)
    /\ UNCHANGED <<gen, ext, last, heads, engine, notes, draining, middle, log, down>>

-----------------------------------------------------------------------------
Engine == \/ RunNotify \/ DrainEnd \/ MiddleReady \/ MiddleClose \/ ClientClose
          \/ ForwardQuery \/ RejectQuery \/ CreateEntry \/ FailDropped \/ DropQuery
          \/ Answer \/ DropAnswer \/ CloseExt

Next == \/ \E f \in Fd : \/ \E kind \in {"client", "middle"} : Open(f, kind)
                         \/ Handshake(f) \/ Close(f) \/ Free(f) \/ Query(f)
                         \/ Fails(f, {"ERROR"}) \/ Fails(f, {"ERROR", "SOCKERR"})
                         \/ MiddleAnswers(f) \/ MiddleCloses(f)
        \/ Engine \/ Evict

Spec == Init /\ [][Next]_vars

-----------------------------------------------------------------------------
(* Properties *)

TypeOK ==
    /\ conn \in [Fd -> [kind : {"none", "client", "middle"}, gen : 0 .. MaxGen,
                        flags : SUBSET {"READY", "ERROR", "FAILED", "SOCKERR"},
                        tag : BOOLEAN, dropped : BOOLEAN]]
    /\ gen \in 0 .. MaxGen /\ last \in [Fd -> 0 .. MaxQueries]
    /\ ext \in [Fd -> {NoExt} \union [k : 1 .. MaxQueries, in_gen : 1 .. MaxGen, out_fd : MiddleFd,
                                      out_gen : 1 .. MaxGen, late : BOOLEAN]]
    /\ heads \subseteq MiddleFd /\ ToSet(lru) \subseteq ClientFd
    /\ draining \in BOOLEAN /\ down \in BOOLEAN

(* The table agrees with the connections, however packets and closes are    *)
(* ordered: no assertion of the callbacks fails; an entry's middle-end has  *)
(* not been closed for the engine, so its close will find the entry; and    *)
(* its client has not either, unless the query that made it was run after   *)
(* the close of its own connection.                                         *)
TableSound ==
    /\ TypeOK /\ ~down
    /\ \A f \in Fd : Has(f) =>
          /\ ext[f].out_fd \in heads
          /\ conn[ext[f].out_fd].tag /\ conn[ext[f].out_fd].gen = ext[f].out_gen
          /\ ext[f].late \/ (conn[f].gen = ext[f].in_gen /\ ~Ended(f))
    /\ \A i \in DOMAIN lru : Has(lru[i]) /\ \A j \in DOMAIN lru : lru[i] = lru[j] => i = j

(* An answer is given to the connection that sent the query and to no other *)
(* that has got its descriptor since, even along an entry that is stale.    *)
AnswersToAsker == \A a \in answered : asked[a[1]] = <<a[2], a[3]>>

(* A middle-end that can still hear knows of no number without an entry:    *)
(* whatever removes the entry has told it, or it has said so itself.        *)
PeersMatch == \A d \in Fd : Hears(d) =>
    \A id \in peer[d] : Found(id) /\ ext[id[1]].out_fd = d

(* A query forwarded along a client's entry goes along its own.             *)
OwnEntry == \A f \in Fd : Has(f) /\ conn[f].kind = "client" => ext[f].in_gen = conn[f].gen
=============================================================================
