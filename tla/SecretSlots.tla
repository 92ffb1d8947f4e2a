---------------------------- MODULE SecretSlots ----------------------------
(* Clients, the secrets they are charged to and, in direct mode, their      *)
(* connections to the data centres (DC): net/net-tcp-rpc-ext-server.c, net/ *)
(* net-tcp-direct-dc.c, the drain sweeper of mtproto/mtproto-proxy.c.  A    *)
(* handler runs to its end before the next one starts (the proxy's default, *)
(* one thread for all job classes); what interleaves are the handlers of    *)
(* different connections, timers, reloads and sweeps.                       *)
EXTENDS Slots

CONSTANTS Conn, IpOf,   \* client connections, and [Conn -> Ip]
          Key,          \* secrets clients may have
          Configs,      \* configurations a reload may find, with and without direct mode
          Dc,           \* DC connections
          MaxRetries,   \* DIRECT_MAX_RETRIES
          MaxGauge,     \* bound: retries count one client several times
          MaxConns,     \* bound: counts that not every close discharges may grow
          None

ASSUME ClientsAssumption == /\ IsFiniteSet(Conn) /\ IpOf \in [Conn -> Ip]
                            /\ \A mode \in BOOLEAN : \A config \in Configs[mode] :
                                 /\ Len(config) \in Nat /\ DOMAIN config = 1 .. Len(config)
                                 /\ \A i \in DOMAIN config : /\ config[i].limit \in Nat
                                                             /\ config[i].maxIps \in Nat
                            /\ MaxRetries \in Nat /\ MaxGauge \in Nat /\ MaxConns \in Nat
                            /\ None \notin Dc \union Conn \union Slot

VARIABLES direct,   \* direct_mode
          T,        \* the table of secrets
          client,   \* per client connection, see NoClient
          dc,       \* per DC connection: phase (gone: closed, its client still
                    \* holds a reference) and extra: its client
          gauge,    \* direct_dc_connections_active
          loaded    \* the last configuration, and what the reload returned
vars == <<direct, T, client, dc, gauge, loaded>>

(* A client's phase is hello between the TLS handshake and the obfs2 init, open once   *)
(* charged, gone once closed; slot is extra_int2 - 1, kind the connection's *)
(* type, extra the DC connection, attempt is extra_int.                     *)
NoClient == [phase |-> "none", key |-> NoKey, slot |-> None, kind |-> "ext",
             failed |-> FALSE, extra |-> None, attempt |-> 0, timer |-> FALSE]
NoDc == [phase |-> "none", extra |-> None, failed |-> FALSE]

Init == /\ direct \in BOOLEAN
        /\ T = PinnedTable
        /\ client = [c \in Conn |-> NoClient]
        /\ dc = [d \in Dc |-> NoDc]
        /\ gauge = 0
        /\ loaded = [config |-> <<>>, ok |-> TRUE]

-----------------------------------------------------------------------------
(* Reload and sweep *)

\* apply_toml_secrets on SIGHUP
ReloadSecrets(config) ==
    LET r == Reload(T, config) IN
    /\ T' = r.table
    /\ loaded' = [config |-> config, ok |-> r.ok]
    /\ UNCHANGED <<direct, client, dc, gauge>>

\* drain_timeout_secs have passed since the slot began to drain
DrainTimeout(s) ==
    /\ T.slot[s].state = "DRAINING" /\ ~T.slot[s].overdue
    /\ T' = [T EXCEPT !.slot[s].overdue = TRUE]
    /\ UNCHANGED <<direct, client, dc, gauge, loaded>>

Swept == {s \in Config : s < T.cnt /\ T.slot[s].state = "DRAINING"}

\* Faulty variant: the sweep leaves the connections of overdue slots alone.
SweepReleases ==
    /\ T' = Release(T, Swept)
    /\ UNCHANGED <<direct, client, dc, gauge, loaded>>

\* drain_sweep_gw: slots without connections are released, the connections
\* of slots that are overdue (tcp_rpcs_drain_force_close_for_slot) fail
Sweep ==
    LET forced == {s \in Swept : T.slot[s].conns # 0 /\ T.slot[s].overdue} IN
    /\ T' = Release(T, Swept)
    /\ client' = [c \in Conn |-> IF client[c].phase = "open" /\ client[c].slot \in forced
                                 THEN [client[c] EXCEPT !.failed = TRUE] ELSE client[c]]
    /\ UNCHANGED <<direct, dc, gauge, loaded>>

-----------------------------------------------------------------------------
(* Clients arrive *)

\* the TLS handshake: the checks are made here, the slot is not charged yet
TlsHello(c, key) ==
    /\ client[c] = NoClient
    /\ \E s \in Matching(T, key) : ~Refuses(T.slot[s], IpOf[c]) /\ s = Min(Matching(T, key))
    /\ client' = [client EXCEPT ![c].phase = "hello", ![c].key = key]
    /\ UNCHANGED <<direct, T, dc, gauge, loaded>>

HelloEnds(c) ==
    /\ client[c].phase = "hello"
    /\ client' = [client EXCEPT ![c] = NoClient]
    /\ UNCHANGED <<direct, T, dc, gauge, loaded>>

FreeDc == {d \in Dc : dc[d].phase = "none"}

\* direct_schedule_retry (C, target_dc, attempt)
Scheduled(k, attempt) ==
    IF attempt >= MaxRetries THEN [k EXCEPT !.failed = TRUE]
    ELSE [k EXCEPT !.attempt = attempt + 1, !.timer = TRUE]

(* A DC connection for client k of connection c, as direct_connect_to_dc    *)
(* and direct_retry_dc_connection make it: no such DC, no address that      *)
(* takes the connect, or a connection under way.                            *)
DcUnknown(c, k) ==
    /\ client' = [client EXCEPT ![c] = [k EXCEPT !.failed = TRUE, !.attempt = 0]]
    /\ UNCHANGED <<dc, gauge>>
DcRefused(c, k) ==
    /\ client' = [client EXCEPT ![c] = Scheduled([k EXCEPT !.kind = "direct"], k.attempt)]
    /\ UNCHANGED <<dc, gauge>>
DcStarted(c, k) ==
    \E d \in FreeDc :
        /\ gauge < MaxGauge
        /\ client' = [client EXCEPT ![c] = [k EXCEPT !.kind = "direct", !.extra = d, !.attempt = 0]]
        /\ dc' = [dc EXCEPT ![d] = [phase |-> "connecting", extra |-> c, failed |-> FALSE]]
        /\ gauge' = gauge + 1

\* the obfs2 init of a client with this key; a plain client is checked now, a
\* TLS client was checked at its handshake
ObfsInit(c, key, tls) ==
    /\ IF tls THEN client[c].phase = "hello" /\ client[c].key = key ELSE client[c] = NoClient
    /\ Matching(T, key) # {}
    /\ LET s == Min(Matching(T, key))
           k == [NoClient EXCEPT !.phase = "open", !.key = key, !.slot = s] IN
       /\ tls \/ ~Refuses(T.slot[s], IpOf[c])
       /\ T.slot[s].conns < MaxConns /\ T.slot[s].ips[IpOf[c]] < MaxConns
       /\ T' = [T EXCEPT !.slot[s] = Charge(@, IpOf[c])]
       /\ \/ /\ ~direct
             /\ client' = [client EXCEPT ![c] = k]
             /\ UNCHANGED <<dc, gauge>>
          \/ direct /\ (DcUnknown(c, k) \/ DcRefused(c, k) \/ DcStarted(c, k))
    /\ UNCHANGED <<direct, loaded>>

\* JS_ALARM of a direct client, ignored once C_ERROR is set
Alarm(c) ==
    /\ client[c].timer
    /\ LET k == [client[c] EXCEPT !.timer = FALSE] IN
       IF k.failed \/ k.extra # None \/ k.attempt = 0
       THEN /\ client' = [client EXCEPT ![c] = k]
            /\ UNCHANGED <<dc, gauge>>
       ELSE DcUnknown(c, k) \/ DcRefused(c, k) \/ DcStarted(c, k)
    /\ UNCHANGED <<direct, T, loaded>>

-----------------------------------------------------------------------------
(* Connections end *)

\* the peer closes, a quota is exhausted, a parse error: fail_connection
ClientFails(c) ==
    /\ client[c].phase = "open" /\ ~client[c].failed
    /\ client' = [client EXCEPT ![c].failed = TRUE]
    /\ UNCHANGED <<direct, T, dc, gauge, loaded>>

DcFails(d) ==
    /\ dc[d].phase \in {"connecting", "up"} /\ ~dc[d].failed
    /\ dc' = [dc EXCEPT ![d].failed = TRUE]
    /\ UNCHANGED <<direct, T, client, gauge, loaded>>

\* the obfs2 init is sent: c->crypto is set
DcUp(d) ==
    /\ dc[d].phase = "connecting" /\ ~dc[d].failed
    /\ dc' = [dc EXCEPT ![d].phase = "up"]
    /\ UNCHANGED <<direct, T, client, gauge, loaded>>

Closing(c) == client[c].phase = "open" /\ client[c].failed
\* what is left of a closed connection while its DC connection refers to it
Gone == [NoClient EXCEPT !.phase = "gone", !.failed = TRUE]

\* mtproto_ext_rpc_close: not in direct mode, or no such DC
CloseExt(c) ==
    /\ Closing(c) /\ client[c].kind = "ext"
    /\ client' = [client EXCEPT ![c] = Gone]
    /\ T' = [T EXCEPT !.slot[client[c].slot] = Discharge(@, IpOf[c])]
    /\ UNCHANGED <<direct, dc, gauge, loaded>>

\* Faulty variant: the DC connection is left to itself.
CloseDirectAlone(c) ==
    /\ Closing(c) /\ client[c].kind = "direct"
    /\ client' = [client EXCEPT ![c] = Gone]
    /\ T' = IF gauge > 0 THEN [T EXCEPT !.slot[client[c].slot] = Discharge(@, IpOf[c])] ELSE T
    /\ gauge' = IF gauge > 0 THEN gauge - 1 ELSE gauge
    /\ UNCHANGED <<direct, dc, loaded>>

\* tcp_direct_close of a client: the discharge hangs on the global gauge
CloseDirect(c) ==
    /\ Closing(c) /\ client[c].kind = "direct"
    /\ client' = [client EXCEPT ![c] = Gone]
    /\ T' = IF gauge > 0 THEN [T EXCEPT !.slot[client[c].slot] = Discharge(@, IpOf[c])] ELSE T
    /\ gauge' = IF gauge > 0 THEN gauge - 1 ELSE gauge
    /\ dc' = [d \in Dc |-> IF d # client[c].extra THEN dc[d]
                           ELSE IF dc[d].phase = "gone" THEN NoDc
                           ELSE [dc[d] EXCEPT !.failed = TRUE]]
    /\ UNCHANGED <<direct, loaded>>

\* Faulty variant: the client keeps its pointer to the DC connection that is gone.
CloseDcAttached(d) ==
    /\ dc[d].phase \in {"connecting", "up"} /\ dc[d].failed
    /\ LET c == dc[d].extra  k == client[c]
           retry == dc[d].phase = "connecting" /\ k.attempt < MaxRetries IN
       /\ client' = [client EXCEPT ![c] =
              IF retry THEN Scheduled(k, k.attempt)
              ELSE [k EXCEPT !.failed = TRUE]]
       /\ dc' = [dc EXCEPT ![d] = IF client'[c].extra = d THEN [NoDc EXCEPT !.phase = "gone"]
                                  ELSE NoDc]
    /\ UNCHANGED <<direct, T, gauge, loaded>>

\* tcp_direct_close of a DC connection: before its init it detaches the client
\* and schedules a retry, whatever state the client is in; after it, it takes
\* the client with it
CloseDc(d) ==
    /\ dc[d].phase \in {"connecting", "up"} /\ dc[d].failed
    /\ LET c == dc[d].extra  k == client[c]
           retry == dc[d].phase = "connecting" /\ k.attempt < MaxRetries IN
       /\ client' = [client EXCEPT ![c] =
              IF retry THEN Scheduled([k EXCEPT !.extra = None], k.attempt)
              ELSE [k EXCEPT !.failed = TRUE]]
       /\ dc' = [dc EXCEPT ![d] = IF client'[c].extra = d THEN [NoDc EXCEPT !.phase = "gone"]
                                  ELSE NoDc]
    /\ UNCHANGED <<direct, T, gauge, loaded>>

\* the last reference is dropped and the descriptor may be used again
Freed(c) ==
    /\ client[c].phase = "gone" /\ \A d \in Dc : dc[d].extra # c
    /\ client' = [client EXCEPT ![c] = NoClient]
    /\ UNCHANGED <<direct, T, dc, gauge, loaded>>

Close(c) == CloseExt(c) \/ CloseDirect(c)

Next == \/ \E config \in Configs[direct] : ReloadSecrets(config)
        \/ (\E s \in Slot : DrainTimeout(s)) \/ Sweep
        \/ \E c \in Conn : \/ HelloEnds(c) \/ Alarm(c) \/ ClientFails(c) \/ Close(c) \/ Freed(c)
                           \/ \E key \in Key : \/ TlsHello(c, key)
                                               \/ \E tls \in BOOLEAN : ObfsInit(c, key, tls)
        \/ \E d \in Dc : DcFails(d) \/ DcUp(d) \/ CloseDc(d)

Spec == Init /\ [][Next]_vars

(* The sweeper's timer comes every second, time passes, and a failed        *)
(* connection's JS_ABORT is delivered (JobSignals: SignalsServed).          *)
Fairness == /\ WF_vars(Sweep) /\ \A s \in Slot : WF_vars(DrainTimeout(s))
            /\ \A c \in Conn : WF_vars(Close(c))
            /\ \A d \in Dc : WF_vars(CloseDc(d))
FairSpec == Spec /\ Fairness

-----------------------------------------------------------------------------
(* Properties *)

Keys(config) == {config[i].key : i \in DOMAIN config}
AnyKey == Key \union {NoKey} \union {PinnedKey[p] : p \in 0 .. (Pinned - 1)}
              \union UNION {Keys(config) : config \in Configs[direct]}

TypeOK ==
    /\ direct \in BOOLEAN
    /\ T.cnt \in 0 .. MaxSlots
    /\ T.slot \in [Slot -> [state : {"FREE", "ACTIVE", "DRAINING"}, key : AnyKey,
          limit : Nat, maxIps : Nat, conns : Nat, ips : [Ip -> Nat], unique : Nat, overdue : BOOLEAN]]
    /\ client \in [Conn -> [phase : {"none", "hello", "open", "gone"}, key : Key \union {NoKey},
          slot : Slot \union {None}, kind : {"ext", "direct"}, failed : BOOLEAN,
          extra : Dc \union {None}, attempt : 0 .. MaxRetries, timer : BOOLEAN]]
    /\ dc \in [Dc -> [phase : {"none", "connecting", "up", "gone"}, extra : Conn \union {None},
                      failed : BOOLEAN]]
    /\ gauge \in Nat
    /\ loaded.config \in Configs[direct] \union {<<>>} /\ loaded.ok \in BOOLEAN

Charged(s) == {c \in Conn : client[c].phase = "open" /\ client[c].slot = s}

(* Without direct mode the connection count of a slot is the number of its  *)
(* connections, through reloads that drain and revive it.                   *)
ConnsExact == ~direct => \A s \in Slot : T.slot[s].conns = Cardinality(Charged(s))

(* per_secret_unique_ip_count is the number of entries in use, even when    *)
(* reloads switch the tracking on and off under live connections.           *)
UniqueIpsExact == \A s \in Slot :
    T.slot[s].unique = Cardinality({i \in Ip : T.slot[s].ips[i] > 0})

(* A connection's slot is never given to another secret while it lives: the *)
(* slot is in use and has the key the client proved.                        *)
SlotKept == \A s \in Slot : \A c \in Charged(s) :
                Used(T.slot, s) /\ T.slot[s].key = client[c].key

(* What limits a secret is right: its types, its connections, its           *)
(* addresses, and that these are the connections of this secret.            *)
CountsExact == TypeOK /\ ConnsExact /\ UniqueIpsExact /\ SlotKept

(* After a reload that returned 0, and whatever is swept later, the secrets *)
(* a client can use are the pinned ones and those of the configuration.     *)
ConfigApplied ==
    loaded.ok => {T.slot[s].key : s \in {s \in Slot : s < T.cnt /\ T.slot[s].state = "ACTIVE"}}
                 = {PinnedKey[p] : p \in 0 .. (Pinned - 1)}
                   \union Keys(loaded.config)

(* The two sides of a relay point at each other until one of them fails: a  *)
(* client left with a DC connection that is closed is about to be closed    *)
(* too, and a DC connection its client has given up has failed.             *)
PairsAgree ==
    /\ \A c \in Conn : client[c].extra # None =>
          \/ dc[client[c].extra].extra = c
          \/ dc[client[c].extra].phase = "gone" /\ client[c].failed
    /\ \A d \in Dc : dc[d].extra # None => dc[d].failed \/ client[dc[d].extra].extra = d

(* A slot that drains is released or revived: its connections cannot keep   *)
(* it for ever (without direct mode).                                       *)
DrainEnds == \A s \in Slot : (~direct /\ s < T.cnt /\ T.slot[s].state = "DRAINING")
                                 ~> (T.slot[s].state # "DRAINING" \/ s >= T.cnt)

(* When one side of a relay is closed the other follows.                    *)
PairEnds ==
    /\ \A d \in Dc : \A c \in Conn : (dc[d].extra = c /\ client[c].phase = "gone") ~> (dc[d].extra # c)
    /\ \A c \in Conn : (client[c].phase = "open" /\ client[c].extra # None
                            /\ dc[client[c].extra].phase = "gone") ~> (client[c].phase # "open")

(* The same of every slot in both modes, as the comment on the reload has   *)
(* it: "in-flight connections are kept until they close on their own or the *)
(* drain sweeper force-closes them after drain_timeout_secs".               *)
DrainAlwaysEnds == \A s \in Slot : (s < T.cnt /\ T.slot[s].state = "DRAINING")
                                       ~> (T.slot[s].state # "DRAINING" \/ s >= T.cnt)
=============================================================================
