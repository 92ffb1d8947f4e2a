----------------------------- MODULE ShimSocks5 -----------------------------
(***************************************************************************)
(* The localhost SOCKS5 shim, lib/src/shim_socks5.c: one accept thread, a  *)
(* detached thread per client connection (a tunnel), and the host thread   *)
(* that calls t3_shim_close.  They share struct t3_shim through atomics;   *)
(* every atomic access is a step of its own.                               *)
(*                                                                         *)
(* A tunnel reads the client's SOCKS5 handshake, opens a Type3 stream,     *)
(* repeats the handshake through it, answers the client and then splices   *)
(* the two streams until one side ends or the shim is stopping.  The       *)
(* Type3 stream is the reliable FIFO of MessageChannel here: srvK counts   *)
(* the messages in the socket, srvB those t3_client_pump has taken in.     *)
(***************************************************************************)
EXTENDS Integers, FiniteSets

CONSTANTS Tunnels,     \* client connections
          MaxTicks,    \* the 80 ticks of 50 ms that t3_shim_close waits
          MaxUp,       \* bound: bytes a client sends
          MaxDown      \* bound: messages the server sends on a tunnel

ASSUME ShimAssumption == IsFiniteSet(Tunnels) /\ {MaxTicks, MaxUp, MaxDown} \subseteq Nat

VARIABLES
  stopping, active_tunnels, bytes_up, bytes_down,    \* struct t3_shim
  listening, freed,    \* listen_fd is open; the struct has been freed
  accept_pc, close_pc, tick,
  pc,        \* of each tunnel thread
  counted,   \* the local of tunnel_thread
  rev,       \* revents of the splice poll
  cred,      \* the client knows the shim's credentials
  cli,       \* handshake messages the client has sent: 0..3
  srv,       \* handshake answers the server has given: 0..3
  reply,     \* what the client was answered: "none", "ok" or "failed"
  cliIn, cliEnd, reading,   \* client socket: unread bytes; "open", "fin", "hup"; it reads
  srvK, srvB, srvEnd,       \* server socket
  cliSent, upSent, srvSent, dnSent,   \* history: units per direction
  spliced,   \* history: tunnels that were counted when stopping was set
  used_freed \* history: tunnels that touched the freed struct

shimVars == <<stopping, active_tunnels, bytes_up, bytes_down>>
hostVars == <<listening, freed, accept_pc, close_pc, tick, spliced>>
peerVars == <<cred, cli, srv, cliIn, cliEnd, reading, srvK, srvEnd, cliSent, srvSent>>
flowVars == <<srvB, upSent, dnSent>>
vars == <<shimVars, hostVars, pc, counted, rev, reply, peerVars, flowVars, used_freed>>

\* t3_shim_open has succeeded: the listener is up and the accept thread runs.
Init ==
  /\ stopping = FALSE /\ active_tunnels = 0 /\ bytes_up = 0 /\ bytes_down = 0
  /\ listening = TRUE /\ freed = FALSE
  /\ accept_pc = "loop" /\ close_pc = "open" /\ tick = 0
  /\ pc = [t \in Tunnels |-> "none"]
  /\ counted = [t \in Tunnels |-> FALSE]
  /\ rev = [t \in Tunnels |-> {}]
  /\ cred \in [Tunnels -> BOOLEAN]
  /\ reply = [t \in Tunnels |-> "none"]
  /\ cliEnd = [t \in Tunnels |-> "open"] /\ srvEnd = [t \in Tunnels |-> "open"]
  /\ reading = [t \in Tunnels |-> TRUE]
  /\ LET zero == [t \in Tunnels |-> 0]
     IN  /\ cli = zero /\ srv = zero /\ cliIn = zero /\ srvK = zero /\ srvB = zero
         /\ cliSent = zero /\ upSent = zero /\ srvSent = zero /\ dnSent = zero
  /\ used_freed = {} /\ spliced = {}

-----------------------------------------------------------------------------
(* The two peers *)

Connect(t) ==
  /\ pc[t] = "none" /\ listening
  /\ pc' = [pc EXCEPT ![t] = "backlog"]
  /\ UNCHANGED <<shimVars, hostVars, counted, rev, reply, peerVars, flowVars, used_freed>>

Live(t) == pc[t] \notin {"none", "gone"}

\* What a client sends ahead of time waits in its socket: it is enough to
\* let it send what the tunnel is about to read.
ClientHandshake(t) ==
  /\ cliEnd[t] = "open"
  /\ <<pc[t], cli[t]>> \in {<<"greet", 0>>, <<"auth", 1>>, <<"request", 2>>}
  /\ cli' = [cli EXCEPT ![t] = @ + 1]
  /\ UNCHANGED <<shimVars, hostVars, pc, counted, rev, reply, cred, srv, cliIn, cliEnd, reading,
                 srvK, srvEnd, cliSent, srvSent, flowVars, used_freed>>

ClientSend(t) ==
  /\ Live(t) /\ cliEnd[t] = "open" /\ reply[t] = "ok" /\ cliSent[t] < MaxUp
  /\ cliSent' = [cliSent EXCEPT ![t] = @ + 1]
  /\ cliIn' = [cliIn EXCEPT ![t] = @ + 1]
  /\ UNCHANGED <<shimVars, hostVars, pc, counted, rev, reply, cred, cli, srv, cliEnd, reading,
                 srvK, srvEnd, srvSent, flowVars, used_freed>>

\* The client closes one or both directions, or no longer reads what a tunnel
\* is sending to it.
ClientQuit(t) ==
  /\ Live(t)
  /\ \/ cliEnd' \in {[cliEnd EXCEPT ![t] = e] : e \in {"fin", "hup"}}
        /\ cliEnd[t] = "open" /\ UNCHANGED reading
     \/ pc[t] = "send" /\ reading[t] /\ reading' = [reading EXCEPT ![t] = FALSE] /\ UNCHANGED cliEnd
  /\ UNCHANGED <<shimVars, hostVars, pc, counted, rev, reply, cred, cli, srv, cliIn,
                 srvK, srvEnd, cliSent, srvSent, flowVars, used_freed>>

\* The n-th answer: the stream is READY, the greeting and the CONNECT accepted.
Awaits(t) == CASE pc[t] = "wait"   -> 1
               [] pc[t] = "inner"  -> 2
               [] pc[t] = "target" -> 3
               [] OTHER            -> 0

ServerAnswer(t) ==
  /\ srvEnd[t] = "open" /\ Awaits(t) = srv[t] + 1
  /\ srv' = [srv EXCEPT ![t] = @ + 1]
  /\ UNCHANGED <<shimVars, hostVars, pc, counted, rev, reply, cred, cli, cliIn, cliEnd, reading,
                 srvK, srvEnd, cliSent, srvSent, flowVars, used_freed>>

ServerSend(t) ==
  /\ Live(t) /\ srvEnd[t] = "open" /\ srv[t] = 3 /\ srvSent[t] < MaxDown
  /\ srvSent' = [srvSent EXCEPT ![t] = @ + 1]
  /\ srvK' = [srvK EXCEPT ![t] = @ + 1]
  /\ UNCHANGED <<shimVars, hostVars, pc, counted, rev, reply, cred, cli, srv, cliIn, cliEnd,
                 reading, srvEnd, cliSent, flowVars, used_freed>>

ServerQuit(t) ==
  /\ Live(t) /\ srv[t] = 3 /\ srvEnd[t] = "open"
  /\ \E e \in {"fin", "hup"} : srvEnd' = [srvEnd EXCEPT ![t] = e]
  /\ UNCHANGED <<shimVars, hostVars, pc, counted, rev, reply, cred, cli, srv, cliIn, cliEnd,
                 reading, srvK, cliSent, srvSent, flowVars, used_freed>>

-----------------------------------------------------------------------------
(* accept_thread *)

AcceptLoop ==
  /\ accept_pc = "loop"
  /\ accept_pc' = IF stopping THEN "exit" ELSE "poll"
  /\ UNCHANGED <<shimVars, listening, freed, close_pc, tick, spliced, pc, counted, rev, reply,
                 peerVars, flowVars, used_freed>>

Waiting == {t \in Tunnels : pc[t] = "backlog"}

\* Faulty variant: the listener is polled without a timeout.
AcceptPollForever ==
  /\ accept_pc = "poll"
  /\ Waiting # {} /\ accept_pc' = "accept"
  /\ UNCHANGED <<shimVars, listening, freed, close_pc, tick, spliced, pc, counted, rev, reply,
                 peerVars, flowVars, used_freed>>

\* The 500 ms poll: it times out, or reports a connection or a closed descriptor.
AcceptPoll ==
  /\ accept_pc = "poll"
  /\ \/ accept_pc' = "loop"
     \/ (Waiting # {} \/ ~listening) /\ accept_pc' = "accept"
  /\ UNCHANGED <<shimVars, listening, freed, close_pc, tick, spliced, pc, counted, rev, reply,
                 peerVars, flowVars, used_freed>>

\* accept fails, or hands the connection to a new thread, or finds no
\* resources for one and closes it.
Accept ==
  /\ accept_pc = "accept"
  /\ accept_pc' = "loop"
  /\ \/ (~listening \/ Waiting = {}) /\ UNCHANGED pc
     \/ listening /\ \E t \in Waiting, next \in {"greet", "gone"} :
                       pc' = [pc EXCEPT ![t] = next]
  /\ UNCHANGED <<shimVars, listening, freed, close_pc, tick, spliced, counted, rev, reply,
                 peerVars, flowVars, used_freed>>

-----------------------------------------------------------------------------
(* tunnel_thread *)

Goto(t, next) == pc' = [pc EXCEPT ![t] = next]

\* What a tunnel that leaves through done, with an answer to the client, does.
Refuse(t) == Goto(t, "done") /\ reply' = [reply EXCEPT ![t] = "failed"]

\* A step of t that dereferences the shim; after the free it is undefined
\* and t is not followed any further.
Uses(t, Step) ==
  \/ freed /\ Goto(t, "undefined") /\ used_freed' = used_freed \cup {t}
     /\ UNCHANGED <<shimVars, counted, rev, reply, flowVars>>
  \/ ~freed /\ Step /\ UNCHANGED used_freed

\* The client sent its next handshake message, or closed instead.
ClientSays(t, n) == cli[t] >= n \/ cliEnd[t] # "open"

\* The greeting: a client that does not offer USERNAME/PASSWORD is refused.
Greet(t) ==
  /\ pc[t] = "greet" /\ ClientSays(t, 1)
  /\ \/ cli[t] >= 1 /\ Goto(t, "auth") /\ UNCHANGED reply
     \/ Goto(t, "done") /\ UNCHANGED reply
     \/ cli[t] >= 1 /\ Refuse(t)
  /\ UNCHANGED <<shimVars, hostVars, counted, rev, peerVars, flowVars, used_freed>>

\* Faulty variant: the refusal is sent and the handshake goes on.
AuthFallsThrough(t) ==
  /\ pc[t] = "auth" /\ ClientSays(t, 2)
  /\ IF cli[t] >= 2
       THEN Uses(t, /\ Goto(t, "request") /\ UNCHANGED <<shimVars, counted, rev, reply, flowVars>>)
       ELSE Goto(t, "done") /\ UNCHANGED <<shimVars, counted, rev, reply, flowVars, used_freed>>
  /\ UNCHANGED <<hostVars, peerVars>>

\* RFC 1929: the credentials are compared with those of the shim.
Auth(t) ==
  /\ pc[t] = "auth" /\ ClientSays(t, 2)
  /\ IF cli[t] >= 2
       THEN Uses(t, /\ IF cred[t] THEN Goto(t, "request") /\ UNCHANGED reply ELSE Refuse(t)
                    /\ UNCHANGED <<shimVars, counted, rev, flowVars>>)
       ELSE Goto(t, "done") /\ UNCHANGED <<shimVars, counted, rev, reply, flowVars, used_freed>>
  /\ UNCHANGED <<hostVars, peerVars>>

\* The CONNECT request; a malformed one is dropped without an answer.
Request(t) ==
  /\ pc[t] = "request" /\ ClientSays(t, 3)
  /\ \/ cli[t] >= 3 /\ Goto(t, "open") /\ UNCHANGED reply
     \/ Goto(t, "done") /\ UNCHANGED reply
     \/ cli[t] >= 3 /\ Refuse(t)
  /\ UNCHANGED <<shimVars, hostVars, counted, rev, peerVars, flowVars, used_freed>>

\* The URL and the secret are read from the shim; t3_client_create_tunnel.
Open(t) ==
  /\ pc[t] = "open"
  /\ Uses(t, /\ (Goto(t, "wait") /\ UNCHANGED reply) \/ Refuse(t)
             /\ UNCHANGED <<shimVars, counted, rev, flowVars>>)
  /\ UNCHANGED <<hostVars, peerVars>>

NextAwait == [wait |-> "inner", inner |-> "target", target |-> "answer"]

\* Faulty variant: no deadline.
AwaitForever(t) ==
  /\ Awaits(t) > 0
  /\ srv[t] >= Awaits(t) /\ Goto(t, NextAwait[pc[t]]) /\ UNCHANGED reply
  /\ UNCHANGED <<shimVars, hostVars, counted, rev, peerVars, flowVars, used_freed>>

\* tunnel_wait_ready and the two bounded tunnel_recv of the inner handshake:
\* the answer, or the deadline, an error or the peer's close.
Await(t) ==
  /\ Awaits(t) > 0
  /\ \/ srv[t] >= Awaits(t) /\ Goto(t, NextAwait[pc[t]]) /\ UNCHANGED reply
     \/ Refuse(t)
  /\ UNCHANGED <<shimVars, hostVars, counted, rev, peerVars, flowVars, used_freed>>

Answer(t) ==
  /\ pc[t] = "answer"
  /\ Goto(t, "count") /\ reply' = [reply EXCEPT ![t] = "ok"]
  /\ UNCHANGED <<shimVars, hostVars, counted, rev, peerVars, flowVars, used_freed>>

Count(t) ==
  /\ pc[t] = "count"
  /\ Uses(t, /\ active_tunnels' = active_tunnels + 1
             /\ counted' = [counted EXCEPT ![t] = TRUE]
             /\ Goto(t, "loop")
             /\ UNCHANGED <<stopping, bytes_up, bytes_down, rev, reply, flowVars>>)
  /\ UNCHANGED <<hostVars, peerVars>>

SpliceLoop(t) ==
  /\ pc[t] = "loop"
  /\ Uses(t, /\ Goto(t, IF stopping THEN "done" ELSE "poll")
             /\ UNCHANGED <<shimVars, counted, rev, reply, flowVars>>)
  /\ UNCHANGED <<hostVars, peerVars>>

\* poll returns what is ready now, which may be nothing after its 1000 ms;
\* an interrupted poll starts over, a failed one ends the tunnel.
Ready(t) ==
  {e \in {"cin", "chup", "sin", "shup"} :
     \/ e = "cin"  /\ (cliIn[t] > 0 \/ cliEnd[t] # "open")
     \/ e = "chup" /\ cliEnd[t] = "hup"
     \/ e = "sin"  /\ (srvK[t] > 0 \/ srvEnd[t] # "open")
     \/ e = "shup" /\ srvEnd[t] = "hup"}

SplicePoll(t) ==
  /\ pc[t] = "poll"
  /\ \/ rev' = [rev EXCEPT ![t] = Ready(t)] /\ Goto(t, "drain")
     \/ Goto(t, "loop") /\ UNCHANGED rev
     \/ Goto(t, "done") /\ UNCHANGED rev
  /\ UNCHANGED <<shimVars, hostVars, counted, reply, peerVars, flowVars, used_freed>>

PeerClosed(t) == srvEnd[t] # "open" /\ srvK[t] = 0

\* Faulty variant: the end of the stream is looked for before its data.
DrainChecksFirst(t) ==
  /\ pc[t] = "drain"
  /\ srvK' = [srvK EXCEPT ![t] = 0]
  /\ IF srvEnd[t] # "open" THEN srvB' = [srvB EXCEPT ![t] = @ + srvK[t]] /\ Goto(t, "eof")
     ELSE IF srvB[t] + srvK[t] > 0
       THEN srvB' = [srvB EXCEPT ![t] = @ + srvK[t] - 1] /\ Goto(t, "send")
       ELSE UNCHANGED srvB /\ Goto(t, "eof")
  /\ UNCHANGED <<shimVars, hostVars, counted, rev, reply, cred, cli, srv, cliIn, cliEnd, reading,
                 srvEnd, cliSent, srvSent, upSent, dnSent, used_freed>>

\* tunnel_recv with timeout 0: pump, then take one message, which may be
\* malformed, or look for the peer's close (pc "eof").
Drain(t) ==
  /\ pc[t] = "drain"
  /\ srvK' = [srvK EXCEPT ![t] = 0]
  /\ IF srvB[t] + srvK[t] > 0
       THEN srvB' = [srvB EXCEPT ![t] = @ + srvK[t] - 1] /\ (Goto(t, "send") \/ Goto(t, "done"))
       ELSE UNCHANGED srvB /\ Goto(t, "eof")
  /\ UNCHANGED <<shimVars, hostVars, counted, rev, reply, cred, cli, srv, cliIn, cliEnd, reading,
                 srvEnd, cliSent, srvSent, upSent, dnSent, used_freed>>

DrainEnd(t) ==
  /\ pc[t] = "eof"
  /\ Goto(t, IF PeerClosed(t) THEN "done" ELSE "check")
  /\ UNCHANGED <<shimVars, hostVars, counted, rev, reply, peerVars, flowVars, used_freed>>

\* send_all blocks while the client does not read.
SendAll(t) ==
  /\ pc[t] = "send"
  /\ \/ cliEnd[t] = "hup" /\ Goto(t, "done") /\ UNCHANGED dnSent
     \/ /\ cliEnd[t] # "hup" /\ reading[t]
        /\ dnSent' = [dnSent EXCEPT ![t] = @ + 1] /\ Goto(t, "addDown")
  /\ UNCHANGED <<shimVars, hostVars, counted, rev, reply, peerVars, srvB, upSent, used_freed>>

AddDown(t) ==
  /\ pc[t] = "addDown"
  /\ Uses(t, /\ bytes_down' = bytes_down + 1 /\ Goto(t, "drain")
             /\ UNCHANGED <<stopping, active_tunnels, bytes_up, counted, rev, reply, flowVars>>)
  /\ UNCHANGED <<hostVars, peerVars>>

\* The tests between the two directions, on the revents of this round.
SpliceCheck(t) ==
  /\ pc[t] = "check"
  /\ Goto(t, IF ("sin" \in rev[t] /\ PeerClosed(t)) \/ "shup" \in rev[t] THEN "done"
             ELSE IF "cin" \in rev[t] THEN "recv"
             ELSE IF "chup" \in rev[t] THEN "done"
             ELSE "loop")
  /\ UNCHANGED <<shimVars, hostVars, counted, rev, reply, peerVars, flowVars, used_freed>>

\* recv from the client, at most SHIM_BUF bytes (a unit), then tunnel_send,
\* which may fail; n = 0 is the client's close.
Recv(t) ==
  /\ pc[t] = "recv"
  /\ \/ /\ cliIn[t] > 0
        /\ cliIn' = [cliIn EXCEPT ![t] = @ - 1]
        /\ \/ upSent' = [upSent EXCEPT ![t] = @ + 1] /\ Goto(t, "addUp")
           \/ Goto(t, "done") /\ UNCHANGED upSent
     \/ cliIn[t] = 0 /\ Goto(t, "done") /\ UNCHANGED <<cliIn, upSent>>
  /\ UNCHANGED <<shimVars, hostVars, counted, rev, reply, cred, cli, srv, cliEnd, reading,
                 srvK, srvEnd, cliSent, srvSent, srvB, dnSent, used_freed>>

AddUp(t) ==
  /\ pc[t] = "addUp"
  /\ Uses(t, /\ bytes_up' = bytes_up + 1
             /\ Goto(t, IF "chup" \in rev[t] THEN "done" ELSE "loop")
             /\ UNCHANGED <<stopping, active_tunnels, bytes_down, counted, rev, reply, flowVars>>)
  /\ UNCHANGED <<hostVars, peerVars>>

\* Faulty variant: every tunnel that ends is subtracted.
DoneUncounted(t) ==
  /\ pc[t] = "done"
  /\ Uses(t, /\ active_tunnels' = active_tunnels - 1
             /\ counted' = [counted EXCEPT ![t] = FALSE] /\ Goto(t, "gone")
             /\ UNCHANGED <<stopping, bytes_up, bytes_down, rev, reply, flowVars>>)
  /\ UNCHANGED <<hostVars, peerVars>>

\* Only a tunnel that was counted touches the shim on its way out.
Done(t) ==
  /\ pc[t] = "done"
  /\ IF counted[t]
       THEN Uses(t, /\ active_tunnels' = active_tunnels - 1
                    /\ counted' = [counted EXCEPT ![t] = FALSE] /\ Goto(t, "gone")
                    /\ UNCHANGED <<stopping, bytes_up, bytes_down, rev, reply, flowVars>>)
       ELSE Goto(t, "gone")
            /\ UNCHANGED <<shimVars, counted, rev, reply, flowVars, used_freed>>
  /\ UNCHANGED <<hostVars, peerVars>>

Tunnel(t) ==
  \/ Greet(t) \/ Auth(t) \/ Request(t) \/ Open(t) \/ Await(t) \/ Answer(t) \/ Count(t)
  \/ SpliceLoop(t) \/ SplicePoll(t) \/ Drain(t) \/ DrainEnd(t) \/ SendAll(t) \/ AddDown(t)
  \/ SpliceCheck(t) \/ Recv(t) \/ AddUp(t) \/ Done(t)

-----------------------------------------------------------------------------
(* t3_shim_close, called once by the host *)

CloseStop ==
  /\ close_pc = "open"
  /\ stopping' = TRUE /\ close_pc' = "listener"
  /\ spliced' = {t \in Tunnels : counted[t]}
  /\ UNCHANGED <<active_tunnels, bytes_up, bytes_down, listening, freed, accept_pc, tick,
                 pc, counted, rev, reply, peerVars, flowVars, used_freed>>

\* Closing the listener resets the connections nobody has accepted.
CloseListener ==
  /\ close_pc = "listener"
  /\ listening' = FALSE /\ close_pc' = "join"
  /\ pc' = [t \in Tunnels |-> IF pc[t] = "backlog" THEN "gone" ELSE pc[t]]
  /\ UNCHANGED <<shimVars, freed, accept_pc, tick, spliced, counted, rev, reply, peerVars, flowVars,
                 used_freed>>

\* Faulty variant: the accept thread is not joined.
CloseNoJoin ==
  /\ close_pc = "join"
  /\ close_pc' = "drain"
  /\ UNCHANGED <<shimVars, listening, freed, accept_pc, tick, spliced, pc, counted, rev, reply,
                 peerVars, flowVars, used_freed>>

CloseJoin ==
  /\ close_pc = "join" /\ accept_pc = "exit"
  /\ close_pc' = "drain"
  /\ UNCHANGED <<shimVars, listening, freed, accept_pc, tick, spliced, pc, counted, rev, reply,
                 peerVars, flowVars, used_freed>>

\* Up to MaxTicks rounds of 50 ms, until no tunnel is counted.
CloseDrain ==
  /\ close_pc = "drain"
  /\ IF active_tunnels = 0 \/ tick = MaxTicks
       THEN close_pc' = "last" /\ UNCHANGED tick
       ELSE tick' = tick + 1 /\ UNCHANGED close_pc
  /\ UNCHANGED <<shimVars, listening, freed, accept_pc, spliced, pc, counted, rev, reply,
                 peerVars, flowVars, used_freed>>

\* Faulty variant: the shim is freed whatever the drain came to.
CloseLastFrees ==
  /\ close_pc = "last"
  /\ close_pc' = "free"
  /\ UNCHANGED <<shimVars, listening, freed, accept_pc, tick, spliced, pc, counted, rev, reply,
                 peerVars, flowVars, used_freed>>

\* "leak rather than UAF"
CloseLast ==
  /\ close_pc = "last"
  /\ close_pc' = IF active_tunnels # 0 THEN "returned" ELSE "free"
  /\ UNCHANGED <<shimVars, listening, freed, accept_pc, tick, spliced, pc, counted, rev, reply,
                 peerVars, flowVars, used_freed>>

CloseFree ==
  /\ close_pc = "free"
  /\ freed' = TRUE /\ close_pc' = "returned"
  /\ UNCHANGED <<shimVars, listening, accept_pc, tick, spliced, pc, counted, rev, reply,
                 peerVars, flowVars, used_freed>>

AcceptThread == AcceptLoop \/ AcceptPoll \/ Accept
CloseBody    == CloseListener \/ CloseJoin \/ CloseDrain \/ CloseLast \/ CloseFree
Peers(t) ==
  \/ Connect(t) \/ ClientHandshake(t) \/ ClientSend(t) \/ ClientQuit(t)
  \/ ServerAnswer(t) \/ ServerSend(t) \/ ServerQuit(t)

Next ==
  \/ AcceptThread \/ CloseStop \/ CloseBody
  \/ \E t \in Tunnels : Peers(t) \/ Tunnel(t)

Spec == Init /\ [][Next]_vars

\* Every thread keeps running (the peers need not), and the host's call, once
\* made, is executed.  AcceptLoop is the accept thread's check of stopping,
\* reached because poll has a timeout.
Fairness ==
  /\ WF_vars(AcceptThread)
  /\ WF_vars(CloseBody)
  /\ \A t \in Tunnels : WF_vars(Tunnel(t))

FairSpec == Spec /\ Fairness

-----------------------------------------------------------------------------
(* Properties *)

Phases == {"none", "backlog", "greet", "auth", "request", "open", "wait", "inner", "target",
           "answer", "count", "loop", "poll", "drain", "eof", "send", "addDown", "check",
           "recv", "addUp", "done", "gone", "undefined"}

TypeOK ==
  /\ {stopping, listening, freed} \subseteq BOOLEAN
  /\ {active_tunnels, bytes_up, bytes_down} \subseteq Nat /\ tick \in 0..MaxTicks
  /\ accept_pc \in {"loop", "poll", "accept", "exit"}
  /\ close_pc \in {"open", "listener", "join", "drain", "last", "free", "returned"}
  /\ pc \in [Tunnels -> Phases]
  /\ counted \in [Tunnels -> BOOLEAN] /\ cred \in [Tunnels -> BOOLEAN]
  /\ reading \in [Tunnels -> BOOLEAN]
  /\ rev \in [Tunnels -> SUBSET {"cin", "chup", "sin", "shup"}]
  /\ reply \in [Tunnels -> {"none", "ok", "failed"}]
  /\ cli \in [Tunnels -> 0..3] /\ srv \in [Tunnels -> 0..3]
  /\ cliEnd \in [Tunnels -> {"open", "fin", "hup"}]
  /\ srvEnd \in [Tunnels -> {"open", "fin", "hup"}]
  /\ {cliIn, cliSent, upSent} \subseteq [Tunnels -> 0..MaxUp]
  /\ {srvK, srvB, srvSent, dnSent} \subseteq [Tunnels -> 0..MaxDown]
  /\ used_freed \subseteq Tunnels /\ spliced \subseteq Tunnels

\* the units of all tunnels, of which each has at most max
Total(f, max) == Cardinality({u \in Tunnels \X (1..max) : u[2] <= f[u[1]]})
At(phase) == Cardinality({t \in Tunnels : pc[t] = phase})

\* t3_shim_stats: the gauge is the number of tunnels between their increment
\* and their decrement, and the byte counters miss only what a thread has sent
\* and not yet counted, whatever the interleaving of the tunnel threads.
StatsExact ==
  /\ TypeOK
  /\ used_freed = {} =>
       /\ active_tunnels = Cardinality({t \in Tunnels : counted[t]})
       /\ bytes_up + At("addUp") = Total(upSent, MaxUp)
       /\ bytes_down + At("addDown") = Total(dnSent, MaxDown)

\* A tunnel that was splicing when t3_shim_close began keeps the shim alive:
\* it is freed only once all of those have left, and after the accept thread
\* has ended, so neither ever touches freed memory.
SplicedKeepShim ==
  freed => accept_pc = "exit" /\ used_freed \cap spliced = {}

\* A connection reaches the Type3 server only for a client that proved it
\* knows the shim's credentials (tunnel_thread, D6).
OnlyAuthenticated ==
  \A t \in Tunnels : (srv[t] > 0 \/ reply[t] = "ok") => cred[t]

\* A tunnel that ends because one side has closed in an orderly way has
\* forwarded everything that side had sent (the order of the reads and the
\* close probes in the splice loop).
ServerEof(t) == pc[t] \in {"eof", "check"} /\ srvEnd[t] = "fin" /\ pc'[t] = "done"
ClientEof(t) == pc[t] = "recv" /\ cliIn[t] = 0 /\ pc'[t] = "done"
EofLosesNothing ==
  [][\A t \in Tunnels :
       /\ ServerEof(t) => dnSent[t] = srvSent[t]
       /\ ClientEof(t) => upSent[t] = cliSent[t]]_vars

\* t3_shim_close returns: the accept thread notices stopping within a poll
\* tick and the drain is bounded.
CloseReturns == (close_pc # "open") ~> (close_pc = "returned")

\* An authenticated client's CONNECT is answered, however silent the server
\* (TUNNEL_CONNECT_TIMEOUT_MS, TUNNEL_HANDSHAKE_TIMEOUT_MS), unless the shim
\* was freed meanwhile.
ConnectAnswered ==
  \A t \in Tunnels : (pc[t] = "open") ~> (reply[t] # "none" \/ freed)

\* The comment P4 of t3_shim_close: the shim is leaked rather than used after
\* it was freed.
NeverUsedAfterFree == used_freed = {}
=============================================================================
