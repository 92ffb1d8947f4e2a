-------------------------- MODULE ShimSocks5Proofs --------------------------
(***************************************************************************)
(* Proofs about ShimSocks5, for any finite number of tunnels and any       *)
(* amount of data either way.                                              *)
(*                                                                         *)
(* The properties are about what a reader outside the tunnel threads sees  *)
(* and none is inductive.  The gauge equals the number of threads that     *)
(* counted themselves, which is kept only because of where those threads   *)
(* are (CountShape); the byte counters lag the sockets by the threads that *)
(* have sent and not yet added (BytesShape); SplicedKeepShim needs to know *)
(* that close leaves its loop only with the gauge at zero, and that a      *)
(* thread in "spliced" is counted until it is gone (CloseShape);           *)
(* EofLosesNothing needs the balance of units taken, in hand and forwarded *)
(* (FlowShape) and what a hang-up event means (RevShape).                  *)
(***************************************************************************)
EXTENDS ShimSocks5, FiniteSetTheorems, TLAPS

\* The places of a tunnel thread that has counted itself.
Splicing == {"loop", "poll", "drain", "eof", "send", "addDown", "check", "recv", "addUp"}
\* ... and of one whose client has shown its credentials.
Trusted == {"request", "open", "wait", "inner", "target", "answer", "count"} \union Splicing
\* A thread that has left the loop may have lost a unit it had taken.
Over == {"done", "gone", "undefined"}

\* The threads active_tunnels stands for.
Counted == {t \in Tunnels : counted[t]}

\* The gauge counts the splicing threads, and only they are counted.
CountShape ==
  /\ active_tunnels = Cardinality(Counted)
  /\ \A t \in Tunnels : /\ pc[t] \in Splicing => counted[t]
                        /\ counted[t] => pc[t] \in Splicing \union {"done", "undefined"}

\* A counter lacks the unit of each thread that is about to add it.
BytesShape == used_freed = {} =>
  /\ bytes_up + At("addUp") = Total(upSent, MaxUp)
  /\ bytes_down + At("addDown") = Total(dnSent, MaxDown)

\* Whatever a client can see of the tunnel, it has authenticated for.
AuthShape ==
  \A t \in Tunnels : (pc[t] \in Trusted \/ srv[t] > 0 \/ reply[t] = "ok") => cred[t]

\* The unit that a thread has taken from the server and not yet sent.
InHand(t) == IF pc[t] = "send" THEN 1 ELSE 0

\* No unit is forwarded twice; none is dropped while the loop runs; the stream's
\* own buffer is empty where the loop looks for the end.
FlowShape == \A t \in Tunnels :
  /\ upSent[t] + cliIn[t] <= cliSent[t]
  /\ dnSent[t] + InHand(t) + srvB[t] + srvK[t] <= srvSent[t]
  /\ pc[t] \notin Over => /\ upSent[t] + cliIn[t] = cliSent[t]
                          /\ dnSent[t] + InHand(t) + srvB[t] + srvK[t] = srvSent[t]
  /\ pc[t] \in {"eof", "check"} => srvB[t] = 0

\* What poll reported is consistent with the sockets.
RevShape == \A t \in Tunnels : /\ "chup" \in rev[t] => "cin" \in rev[t]
                               /\ "shup" \in rev[t] => srvEnd[t] = "hup"

\* Where t3_shim_close has come to, what is over.
CloseShape ==
  /\ freed => close_pc = "returned"
  /\ close_pc \in {"drain", "last", "free"} \/ freed => accept_pc = "exit"
  /\ close_pc = "open" => spliced = {}
  /\ used_freed # {} => freed
  /\ \A t \in spliced : counted[t] \/ pc[t] = "gone"
  /\ close_pc = "free" \/ freed => \A t \in spliced : pc[t] = "gone"
  /\ \A t \in used_freed : pc[t] = "undefined"

IInv == TypeOK /\ CountShape /\ BytesShape /\ AuthShape /\ FlowShape /\ RevShape /\ CloseShape

\* The ranges of a tunnel's counters.
LEMMA FlowTypes ==
  ASSUME IInv, NEW t \in Tunnels
  PROVE  /\ MaxUp \in Nat /\ MaxDown \in Nat
         /\ upSent[t] \in 0..MaxUp /\ cliIn[t] \in 0..MaxUp /\ cliSent[t] \in 0..MaxUp
         /\ dnSent[t] \in 0..MaxDown /\ srvB[t] \in 0..MaxDown /\ srvK[t] \in 0..MaxDown
         /\ srvSent[t] \in 0..MaxDown /\ InHand(t) \in 0..1
         /\ upSent[t] + cliIn[t] <= cliSent[t]
         /\ dnSent[t] + InHand(t) + srvB[t] + srvK[t] <= srvSent[t]
  BY ShimAssumption DEF IInv, TypeOK, FlowShape, InHand

\* The gauge is a natural number, and positive when some thread is counted.
LEMMA CountedFinite ==
  ASSUME IInv
  PROVE  /\ IsFiniteSet(Counted) /\ Cardinality(Counted) \in Nat
         /\ \A t \in Tunnels : counted[t] => Cardinality(Counted) > 0
  <1>1. IsFiniteSet(Counted)
    BY ShimAssumption, FS_Subset DEF Counted
  <1>2. Cardinality(Counted) \in Nat
    BY <1>1, FS_CardinalityType
  <1>3. ASSUME NEW t \in Tunnels, counted[t] PROVE Cardinality(Counted) # 0
    <2>1. Counted # {}
      BY <1>3 DEF Counted
    <2>2. QED  BY <1>1, <2>1, FS_EmptySet
  <1>4. QED  BY <1>1, <1>2, <1>3

\* Every step keeps the types.
LEMMA TypeStep ==
  ASSUME IInv, Next
  PROVE  TypeOK'
  <1>1. ASSUME NEW t \in Tunnels, Connect(t) PROVE TypeOK'
    BY <1>1 DEF Connect, shimVars, hostVars, peerVars, flowVars, IInv, TypeOK, Phases
  <1>2. ASSUME NEW t \in Tunnels, ClientHandshake(t) PROVE TypeOK'
    BY <1>2 DEF ClientHandshake, shimVars, hostVars, peerVars, flowVars, IInv, TypeOK, Phases
  <1>3. ASSUME NEW t \in Tunnels, ClientSend(t) PROVE TypeOK'
    <2>1. cliSent[t] + 1 \in 0..MaxUp /\ cliIn[t] + 1 \in 0..MaxUp
      BY <1>3, FlowTypes DEF ClientSend
    <2>2. QED  BY <1>3, <2>1 DEF ClientSend, shimVars, hostVars, flowVars, IInv, TypeOK
  <1>4. ASSUME NEW t \in Tunnels, ClientQuit(t) PROVE TypeOK'
    BY <1>4, ZenonT(60) DEF ClientQuit, shimVars, hostVars, peerVars, flowVars, IInv, TypeOK, Phases
  <1>5. ASSUME NEW t \in Tunnels, ServerAnswer(t) PROVE TypeOK'
    BY <1>5 DEF ServerAnswer, Awaits, shimVars, hostVars, peerVars, flowVars, IInv, TypeOK,
       Phases
  <1>6. ASSUME NEW t \in Tunnels, ServerSend(t) PROVE TypeOK'
    <2>1. srvSent[t] + 1 \in 0..MaxDown /\ srvK[t] + 1 \in 0..MaxDown
      BY <1>6, FlowTypes DEF ServerSend
    <2>2. QED  BY <1>6, <2>1 DEF ServerSend, shimVars, hostVars, flowVars, IInv, TypeOK
  <1>7. ASSUME NEW t \in Tunnels, ServerQuit(t) PROVE TypeOK'
    BY <1>7 DEF ServerQuit, shimVars, hostVars, peerVars, flowVars, IInv, TypeOK, Phases
  <1>8. ASSUME NEW t \in Tunnels, Greet(t) PROVE TypeOK'
    BY <1>8 DEF Greet, ClientSays, Goto, Refuse, shimVars, hostVars, peerVars, flowVars, IInv,
       TypeOK, Phases
  <1>9. ASSUME NEW t \in Tunnels, Auth(t) PROVE TypeOK'
    BY <1>9 DEF Auth, ClientSays, Goto, Refuse, Uses, shimVars, hostVars, peerVars, flowVars,
       IInv, TypeOK, Phases
  <1>10. ASSUME NEW t \in Tunnels, Request(t) PROVE TypeOK'
    BY <1>10 DEF Request, ClientSays, Goto, Refuse, shimVars, hostVars, peerVars, flowVars,
       IInv, TypeOK, Phases
  <1>11. ASSUME NEW t \in Tunnels, Open(t) PROVE TypeOK'
    BY <1>11 DEF Open, Goto, Refuse, Uses, shimVars, hostVars, peerVars, flowVars, IInv, TypeOK,
       Phases
  <1>12. ASSUME NEW t \in Tunnels, Await(t) PROVE TypeOK'
    BY <1>12 DEF Await, Awaits, NextAwait, Goto, Refuse, shimVars, hostVars, peerVars, flowVars,
       IInv, TypeOK, Phases
  <1>13. ASSUME NEW t \in Tunnels, Answer(t) PROVE TypeOK'
    BY <1>13 DEF Answer, Goto, shimVars, hostVars, peerVars, flowVars, IInv, TypeOK, Phases
  <1>14. ASSUME NEW t \in Tunnels, Count(t) PROVE TypeOK'
    <2>1. active_tunnels' \in Nat /\ counted' \in [Tunnels -> BOOLEAN] /\ pc' \in [Tunnels -> Phases]
      <3>1. active_tunnels + 1 \in Nat
        BY DEF IInv, TypeOK
      <3>2. QED  BY <1>14, <3>1, ZenonT(60) DEF Count, Uses, Goto, shimVars, Phases, IInv, TypeOK
    <2>2. used_freed' \subseteq Tunnels /\ UNCHANGED <<stopping, bytes_up, bytes_down, rev, reply, flowVars, hostVars, peerVars>>
      BY <1>14 DEF Count, Uses, shimVars, IInv, TypeOK
    <2>3. QED  BY <2>1, <2>2 DEF hostVars, peerVars, flowVars, IInv, TypeOK
  <1>15. ASSUME NEW t \in Tunnels, SpliceLoop(t) PROVE TypeOK'
    BY <1>15 DEF SpliceLoop, Goto, Uses, shimVars, hostVars, peerVars, flowVars, IInv, TypeOK,
       Phases
  <1>16. ASSUME NEW t \in Tunnels, SplicePoll(t) PROVE TypeOK'
    BY <1>16 DEF SplicePoll, Goto, Ready, shimVars, hostVars, peerVars, flowVars, IInv, TypeOK,
       Phases
  <1>17. ASSUME NEW t \in Tunnels, Drain(t) PROVE TypeOK'
    <2>1. 0 \in 0..MaxDown /\ (srvB[t] + srvK[t] > 0 => srvB[t] + srvK[t] - 1 \in 0..MaxDown)
      BY FlowTypes
    <2>2. srvB' \in [Tunnels -> 0..MaxDown] /\ srvK' \in [Tunnels -> 0..MaxDown] /\ pc' \in [Tunnels -> Phases]
      BY <1>17, <2>1 DEF Drain, Goto, Phases, IInv, TypeOK
    <2>3. UNCHANGED <<shimVars, hostVars, counted, rev, reply, cred, cli, srv, cliIn, cliEnd, reading,
                      srvEnd, cliSent, srvSent, upSent, dnSent, used_freed>>
      BY <1>17 DEF Drain
    <2>4. QED  BY <2>2, <2>3 DEF shimVars, hostVars, IInv, TypeOK
  <1>18. ASSUME NEW t \in Tunnels, DrainEnd(t) PROVE TypeOK'
    BY <1>18 DEF DrainEnd, Goto, PeerClosed, shimVars, hostVars, peerVars, flowVars, IInv,
       TypeOK, Phases
  <1>19. ASSUME NEW t \in Tunnels, SendAll(t) PROVE TypeOK'
    <2>1. dnSent[t] + 1 \in 0..MaxDown
      BY <1>19, FlowTypes DEF SendAll, InHand
    <2>2. QED  BY <1>19, <2>1 DEF SendAll, Goto, shimVars, hostVars, peerVars, Phases, IInv,
                  TypeOK
  <1>20. ASSUME NEW t \in Tunnels, AddDown(t) PROVE TypeOK'
    BY <1>20 DEF AddDown, Goto, Uses, shimVars, hostVars, peerVars, flowVars, IInv, TypeOK,
       Phases
  <1>21. ASSUME NEW t \in Tunnels, SpliceCheck(t) PROVE TypeOK'
    BY <1>21 DEF SpliceCheck, Goto, PeerClosed, shimVars, hostVars, peerVars, flowVars, IInv,
       TypeOK, Phases
  <1>22. ASSUME NEW t \in Tunnels, Recv(t) PROVE TypeOK'
    <2>1. cliIn[t] > 0 => cliIn[t] - 1 \in 0..MaxUp /\ upSent[t] + 1 \in 0..MaxUp
      BY FlowTypes
    <2>2. QED  BY <1>22, <2>1 DEF Recv, Goto, shimVars, hostVars, Phases, IInv, TypeOK
  <1>23. ASSUME NEW t \in Tunnels, AddUp(t) PROVE TypeOK'
    BY <1>23 DEF AddUp, Goto, Uses, shimVars, hostVars, peerVars, flowVars, IInv, TypeOK,
       Phases
  <1>24. ASSUME NEW t \in Tunnels, Done(t) PROVE TypeOK'
    <2>1. counted[t] => active_tunnels - 1 \in Nat
      BY CountedFinite DEF IInv, CountShape
    <2>2. active_tunnels' \in Nat /\ counted' \in [Tunnels -> BOOLEAN] /\ pc' \in [Tunnels -> Phases]
      BY <1>24, <2>1, ZenonT(60) DEF Done, Uses, Goto, shimVars, Phases, IInv, TypeOK
    <2>3. used_freed' \subseteq Tunnels /\ UNCHANGED <<stopping, bytes_up, bytes_down, rev, reply, flowVars, hostVars, peerVars>>
      BY <1>24 DEF Done, Uses, shimVars, IInv, TypeOK
    <2>4. QED  BY <2>2, <2>3 DEF hostVars, peerVars, flowVars, IInv, TypeOK
  <1>25. CASE AcceptLoop
    BY <1>25 DEF AcceptLoop, shimVars, hostVars, peerVars, flowVars, IInv, TypeOK, Phases
  <1>26. CASE AcceptPoll
    BY <1>26 DEF AcceptPoll, Waiting, shimVars, hostVars, peerVars, flowVars, IInv, TypeOK,
       Phases
  <1>27. CASE Accept
    BY <1>27 DEF Accept, Waiting, shimVars, hostVars, peerVars, flowVars, IInv, TypeOK, Phases
  <1>28. CASE CloseStop
    BY <1>28 DEF CloseStop, shimVars, hostVars, peerVars, flowVars, IInv, TypeOK, Phases
  <1>29. CASE CloseListener
    BY <1>29 DEF CloseListener, shimVars, hostVars, peerVars, flowVars, IInv, TypeOK, Phases
  <1>30. CASE CloseJoin
    BY <1>30 DEF CloseJoin, shimVars, hostVars, peerVars, flowVars, IInv, TypeOK, Phases
  <1>31. CASE CloseDrain
    <2>1. tick' \in 0..MaxTicks
      BY <1>31, ShimAssumption DEF CloseDrain, IInv, TypeOK
    <2>2. QED  BY <1>31, <2>1 DEF CloseDrain, shimVars, peerVars, flowVars, IInv, TypeOK
  <1>32. CASE CloseLast
    BY <1>32 DEF CloseLast, shimVars, hostVars, peerVars, flowVars, IInv, TypeOK, Phases
  <1>33. CASE CloseFree
    BY <1>33 DEF CloseFree, shimVars, hostVars, peerVars, flowVars, IInv, TypeOK, Phases
  <1>34. QED
    BY <1>1, <1>2, <1>3, <1>4, <1>5, <1>6, <1>7, <1>8, <1>9, <1>10, <1>11, <1>12, <1>13, <1>14,
       <1>15, <1>16, <1>17, <1>18, <1>19, <1>20, <1>21, <1>22, <1>23, <1>24, <1>25, <1>26,
       <1>27, <1>28, <1>29, <1>30, <1>31, <1>32, <1>33 DEF Next, AcceptThread, CloseBody, Peers,
       Tunnel

\* No step of anyone gives a client that has not authenticated anything.
LEMMA AuthStep ==
  ASSUME IInv, Next
  PROVE  AuthShape'
  <1>1. ASSUME NEW t \in Tunnels, Connect(t) PROVE AuthShape'
    BY <1>1 DEF Connect, shimVars, hostVars, peerVars, flowVars, IInv, TypeOK, AuthShape,
       Trusted, Splicing
  <1>2. ASSUME NEW t \in Tunnels, ClientHandshake(t) PROVE AuthShape'
    BY <1>2 DEF ClientHandshake, shimVars, hostVars, peerVars, flowVars, IInv, TypeOK,
       AuthShape, Trusted, Splicing
  <1>3. ASSUME NEW t \in Tunnels, ClientSend(t) PROVE AuthShape'
    BY <1>3 DEF ClientSend, shimVars, hostVars, peerVars, flowVars, IInv, TypeOK, AuthShape,
       Trusted, Splicing
  <1>4. ASSUME NEW t \in Tunnels, ClientQuit(t) PROVE AuthShape'
    BY <1>4 DEF ClientQuit, shimVars, hostVars, peerVars, flowVars, IInv, TypeOK, AuthShape,
       Trusted, Splicing
  <1>5. ASSUME NEW t \in Tunnels, ServerAnswer(t) PROVE AuthShape'
    BY <1>5 DEF ServerAnswer, Awaits, shimVars, hostVars, peerVars, flowVars, IInv, TypeOK,
       AuthShape, Trusted, Splicing
  <1>6. ASSUME NEW t \in Tunnels, ServerSend(t) PROVE AuthShape'
    BY <1>6 DEF ServerSend, shimVars, hostVars, peerVars, flowVars, IInv, TypeOK, AuthShape,
       Trusted, Splicing
  <1>7. ASSUME NEW t \in Tunnels, ServerQuit(t) PROVE AuthShape'
    BY <1>7 DEF ServerQuit, shimVars, hostVars, peerVars, flowVars, IInv, TypeOK, AuthShape,
       Trusted, Splicing
  <1>8. ASSUME NEW t \in Tunnels, Greet(t) PROVE AuthShape'
    BY <1>8 DEF Greet, ClientSays, Goto, Refuse, shimVars, hostVars, peerVars, flowVars, IInv,
       TypeOK, AuthShape, Trusted, Splicing
  <1>9. ASSUME NEW t \in Tunnels, Auth(t) PROVE AuthShape'
    BY <1>9 DEF Auth, ClientSays, Goto, Refuse, Uses, shimVars, hostVars, peerVars, flowVars,
       IInv, TypeOK, AuthShape, Trusted, Splicing
  <1>10. ASSUME NEW t \in Tunnels, Request(t) PROVE AuthShape'
    BY <1>10 DEF Request, ClientSays, Goto, Refuse, shimVars, hostVars, peerVars, flowVars,
       IInv, TypeOK, AuthShape, Trusted, Splicing
  <1>11. ASSUME NEW t \in Tunnels, Open(t) PROVE AuthShape'
    BY <1>11 DEF Open, Goto, Refuse, Uses, shimVars, hostVars, peerVars, flowVars, IInv, TypeOK,
       AuthShape, Trusted, Splicing
  <1>12. ASSUME NEW t \in Tunnels, Await(t) PROVE AuthShape'
    BY <1>12 DEF Await, Awaits, NextAwait, Goto, Refuse, shimVars, hostVars, peerVars, flowVars,
       IInv, TypeOK, AuthShape, Trusted, Splicing
  <1>13. ASSUME NEW t \in Tunnels, Answer(t) PROVE AuthShape'
    BY <1>13 DEF Answer, Goto, shimVars, hostVars, peerVars, flowVars, IInv, TypeOK, AuthShape,
       Trusted, Splicing
  <1>14. ASSUME NEW t \in Tunnels, Count(t) PROVE AuthShape'
    BY <1>14 DEF Count, Goto, Uses, shimVars, hostVars, peerVars, flowVars, IInv, TypeOK,
       AuthShape, Trusted, Splicing
  <1>15. ASSUME NEW t \in Tunnels, SpliceLoop(t) PROVE AuthShape'
    BY <1>15 DEF SpliceLoop, Goto, Uses, shimVars, hostVars, peerVars, flowVars, IInv, TypeOK,
       AuthShape, Trusted, Splicing
  <1>16. ASSUME NEW t \in Tunnels, SplicePoll(t) PROVE AuthShape'
    BY <1>16 DEF SplicePoll, Goto, Ready, shimVars, hostVars, peerVars, flowVars, IInv, TypeOK,
       AuthShape, Trusted, Splicing
  <1>17. ASSUME NEW t \in Tunnels, Drain(t) PROVE AuthShape'
    BY <1>17 DEF Drain, Goto, shimVars, hostVars, peerVars, flowVars, IInv, TypeOK, AuthShape,
       Trusted, Splicing
  <1>18. ASSUME NEW t \in Tunnels, DrainEnd(t) PROVE AuthShape'
    BY <1>18 DEF DrainEnd, Goto, PeerClosed, shimVars, hostVars, peerVars, flowVars, IInv,
       TypeOK, AuthShape, Trusted, Splicing
  <1>19. ASSUME NEW t \in Tunnels, SendAll(t) PROVE AuthShape'
    BY <1>19 DEF SendAll, Goto, shimVars, hostVars, peerVars, flowVars, IInv, TypeOK, AuthShape,
       Trusted, Splicing
  <1>20. ASSUME NEW t \in Tunnels, AddDown(t) PROVE AuthShape'
    BY <1>20 DEF AddDown, Goto, Uses, shimVars, hostVars, peerVars, flowVars, IInv, TypeOK,
       AuthShape, Trusted, Splicing
  <1>21. ASSUME NEW t \in Tunnels, SpliceCheck(t) PROVE AuthShape'
    BY <1>21 DEF SpliceCheck, Goto, PeerClosed, shimVars, hostVars, peerVars, flowVars, IInv,
       TypeOK, AuthShape, Trusted, Splicing
  <1>22. ASSUME NEW t \in Tunnels, Recv(t) PROVE AuthShape'
    BY <1>22 DEF Recv, Goto, shimVars, hostVars, peerVars, flowVars, IInv, TypeOK, AuthShape,
       Trusted, Splicing
  <1>23. ASSUME NEW t \in Tunnels, AddUp(t) PROVE AuthShape'
    BY <1>23 DEF AddUp, Goto, Uses, shimVars, hostVars, peerVars, flowVars, IInv, TypeOK,
       AuthShape, Trusted, Splicing
  <1>24. ASSUME NEW t \in Tunnels, Done(t) PROVE AuthShape'
    BY <1>24 DEF Done, Goto, Uses, shimVars, hostVars, peerVars, flowVars, IInv, TypeOK,
       AuthShape, Trusted, Splicing
  <1>25. CASE AcceptLoop
    BY <1>25 DEF AcceptLoop, shimVars, hostVars, peerVars, flowVars, IInv, TypeOK, AuthShape,
       Trusted, Splicing
  <1>26. CASE AcceptPoll
    BY <1>26 DEF AcceptPoll, Waiting, shimVars, hostVars, peerVars, flowVars, IInv, TypeOK,
       AuthShape, Trusted, Splicing
  <1>27. CASE Accept
    BY <1>27 DEF Accept, Waiting, shimVars, hostVars, peerVars, flowVars, IInv, TypeOK,
       AuthShape, Trusted, Splicing
  <1>28. CASE CloseStop
    BY <1>28 DEF CloseStop, shimVars, hostVars, peerVars, flowVars, IInv, TypeOK, AuthShape,
       Trusted, Splicing
  <1>29. CASE CloseListener
    BY <1>29 DEF CloseListener, shimVars, hostVars, peerVars, flowVars, IInv, TypeOK, AuthShape,
       Trusted, Splicing
  <1>30. CASE CloseJoin
    BY <1>30 DEF CloseJoin, shimVars, hostVars, peerVars, flowVars, IInv, TypeOK, AuthShape,
       Trusted, Splicing
  <1>31. CASE CloseDrain
    BY <1>31 DEF CloseDrain, shimVars, hostVars, peerVars, flowVars, IInv, TypeOK, AuthShape,
       Trusted, Splicing
  <1>32. CASE CloseLast
    BY <1>32 DEF CloseLast, shimVars, hostVars, peerVars, flowVars, IInv, TypeOK, AuthShape,
       Trusted, Splicing
  <1>33. CASE CloseFree
    BY <1>33 DEF CloseFree, shimVars, hostVars, peerVars, flowVars, IInv, TypeOK, AuthShape,
       Trusted, Splicing
  <1>34. QED
    BY <1>1, <1>2, <1>3, <1>4, <1>5, <1>6, <1>7, <1>8, <1>9, <1>10, <1>11, <1>12, <1>13, <1>14,
       <1>15, <1>16, <1>17, <1>18, <1>19, <1>20, <1>21, <1>22, <1>23, <1>24, <1>25, <1>26,
       <1>27, <1>28, <1>29, <1>30, <1>31, <1>32, <1>33 DEF Next, AcceptThread, CloseBody, Peers,
       Tunnel

\* A poll result stays true until the next one: ends are final.
LEMMA RevStep ==
  ASSUME IInv, Next
  PROVE  RevShape'
  <1>1. ASSUME NEW t \in Tunnels, Connect(t) PROVE RevShape'
    BY <1>1 DEF Connect, shimVars, hostVars, peerVars, flowVars, IInv, TypeOK, RevShape
  <1>2. ASSUME NEW t \in Tunnels, ClientHandshake(t) PROVE RevShape'
    BY <1>2 DEF ClientHandshake, shimVars, hostVars, peerVars, flowVars, IInv, TypeOK, RevShape
  <1>3. ASSUME NEW t \in Tunnels, ClientSend(t) PROVE RevShape'
    BY <1>3 DEF ClientSend, shimVars, hostVars, peerVars, flowVars, IInv, TypeOK, RevShape
  <1>4. ASSUME NEW t \in Tunnels, ClientQuit(t) PROVE RevShape'
    BY <1>4 DEF ClientQuit, shimVars, hostVars, peerVars, flowVars, IInv, TypeOK, RevShape
  <1>5. ASSUME NEW t \in Tunnels, ServerAnswer(t) PROVE RevShape'
    BY <1>5 DEF ServerAnswer, Awaits, shimVars, hostVars, peerVars, flowVars, IInv, TypeOK,
       RevShape
  <1>6. ASSUME NEW t \in Tunnels, ServerSend(t) PROVE RevShape'
    BY <1>6 DEF ServerSend, shimVars, hostVars, peerVars, flowVars, IInv, TypeOK, RevShape
  <1>7. ASSUME NEW t \in Tunnels, ServerQuit(t) PROVE RevShape'
    BY <1>7 DEF ServerQuit, shimVars, hostVars, peerVars, flowVars, IInv, TypeOK, RevShape
  <1>8. ASSUME NEW t \in Tunnels, Greet(t) PROVE RevShape'
    BY <1>8 DEF Greet, ClientSays, Goto, Refuse, shimVars, hostVars, peerVars, flowVars, IInv,
       TypeOK, RevShape
  <1>9. ASSUME NEW t \in Tunnels, Auth(t) PROVE RevShape'
    BY <1>9 DEF Auth, ClientSays, Goto, Refuse, Uses, shimVars, hostVars, peerVars, flowVars,
       IInv, TypeOK, RevShape
  <1>10. ASSUME NEW t \in Tunnels, Request(t) PROVE RevShape'
    BY <1>10 DEF Request, ClientSays, Goto, Refuse, shimVars, hostVars, peerVars, flowVars,
       IInv, TypeOK, RevShape
  <1>11. ASSUME NEW t \in Tunnels, Open(t) PROVE RevShape'
    BY <1>11 DEF Open, Goto, Refuse, Uses, shimVars, hostVars, peerVars, flowVars, IInv, TypeOK,
       RevShape
  <1>12. ASSUME NEW t \in Tunnels, Await(t) PROVE RevShape'
    BY <1>12 DEF Await, Awaits, NextAwait, Goto, Refuse, shimVars, hostVars, peerVars, flowVars,
       IInv, TypeOK, RevShape
  <1>13. ASSUME NEW t \in Tunnels, Answer(t) PROVE RevShape'
    BY <1>13 DEF Answer, Goto, shimVars, hostVars, peerVars, flowVars, IInv, TypeOK, RevShape
  <1>14. ASSUME NEW t \in Tunnels, Count(t) PROVE RevShape'
    BY <1>14 DEF Count, Goto, Uses, shimVars, hostVars, peerVars, flowVars, IInv, TypeOK,
       RevShape
  <1>15. ASSUME NEW t \in Tunnels, SpliceLoop(t) PROVE RevShape'
    BY <1>15 DEF SpliceLoop, Goto, Uses, shimVars, hostVars, peerVars, flowVars, IInv, TypeOK,
       RevShape
  <1>16. ASSUME NEW t \in Tunnels, SplicePoll(t) PROVE RevShape'
    BY <1>16 DEF SplicePoll, Goto, Ready, shimVars, hostVars, peerVars, flowVars, IInv, TypeOK,
       RevShape
  <1>17. ASSUME NEW t \in Tunnels, Drain(t) PROVE RevShape'
    BY <1>17 DEF Drain, Goto, shimVars, hostVars, peerVars, flowVars, IInv, TypeOK, RevShape
  <1>18. ASSUME NEW t \in Tunnels, DrainEnd(t) PROVE RevShape'
    BY <1>18 DEF DrainEnd, Goto, PeerClosed, shimVars, hostVars, peerVars, flowVars, IInv,
       TypeOK, RevShape
  <1>19. ASSUME NEW t \in Tunnels, SendAll(t) PROVE RevShape'
    BY <1>19 DEF SendAll, Goto, shimVars, hostVars, peerVars, flowVars, IInv, TypeOK, RevShape
  <1>20. ASSUME NEW t \in Tunnels, AddDown(t) PROVE RevShape'
    BY <1>20 DEF AddDown, Goto, Uses, shimVars, hostVars, peerVars, flowVars, IInv, TypeOK,
       RevShape
  <1>21. ASSUME NEW t \in Tunnels, SpliceCheck(t) PROVE RevShape'
    BY <1>21 DEF SpliceCheck, Goto, PeerClosed, shimVars, hostVars, peerVars, flowVars, IInv,
       TypeOK, RevShape
  <1>22. ASSUME NEW t \in Tunnels, Recv(t) PROVE RevShape'
    BY <1>22 DEF Recv, Goto, shimVars, hostVars, peerVars, flowVars, IInv, TypeOK, RevShape
  <1>23. ASSUME NEW t \in Tunnels, AddUp(t) PROVE RevShape'
    BY <1>23 DEF AddUp, Goto, Uses, shimVars, hostVars, peerVars, flowVars, IInv, TypeOK,
       RevShape
  <1>24. ASSUME NEW t \in Tunnels, Done(t) PROVE RevShape'
    BY <1>24 DEF Done, Goto, Uses, shimVars, hostVars, peerVars, flowVars, IInv, TypeOK,
       RevShape
  <1>25. CASE AcceptLoop
    BY <1>25 DEF AcceptLoop, shimVars, hostVars, peerVars, flowVars, IInv, TypeOK, RevShape
  <1>26. CASE AcceptPoll
    BY <1>26 DEF AcceptPoll, Waiting, shimVars, hostVars, peerVars, flowVars, IInv, TypeOK,
       RevShape
  <1>27. CASE Accept
    BY <1>27 DEF Accept, Waiting, shimVars, hostVars, peerVars, flowVars, IInv, TypeOK,
       RevShape
  <1>28. CASE CloseStop
    BY <1>28 DEF CloseStop, shimVars, hostVars, peerVars, flowVars, IInv, TypeOK, RevShape
  <1>29. CASE CloseListener
    BY <1>29 DEF CloseListener, shimVars, hostVars, peerVars, flowVars, IInv, TypeOK, RevShape
  <1>30. CASE CloseJoin
    BY <1>30 DEF CloseJoin, shimVars, hostVars, peerVars, flowVars, IInv, TypeOK, RevShape
  <1>31. CASE CloseDrain
    BY <1>31 DEF CloseDrain, shimVars, hostVars, peerVars, flowVars, IInv, TypeOK, RevShape
  <1>32. CASE CloseLast
    BY <1>32 DEF CloseLast, shimVars, hostVars, peerVars, flowVars, IInv, TypeOK, RevShape
  <1>33. CASE CloseFree
    BY <1>33 DEF CloseFree, shimVars, hostVars, peerVars, flowVars, IInv, TypeOK, RevShape
  <1>34. QED
    BY <1>1, <1>2, <1>3, <1>4, <1>5, <1>6, <1>7, <1>8, <1>9, <1>10, <1>11, <1>12, <1>13, <1>14,
       <1>15, <1>16, <1>17, <1>18, <1>19, <1>20, <1>21, <1>22, <1>23, <1>24, <1>25, <1>26,
       <1>27, <1>28, <1>29, <1>30, <1>31, <1>32, <1>33 DEF Next, AcceptThread, CloseBody, Peers,
       Tunnel

\* A unit moves from one place of its tunnel to the next.
LEMMA FlowStep ==
  ASSUME IInv, Next
  PROVE  FlowShape'
  <1>1. ASSUME NEW t \in Tunnels, Connect(t) PROVE FlowShape'
    BY <1>1, FlowTypes DEF Connect, shimVars, hostVars, peerVars, flowVars, IInv, TypeOK,
       FlowShape, InHand, Over
  <1>2. ASSUME NEW t \in Tunnels, ClientHandshake(t) PROVE FlowShape'
    BY <1>2, FlowTypes DEF ClientHandshake, shimVars, hostVars, peerVars, flowVars, IInv,
       TypeOK, FlowShape, InHand, Over
  <1>3. ASSUME NEW t \in Tunnels, ClientSend(t) PROVE FlowShape'
    BY <1>3, FlowTypes DEF ClientSend, shimVars, hostVars, peerVars, flowVars, IInv, TypeOK,
       FlowShape, InHand, Over
  <1>4. ASSUME NEW t \in Tunnels, ClientQuit(t) PROVE FlowShape'
    BY <1>4, FlowTypes DEF ClientQuit, shimVars, hostVars, peerVars, flowVars, IInv, TypeOK,
       FlowShape, InHand, Over
  <1>5. ASSUME NEW t \in Tunnels, ServerAnswer(t) PROVE FlowShape'
    BY <1>5, FlowTypes DEF ServerAnswer, Awaits, shimVars, hostVars, peerVars, flowVars, IInv,
       TypeOK, FlowShape, InHand, Over
  <1>6. ASSUME NEW t \in Tunnels, ServerSend(t) PROVE FlowShape'
    <2>1. /\ srvSent'[t] = srvSent[t] + 1 /\ srvK'[t] = srvK[t] + 1
          /\ \A h \in Tunnels \ {t} : srvSent'[h] = srvSent[h] /\ srvK'[h] = srvK[h]
          /\ UNCHANGED <<pc, upSent, cliIn, cliSent, dnSent, srvB>>
      BY <1>6 DEF ServerSend, flowVars, IInv, TypeOK
    <2>2. \A h \in Tunnels : InHand(h)' = InHand(h)
      BY <2>1 DEF InHand
    <2>3. ASSUME NEW h \in Tunnels
          PROVE  /\ upSent'[h] + cliIn'[h] <= cliSent'[h]
                 /\ dnSent'[h] + InHand(h)' + srvB'[h] + srvK'[h] <= srvSent'[h]
                 /\ pc'[h] \notin Over => /\ upSent'[h] + cliIn'[h] = cliSent'[h]
                                          /\ dnSent'[h] + InHand(h)' + srvB'[h] + srvK'[h] = srvSent'[h]
                 /\ pc'[h] \in {"eof", "check"} => srvB'[h] = 0
      BY <2>1, <2>2, FlowTypes DEF IInv, FlowShape
    <2>4. QED  BY <2>3 DEF FlowShape, InHand
  <1>7. ASSUME NEW t \in Tunnels, ServerQuit(t) PROVE FlowShape'
    BY <1>7, FlowTypes DEF ServerQuit, shimVars, hostVars, peerVars, flowVars, IInv, TypeOK,
       FlowShape, InHand, Over
  <1>8. ASSUME NEW t \in Tunnels, Greet(t) PROVE FlowShape'
    BY <1>8, FlowTypes DEF Greet, ClientSays, Goto, Refuse, shimVars, hostVars, peerVars,
       flowVars, IInv, TypeOK, FlowShape, InHand, Over
  <1>9. ASSUME NEW t \in Tunnels, Auth(t) PROVE FlowShape'
    BY <1>9, FlowTypes DEF Auth, ClientSays, Goto, Refuse, Uses, shimVars, hostVars, peerVars,
       flowVars, IInv, TypeOK, FlowShape, InHand, Over
  <1>10. ASSUME NEW t \in Tunnels, Request(t) PROVE FlowShape'
    BY <1>10, FlowTypes DEF Request, ClientSays, Goto, Refuse, shimVars, hostVars, peerVars,
       flowVars, IInv, TypeOK, FlowShape, InHand, Over
  <1>11. ASSUME NEW t \in Tunnels, Open(t) PROVE FlowShape'
    BY <1>11, FlowTypes DEF Open, Goto, Refuse, Uses, shimVars, hostVars, peerVars, flowVars,
       IInv, TypeOK, FlowShape, InHand, Over
  <1>12. ASSUME NEW t \in Tunnels, Await(t) PROVE FlowShape'
    BY <1>12, FlowTypes DEF Await, Awaits, NextAwait, Goto, Refuse, shimVars, hostVars,
       peerVars, flowVars, IInv, TypeOK, FlowShape, InHand, Over
  <1>13. ASSUME NEW t \in Tunnels, Answer(t) PROVE FlowShape'
    BY <1>13, FlowTypes DEF Answer, Goto, shimVars, hostVars, peerVars, flowVars, IInv, TypeOK,
       FlowShape, InHand, Over
  <1>14. ASSUME NEW t \in Tunnels, Count(t) PROVE FlowShape'
    BY <1>14, FlowTypes DEF Count, Goto, Uses, shimVars, hostVars, peerVars, flowVars, IInv,
       TypeOK, FlowShape, InHand, Over
  <1>15. ASSUME NEW t \in Tunnels, SpliceLoop(t) PROVE FlowShape'
    BY <1>15, FlowTypes DEF SpliceLoop, Goto, Uses, shimVars, hostVars, peerVars, flowVars,
       IInv, TypeOK, FlowShape, InHand, Over
  <1>16. ASSUME NEW t \in Tunnels, SplicePoll(t) PROVE FlowShape'
    BY <1>16, FlowTypes DEF SplicePoll, Goto, Ready, shimVars, hostVars, peerVars, flowVars,
       IInv, TypeOK, FlowShape, InHand, Over
  <1>17. ASSUME NEW t \in Tunnels, Drain(t) PROVE FlowShape'
    BY <1>17, FlowTypes DEF Drain, Goto, shimVars, hostVars, peerVars, flowVars, IInv, TypeOK,
       FlowShape, InHand, Over
  <1>18. ASSUME NEW t \in Tunnels, DrainEnd(t) PROVE FlowShape'
    BY <1>18, FlowTypes DEF DrainEnd, Goto, PeerClosed, shimVars, hostVars, peerVars, flowVars,
       IInv, TypeOK, FlowShape, InHand, Over
  <1>19. ASSUME NEW t \in Tunnels, SendAll(t) PROVE FlowShape'
    BY <1>19, FlowTypes DEF SendAll, Goto, shimVars, hostVars, peerVars, flowVars, IInv, TypeOK,
       FlowShape, InHand, Over
  <1>20. ASSUME NEW t \in Tunnels, AddDown(t) PROVE FlowShape'
    BY <1>20, FlowTypes DEF AddDown, Goto, Uses, shimVars, hostVars, peerVars, flowVars, IInv,
       TypeOK, FlowShape, InHand, Over
  <1>21. ASSUME NEW t \in Tunnels, SpliceCheck(t) PROVE FlowShape'
    BY <1>21, FlowTypes DEF SpliceCheck, Goto, PeerClosed, shimVars, hostVars, peerVars,
       flowVars, IInv, TypeOK, FlowShape, InHand, Over
  <1>22. ASSUME NEW t \in Tunnels, Recv(t) PROVE FlowShape'
    <2>1. /\ pc[t] = "recv" /\ pc' = [pc EXCEPT ![t] = pc'[t]] /\ pc'[t] \in {"addUp", "done"}
          /\ \/ cliIn[t] > 0 /\ cliIn'[t] = cliIn[t] - 1 /\ upSent'[t] = upSent[t] + 1
             \/ cliIn[t] > 0 /\ cliIn'[t] = cliIn[t] - 1 /\ upSent'[t] = upSent[t] /\ pc'[t] = "done"
             \/ cliIn[t] = 0 /\ cliIn'[t] = cliIn[t] /\ upSent'[t] = upSent[t]
          /\ \A h \in Tunnels \ {t} : cliIn'[h] = cliIn[h] /\ upSent'[h] = upSent[h] /\ pc'[h] = pc[h]
          /\ UNCHANGED <<cliSent, srvSent, dnSent, srvB, srvK>>
      BY <1>22 DEF Recv, Goto, IInv, TypeOK
    <2>2. \A h \in Tunnels : InHand(h)' = InHand(h)
      BY <2>1 DEF InHand
    <2>3. ASSUME NEW h \in Tunnels
          PROVE  /\ upSent'[h] + cliIn'[h] <= cliSent'[h]
                 /\ dnSent'[h] + InHand(h)' + srvB'[h] + srvK'[h] <= srvSent'[h]
                 /\ pc'[h] \notin Over => /\ upSent'[h] + cliIn'[h] = cliSent'[h]
                                          /\ dnSent'[h] + InHand(h)' + srvB'[h] + srvK'[h] = srvSent'[h]
                 /\ pc'[h] \in {"eof", "check"} => srvB'[h] = 0
      BY <2>1, <2>2, FlowTypes DEF IInv, FlowShape, Over
    <2>4. QED  BY <2>3 DEF FlowShape, InHand
  <1>23. ASSUME NEW t \in Tunnels, AddUp(t) PROVE FlowShape'
    BY <1>23, FlowTypes DEF AddUp, Goto, Uses, shimVars, hostVars, peerVars, flowVars, IInv,
       TypeOK, FlowShape, InHand, Over
  <1>24. ASSUME NEW t \in Tunnels, Done(t) PROVE FlowShape'
    BY <1>24, FlowTypes DEF Done, Goto, Uses, shimVars, hostVars, peerVars, flowVars, IInv,
       TypeOK, FlowShape, InHand, Over
  <1>25. CASE AcceptLoop
    BY <1>25, FlowTypes DEF AcceptLoop, shimVars, hostVars, peerVars, flowVars, IInv, TypeOK,
       FlowShape, InHand, Over
  <1>26. CASE AcceptPoll
    BY <1>26, FlowTypes DEF AcceptPoll, Waiting, shimVars, hostVars, peerVars, flowVars, IInv,
       TypeOK, FlowShape, InHand, Over
  <1>27. CASE Accept
    BY <1>27, FlowTypes DEF Accept, Waiting, shimVars, hostVars, peerVars, flowVars, IInv,
       TypeOK, FlowShape, InHand, Over
  <1>28. CASE CloseStop
    BY <1>28, FlowTypes DEF CloseStop, shimVars, hostVars, peerVars, flowVars, IInv, TypeOK,
       FlowShape, InHand, Over
  <1>29. CASE CloseListener
    BY <1>29, FlowTypes DEF CloseListener, shimVars, hostVars, peerVars, flowVars, IInv, TypeOK,
       FlowShape, InHand, Over
  <1>30. CASE CloseJoin
    BY <1>30, FlowTypes DEF CloseJoin, shimVars, hostVars, peerVars, flowVars, IInv, TypeOK,
       FlowShape, InHand, Over
  <1>31. CASE CloseDrain
    BY <1>31, FlowTypes DEF CloseDrain, shimVars, hostVars, peerVars, flowVars, IInv, TypeOK,
       FlowShape, InHand, Over
  <1>32. CASE CloseLast
    BY <1>32, FlowTypes DEF CloseLast, shimVars, hostVars, peerVars, flowVars, IInv, TypeOK,
       FlowShape, InHand, Over
  <1>33. CASE CloseFree
    BY <1>33, FlowTypes DEF CloseFree, shimVars, hostVars, peerVars, flowVars, IInv, TypeOK,
       FlowShape, InHand, Over
  <1>34. QED
    BY <1>1, <1>2, <1>3, <1>4, <1>5, <1>6, <1>7, <1>8, <1>9, <1>10, <1>11, <1>12, <1>13, <1>14,
       <1>15, <1>16, <1>17, <1>18, <1>19, <1>20, <1>21, <1>22, <1>23, <1>24, <1>25, <1>26,
       <1>27, <1>28, <1>29, <1>30, <1>31, <1>32, <1>33 DEF Next, AcceptThread, CloseBody, Peers,
       Tunnel

\* The struct is freed after its users left.
LEMMA CloseStep ==
  ASSUME IInv, Next
  PROVE  CloseShape'
  <1>1. ASSUME NEW t \in Tunnels, Connect(t) PROVE CloseShape'
    BY <1>1 DEF Connect, shimVars, hostVars, peerVars, flowVars, IInv, TypeOK, CloseShape,
       CountShape, Splicing
  <1>2. ASSUME NEW t \in Tunnels, ClientHandshake(t) PROVE CloseShape'
    BY <1>2 DEF ClientHandshake, shimVars, hostVars, peerVars, flowVars, IInv, TypeOK,
       CloseShape, CountShape, Splicing
  <1>3. ASSUME NEW t \in Tunnels, ClientSend(t) PROVE CloseShape'
    BY <1>3 DEF ClientSend, shimVars, hostVars, peerVars, flowVars, IInv, TypeOK, CloseShape,
       CountShape, Splicing
  <1>4. ASSUME NEW t \in Tunnels, ClientQuit(t) PROVE CloseShape'
    BY <1>4 DEF ClientQuit, shimVars, hostVars, peerVars, flowVars, IInv, TypeOK, CloseShape,
       CountShape, Splicing
  <1>5. ASSUME NEW t \in Tunnels, ServerAnswer(t) PROVE CloseShape'
    BY <1>5 DEF ServerAnswer, Awaits, shimVars, hostVars, peerVars, flowVars, IInv, TypeOK,
       CloseShape, CountShape, Splicing
  <1>6. ASSUME NEW t \in Tunnels, ServerSend(t) PROVE CloseShape'
    BY <1>6 DEF ServerSend, shimVars, hostVars, peerVars, flowVars, IInv, TypeOK, CloseShape,
       CountShape, Splicing
  <1>7. ASSUME NEW t \in Tunnels, ServerQuit(t) PROVE CloseShape'
    BY <1>7 DEF ServerQuit, shimVars, hostVars, peerVars, flowVars, IInv, TypeOK, CloseShape,
       CountShape, Splicing
  <1>8. ASSUME NEW t \in Tunnels, Greet(t) PROVE CloseShape'
    BY <1>8 DEF Greet, ClientSays, Goto, Refuse, shimVars, hostVars, peerVars, flowVars, IInv,
       TypeOK, CloseShape, CountShape, Splicing
  <1>9. ASSUME NEW t \in Tunnels, Auth(t) PROVE CloseShape'
    BY <1>9 DEF Auth, ClientSays, Goto, Refuse, Uses, shimVars, hostVars, peerVars, flowVars,
       IInv, TypeOK, CloseShape, CountShape, Splicing
  <1>10. ASSUME NEW t \in Tunnels, Request(t) PROVE CloseShape'
    BY <1>10 DEF Request, ClientSays, Goto, Refuse, shimVars, hostVars, peerVars, flowVars,
       IInv, TypeOK, CloseShape, CountShape, Splicing
  <1>11. ASSUME NEW t \in Tunnels, Open(t) PROVE CloseShape'
    BY <1>11 DEF Open, Goto, Refuse, Uses, shimVars, hostVars, peerVars, flowVars, IInv, TypeOK,
       CloseShape, CountShape, Splicing
  <1>12. ASSUME NEW t \in Tunnels, Await(t) PROVE CloseShape'
    BY <1>12 DEF Await, Awaits, NextAwait, Goto, Refuse, shimVars, hostVars, peerVars, flowVars,
       IInv, TypeOK, CloseShape, CountShape, Splicing
  <1>13. ASSUME NEW t \in Tunnels, Answer(t) PROVE CloseShape'
    BY <1>13 DEF Answer, Goto, shimVars, hostVars, peerVars, flowVars, IInv, TypeOK, CloseShape,
       CountShape, Splicing
  <1>14. ASSUME NEW t \in Tunnels, Count(t) PROVE CloseShape'
    BY <1>14 DEF Count, Goto, Uses, shimVars, hostVars, peerVars, flowVars, IInv, TypeOK,
       CloseShape, CountShape, Splicing
  <1>15. ASSUME NEW t \in Tunnels, SpliceLoop(t) PROVE CloseShape'
    BY <1>15 DEF SpliceLoop, Goto, Uses, shimVars, hostVars, peerVars, flowVars, IInv, TypeOK,
       CloseShape, CountShape, Splicing
  <1>16. ASSUME NEW t \in Tunnels, SplicePoll(t) PROVE CloseShape'
    BY <1>16 DEF SplicePoll, Goto, Ready, shimVars, hostVars, peerVars, flowVars, IInv, TypeOK,
       CloseShape, CountShape, Splicing
  <1>17. ASSUME NEW t \in Tunnels, Drain(t) PROVE CloseShape'
    BY <1>17 DEF Drain, Goto, shimVars, hostVars, peerVars, flowVars, IInv, TypeOK, CloseShape,
       CountShape, Splicing
  <1>18. ASSUME NEW t \in Tunnels, DrainEnd(t) PROVE CloseShape'
    BY <1>18 DEF DrainEnd, Goto, PeerClosed, shimVars, hostVars, peerVars, flowVars, IInv,
       TypeOK, CloseShape, CountShape, Splicing
  <1>19. ASSUME NEW t \in Tunnels, SendAll(t) PROVE CloseShape'
    BY <1>19 DEF SendAll, Goto, shimVars, hostVars, peerVars, flowVars, IInv, TypeOK,
       CloseShape, CountShape, Splicing
  <1>20. ASSUME NEW t \in Tunnels, AddDown(t) PROVE CloseShape'
    BY <1>20 DEF AddDown, Goto, Uses, shimVars, hostVars, peerVars, flowVars, IInv, TypeOK,
       CloseShape, CountShape, Splicing
  <1>21. ASSUME NEW t \in Tunnels, SpliceCheck(t) PROVE CloseShape'
    BY <1>21 DEF SpliceCheck, Goto, PeerClosed, shimVars, hostVars, peerVars, flowVars, IInv,
       TypeOK, CloseShape, CountShape, Splicing
  <1>22. ASSUME NEW t \in Tunnels, Recv(t) PROVE CloseShape'
    BY <1>22 DEF Recv, Goto, shimVars, hostVars, peerVars, flowVars, IInv, TypeOK, CloseShape,
       CountShape, Splicing
  <1>23. ASSUME NEW t \in Tunnels, AddUp(t) PROVE CloseShape'
    BY <1>23 DEF AddUp, Goto, Uses, shimVars, hostVars, peerVars, flowVars, IInv, TypeOK,
       CloseShape, CountShape, Splicing
  <1>24. ASSUME NEW t \in Tunnels, Done(t) PROVE CloseShape'
    BY <1>24 DEF Done, Goto, Uses, shimVars, hostVars, peerVars, flowVars, IInv, TypeOK,
       CloseShape, CountShape, Splicing
  <1>25. CASE AcceptLoop
    BY <1>25 DEF AcceptLoop, shimVars, hostVars, peerVars, flowVars, IInv, TypeOK, CloseShape,
       CountShape, Splicing
  <1>26. CASE AcceptPoll
    BY <1>26 DEF AcceptPoll, Waiting, shimVars, hostVars, peerVars, flowVars, IInv, TypeOK,
       CloseShape, CountShape, Splicing
  <1>27. CASE Accept
    BY <1>27 DEF Accept, Waiting, shimVars, hostVars, peerVars, flowVars, IInv, TypeOK,
       CloseShape, CountShape, Splicing
  <1>28. CASE CloseStop
    BY <1>28 DEF CloseStop, shimVars, hostVars, peerVars, flowVars, IInv, TypeOK, CloseShape,
       CountShape, Splicing
  <1>29. CASE CloseListener
    BY <1>29 DEF CloseListener, shimVars, hostVars, peerVars, flowVars, IInv, TypeOK,
       CloseShape, CountShape, Splicing
  <1>30. CASE CloseJoin
    BY <1>30 DEF CloseJoin, shimVars, hostVars, peerVars, flowVars, IInv, TypeOK, CloseShape,
       CountShape, Splicing
  <1>31. CASE CloseDrain
    BY <1>31 DEF CloseDrain, shimVars, hostVars, peerVars, flowVars, IInv, TypeOK, CloseShape,
       CountShape, Splicing
  <1>32. CASE CloseLast
    <2>1. close_pc' = "free" => \A t \in Tunnels : ~counted[t]
      BY <1>32, CountedFinite DEF CloseLast, IInv, TypeOK, CountShape
    <2>2. QED  BY <1>32, <2>1 DEF CloseLast, IInv, TypeOK, CloseShape
  <1>33. CASE CloseFree
    BY <1>33 DEF CloseFree, shimVars, hostVars, peerVars, flowVars, IInv, TypeOK, CloseShape,
       CountShape, Splicing
  <1>34. QED
    BY <1>1, <1>2, <1>3, <1>4, <1>5, <1>6, <1>7, <1>8, <1>9, <1>10, <1>11, <1>12, <1>13, <1>14,
       <1>15, <1>16, <1>17, <1>18, <1>19, <1>20, <1>21, <1>22, <1>23, <1>24, <1>25, <1>26,
       <1>27, <1>28, <1>29, <1>30, <1>31, <1>32, <1>33 DEF Next, AcceptThread, CloseBody, Peers,
       Tunnel

\* A step that neither counts nor moves a thread into or out of the loop.
LEMMA CountSame ==
  ASSUME IInv, UNCHANGED <<counted, active_tunnels>>,
         \A h \in Tunnels : /\ pc'[h] \in Splicing => counted'[h]
                            /\ counted'[h] => pc'[h] \in Splicing \union {"done", "undefined"}
  PROVE  CountShape'
  <1>1. Counted' = Counted
    BY DEF Counted
  <1>2. QED  BY <1>1 DEF IInv, CountShape

\* Count and Done move the gauge together with the thread.
LEMMA CountStep ==
  ASSUME IInv, Next
  PROVE  CountShape'
  <1>1. ASSUME NEW t \in Tunnels, Connect(t) PROVE CountShape'
    BY <1>1 DEF Connect, shimVars, hostVars, peerVars, flowVars, IInv, TypeOK, CountShape,
       CloseShape, Counted, Splicing
  <1>2. ASSUME NEW t \in Tunnels, ClientHandshake(t) PROVE CountShape'
    BY <1>2 DEF ClientHandshake, shimVars, hostVars, peerVars, flowVars, IInv, TypeOK,
       CountShape, CloseShape, Counted, Splicing
  <1>3. ASSUME NEW t \in Tunnels, ClientSend(t) PROVE CountShape'
    BY <1>3 DEF ClientSend, shimVars, hostVars, peerVars, flowVars, IInv, TypeOK, CountShape,
       CloseShape, Counted, Splicing
  <1>4. ASSUME NEW t \in Tunnels, ClientQuit(t) PROVE CountShape'
    BY <1>4 DEF ClientQuit, shimVars, hostVars, peerVars, flowVars, IInv, TypeOK, CountShape,
       CloseShape, Counted, Splicing
  <1>5. ASSUME NEW t \in Tunnels, ServerAnswer(t) PROVE CountShape'
    BY <1>5 DEF ServerAnswer, Awaits, shimVars, hostVars, peerVars, flowVars, IInv, TypeOK,
       CountShape, CloseShape, Counted, Splicing
  <1>6. ASSUME NEW t \in Tunnels, ServerSend(t) PROVE CountShape'
    BY <1>6 DEF ServerSend, shimVars, hostVars, peerVars, flowVars, IInv, TypeOK, CountShape,
       CloseShape, Counted, Splicing
  <1>7. ASSUME NEW t \in Tunnels, ServerQuit(t) PROVE CountShape'
    BY <1>7 DEF ServerQuit, shimVars, hostVars, peerVars, flowVars, IInv, TypeOK, CountShape,
       CloseShape, Counted, Splicing
  <1>8. ASSUME NEW t \in Tunnels, Greet(t) PROVE CountShape'
    BY <1>8 DEF Greet, ClientSays, Goto, Refuse, shimVars, hostVars, peerVars, flowVars, IInv,
       TypeOK, CountShape, CloseShape, Counted, Splicing
  <1>9. ASSUME NEW t \in Tunnels, Auth(t) PROVE CountShape'
    <2>1. UNCHANGED <<counted, active_tunnels>>
      BY <1>9 DEF Auth, ClientSays, Goto, Refuse, Uses, shimVars
    <2>2. \A h \in Tunnels : /\ pc'[h] \in Splicing => counted'[h]
                             /\ counted'[h] => pc'[h] \in Splicing \union {"done", "undefined"}
      BY <1>9, <2>1 DEF Auth, ClientSays, Goto, Refuse, Uses, shimVars, IInv, TypeOK,
         CountShape, Splicing
    <2>3. QED  BY <2>1, <2>2, CountSame
  <1>10. ASSUME NEW t \in Tunnels, Request(t) PROVE CountShape'
    BY <1>10 DEF Request, ClientSays, Goto, Refuse, shimVars, hostVars, peerVars, flowVars,
       IInv, TypeOK, CountShape, CloseShape, Counted, Splicing
  <1>11. ASSUME NEW t \in Tunnels, Open(t) PROVE CountShape'
    <2>1. UNCHANGED <<counted, active_tunnels>>
      BY <1>11 DEF Open, Goto, Refuse, Uses, shimVars
    <2>2. \A h \in Tunnels : /\ pc'[h] \in Splicing => counted'[h]
                             /\ counted'[h] => pc'[h] \in Splicing \union {"done", "undefined"}
      BY <1>11, <2>1 DEF Open, Goto, Refuse, Uses, shimVars, IInv, TypeOK, CountShape, Splicing
    <2>3. QED  BY <2>1, <2>2, CountSame
  <1>12. ASSUME NEW t \in Tunnels, Await(t) PROVE CountShape'
    BY <1>12 DEF Await, Awaits, NextAwait, Goto, Refuse, shimVars, hostVars, peerVars, flowVars,
       IInv, TypeOK, CountShape, CloseShape, Counted, Splicing
  <1>13. ASSUME NEW t \in Tunnels, Answer(t) PROVE CountShape'
    BY <1>13 DEF Answer, Goto, shimVars, hostVars, peerVars, flowVars, IInv, TypeOK, CountShape,
       CloseShape, Counted, Splicing
  <1>14. ASSUME NEW t \in Tunnels, Count(t) PROVE CountShape'
    <2>1. CASE freed
      <3>1. UNCHANGED <<counted, active_tunnels>>
        BY <1>14, <2>1 DEF Count, Goto, Uses, shimVars
      <3>2. \A h \in Tunnels : /\ pc'[h] \in Splicing => counted'[h]
                               /\ counted'[h] => pc'[h] \in Splicing \union {"done", "undefined"}
        BY <1>14, <2>1, <3>1 DEF Count, Goto, Uses, shimVars, IInv, TypeOK, CountShape,
           Splicing
      <3>3. QED  BY <3>1, <3>2, CountSame
    <2>2. CASE ~freed
      <3>1. /\ pc[t] = "count" /\ active_tunnels' = active_tunnels + 1
            /\ counted' = [counted EXCEPT ![t] = TRUE] /\ pc' = [pc EXCEPT ![t] = "loop"]
        BY <1>14, <2>2 DEF Count, Goto, Uses
      <3>2. ~counted[t]
        BY <3>1 DEF IInv, CountShape, Splicing
      <3>3. Counted' = Counted \union {t}
        BY <3>1 DEF Counted, IInv, TypeOK
      <3>4. Cardinality(Counted') = Cardinality(Counted) + 1
        BY <3>2, <3>3, CountedFinite, FS_AddElement DEF Counted
      <3>5. QED  BY <3>1, <3>4 DEF IInv, TypeOK, CountShape, Splicing
    <2>3. QED  BY <2>1, <2>2
  <1>15. ASSUME NEW t \in Tunnels, SpliceLoop(t) PROVE CountShape'
    <2>1. UNCHANGED <<counted, active_tunnels>>
      BY <1>15 DEF SpliceLoop, Goto, Uses, shimVars
    <2>2. \A h \in Tunnels : /\ pc'[h] \in Splicing => counted'[h]
                             /\ counted'[h] => pc'[h] \in Splicing \union {"done", "undefined"}
      BY <1>15, <2>1 DEF SpliceLoop, Goto, Uses, shimVars, IInv, TypeOK, CountShape, Splicing
    <2>3. QED  BY <2>1, <2>2, CountSame
  <1>16. ASSUME NEW t \in Tunnels, SplicePoll(t) PROVE CountShape'
    BY <1>16 DEF SplicePoll, Goto, Ready, shimVars, hostVars, peerVars, flowVars, IInv, TypeOK,
       CountShape, CloseShape, Counted, Splicing
  <1>17. ASSUME NEW t \in Tunnels, Drain(t) PROVE CountShape'
    BY <1>17 DEF Drain, Goto, shimVars, hostVars, peerVars, flowVars, IInv, TypeOK, CountShape,
       CloseShape, Counted, Splicing
  <1>18. ASSUME NEW t \in Tunnels, DrainEnd(t) PROVE CountShape'
    BY <1>18 DEF DrainEnd, Goto, PeerClosed, shimVars, hostVars, peerVars, flowVars, IInv,
       TypeOK, CountShape, CloseShape, Counted, Splicing
  <1>19. ASSUME NEW t \in Tunnels, SendAll(t) PROVE CountShape'
    BY <1>19 DEF SendAll, Goto, shimVars, hostVars, peerVars, flowVars, IInv, TypeOK,
       CountShape, CloseShape, Counted, Splicing
  <1>20. ASSUME NEW t \in Tunnels, AddDown(t) PROVE CountShape'
    <2>1. UNCHANGED <<counted, active_tunnels>>
      BY <1>20 DEF AddDown, Goto, Uses, shimVars
    <2>2. \A h \in Tunnels : /\ pc'[h] \in Splicing => counted'[h]
                             /\ counted'[h] => pc'[h] \in Splicing \union {"done", "undefined"}
      BY <1>20, <2>1 DEF AddDown, Goto, Uses, shimVars, IInv, TypeOK, CountShape, Splicing
    <2>3. QED  BY <2>1, <2>2, CountSame
  <1>21. ASSUME NEW t \in Tunnels, SpliceCheck(t) PROVE CountShape'
    BY <1>21 DEF SpliceCheck, Goto, PeerClosed, shimVars, hostVars, peerVars, flowVars, IInv,
       TypeOK, CountShape, CloseShape, Counted, Splicing
  <1>22. ASSUME NEW t \in Tunnels, Recv(t) PROVE CountShape'
    BY <1>22 DEF Recv, Goto, shimVars, hostVars, peerVars, flowVars, IInv, TypeOK, CountShape,
       CloseShape, Counted, Splicing
  <1>23. ASSUME NEW t \in Tunnels, AddUp(t) PROVE CountShape'
    <2>1. UNCHANGED <<counted, active_tunnels>>
      BY <1>23 DEF AddUp, Goto, Uses, shimVars
    <2>2. \A h \in Tunnels : /\ pc'[h] \in Splicing => counted'[h]
                             /\ counted'[h] => pc'[h] \in Splicing \union {"done", "undefined"}
      BY <1>23, <2>1 DEF AddUp, Goto, Uses, shimVars, IInv, TypeOK, CountShape, Splicing
    <2>3. QED  BY <2>1, <2>2, CountSame
  <1>24. ASSUME NEW t \in Tunnels, Done(t) PROVE CountShape'
    <2>1. CASE freed \/ ~counted[t]
      <3>1. UNCHANGED <<counted, active_tunnels>>
        BY <1>24, <2>1 DEF Done, Goto, Uses, shimVars
      <3>2. \A h \in Tunnels : /\ pc'[h] \in Splicing => counted'[h]
                               /\ counted'[h] => pc'[h] \in Splicing \union {"done", "undefined"}
        BY <1>24, <2>1, <3>1 DEF Done, Goto, Uses, shimVars, IInv, TypeOK, CountShape, Splicing
      <3>3. QED  BY <3>1, <3>2, CountSame
    <2>2. CASE ~freed /\ counted[t]
      <3>1. /\ pc[t] = "done" /\ active_tunnels' = active_tunnels - 1
            /\ counted' = [counted EXCEPT ![t] = FALSE] /\ pc' = [pc EXCEPT ![t] = "gone"]
        BY <1>24, <2>2 DEF Done, Goto, Uses
      <3>2. Counted' = Counted \ {t}
        BY <3>1 DEF Counted, IInv, TypeOK
      <3>3. Cardinality(Counted') = Cardinality(Counted) - 1
        BY <2>2, <3>2, CountedFinite, FS_RemoveElement DEF Counted
      <3>4. QED  BY <3>1, <3>3 DEF IInv, TypeOK, CountShape, Splicing
    <2>3. QED  BY <2>1, <2>2
  <1>25. CASE AcceptLoop
    BY <1>25 DEF AcceptLoop, shimVars, hostVars, peerVars, flowVars, IInv, TypeOK, CountShape,
       CloseShape, Counted, Splicing
  <1>26. CASE AcceptPoll
    BY <1>26 DEF AcceptPoll, Waiting, shimVars, hostVars, peerVars, flowVars, IInv, TypeOK,
       CountShape, CloseShape, Counted, Splicing
  <1>27. CASE Accept
    BY <1>27 DEF Accept, Waiting, shimVars, hostVars, peerVars, flowVars, IInv, TypeOK,
       CountShape, CloseShape, Counted, Splicing
  <1>28. CASE CloseStop
    BY <1>28 DEF CloseStop, shimVars, hostVars, peerVars, flowVars, IInv, TypeOK, CountShape,
       CloseShape, Counted, Splicing
  <1>29. CASE CloseListener
    BY <1>29 DEF CloseListener, shimVars, hostVars, peerVars, flowVars, IInv, TypeOK,
       CountShape, CloseShape, Counted, Splicing
  <1>30. CASE CloseJoin
    BY <1>30 DEF CloseJoin, shimVars, hostVars, peerVars, flowVars, IInv, TypeOK, CountShape,
       CloseShape, Counted, Splicing
  <1>31. CASE CloseDrain
    BY <1>31 DEF CloseDrain, shimVars, hostVars, peerVars, flowVars, IInv, TypeOK, CountShape,
       CloseShape, Counted, Splicing
  <1>32. CASE CloseLast
    BY <1>32 DEF CloseLast, shimVars, hostVars, peerVars, flowVars, IInv, TypeOK, CountShape,
       CloseShape, Counted, Splicing
  <1>33. CASE CloseFree
    BY <1>33 DEF CloseFree, shimVars, hostVars, peerVars, flowVars, IInv, TypeOK, CountShape,
       CloseShape, Counted, Splicing
  <1>34. QED
    BY <1>1, <1>2, <1>3, <1>4, <1>5, <1>6, <1>7, <1>8, <1>9, <1>10, <1>11, <1>12, <1>13, <1>14,
       <1>15, <1>16, <1>17, <1>18, <1>19, <1>20, <1>21, <1>22, <1>23, <1>24, <1>25, <1>26,
       <1>27, <1>28, <1>29, <1>30, <1>31, <1>32, <1>33 DEF Next, AcceptThread, CloseBody, Peers,
       Tunnel

\* A step that neither sends nor counts a byte.
Quiet ==
  \/ used_freed' # {}
  \/ /\ UNCHANGED <<bytes_up, bytes_down, upSent, dnSent, used_freed>>
     /\ \A t \in Tunnels : /\ pc'[t] = "addUp" <=> pc[t] = "addUp"
                           /\ pc'[t] = "addDown" <=> pc[t] = "addDown"

\* Steps that neither forward nor add.
LEMMA QuietStep ==
  ASSUME IInv, Next, \A t \in Tunnels : ~(Recv(t) \/ AddUp(t) \/ SendAll(t) \/ AddDown(t))
  PROVE  Quiet
  <1>1. ASSUME NEW t \in Tunnels, Connect(t) PROVE Quiet
    BY <1>1 DEF Connect, shimVars, hostVars, peerVars, flowVars, IInv, TypeOK, Quiet,
       CloseShape
  <1>2. ASSUME NEW t \in Tunnels, ClientHandshake(t) PROVE Quiet
    BY <1>2 DEF ClientHandshake, shimVars, hostVars, peerVars, flowVars, IInv, TypeOK, Quiet,
       CloseShape
  <1>3. ASSUME NEW t \in Tunnels, ClientSend(t) PROVE Quiet
    BY <1>3 DEF ClientSend, shimVars, hostVars, peerVars, flowVars, IInv, TypeOK, Quiet,
       CloseShape
  <1>4. ASSUME NEW t \in Tunnels, ClientQuit(t) PROVE Quiet
    BY <1>4 DEF ClientQuit, shimVars, hostVars, peerVars, flowVars, IInv, TypeOK, Quiet,
       CloseShape
  <1>5. ASSUME NEW t \in Tunnels, ServerAnswer(t) PROVE Quiet
    BY <1>5 DEF ServerAnswer, Awaits, shimVars, hostVars, peerVars, flowVars, IInv, TypeOK,
       Quiet, CloseShape
  <1>6. ASSUME NEW t \in Tunnels, ServerSend(t) PROVE Quiet
    BY <1>6 DEF ServerSend, shimVars, hostVars, peerVars, flowVars, IInv, TypeOK, Quiet,
       CloseShape
  <1>7. ASSUME NEW t \in Tunnels, ServerQuit(t) PROVE Quiet
    BY <1>7 DEF ServerQuit, shimVars, hostVars, peerVars, flowVars, IInv, TypeOK, Quiet,
       CloseShape
  <1>8. ASSUME NEW t \in Tunnels, Greet(t) PROVE Quiet
    BY <1>8 DEF Greet, ClientSays, Goto, Refuse, shimVars, hostVars, peerVars, flowVars, IInv,
       TypeOK, Quiet, CloseShape
  <1>9. ASSUME NEW t \in Tunnels, Auth(t) PROVE Quiet
    BY <1>9 DEF Auth, ClientSays, Goto, Refuse, Uses, shimVars, hostVars, peerVars, flowVars,
       IInv, TypeOK, Quiet, CloseShape
  <1>10. ASSUME NEW t \in Tunnels, Request(t) PROVE Quiet
    BY <1>10 DEF Request, ClientSays, Goto, Refuse, shimVars, hostVars, peerVars, flowVars,
       IInv, TypeOK, Quiet, CloseShape
  <1>11. ASSUME NEW t \in Tunnels, Open(t) PROVE Quiet
    BY <1>11 DEF Open, Goto, Refuse, Uses, shimVars, hostVars, peerVars, flowVars, IInv, TypeOK,
       Quiet, CloseShape
  <1>12. ASSUME NEW t \in Tunnels, Await(t) PROVE Quiet
    BY <1>12 DEF Await, Awaits, NextAwait, Goto, Refuse, shimVars, hostVars, peerVars, flowVars,
       IInv, TypeOK, Quiet, CloseShape
  <1>13. ASSUME NEW t \in Tunnels, Answer(t) PROVE Quiet
    BY <1>13 DEF Answer, Goto, shimVars, hostVars, peerVars, flowVars, IInv, TypeOK, Quiet,
       CloseShape
  <1>14. ASSUME NEW t \in Tunnels, Count(t) PROVE Quiet
    BY <1>14 DEF Count, Goto, Uses, shimVars, hostVars, peerVars, flowVars, IInv, TypeOK, Quiet,
       CloseShape
  <1>15. ASSUME NEW t \in Tunnels, SpliceLoop(t) PROVE Quiet
    BY <1>15 DEF SpliceLoop, Goto, Uses, shimVars, hostVars, peerVars, flowVars, IInv, TypeOK,
       Quiet, CloseShape
  <1>16. ASSUME NEW t \in Tunnels, SplicePoll(t) PROVE Quiet
    BY <1>16 DEF SplicePoll, Goto, Ready, shimVars, hostVars, peerVars, flowVars, IInv, TypeOK,
       Quiet, CloseShape
  <1>17. ASSUME NEW t \in Tunnels, Drain(t) PROVE Quiet
    BY <1>17 DEF Drain, Goto, shimVars, hostVars, peerVars, flowVars, IInv, TypeOK, Quiet,
       CloseShape
  <1>18. ASSUME NEW t \in Tunnels, DrainEnd(t) PROVE Quiet
    BY <1>18 DEF DrainEnd, Goto, PeerClosed, shimVars, hostVars, peerVars, flowVars, IInv,
       TypeOK, Quiet, CloseShape
  <1>19. ASSUME NEW t \in Tunnels, SpliceCheck(t) PROVE Quiet
    BY <1>19 DEF SpliceCheck, Goto, PeerClosed, shimVars, hostVars, peerVars, flowVars, IInv,
       TypeOK, Quiet, CloseShape
  <1>20. ASSUME NEW t \in Tunnels, Done(t) PROVE Quiet
    BY <1>20 DEF Done, Goto, Uses, shimVars, hostVars, peerVars, flowVars, IInv, TypeOK, Quiet,
       CloseShape
  <1>21. CASE AcceptLoop
    BY <1>21 DEF AcceptLoop, shimVars, hostVars, peerVars, flowVars, IInv, TypeOK, Quiet,
       CloseShape
  <1>22. CASE AcceptPoll
    BY <1>22 DEF AcceptPoll, Waiting, shimVars, hostVars, peerVars, flowVars, IInv, TypeOK,
       Quiet, CloseShape
  <1>23. CASE Accept
    BY <1>23 DEF Accept, Waiting, shimVars, hostVars, peerVars, flowVars, IInv, TypeOK, Quiet,
       CloseShape
  <1>24. CASE CloseStop
    BY <1>24 DEF CloseStop, shimVars, hostVars, peerVars, flowVars, IInv, TypeOK, Quiet,
       CloseShape
  <1>25. CASE CloseListener
    BY <1>25 DEF CloseListener, shimVars, hostVars, peerVars, flowVars, IInv, TypeOK, Quiet,
       CloseShape
  <1>26. CASE CloseJoin
    BY <1>26 DEF CloseJoin, shimVars, hostVars, peerVars, flowVars, IInv, TypeOK, Quiet,
       CloseShape
  <1>27. CASE CloseDrain
    BY <1>27 DEF CloseDrain, shimVars, hostVars, peerVars, flowVars, IInv, TypeOK, Quiet,
       CloseShape
  <1>28. CASE CloseLast
    BY <1>28 DEF CloseLast, shimVars, hostVars, peerVars, flowVars, IInv, TypeOK, Quiet,
       CloseShape
  <1>29. CASE CloseFree
    BY <1>29 DEF CloseFree, shimVars, hostVars, peerVars, flowVars, IInv, TypeOK, Quiet,
       CloseShape
  <1>30. QED
    BY <1>1, <1>2, <1>3, <1>4, <1>5, <1>6, <1>7, <1>8, <1>9, <1>10, <1>11, <1>12, <1>13, <1>14,
       <1>15, <1>16, <1>17, <1>18, <1>19, <1>20, <1>21, <1>22, <1>23, <1>24, <1>25, <1>26,
       <1>27, <1>28, <1>29 DEF Next, AcceptThread, CloseBody, Peers, Tunnel

\* Forwarding one more unit adds one to the total.
LEMMA TotalStep ==
  ASSUME NEW max \in Nat, NEW f \in [Tunnels -> 0..max], NEW t \in Tunnels, f[t] < max
  PROVE  /\ Total(f, max) \in Nat
         /\ Total([f EXCEPT ![t] = @ + 1], max) = Total(f, max) + 1
  <1> DEFINE U(g) == {u \in Tunnels \X (1..max) : u[2] <= g[u[1]]}
             h == [f EXCEPT ![t] = @ + 1]
             x == <<t, f[t] + 1>>
  <1>1. IsFiniteSet(Tunnels \X (1..max))
    <2>1. IsFiniteSet(1..max)
      BY FS_Interval
    <2>2. QED  BY <2>1, ShimAssumption, FS_Product
  <1>2. IsFiniteSet(U(f)) /\ Cardinality(U(f)) \in Nat
    BY <1>1, FS_Subset, FS_CardinalityType
  <1>3. x \in Tunnels \X (1..max) /\ x \notin U(f)
    OBVIOUS
  <1>4. ASSUME NEW u \in Tunnels \X (1..max)
        PROVE  u[2] <= h[u[1]] <=> (u[2] <= f[u[1]] \/ u = x)
    <2>1. PICK a \in Tunnels, n \in 1..max : u = <<a, n>>
      OBVIOUS
    <2>2. CASE a = t
      <3>1. h[a] = f[t] + 1 /\ f[t] \in Nat /\ n \in Nat
        BY <2>2
      <3>2. QED  BY <2>1, <2>2, <3>1
    <2>3. CASE a # t
      BY <2>1, <2>3
    <2>4. QED  BY <2>2, <2>3
  <1>5. U(h) = U(f) \union {x}
    <2>1. \A u : u \in U(h) <=> u \in U(f) \union {x}
      <3>1. ASSUME NEW u PROVE u \in U(h) <=> u \in U(f) \union {x}
        <4>1. CASE u \in Tunnels \X (1..max)
          <5>1. u \in U(h) <=> u[2] <= h[u[1]]
            BY <4>1
          <5>2. u \in U(f) <=> u[2] <= f[u[1]]
            BY <4>1
          <5> HIDE DEF U, h, x
          <5>3. QED  BY <1>4, <4>1, <5>1, <5>2
        <4>2. CASE u \notin Tunnels \X (1..max)
          <5>1. u \notin U(h) /\ u \notin U(f)
            BY <4>2
          <5> HIDE DEF U, h, x
          <5>2. QED  BY <1>3, <4>2, <5>1
        <4>3. QED  BY <4>1, <4>2
      <3>2. QED  BY <3>1
    <2> HIDE DEF U, h, x
    <2>2. QED  BY <2>1
  <1>6. Cardinality(U(h)) = Cardinality(U(f)) + 1
    <2> HIDE DEF U, h, x
    <2>1. QED  BY <1>2, <1>3, <1>5, FS_AddElement
  <1>7. QED  BY <1>2, <1>6 DEF Total

\* The threads that stand at a place of the code.
AtSet(phase) == {t \in Tunnels : pc[t] = phase}

\* How one thread's step changes the number of those at a place.
LEMMA AtStep ==
  ASSUME pc \in [Tunnels -> Phases], NEW t \in Tunnels, NEW next, NEW phase, pc' = [pc EXCEPT ![t] = next]
  PROVE  /\ At(phase) \in Nat
         /\ At(phase)' = (IF pc[t] = phase THEN At(phase) - 1 ELSE At(phase))
                           + (IF next = phase THEN 1 ELSE 0)
  <1>1. IsFiniteSet(AtSet(phase)) /\ Cardinality(AtSet(phase)) \in Nat
    BY ShimAssumption, FS_Subset, FS_CardinalityType DEF AtSet
  <1>2. At(phase) = Cardinality(AtSet(phase)) /\ At(phase)' = Cardinality(AtSet(phase)')
    BY DEF At, AtSet
  <1>3. pc[t] # phase /\ next = phase => AtSet(phase)' = AtSet(phase) \union {t} /\ t \notin AtSet(phase)
    BY DEF AtSet
  <1>4. pc[t] = phase /\ next # phase => AtSet(phase)' = AtSet(phase) \ {t} /\ t \in AtSet(phase)
    BY DEF AtSet
  <1>5. pc[t] # phase /\ next # phase => AtSet(phase)' = AtSet(phase)
    BY DEF AtSet
  <1>6. pc[t] = phase /\ next = phase => AtSet(phase)' = AtSet(phase)
    BY DEF AtSet
  <1>7. QED  BY <1>1, <1>2, <1>3, <1>4, <1>5, <1>6, FS_AddElement, FS_RemoveElement

\* ... when it neither leaves nor enters,
LEMMA AtOther ==
  ASSUME pc \in [Tunnels -> Phases], NEW t \in Tunnels, NEW next, NEW phase,
         pc' = [pc EXCEPT ![t] = next], pc[t] # phase, next # phase
  PROVE  At(phase)' = At(phase)
  <1>1. AtSet(phase)' = AtSet(phase)
    BY DEF AtSet
  <1>2. QED  BY <1>1 DEF At, AtSet

\* ... and when it leaves.
LEMMA AtLeave ==
  ASSUME pc \in [Tunnels -> Phases], NEW t \in Tunnels, NEW next, NEW phase,
         pc' = [pc EXCEPT ![t] = next], pc[t] = phase, next # phase
  PROVE  At(phase) \in Nat /\ At(phase)' = At(phase) - 1
  <1>1. IsFiniteSet(AtSet(phase)) /\ Cardinality(AtSet(phase)) \in Nat
    BY ShimAssumption, FS_Subset, FS_CardinalityType DEF AtSet
  <1>2. At(phase) = Cardinality(AtSet(phase)) /\ At(phase)' = Cardinality(AtSet(phase)')
    BY DEF At, AtSet
  <1>3. AtSet(phase)' = AtSet(phase) \ {t} /\ t \in AtSet(phase)
    BY DEF AtSet
  <1>4. QED  BY <1>1, <1>2, <1>3, FS_RemoveElement

\* SendAll and Recv owe what AddDown and AddUp pay.
LEMMA BytesStep ==
  ASSUME IInv, Next
  PROVE  BytesShape'
  <1> SUFFICES ASSUME used_freed' = {}
               PROVE  /\ bytes_up' + At("addUp")' = Total(upSent', MaxUp)
                      /\ bytes_down' + At("addDown")' = Total(dnSent', MaxDown)
    BY DEF BytesShape, Total
  <1>0. /\ pc \in [Tunnels -> Phases] /\ bytes_up \in Nat /\ bytes_down \in Nat
        /\ upSent \in [Tunnels -> 0..MaxUp] /\ dnSent \in [Tunnels -> 0..MaxDown]
        /\ MaxUp \in Nat /\ MaxDown \in Nat
    BY ShimAssumption DEF IInv, TypeOK
  <1>1. CASE \A t \in Tunnels : ~(Recv(t) \/ AddUp(t) \/ SendAll(t) \/ AddDown(t))
    <2>1. /\ UNCHANGED <<bytes_up, bytes_down, upSent, dnSent, used_freed>>
          /\ \A t \in Tunnels : /\ pc'[t] = "addUp" <=> pc[t] = "addUp"
                                /\ pc'[t] = "addDown" <=> pc[t] = "addDown"
      BY <1>1, QuietStep DEF Quiet
    <2>2. At("addUp")' = At("addUp") /\ At("addDown")' = At("addDown")
      <3>1. AtSet("addUp")' = AtSet("addUp") /\ AtSet("addDown")' = AtSet("addDown")
        BY <2>1 DEF AtSet
      <3>2. QED  BY <3>1 DEF At, AtSet
    <2>3. QED  BY <2>1, <2>2 DEF IInv, BytesShape
  <1>2. ASSUME NEW t \in Tunnels, Recv(t)
        PROVE  /\ bytes_up' + At("addUp")' = Total(upSent', MaxUp)
               /\ bytes_down' + At("addDown")' = Total(dnSent', MaxDown)
    <2>1. /\ pc[t] = "recv" /\ UNCHANGED <<bytes_up, bytes_down, dnSent, used_freed>>
          /\ \/ /\ cliIn[t] > 0 /\ upSent' = [upSent EXCEPT ![t] = @ + 1]
                /\ pc' = [pc EXCEPT ![t] = "addUp"]
             \/ upSent' = upSent /\ pc' = [pc EXCEPT ![t] = "done"]
      BY <1>2 DEF Recv, Goto, shimVars
    <2>2. At("addDown")' = At("addDown")
      BY <1>0, <2>1, AtStep
    <2>3. CASE /\ cliIn[t] > 0 /\ upSent' = [upSent EXCEPT ![t] = @ + 1]
               /\ pc' = [pc EXCEPT ![t] = "addUp"]
      <3>1. upSent[t] < MaxUp
        BY <2>3, FlowTypes
      <3>2. Total(upSent, MaxUp) \in Nat /\ Total(upSent', MaxUp) = Total(upSent, MaxUp) + 1
        BY <1>0, <2>3, <3>1, TotalStep
      <3>3. At("addUp") \in Nat /\ At("addUp")' = At("addUp") + 1
        BY <1>0, <2>1, <2>3, AtStep
      <3>4. QED  BY <1>0, <2>1, <2>2, <3>2, <3>3 DEF IInv, BytesShape
    <2>4. CASE upSent' = upSent /\ pc' = [pc EXCEPT ![t] = "done"]
      <3>1. At("addUp")' = At("addUp")
        BY <1>0, <2>1, <2>4, AtOther
      <3>2. QED  BY <1>0, <2>1, <2>2, <2>4, <3>1 DEF IInv, BytesShape
    <2>5. QED  BY <2>1, <2>3, <2>4
  <1>3. ASSUME NEW t \in Tunnels, SendAll(t)
        PROVE  /\ bytes_up' + At("addUp")' = Total(upSent', MaxUp)
               /\ bytes_down' + At("addDown")' = Total(dnSent', MaxDown)
    <2>1. /\ pc[t] = "send" /\ UNCHANGED <<bytes_up, bytes_down, upSent, used_freed>>
          /\ \/ /\ dnSent' = [dnSent EXCEPT ![t] = @ + 1] /\ pc' = [pc EXCEPT ![t] = "addDown"]
             \/ dnSent' = dnSent /\ pc' = [pc EXCEPT ![t] = "done"]
      BY <1>3 DEF SendAll, Goto, shimVars
    <2>2. At("addUp")' = At("addUp")
      BY <1>0, <2>1, AtStep
    <2>3. CASE dnSent' = [dnSent EXCEPT ![t] = @ + 1] /\ pc' = [pc EXCEPT ![t] = "addDown"]
      <3>1. dnSent[t] < MaxDown
        BY <2>1, FlowTypes DEF InHand
      <3>2. Total(dnSent, MaxDown) \in Nat /\ Total(dnSent', MaxDown) = Total(dnSent, MaxDown) + 1
        BY <1>0, <2>3, <3>1, TotalStep
      <3>3. At("addDown") \in Nat /\ At("addDown")' = At("addDown") + 1
        BY <1>0, <2>1, <2>3, AtStep
      <3>4. QED  BY <1>0, <2>1, <2>2, <3>2, <3>3 DEF IInv, BytesShape
    <2>4. CASE dnSent' = dnSent /\ pc' = [pc EXCEPT ![t] = "done"]
      <3>1. At("addDown")' = At("addDown")
        BY <1>0, <2>1, <2>4, AtOther
      <3>2. QED  BY <1>0, <2>1, <2>2, <2>4, <3>1 DEF IInv, BytesShape
    <2>5. QED  BY <2>1, <2>3, <2>4
  <1>4. ASSUME NEW t \in Tunnels, AddUp(t)
        PROVE  /\ bytes_up' + At("addUp")' = Total(upSent', MaxUp)
               /\ bytes_down' + At("addDown")' = Total(dnSent', MaxDown)
    <2>1. PICK next \in {"done", "loop"} : pc[t] = "addUp" /\ pc' = [pc EXCEPT ![t] = next]
      BY <1>4 DEF AddUp, Uses, Goto
    <2>2. bytes_up' = bytes_up + 1 /\ UNCHANGED <<bytes_down, upSent, dnSent, used_freed>>
      BY <1>4 DEF AddUp, Uses, flowVars
    <2>3. At("addUp") \in Nat /\ At("addUp")' = At("addUp") - 1 /\ At("addDown")' = At("addDown")
      <3>1. next # "addUp" /\ next # "addDown" /\ pc[t] # "addDown"
        BY <2>1
      <3>2. QED  BY <1>0, <2>1, <3>1, AtLeave, AtOther
    <2>4. QED  BY <1>0, <2>2, <2>3 DEF IInv, BytesShape
  <1>5. ASSUME NEW t \in Tunnels, AddDown(t)
        PROVE  /\ bytes_up' + At("addUp")' = Total(upSent', MaxUp)
               /\ bytes_down' + At("addDown")' = Total(dnSent', MaxDown)
    <2>1. pc[t] = "addDown" /\ pc' = [pc EXCEPT ![t] = "drain"]
      BY <1>5 DEF AddDown, Uses, Goto
    <2>2. bytes_down' = bytes_down + 1 /\ UNCHANGED <<bytes_up, upSent, dnSent, used_freed>>
      BY <1>5 DEF AddDown, Uses, flowVars
    <2>3. At("addDown") \in Nat /\ At("addDown")' = At("addDown") - 1 /\ At("addUp")' = At("addUp")
      <3>1. "drain" # "addUp" /\ "drain" # "addDown" /\ pc[t] # "addUp"
        BY <2>1
      <3>2. QED  BY <1>0, <2>1, <3>1, AtLeave, AtOther
    <2>4. QED  BY <1>0, <2>2, <2>3 DEF IInv, BytesShape
  <1>6. QED  BY <1>1, <1>2, <1>3, <1>4, <1>5

-----------------------------------------------------------------------------

\* A shim just opened satisfies the invariant.
LEMMA InitInv == Init => IInv
  <1> SUFFICES ASSUME Init PROVE IInv
    OBVIOUS
  <1>1. {MaxTicks, MaxUp, MaxDown} \subseteq Nat /\ 0 \in 0..MaxTicks /\ 0 \in 0..MaxUp /\ 0 \in 0..MaxDown /\ 0 \in 0..3
    BY ShimAssumption
  <1>2. TypeOK
    <2>1. /\ {cliIn, cliSent, upSent} \subseteq [Tunnels -> 0..MaxUp] /\ tick \in 0..MaxTicks
          /\ {srvK, srvB, srvSent, dnSent} \subseteq [Tunnels -> 0..MaxDown]
          /\ cli \in [Tunnels -> 0..3] /\ srv \in [Tunnels -> 0..3]
          /\ {active_tunnels, bytes_up, bytes_down} \subseteq Nat
      BY <1>1 DEF Init
    <2>2. /\ pc \in [Tunnels -> Phases]
          /\ counted \in [Tunnels -> BOOLEAN] /\ reading \in [Tunnels -> BOOLEAN]
          /\ rev \in [Tunnels -> SUBSET {"cin", "chup", "sin", "shup"}]
          /\ reply \in [Tunnels -> {"none", "ok", "failed"}]
          /\ cliEnd \in [Tunnels -> {"open", "fin", "hup"}]
          /\ srvEnd \in [Tunnels -> {"open", "fin", "hup"}]
      BY DEF Init, Phases
    <2>3. QED  BY <2>1, <2>2 DEF Init, TypeOK
  <1>3. CountShape
    <2>1. Counted = {}
      BY DEF Counted, Init
    <2>2. QED  BY <2>1, FS_EmptySet DEF CountShape, Init, Splicing
  <1>4. BytesShape
    <2>1. At("addUp") = 0 /\ At("addDown") = 0
      <3>1. AtSet("addUp") = {} /\ AtSet("addDown") = {}
        BY DEF AtSet, Init
      <3>2. QED  BY <3>1, FS_EmptySet DEF At, AtSet
    <2>2. Total(upSent, MaxUp) = 0 /\ Total(dnSent, MaxDown) = 0
      <3>1. ASSUME NEW max \in Nat, NEW f, f = [t \in Tunnels |-> 0] PROVE Total(f, max) = 0
        <4>1. {u \in Tunnels \X (1..max) : u[2] <= f[u[1]]} = {}
          BY <3>1
        <4>2. QED  BY <4>1, FS_EmptySet DEF Total
      <3>2. QED  BY <1>1, <3>1 DEF Init
    <2>3. QED  BY <2>1, <2>2 DEF BytesShape, Init
  <1>5. AuthShape /\ RevShape
    BY DEF Init, AuthShape, Trusted, Splicing, RevShape
  <1>6. FlowShape
    BY DEF Init, FlowShape, InHand, Over
  <1>7. CloseShape
    BY DEF Init, CloseShape
  <1>8. QED  BY <1>2, <1>3, <1>4, <1>5, <1>6, <1>7 DEF IInv

\* The inductive invariant holds always.
LEMMA Invariance == Spec => []IInv
  <1>1. IInv /\ [Next]_vars => IInv'
    <2> SUFFICES ASSUME IInv, [Next]_vars PROVE IInv'
      OBVIOUS
    <2>1. CASE Next
      BY <2>1, TypeStep, CountStep, BytesStep, AuthStep, FlowStep, RevStep, CloseStep DEF IInv
    <2>2. CASE UNCHANGED vars
      <3>0. /\ stopping' = stopping /\ active_tunnels' = active_tunnels
            /\ bytes_up' = bytes_up /\ bytes_down' = bytes_down
            /\ listening' = listening /\ freed' = freed /\ accept_pc' = accept_pc
            /\ close_pc' = close_pc /\ tick' = tick /\ spliced' = spliced
            /\ pc' = pc /\ counted' = counted /\ rev' = rev /\ reply' = reply
            /\ cred' = cred /\ cli' = cli /\ srv' = srv /\ cliIn' = cliIn /\ cliEnd' = cliEnd
            /\ reading' = reading /\ srvK' = srvK /\ srvEnd' = srvEnd
            /\ cliSent' = cliSent /\ srvSent' = srvSent
            /\ srvB' = srvB /\ upSent' = upSent /\ dnSent' = dnSent /\ used_freed' = used_freed
        BY <2>2, Zenon DEF vars, shimVars, hostVars, peerVars, flowVars
      <3>1. TypeOK'
        BY <3>0, Zenon DEF IInv, TypeOK
      <3>2. CountShape'
        BY <3>0, Zenon DEF IInv, CountShape, Counted
      <3>3. BytesShape'
        BY <3>0, Zenon DEF IInv, BytesShape, At, Total
      <3>4. AuthShape'
        BY <3>0, Zenon DEF IInv, AuthShape
      <3>5. FlowShape'
        BY <3>0, Zenon DEF IInv, FlowShape, InHand
      <3>6. RevShape'
        BY <3>0, Zenon DEF IInv, RevShape
      <3>7. CloseShape'
        BY <3>0, Zenon DEF IInv, CloseShape
      <3>8. QED  BY <3>1, <3>2, <3>3, <3>4, <3>5, <3>6, <3>7 DEF IInv
    <2>3. QED  BY <2>1, <2>2
  <1>2. QED  BY <1>1, InitInv, PTL DEF Spec

(* t3_shim_stats tells the truth: whatever the interleaving of the tunnel   *)
(* threads, the gauge counts the splicing tunnels and the byte counters     *)
(* lack only what was sent and is about to be counted.                      *)
THEOREM Stats == Spec => []StatsExact
  <1>1. IInv => StatsExact
    BY DEF IInv, StatsExact, CountShape, Counted, BytesShape
  <1>2. QED  BY <1>1, Invariance, PTL

(* t3_shim_close frees the struct only after the accept thread has ended    *)
(* and every tunnel that was splicing when it began has left.               *)
THEOREM SplicedSafe == Spec => []SplicedKeepShim
  <1>1. IInv => SplicedKeepShim
    BY DEF IInv, CloseShape, SplicedKeepShim
  <1>2. QED  BY <1>1, Invariance, PTL

(* tunnel_thread opens a Type3 stream only for a client that has shown the  *)
(* shim's credentials.                                                      *)
THEOREM Authenticated == Spec => []OnlyAuthenticated
  <1>1. IInv => OnlyAuthenticated
    BY DEF IInv, AuthShape, OnlyAuthenticated
  <1>2. QED  BY <1>1, Invariance, PTL

\* An orderly end is seen only when nothing is left to read.
LEMMA EofStep ==
  ASSUME IInv, Next, NEW t \in Tunnels
  PROVE  /\ ServerEof(t) => dnSent[t] = srvSent[t]
         /\ ClientEof(t) => upSent[t] = cliSent[t]
  <1>1. ASSUME ClientEof(t) PROVE upSent[t] = cliSent[t]
    BY <1>1, FlowTypes DEF ClientEof, IInv, FlowShape, Over
  <1>2. ASSUME ServerEof(t) PROVE dnSent[t] = srvSent[t]
    <2>1. srvB[t] = 0 /\ InHand(t) = 0 /\ dnSent[t] + InHand(t) + srvB[t] + srvK[t] = srvSent[t]
      BY <1>2 DEF ServerEof, IInv, FlowShape, Over, InHand
    <2>2. pc \in [Tunnels -> Phases] /\ pc[t] \in {"eof", "check"} /\ pc'[t] = "done" /\ srvEnd[t] = "fin"
      BY <1>2 DEF ServerEof, IInv, TypeOK
    <2>3. DrainEnd(t) \/ SpliceCheck(t)
      <3>1. ASSUME NEW u \in Tunnels, Peers(u) \/ Tunnel(u), ~DrainEnd(u), ~SpliceCheck(u)
            PROVE  pc'[t] = pc[t] \/ pc[t] \notin {"eof", "check"}
        BY <2>2, <3>1 DEF Peers, Tunnel, Connect, ClientHandshake, ClientSend, ClientQuit,
           ServerAnswer, Awaits, ServerSend, ServerQuit, Greet, ClientSays, Goto, Refuse, Auth,
           Uses, Request, Open, Await, NextAwait, Answer, Count, SpliceLoop, SplicePoll, Ready,
           Drain, SendAll, AddDown, Recv, AddUp, Done
      <3>2. ASSUME NEW u \in Tunnels, u # t, DrainEnd(u) \/ SpliceCheck(u)
            PROVE  pc'[t] = pc[t]
        BY <2>2, <3>2 DEF DrainEnd, SpliceCheck, Goto
      <3>3. ASSUME AcceptThread \/ CloseStop \/ CloseBody
            PROVE  pc'[t] = pc[t]
        BY <2>2, <3>3 DEF AcceptThread, CloseBody, Waiting, AcceptLoop, AcceptPoll, Accept,
           CloseStop,
                          CloseListener, CloseJoin, CloseDrain, CloseLast, CloseFree
      <3>4. QED  BY <2>2, <3>1, <3>2, <3>3 DEF Next
    <2>4. srvK[t] = 0
      BY <2>2, <2>3 DEF DrainEnd, SpliceCheck, PeerClosed, Goto, IInv, RevShape
    <2>5. QED  BY <2>1, <2>4, FlowTypes
  <1>3. QED  BY <1>1, <1>2

(* A tunnel that ends because one side closed in an orderly way has         *)
(* forwarded all that side had sent: the splice loop reads before it looks  *)
(* for the end of a stream.                                                 *)
THEOREM EofSafe == Spec => EofLosesNothing
  <1>1. IInv /\ [Next]_vars =>
          [\A t \in Tunnels : /\ ServerEof(t) => dnSent[t] = srvSent[t]
                              /\ ClientEof(t) => upSent[t] = cliSent[t]]_vars
    BY EofStep
  <1>2. QED  BY <1>1, Invariance, PTL DEF Spec, EofLosesNothing
=============================================================================
