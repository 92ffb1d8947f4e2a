------------------------- MODULE OpeningRetryProofs -------------------------
(***************************************************************************)
(* Proofs about the two other parts of a client session: ClientHandshake,  *)
(* for every length of the response heads, limit of a head and number of   *)
(* body units, and RetryFsm, for every clock and windows in the order of   *)
(* the code's.                                                             *)
(*                                                                         *)
(* OpeningOrder and HeadTakenWhole are not inductive: neither says what    *)
(* the flags promise while the pump is between two of its parts.  The      *)
(* strengthening reads the flags: the *_sent flags tell exactly what has   *)
(* been queued (QueueShape), the *_done flags exactly what was taken out   *)
(* of in_ring (HeadShape), and the place of the running pump which of them *)
(* are set (PcShape).                                                      *)
(***************************************************************************)
EXTENDS ClientHandshake, RetryFsm, SequenceTheorems, FiniteSetTheorems, NaturalsInduction,
        WellFoundedInduction, TLAPS

Message == {"post", "upgrade", "init"}
Request == IF mode = "WS" THEN "upgrade" ELSE "post"
Requested == IF mode = "WS" THEN upgrade_sent ELSE headers_sent

\* What has been queued so far is told by the *_sent flags.
QueueShape ==
  /\ sent \o out_ring = IF obfs2_sent THEN <<Request, "init">>
                        ELSE IF Requested THEN <<Request>> ELSE <<>>
  /\ obfs2_sent => Requested

\* What has been taken out of in_ring is told by the *_done flags.
HeadShape ==
  /\ mode = "WS" => /\ consumed = IF upgrade_done THEN head ELSE 0
                    /\ upgrade_done => upgrade_sent /\ switching
                    /\ obfs2_sent => upgrade_done
  /\ mode = "HTTP" => /\ consumed = 0 \/ consumed = head
                      /\ ~response_done => consumed = 0

\* How far the pump is tells which flags are set.
PcShape ==
  /\ pc = "init" => Requested /\ (mode = "WS" => upgrade_done)
  /\ pc \in {"response", "READY"} \/ state = "READY" => obfs2_sent

IInv == TypeOK /\ QueueShape /\ HeadShape /\ PcShape

-----------------------------------------------------------------------------
(* The queue *)

LEMMA Regroup ==
  ASSUME NEW s \in Seq(Message), NEW q \in Seq(Message), NEW n \in 0 .. Len(q)
  PROVE  /\ s \o SubSeq(q, 1, n) \in Seq(Message) /\ SubSeq(q, n + 1, Len(q)) \in Seq(Message)
         /\ (s \o SubSeq(q, 1, n)) \o SubSeq(q, n + 1, Len(q)) = s \o q
  <1> DEFINE a == SubSeq(q, 1, n)
             b == SubSeq(q, n + 1, Len(q))
  <1>1. Len(q) \in Nat /\ n \in Nat /\ n <= Len(q) /\ \A i \in 1 .. Len(q) : q[i] \in Message
    BY ElementOfSeq
  <1>2. a \in Seq(Message)
    BY <1>1, SubSeqProperties
  <1>3. b \in Seq(Message)
    BY <1>1, SubSeqProperties
  <1>4. a \o b = SubSeq(q, 1, Len(q))
    <2>1. 1 \in 1 .. Len(q) + 1 /\ n \in 1 - 1 .. Len(q) /\ Len(q) \in n .. Len(q)
      BY <1>1
    <2>2. QED  BY <2>1, ConcatAdjacentSubSeq
  <1>5. a \o b = q
    BY <1>4, SubSeqFull
  <1> HIDE DEF a, b
  <1>6. (s \o a) \o b = s \o (a \o b)
    BY <1>2, <1>3, ConcatAssociative, SMTT(60)
  <1>7. s \o a \in Seq(Message)
    BY <1>2, ConcatProperties
  <1>8. QED  BY <1>3, <1>5, <1>6, <1>7 DEF a, b

\* Flushing changes where a message is, and no more.
LEMMA Flushed ==
  ASSUME sent \in Seq(Message), NEW q \in Seq(Message), FlushOut(q)
  PROVE  /\ sent' \in Seq(Message) /\ out_ring' \in Seq(Message)
         /\ sent' \o out_ring' = sent \o q
  <1>1. PICK n \in 0 .. Len(q) : /\ sent' = sent \o SubSeq(q, 1, n)
                                 /\ out_ring' = SubSeq(q, n + 1, Len(q))
    BY DEF FlushOut
  <1>2. QED  BY <1>1, Regroup

LEMMA Queued ==
  ASSUME NEW s \in Seq(Message), NEW q \in Seq(Message), NEW m \in Message
  PROVE  /\ Append(q, m) \in Seq(Message)
         /\ s \o Append(q, m) = Append(s \o q, m)
  <1>1. Append(q, m) \in Seq(Message)
    OBVIOUS
  <1>2. s \o Append(q, m) \in Seq(Message) /\ Append(s \o q, m) \in Seq(Message)
    BY <1>1
  <1>3. Len(s \o Append(q, m)) = Len(Append(s \o q, m))
    OBVIOUS
  <1>4. \A i \in 1 .. Len(s \o Append(q, m)) : (s \o Append(q, m))[i] = Append(s \o q, m)[i]
    OBVIOUS
  <1>5. QED  BY <1>1, <1>2, <1>3, <1>4, SeqEqual

LEMMA AppendShort ==
  ASSUME NEW m \in Message, NEW n \in Message
  PROVE  Append(<<>>, m) = <<m>> /\ Append(<<m>>, n) = <<m, n>>
  <1>1. <<>> \in Seq(Message) /\ <<m>> \in Seq(Message) /\ <<m, n>> \in Seq(Message)
    OBVIOUS
  <1>2. Append(<<>>, m) \in Seq(Message) /\ Len(Append(<<>>, m)) = 1 /\ Append(<<>>, m)[1] = m
    BY <1>1, AppendProperties
  <1>3. Append(<<>>, m) = <<m>>
    BY <1>1, <1>2, SeqEqual
  <1>4. /\ Append(<<m>>, n) \in Seq(Message) /\ Len(Append(<<m>>, n)) = 2
        /\ Append(<<m>>, n)[1] = m /\ Append(<<m>>, n)[2] = n
    BY <1>1, AppendProperties
  <1>5. Append(<<m>>, n) = <<m, n>>
    <2>1. Len(<<m, n>>) = 2 /\ \A i \in 1 .. 2 : Append(<<m>>, n)[i] = <<m, n>>[i]
      BY <1>4
    <2>2. QED  BY <1>1, <1>4, <2>1, SeqEqual
  <1>6. QED  BY <1>3, <1>5

-----------------------------------------------------------------------------
(* The inductive invariant *)

LEMMA InitInv == Init => IInv
  <1> SUFFICES ASSUME Init PROVE IInv
    OBVIOUS
  <1>1. TypeOK
    <2>1. head \in Nat /\ MaxBody \in Nat /\ <<>> \in Seq({"post", "upgrade", "init"})
      BY HandshakeAssumption DEF Init
    <2>2. recv \in 0 .. srvSent /\ consumed \in 0 .. recv /\ srvSent \in 0 .. (head + MaxBody)
      BY <2>1 DEF Init
    <2>3. QED  BY <2>1, <2>2 DEF Init, TypeOK
  <1>2. QueueShape /\ HeadShape /\ PcShape
    BY DEF Init, QueueShape, HeadShape, PcShape, Requested
  <1>3. QED  BY <1>1, <1>2 DEF IInv

\* What the type invariant says, in the form the steps below use.
LEMMA Types ==
  ASSUME TypeOK
  PROVE  /\ recv \in Nat /\ consumed \in Nat /\ srvSent \in Nat /\ head \in Nat /\ head # 1
         /\ MaxBody \in Nat /\ MaxHead \in Nat
         /\ recv <= srvSent /\ consumed <= recv /\ srvSent <= head + MaxBody
         /\ sent \in Seq(Message) /\ out_ring \in Seq(Message)
         /\ mode \in {"HTTP", "WS"}
  BY HandshakeAssumption DEF TypeOK, Message

\* The invariant does not depend on what the network did.
LEMMA NetworkInv ==
  ASSUME IInv, Network
  PROVE  IInv'
  <1>1. /\ UNCHANGED <<state, clientVars, out_ring, sent, recv, consumed, res, pc, mode, head, switching>>
        /\ net' \in {"connecting", "up", "refused"} /\ tls' \in {"going", "up", "failed"}
        /\ closed' \in BOOLEAN
        /\ srvSent' = srvSent \/ (srvSent < head + MaxBody /\ srvSent' = srvSent + 1)
    BY DEF Network, Connected, TlsDone, ServerSend, ServerClose, IInv, TypeOK
  <1>2. recv \in 0 .. srvSent' /\ srvSent' \in 0 .. (head + MaxBody)
    BY <1>1, Types DEF IInv
  <1>3. TypeOK'
    BY <1>1, <1>2 DEF IInv, TypeOK, clientVars
  <1>4. QueueShape' /\ HeadShape' /\ PcShape'
    BY <1>1 DEF IInv, QueueShape, HeadShape, PcShape, Requested, Request, clientVars
  <1>5. QED  BY <1>3, <1>4 DEF IInv

LEMMA ReadTypes ==
  ASSUME TypeOK, ReadIn, UNCHANGED srvSent
  PROVE  /\ recv' \in 0 .. srvSent' /\ recv' \in Nat /\ recv' >= recv
         /\ \A c \in 0 .. recv : c \in 0 .. recv'
  BY Types DEF ReadIn

LEMMA ConnectInv ==
  ASSUME IInv, Pump \/ PumpConnecting \/ PumpTls \/ PumpNoResponse
  PROVE  IInv'
  <1>1. UNCHANGED <<clientVars, out_ring, sent, recv, consumed, netVars>>
    BY DEF Pump, PumpConnecting, PumpTls, PumpNoResponse
  <1>2. /\ state' \in {"CONNECTING", "TLS", "HANDSHAKE", "READY", "ERROR"}
        /\ pc' \in {"idle", "CONNECTING", "TLS", "HANDSHAKE", "init", "response", "READY"}
        /\ res' \in {"OK", "BUF_TOO_SMALL", "INTERNAL"}
    BY DEF Pump, PumpConnecting, PumpTls, PumpNoResponse, Return, Fails, IInv, TypeOK
  <1>3. /\ pc' = "init" => pc = "init"
        /\ pc' \in {"response", "READY"} \/ state' = "READY"
             => pc \in {"response", "READY"} \/ state = "READY"
    BY DEF Pump, PumpConnecting, PumpTls, PumpNoResponse, Return, Fails, IInv, TypeOK
  <1>4. TypeOK'
    BY <1>1, <1>2 DEF IInv, TypeOK, clientVars, netVars
  <1>5. QueueShape' /\ HeadShape'
    BY <1>1 DEF IInv, QueueShape, HeadShape, Requested, Request, clientVars, netVars
  <1>6. PcShape'
    BY <1>1, <1>3 DEF IInv, PcShape, Requested, clientVars, netVars
  <1>7. QED  BY <1>4, <1>5, <1>6 DEF IInv

LEMMA UpgradeWaitInv ==
  ASSUME IInv, PumpUpgradeWait
  PROVE  IInv'
  <1>1. /\ mode = "WS" /\ ~upgrade_done /\ pc = "HANDSHAKE" /\ pc' = "idle"
        /\ UNCHANGED <<state, upgrade_done, headers_sent, response_done, obfs2_sent, consumed, netVars>>
        /\ res' \in {"OK", "BUF_TOO_SMALL", "INTERNAL"}
    BY DEF PumpUpgradeWait, Return, UpgradeResult
  <1>2. ReadIn
    BY DEF PumpUpgradeWait
  <1>3. \/ ~upgrade_sent /\ upgrade_sent' = TRUE /\ FlushOut(Append(out_ring, "upgrade"))
        \/ upgrade_sent' = upgrade_sent /\ FlushOut(out_ring)
    BY DEF PumpUpgradeWait
  <1>4. sent \in Seq(Message) /\ out_ring \in Seq(Message) /\ "upgrade" \in Message
    BY Types DEF IInv, Message
  <1>5. ~obfs2_sent
    BY <1>1 DEF IInv, HeadShape
  <1>6. /\ sent' \in Seq(Message) /\ out_ring' \in Seq(Message) /\ upgrade_sent' \in BOOLEAN
        /\ sent' \o out_ring' = IF upgrade_sent' THEN <<"upgrade">> ELSE <<>>
    <2>1. sent \o out_ring = IF upgrade_sent THEN <<"upgrade">> ELSE <<>>
      BY <1>1, <1>5 DEF IInv, QueueShape, Requested, Request
    <2>2. CASE ~upgrade_sent /\ upgrade_sent' = TRUE /\ FlushOut(Append(out_ring, "upgrade"))
      <3>1. Append(out_ring, "upgrade") \in Seq(Message)
            /\ sent \o Append(out_ring, "upgrade") = Append(<<>>, "upgrade")
        BY <1>4, <2>1, <2>2, Queued
      <3>2. QED  BY <1>4, <2>2, <3>1, Flushed, AppendShort
    <2>3. CASE upgrade_sent' = upgrade_sent /\ FlushOut(out_ring)
      BY <1>4, <2>1, <2>3, Flushed DEF IInv, TypeOK
    <2>4. QED  BY <1>3, <2>2, <2>3
  <1>7. TypeOK'
    BY <1>1, <1>2, <1>6, ReadTypes DEF IInv, TypeOK, netVars, Message
  <1>8. QueueShape' /\ HeadShape' /\ PcShape'
    BY <1>1, <1>5, <1>6 DEF IInv, QueueShape, HeadShape, PcShape, Requested, Request, netVars
  <1>9. QED  BY <1>7, <1>8 DEF IInv

LEMMA UpgradedInv ==
  ASSUME IInv, PumpUpgraded
  PROVE  IInv'
  <1>1. /\ mode = "WS" /\ ~upgrade_done /\ upgrade_sent /\ pc' = "init" /\ upgrade_done' = TRUE
        /\ consumed' = consumed + head /\ UpgradeResult = "OK"
        /\ UNCHANGED <<state, upgrade_sent, headers_sent, response_done, obfs2_sent, out_ring, sent,
                       recv, res, netVars>>
    BY DEF PumpUpgraded
  <1>2. consumed = 0
    BY <1>1 DEF IInv, HeadShape
  <1>3. switching /\ head <= recv
    BY <1>1, <1>2, Types DEF IInv, UpgradeResult, Avail
  <1>4. consumed' = head /\ consumed' \in 0 .. recv
    BY <1>1, <1>2, <1>3, Types DEF IInv
  <1>5. TypeOK'
    BY <1>1, <1>4 DEF IInv, TypeOK, netVars
  <1>6. QueueShape' /\ HeadShape' /\ PcShape'
    BY <1>1, <1>3, <1>4 DEF IInv, QueueShape, HeadShape, PcShape, Requested, Request, netVars
  <1>7. QED  BY <1>5, <1>6 DEF IInv

LEMMA HeadersInv ==
  ASSUME IInv, PumpHeaders
  PROVE  IInv'
  <1>1. /\ mode = "HTTP" \/ upgrade_done
        /\ pc' = "init"
        /\ UNCHANGED <<state, upgrade_sent, upgrade_done, response_done, obfs2_sent, sent, recv,
                       consumed, res, netVars>>
    BY DEF PumpHeaders
  <1>2. sent \in Seq(Message) /\ out_ring \in Seq(Message) /\ "post" \in Message
    BY Types DEF IInv, Message
  <1>3. /\ out_ring' \in Seq(Message) /\ headers_sent' \in BOOLEAN
        /\ QueueShape' /\ (mode = "HTTP" => headers_sent')
    <2>1. CASE mode = "HTTP" /\ ~headers_sent
      <3>1. out_ring' = Append(out_ring, "post") /\ headers_sent' = TRUE
        BY <2>1 DEF PumpHeaders
      <3>2. ~obfs2_sent /\ sent \o out_ring = <<>>
        BY <2>1 DEF IInv, QueueShape, Requested
      <3>3. sent \o out_ring' = <<"post">> /\ out_ring' \in Seq(Message)
        BY <1>2, <3>1, <3>2, Queued, AppendShort
      <3>4. QED  BY <1>1, <2>1, <3>1, <3>2, <3>3 DEF QueueShape, Requested, Request, netVars
    <2>2. CASE ~(mode = "HTTP" /\ ~headers_sent)
      <3>1. UNCHANGED <<out_ring, headers_sent>>
        BY <2>2 DEF PumpHeaders
      <3>2. QED  BY <1>1, <1>2, <2>2, <3>1 DEF IInv, TypeOK, QueueShape, Requested, Request, netVars
    <2>3. QED  BY <2>1, <2>2
  <1>4. TypeOK'
    BY <1>1, <1>3 DEF IInv, TypeOK, netVars, Message
  <1>5. HeadShape' /\ PcShape'
    BY <1>1, <1>3, Types DEF IInv, HeadShape, PcShape, Requested, netVars
  <1>6. QED  BY <1>3, <1>4, <1>5 DEF IInv

LEMMA InitSentInv ==
  ASSUME IInv, PumpInit
  PROVE  IInv'
  <1>1. /\ pc = "init" /\ Requested /\ (mode = "WS" => upgrade_done)
        /\ UNCHANGED <<upgrade_sent, upgrade_done, headers_sent, response_done, recv, consumed, netVars>>
    BY DEF PumpInit, IInv, PcShape
  <1>2. /\ sent \in Seq(Message) /\ out_ring \in Seq(Message) /\ "init" \in Message
        /\ mode \in {"HTTP", "WS"}
    BY Types DEF IInv, Message
  <1>3. /\ state' \in {"CONNECTING", "TLS", "HANDSHAKE", "READY", "ERROR"}
        /\ pc' \in {"idle", "response"} /\ res' \in {"OK", "BUF_TOO_SMALL", "INTERNAL"}
        /\ pc' = "response" => obfs2_sent'
        /\ state' = "READY" => state = "READY"
    BY DEF PumpInit, Fails, Return, IInv, TypeOK
  <1>4. /\ sent' \in Seq(Message) /\ out_ring' \in Seq(Message) /\ obfs2_sent' \in BOOLEAN
        /\ obfs2_sent => obfs2_sent'
        /\ sent' \o out_ring' = IF obfs2_sent' THEN <<Request, "init">> ELSE <<Request>>
    <2>1. sent \o out_ring = IF obfs2_sent THEN <<Request, "init">> ELSE <<Request>>
      BY <1>1 DEF IInv, QueueShape
    <2>2. CASE ~obfs2_sent /\ obfs2_sent' = TRUE /\ FlushOut(Append(out_ring, "init"))
      <3>1. Append(out_ring, "init") \in Seq(Message)
            /\ sent \o Append(out_ring, "init") = Append(<<Request>>, "init")
        <4>1. sent \o out_ring = <<Request>>
          BY <2>1, <2>2
        <4>2. Append(out_ring, "init") \in Seq(Message)
              /\ sent \o Append(out_ring, "init") = Append(sent \o out_ring, "init")
          BY <1>2, Queued, Zenon
        <4>3. QED  BY <4>1, <4>2, Zenon
      <3>2. Request \in Message
        BY DEF Request, Message
      <3>3. Append(<<Request>>, "init") = <<Request, "init">>
        BY <1>2, <3>2, AppendShort
      <3>4. QED  BY <1>2, <2>2, <3>1, <3>3, Flushed
    <2>3. CASE UNCHANGED <<obfs2_sent, out_ring, sent>>
      BY <1>2, <2>1, <2>3 DEF IInv, TypeOK
    <2>4. CASE obfs2_sent /\ obfs2_sent' = obfs2_sent /\ FlushOut(out_ring)
      BY <1>2, <2>1, <2>4, Flushed DEF IInv, TypeOK
    <2>5. QED  BY <2>2, <2>3, <2>4 DEF PumpInit
  <1>5. Request' = Request /\ Requested' = Requested
    BY <1>1 DEF Request, Requested, netVars
  <1>6. TypeOK'
    BY <1>1, <1>3, <1>4 DEF IInv, TypeOK, netVars, Message
  <1>7. QueueShape'
    BY <1>1, <1>4, <1>5 DEF QueueShape
  <1>8. HeadShape' /\ PcShape'
    BY <1>1, <1>3, <1>4, <1>5 DEF IInv, HeadShape, PcShape, netVars
  <1>9. QED  BY <1>6, <1>7, <1>8 DEF IInv

LEMMA ResponseInv ==
  ASSUME IInv, PumpResponse \/ PumpReady
  PROVE  IInv'
  <1>1. /\ FlushOut(out_ring) /\ ReadIn /\ obfs2_sent
        /\ UNCHANGED <<upgrade_sent, upgrade_done, headers_sent, obfs2_sent, netVars>>
        /\ state' \in {"CONNECTING", "TLS", "HANDSHAKE", "READY", "ERROR"}
        /\ pc' \in {"idle", "READY"} /\ res' \in {"OK", "BUF_TOO_SMALL", "INTERNAL"}
        /\ response_done' \in BOOLEAN
    BY DEF PumpResponse, PumpReady, Fails, Return, IInv, TypeOK, PcShape, clientVars
  <1>2. \/ UNCHANGED <<consumed, response_done>>
        \/ /\ mode = "HTTP" /\ ~response_done /\ response_done' = TRUE
           /\ \/ consumed' = consumed
              \/ recv' - consumed >= head /\ consumed' = consumed + head
    BY DEF PumpResponse, PumpReady, clientVars
  <1>3. /\ sent' \in Seq(Message) /\ out_ring' \in Seq(Message)
        /\ sent' \o out_ring' = sent \o out_ring
    BY <1>1, Types, Flushed DEF IInv
  <1>4. /\ recv' \in 0 .. srvSent' /\ recv' \in Nat /\ recv' >= recv /\ consumed \in 0 .. recv'
    BY <1>1, ReadTypes, Types DEF IInv, netVars
  <1>5. consumed' \in 0 .. recv' /\ HeadShape'
    <2>1. CASE UNCHANGED <<consumed, response_done>>
      BY <1>1, <1>4, <2>1 DEF IInv, HeadShape, netVars
    <2>2. CASE /\ mode = "HTTP" /\ ~response_done /\ response_done' = TRUE
               /\ \/ consumed' = consumed
                  \/ recv' - consumed >= head /\ consumed' = consumed + head
      <3>1. consumed = 0
        BY <2>2 DEF IInv, HeadShape
      <3>2. consumed' \in 0 .. recv' /\ (consumed' = 0 \/ consumed' = head)
        BY <1>4, <2>2, <3>1, Types DEF IInv
      <3>3. QED  BY <1>1, <2>2, <3>2 DEF HeadShape, netVars
    <2>3. QED  BY <1>2, <2>1, <2>2
  <1>6. TypeOK'
    BY <1>1, <1>3, <1>4, <1>5 DEF IInv, TypeOK, netVars, Message
  <1>7. QueueShape' /\ PcShape'
    BY <1>1, <1>3 DEF IInv, QueueShape, PcShape, Requested, Request, netVars
  <1>8. QED  BY <1>5, <1>6, <1>7 DEF IInv

LEMMA Invariance == Spec => []IInv
  <1>1. IInv /\ [Next]_vars => IInv'
    <2>1. CASE UNCHANGED vars
      BY <2>1 DEF vars, clientVars, netVars, IInv, TypeOK, QueueShape, HeadShape, PcShape, Request, Requested
    <2>2. QED
      BY <2>1, NetworkInv, ConnectInv, UpgradeWaitInv, UpgradedInv, HeadersInv, InitSentInv,
         ResponseInv DEF Next, PumpStep
  <1>2. QED  BY <1>1, InitInv, PTL DEF Spec

-----------------------------------------------------------------------------
(* The theorems *)

(* However often t3_client_pump is re-entered with its output half flushed, *)
(* the request and the init are queued exactly once and in this order, and  *)
(* in WS mode the init waits for the 101.                                   *)
THEOREM Opening == Spec => []OpeningOrder
  <1>1. IInv => OpeningOrder
    <2> SUFFICES ASSUME IInv PROVE OpeningOrder
      OBVIOUS
    <2> DEFINE q == sent \o out_ring
    <2>1. q = IF obfs2_sent THEN <<Request, "init">> ELSE IF Requested THEN <<Request>> ELSE <<>>
      BY DEF IInv, QueueShape
    <2> HIDE DEF q
    <2>2. IsPrefix(q, <<Request, "init">>)
      BY <2>1 DEF IsPrefix
    <2>3. mode = "WS" /\ Contains(q, "init") => switching /\ consumed = head
      BY <2>1 DEF Contains, Request, IInv, HeadShape
    <2>4. state = "READY" => Len(q) = 2
      BY <2>1 DEF IInv, PcShape
    <2>5. QED  BY <2>2, <2>3, <2>4 DEF OpeningOrder, IInv, Request, q
  <1>2. QED  BY <1>1, Invariance, PTL

(* However the server's head was cut into TLS records, the pump takes it    *)
(* out of in_ring whole and nothing of the body with it, or, in HTTP mode,  *)
(* leaves all of it there.                                                  *)
THEOREM HeadTaken == Spec => []HeadTakenWhole
  <1>1. IInv => HeadTakenWhole
    BY Types DEF IInv, PcShape, HeadShape, HeadTakenWhole
  <1>2. QED  BY <1>1, Invariance, PTL
-----------------------------------------------------------------------------
(* Retry tiers.  The two properties of RetryFsm are about the last close    *)
(* and the whole history; the invariant says which part of the history the  *)
(* ring is (RingShape) and what the tier was decided from (TierShape,       *)
(* Tier2Shape).  Times never decrease along the log, so what is recent is   *)
(* always its end.                                                          *)

\* How many closes of the log the ring has forgotten.
Dropped == Len(log) - Len(ring)

LogShape ==
  /\ \A i, j \in 1..Len(log) : i <= j => log[i] <= log[j]
  /\ Len(log) = 0 => last_close_ns = 0
  /\ Len(log) # 0 => last_close_ns = log[Len(log)]

RingShape ==
  /\ Len(ring) <= Len(log)
  /\ Len(log) # 0 => Len(ring) # 0
  /\ \A i \in 1..Len(ring) : ring[i] = log[Dropped + i]
  /\ \A i \in 1..Len(ring) : last_close_ns - ring[i] <= NS60
  /\ Len(ring) = RingSlots \/ \A i \in 1..Dropped : last_close_ns - log[i] > NS60

RingLast30 == {i \in 1..Len(ring) : last_close_ns - ring[i] <= NS30}

TierShape ==
  /\ Cardinality(RingLast30) >= 5 => retry_state = "TIER3"
  /\ retry_state = "TIER1" => Len(ring) < 3
  /\ retry_state = "TIER2" => Len(ring) >= 3

Tier2Shape ==
  retry_state = "TIER2" =>
    /\ tier2_since = tier2_entered_ns
    /\ tier2_since \in Times /\ tier2_since <= last_close_ns
    /\ tier2_since > 0 => last_close_ns - tier2_since < NS5MIN

RetryInv == RetryTypeOK /\ LogShape /\ RingShape /\ TierShape /\ Tier2Shape

\* The windows and the clock are naturals.
LEMMA WindowTypes ==
  /\ NS30 \in Nat /\ NS60 \in Nat /\ NS5MIN \in Nat /\ Word \in Nat /\ MaxTime \in Nat
  /\ NS30 < NS60 /\ NS60 < NS5MIN /\ MaxTime < Word
  /\ Times \subseteq Nat
BY WindowsAssumption DEF Times

\* The uint64_t difference is the true one when time did not run backwards.
LEMMA ElapsedIs ==
  ASSUME NEW now \in Times, NEW t \in Times, t <= now
  PROVE  Elapsed(now, t) = now - t
<1>1. now - t \in 0..(Word - 1) /\ Word \in Nat
  BY WindowTypes DEF Times
<1>2. QED
  BY <1>1 DEF Elapsed

\* The smallest element of a set of naturals.
LEMMA LeastExists ==
  ASSUME NEW S \in SUBSET Nat, S # {}
  PROVE  \E x \in S : \A y \in S : x <= y
<1>1. PICK x \in S : \A y \in S : ~(<<y, x>> \in OpToRel(<, Nat))
  BY NatLessThanWellFounded, WFMin
<1>2. ASSUME NEW y \in S PROVE x <= y
  <2>1. x \in Nat /\ y \in Nat
    OBVIOUS
  <2>2. CASE y < x
    <3>1. <<y, x>> \in OpToRel(<, Nat)
      BY <2>1, <2>2, Zenon DEF OpToRel
    <3>2. QED
      BY <1>1, <3>1
  <2>3. QED
    BY <2>1, <2>2
<1>3. QED
  BY <1>2

\* How many numbers an interval holds, from nothing on.
LEMMA IntervalSize ==
  ASSUME NEW a \in Int, NEW b \in Int, a <= b + 1
  PROVE  IsFiniteSet(a..b) /\ Cardinality(a..b) = b - a + 1
<1>1. IsFiniteSet(a..b) /\ Cardinality(a..b) = IF a > b THEN 0 ELSE b - a + 1
  BY FS_Interval
<1>2. CASE a > b
  <2>1. b - a + 1 = 0
    BY <1>2
  <2>2. QED
    BY <1>1, <1>2, <2>1
<1>3. CASE ~(a > b)
  BY <1>1, <1>3
<1>4. QED
  BY <1>2, <1>3

\* The indices of an interval, by rank.
LEMMA SelectedInterval ==
  ASSUME RetryTypeOK, NEW a \in 1..(Len(ring) + 1)
  PROVE  /\ Selected(a..Len(ring)) \in Seq(Times)
         /\ Len(Selected(a..Len(ring))) = Len(ring) - a + 1
         /\ \A k \in 1..(Len(ring) - a + 1) : Selected(a..Len(ring))[k] = ring[a + k - 1]
<1> DEFINE n == Len(ring)
           Ranked(k) == CHOOSE i \in a..n : Cardinality({j \in a..n : j <= i}) = k
<1>1. ring \in Seq(Times) /\ n \in Nat /\ n + 1 \in Nat /\ a \in Nat /\ a <= n + 1
  BY LenProperties DEF RetryTypeOK
<1> HIDE DEF n
<1>2. Cardinality(a..n) = n - a + 1
  BY <1>1, IntervalSize
<1>3. ASSUME NEW i \in a..n PROVE Cardinality({j \in a..n : j <= i}) = i - a + 1
  <2>1. {j \in a..n : j <= i} = a..i /\ i \in Int /\ a \in Int /\ a <= i + 1
    BY <1>1
  <2>2. Cardinality(a..i) = i - a + 1
    BY <2>1, IntervalSize
  <2>3. QED
    BY <2>1, <2>2
<1>4. ASSUME NEW k \in 1..(n - a + 1) PROVE Ranked(k) = a + k - 1
  <2>1. a + k - 1 \in a..n /\ (a + k - 1) - a + 1 = k
    BY <1>1
  <2>2. Cardinality({j \in a..n : j <= a + k - 1}) = k
    BY <1>3, <2>1
  <2>3. \A i \in a..n : Cardinality({j \in a..n : j <= i}) = k => i = a + k - 1
    <3>1. SUFFICES ASSUME NEW i \in a..n, Cardinality({j \in a..n : j <= i}) = k
                   PROVE  i = a + k - 1
      OBVIOUS
    <3>2. i - a + 1 = k
      BY <1>3, <3>1
    <3>3. QED
      BY <1>1, <3>2
  <2>4. QED
    BY <2>1, <2>2, <2>3
<1>5. Selected(a..n) = [k \in 1..(n - a + 1) |-> ring[Ranked(k)]]
  BY <1>2 DEF Selected
<1> HIDE DEF Ranked
<1>6. \A k \in 1..(n - a + 1) : ring[Ranked(k)] = ring[a + k - 1] /\ ring[a + k - 1] \in Times
  <2> TAKE k \in 1..(n - a + 1)
  <2>1. a + k - 1 \in 1..n
    BY <1>1
  <2>2. QED
    BY <1>1, <1>4, <2>1, ElementOfSeq DEF n
<1>7. n - a + 1 \in Nat
  BY <1>1
<1>8. /\ Selected(a..n) \in Seq(Times) /\ Len(Selected(a..n)) = n - a + 1
      /\ \A k \in 1..(n - a + 1) : Selected(a..n)[k] = ring[a + k - 1]
  BY <1>5, <1>6, <1>7
<1>9. QED
  BY <1>8 DEF n

\* In any call of the clock the ring's times are in the past, in order.
LEMMA RingTimes ==
  ASSUME RetryInv
  PROVE  /\ ring \in Seq(Times) /\ Len(ring) \in Nat /\ Len(ring) <= RingSlots
         /\ log \in Seq(Times) /\ Len(log) \in Nat /\ Dropped \in Nat
         /\ last_close_ns \in Times /\ last_close_ns \in Nat
         /\ \A i \in 1..Len(log) : log[i] \in Times /\ log[i] \in Nat /\ log[i] <= last_close_ns
         /\ \A i \in 1..Len(ring) : ring[i] \in Times /\ ring[i] \in Nat /\ ring[i] <= last_close_ns
         /\ \A i, j \in 1..Len(ring) : i <= j => ring[i] <= ring[j]
<1>1. /\ ring \in Seq(Times) /\ Len(ring) \in Nat /\ Len(ring) <= RingSlots
      /\ log \in Seq(Times) /\ Len(log) \in Nat /\ last_close_ns \in Times
      /\ Len(ring) <= Len(log)
  BY LenProperties DEF RetryInv, RetryTypeOK, RingShape
<1>2. Dropped \in Nat
  BY <1>1 DEF Dropped
<1>3. ASSUME NEW i \in 1..Len(log)
      PROVE  log[i] \in Times /\ log[i] \in Nat /\ log[i] <= last_close_ns
  <2>1. log[i] \in Times
    BY <1>1, ElementOfSeq
  <2>2. log[i] <= log[Len(log)] /\ Len(log) # 0
    BY <1>1 DEF RetryInv, LogShape
  <2>3. QED
    BY <2>1, <2>2, WindowTypes DEF RetryInv, LogShape
<1>4. ASSUME NEW i \in 1..Len(ring) PROVE Dropped + i \in 1..Len(log) /\ ring[i] = log[Dropped + i]
  BY <1>1, <1>2 DEF RetryInv, RingShape, Dropped
<1>5. \A i, j \in 1..Len(ring) : i <= j => ring[i] <= ring[j]
  <2> SUFFICES ASSUME NEW i \in 1..Len(ring), NEW j \in 1..Len(ring), i <= j
               PROVE  ring[i] <= ring[j]
    OBVIOUS
  <2>1. Dropped + i <= Dropped + j
    BY <1>2
  <2>2. QED
    BY <1>4, <2>1 DEF RetryInv, LogShape
<1>6. QED
  BY <1>1, <1>2, <1>3, <1>4, <1>5, WindowTypes

\* What stays of the ring at a close at time now: its end, from place a on.
Live(now) == {i \in DOMAIN ring : Elapsed(now, ring[i]) <= NS60}
Kept(now) == IF Cardinality(Live(now)) = RingSlots THEN Live(now) \ {Oldest(Live(now))}
             ELSE Live(now)

\* Evicting and dropping the oldest leave an end of the ring, at most seven
\* closes of the last 60 s, and forget none of these unless there are seven.
LEMMA KeptIsEnd ==
  ASSUME RetryInv, NEW now \in Times, last_close_ns <= now
  PROVE  \E a \in 1..(Len(ring) + 1) :
           /\ Kept(now) = a..Len(ring)
           /\ Len(ring) - a + 1 < RingSlots
           /\ \A i \in a..Len(ring) : now - ring[i] <= NS60
           /\ \/ Len(ring) - a + 1 = RingSlots - 1
              \/ \A i \in 1..(a - 1) : now - ring[i] > NS60
<1> DEFINE n == Len(ring)
           P(a) == /\ Kept(now) = a..n
                   /\ n - a + 1 < RingSlots
                   /\ \A i \in a..n : now - ring[i] <= NS60
                   /\ \/ n - a + 1 = RingSlots - 1
                      \/ \A i \in 1..(a - 1) : now - ring[i] > NS60
<1>0. /\ n \in Nat /\ n <= RingSlots /\ DOMAIN ring = 1..n /\ now \in Nat /\ NS60 \in Nat
      /\ RingSlots = 8
  BY RingTimes, LenProperties, WindowTypes DEF RingSlots
<1>1. ASSUME NEW i \in 1..n
      PROVE  ring[i] \in Nat /\ Elapsed(now, ring[i]) = now - ring[i]
  <2>1. ring[i] \in Times /\ ring[i] \in Nat /\ ring[i] <= last_close_ns /\ last_close_ns \in Nat
    BY RingTimes
  <2>2. ring[i] <= now
    BY <1>0, <2>1
  <2>3. QED
    BY <2>1, <2>2, ElapsedIs
<1>2. \A i, j \in 1..n : i <= j => ring[i] <= ring[j]
  BY RingTimes
<1> HIDE DEF n
<1>3. Live(now) = {i \in 1..n : now - ring[i] <= NS60}
  BY <1>0, <1>1 DEF Live
<1>4. CASE Live(now) = {}
  <2>1. Cardinality(Live(now)) = 0
    BY <1>4, FS_EmptySet
  <2>2. Kept(now) = (n + 1)..n
    BY <1>0, <1>4, <2>1 DEF Kept
  <2>3. \A i \in 1..n : now - ring[i] > NS60
    <3> TAKE i \in 1..n
    <3>1. ring[i] \in Nat /\ ~(now - ring[i] <= NS60)
      BY <1>1, <1>3, <1>4
    <3>2. QED
      BY <1>0, <3>1
  <2>4. n + 1 \in 1..(n + 1) /\ P(n + 1)
    BY <1>0, <2>2, <2>3
  <2>5. QED
    BY <2>4 DEF n
<1>5. CASE Live(now) # {}
  <2>1. Live(now) \in SUBSET Nat
    BY <1>0, <1>3
  <2>2. PICK a \in Live(now) : \A y \in Live(now) : a <= y
    BY <1>5, <2>1, LeastExists
  <2>3. a \in 1..n /\ a \in Nat /\ now - ring[a] <= NS60
    BY <1>0, <1>3, <2>2
  <2>4. Live(now) = a..n
    <3>1. ASSUME NEW i \in a..n PROVE i \in Live(now)
      <4>1. i \in 1..n /\ a <= i
        BY <1>0, <2>3
      <4>2. ring[a] <= ring[i] /\ ring[a] \in Nat /\ ring[i] \in Nat
        BY <1>1, <1>2, <2>3, <4>1
      <4>3. QED
        BY <1>0, <1>3, <2>3, <4>1, <4>2
    <3>2. ASSUME NEW i \in Live(now) PROVE i \in a..n
      BY <1>0, <1>3, <2>2, <2>3
    <3>3. QED
      BY <3>1, <3>2
  <2>5. Cardinality(Live(now)) = n - a + 1
    <3>1. Cardinality(a..n) = n - a + 1
      BY <1>0, <2>3, IntervalSize
    <3>2. QED
      BY <2>4, <3>1
  <2>6. CASE n - a + 1 = RingSlots
    <3>1. a = 1 /\ n = 8
      BY <1>0, <2>3, <2>6
    <3>2. Oldest(Live(now)) = 1
      BY <2>4, <3>1 DEF Oldest
    <3>3. Kept(now) = 2..n
      BY <2>4, <2>5, <2>6, <3>1, <3>2 DEF Kept
    <3>4. \A i \in 2..n : now - ring[i] <= NS60
      BY <1>3, <2>4, <3>1
    <3>5. 2 \in 1..(n + 1) /\ P(2)
      BY <1>0, <3>1, <3>3, <3>4
    <3>6. QED
      BY <3>5 DEF n
  <2>7. CASE n - a + 1 # RingSlots
    <3>1. Kept(now) = a..n
      BY <2>4, <2>5, <2>7 DEF Kept
    <3>2. \A i \in a..n : now - ring[i] <= NS60
      BY <1>3, <2>4
    <3>3. \A i \in 1..(a - 1) : now - ring[i] > NS60
      <4> TAKE i \in 1..(a - 1)
      <4>1. i \in 1..n /\ i \notin a..n
        BY <1>0, <2>3
      <4>2. ~(now - ring[i] <= NS60) /\ ring[i] \in Nat
        BY <1>1, <1>3, <2>4, <4>1
      <4>3. QED
        BY <1>0, <4>2
    <3>4. n - a + 1 < RingSlots /\ a \in 1..(n + 1)
      BY <1>0, <2>3, <2>7
    <3>5. P(a)
      BY <3>1, <3>2, <3>3, <3>4
    <3>6. QED
      BY <3>4, <3>5 DEF n
  <2>8. QED
    BY <2>6, <2>7
<1>6. QED
  BY <1>4, <1>5

\* A recorded close: what the ring and the log are afterwards.
LEMMA CloseFacts ==
  ASSUME RetryInv, NEW now \in Times, RecordClose(now)
  PROVE  /\ last_close_ns <= now
         /\ last_close_ns' = now /\ log' = Append(log, now)
         /\ ring' = Append(Selected(Kept(now)), now)
         /\ retry_state' = TierOf(ring', now)
         /\ tier2_entered_ns' = CASE retry_state' # "TIER2" -> 0
                                  [] retry_state # "TIER2" -> now
                                  [] OTHER -> tier2_entered_ns
         /\ tier2_since' = CASE retry_state' # "TIER2" -> -1
                             [] retry_state # "TIER2" -> now
                             [] OTHER -> tier2_since
         /\ result' = "OK"
<1>1. now \in Nat /\ last_close_ns \in Nat
  BY RingTimes, WindowTypes
<1>2. last_close_ns <= now
  BY <1>1 DEF RecordClose
<1>3. RingAfter(now) = Append(Selected(Kept(now)), now)
  BY DEF RingAfter, Kept, Live
<1>4. ring' = RingAfter(now) /\ retry_state' = TierOf(RingAfter(now), now)
  BY DEF RecordClose, RingRecord
<1>5. tier2_entered_ns' = CASE retry_state' # "TIER2" -> 0
                            [] retry_state # "TIER2" -> now
                            [] OTHER -> tier2_entered_ns
  BY <1>4 DEF RecordClose, RingRecord
<1>6. QED
  BY <1>2, <1>3, <1>4, <1>5 DEF RecordClose

\* A recorded close keeps the ring the end of the log.
LEMMA CloseShape ==
  ASSUME RetryInv, NEW now \in Times, RecordClose(now)
  PROVE  /\ ring' \in Seq(Times) /\ Len(ring') <= RingSlots
         /\ log' \in Seq(Times) /\ LogShape' /\ RingShape'
<1> DEFINE n == Len(ring)
           L == Len(log)
<1>0. /\ n \in Nat /\ L \in Nat /\ Dropped \in Nat /\ Dropped = L - n /\ n <= L
      /\ now \in Nat /\ last_close_ns \in Nat /\ last_close_ns <= now
      /\ log \in Seq(Times) /\ RingSlots = 8 /\ NS60 \in Nat
  BY RingTimes, WindowTypes, CloseFacts DEF RetryInv, RingShape, Dropped, RingSlots
<1>1. PICK a \in 1..(n + 1) :
        /\ Kept(now) = a..n
        /\ n - a + 1 < RingSlots
        /\ \A i \in a..n : now - ring[i] <= NS60
        /\ n - a + 1 = RingSlots - 1 \/ \A i \in 1..(a - 1) : now - ring[i] > NS60
  BY <1>0, KeptIsEnd
<1>2. /\ Selected(a..n) \in Seq(Times) /\ Len(Selected(a..n)) = n - a + 1
      /\ \A k \in 1..(n - a + 1) : Selected(a..n)[k] = ring[a + k - 1]
  BY SelectedInterval DEF RetryInv
<1>3. /\ ring' = Append(Selected(a..n), now) /\ log' = Append(log, now)
      /\ last_close_ns' = now
  BY <1>1, CloseFacts
<1>4. /\ ring' \in Seq(Times) /\ Len(ring') = n - a + 2
      /\ \A k \in 1..(n - a + 1) : ring'[k] = ring[a + k - 1]
      /\ ring'[n - a + 2] = now
  <2> DEFINE s == Selected(a..n)
             m == n - a + 1
  <2>1. m \in Nat /\ m + 1 = n - a + 2
    BY <1>0
  <2>2. s \in Seq(Times) /\ Len(s) = m
    BY <1>2
  <2> HIDE DEF s, m
  <2>3. /\ Append(s, now) \in Seq(Times) /\ Len(Append(s, now)) = m + 1
        /\ \A k \in 1..m : Append(s, now)[k] = s[k]
        /\ Append(s, now)[m + 1] = now
    BY <2>1, <2>2, AppendProperties
  <2>4. QED
    BY <1>2, <1>3, <2>1, <2>3 DEF s, m
<1>5. /\ log' \in Seq(Times) /\ Len(log') = L + 1
      /\ \A i \in 1..L : log'[i] = log[i]
      /\ log'[L + 1] = now
  BY <1>0, <1>3, AppendProperties
<1> HIDE DEF n, L
<1>6. a \in Nat /\ a >= 1 /\ a <= n + 1
  BY <1>0
<1>7. Len(ring') <= RingSlots /\ Len(ring') \in Nat /\ Len(ring') # 0 /\ Len(log') \in Nat
  BY <1>0, <1>1, <1>4, <1>5, <1>6
<1>8. Dropped' = Dropped + a - 1 /\ Dropped' \in Nat
  BY <1>0, <1>4, <1>5, <1>6 DEF Dropped
<1>9. \A i \in 1..L : log[i] \in Nat /\ log[i] <= last_close_ns
  BY RingTimes DEF L
<1>10. \A i \in 1..n : ring[i] = log[Dropped + i] /\ ring[i] \in Nat
  BY RingTimes DEF RetryInv, RingShape, n
<1>11. LogShape'
  <2>1. ASSUME NEW i \in 1..(L + 1), NEW j \in 1..(L + 1), i <= j
        PROVE  log'[i] <= log'[j]
    <3>1. CASE j = L + 1
      <4>1. CASE i = L + 1
        BY <1>0, <1>5, <3>1, <4>1
      <4>2. CASE i # L + 1
        <5>1. i \in 1..L /\ log'[i] = log[i]
          BY <1>0, <1>5, <4>2
        <5>2. log[i] \in Nat /\ log[i] <= now
          BY <1>0, <1>9, <5>1
        <5>3. QED
          BY <1>5, <3>1, <5>1, <5>2
      <4>3. QED
        BY <4>1, <4>2
    <3>2. CASE j # L + 1
      <4>1. i \in 1..L /\ j \in 1..L
        BY <1>0, <2>1, <3>2
      <4>2. log[i] <= log[j]
        BY <2>1, <4>1 DEF RetryInv, LogShape, L
      <4>3. QED
        BY <1>5, <4>1, <4>2
    <3>3. QED
      BY <3>1, <3>2
  <2>2. Len(log') # 0 /\ last_close_ns' = log'[Len(log')]
    BY <1>0, <1>3, <1>5
  <2>3. \A i, j \in 1..Len(log') : i <= j => log'[i] <= log'[j]
    BY <1>5, <2>1
  <2>4. QED
    BY <2>2, <2>3 DEF LogShape
<1>12. ASSUME NEW k \in 1..Len(ring')
       PROVE  ring'[k] = log'[Dropped' + k] /\ now - ring'[k] <= NS60
  <2>1. CASE k = n - a + 2
    <3>1. Dropped' + k = L + 1
      BY <1>0, <1>6, <1>8, <2>1
    <3>2. QED
      BY <1>0, <1>4, <1>5, <2>1, <3>1
  <2>2. CASE k # n - a + 2
    <3>1. /\ k \in 1..(n - a + 1) /\ a + k - 1 \in a..n /\ a + k - 1 \in 1..n
          /\ Dropped + (a + k - 1) = Dropped' + k /\ Dropped' + k \in 1..L
      BY <1>0, <1>4, <1>6, <1>8, <2>2
    <3>2. ring'[k] = ring[a + k - 1] /\ now - ring[a + k - 1] <= NS60
      BY <1>1, <1>4, <3>1
    <3>3. ring[a + k - 1] = log[Dropped' + k]
      BY <1>10, <3>1
    <3>4. QED
      BY <1>5, <3>1, <3>2, <3>3
  <2>3. QED
    BY <2>1, <2>2
<1>13. Len(ring') = RingSlots \/ \A i \in 1..Dropped' : now - log'[i] > NS60
  <2>1. SUFFICES ASSUME Len(ring') # RingSlots, NEW i \in 1..Dropped'
                 PROVE  now - log'[i] > NS60
    OBVIOUS
  <2>2. \A j \in 1..(a - 1) : now - ring[j] > NS60
    <3>1. n - a + 1 # RingSlots - 1
      BY <1>0, <1>4, <1>6, <2>1
    <3>2. QED
      BY <1>1, <3>1
  <2>3. i \in 1..L /\ log'[i] = log[i] /\ log[i] \in Nat /\ i \in Nat
    BY <1>0, <1>5, <1>6, <1>8, <1>9
  <2>4. CASE i > Dropped
    <3>1. i - Dropped \in 1..(a - 1) /\ i - Dropped \in 1..n /\ Dropped + (i - Dropped) = i
      BY <1>0, <1>6, <1>8, <2>4
    <3>2. ring[i - Dropped] = log[i]
      BY <1>10, <3>1
    <3>3. QED
      BY <2>2, <2>3, <3>1, <3>2
  <2>5. CASE i <= Dropped
    <3>1. CASE n = RingSlots
      <4>1. a - 1 \in 1..(a - 1) /\ a - 1 \in 1..n /\ Dropped + (a - 1) \in 1..L
        BY <1>0, <1>4, <1>6, <1>7, <2>1, <3>1
      <4>2. ring[a - 1] = log[Dropped + (a - 1)] /\ now - ring[a - 1] > NS60
        BY <1>10, <2>2, <4>1
      <4>3. log[i] <= log[Dropped + (a - 1)]
        BY <1>0, <1>6, <2>3, <2>5, <4>1 DEF RetryInv, LogShape, L
      <4>4. log[Dropped + (a - 1)] \in Nat
        BY <1>9, <4>1
      <4>5. QED
        BY <1>0, <2>3, <4>2, <4>3, <4>4
    <3>2. CASE n # RingSlots
      <4>1. last_close_ns - log[i] > NS60
        BY <1>0, <2>3, <2>5, <3>2 DEF RetryInv, RingShape, n
      <4>2. QED
        BY <1>0, <2>3, <4>1
    <3>3. QED
      BY <3>1, <3>2
  <2>6. QED
    BY <1>0, <2>3, <2>4, <2>5
<1>14. Len(ring') <= Len(log')
  BY <1>0, <1>4, <1>5, <1>6
<1>15. RingShape'
  BY <1>3, <1>7, <1>12, <1>13, <1>14 DEF RingShape, RingSlots
<1>16. QED
  BY <1>4, <1>5, <1>7, <1>11, <1>15

\* The tier after a close is decided from the ring as the close leaves it, and
\* a session that was in TIER2 for five minutes is not left there.
LEMMA CloseTier ==
  ASSUME RetryInv, NEW now \in Times, RecordClose(now)
  PROVE  /\ retry_state' \in {"TIER1", "TIER2", "TIER3"}
         /\ TierShape' /\ Tier2Shape'
<1>1. /\ ring' \in Seq(Times) /\ RingShape' /\ LogShape' /\ log' \in Seq(Times)
  BY CloseShape
<1>2. /\ last_close_ns' = now /\ last_close_ns <= now /\ now \in Nat /\ last_close_ns \in Nat
      /\ NS5MIN \in Nat /\ NS5MIN > 0
  BY CloseFacts, RingTimes, WindowTypes
<1>3. DOMAIN ring' = 1..Len(ring') /\ Len(ring') \in Nat
  BY <1>1, LenProperties
<1>4. \A i \in 1..Len(ring') : Elapsed(now, ring'[i]) = now - ring'[i]
  <2> TAKE i \in 1..Len(ring')
  <2>1. ring'[i] \in Times /\ ring'[i] \in Nat
    BY <1>1, ElementOfSeq, WindowTypes
  <2>2. ring'[i] <= now
    <3>0. Dropped' + i \in 1..Len(log') /\ Len(log') \in Nat
      <4>1. Len(ring') <= Len(log') /\ Len(log') \in Nat
        BY <1>1, LenProperties DEF RingShape
      <4>2. QED
        BY <1>3, <4>1 DEF Dropped
    <3>1. ring'[i] = log'[Dropped' + i]
      BY <1>1 DEF RingShape
    <3>2. log'[Dropped' + i] <= log'[Len(log')] /\ Len(log') # 0
      BY <1>1, <3>0 DEF LogShape
    <3>3. QED
      BY <1>1, <1>2, <3>1, <3>2 DEF LogShape
  <2>3. QED
    BY <2>1, <2>2, ElapsedIs
<1>5. InLast30(ring', now) = Cardinality(RingLast30')
  <2>1. {i \in DOMAIN ring' : Elapsed(now, ring'[i]) <= NS30} = RingLast30'
    BY <1>2, <1>3, <1>4 DEF RingLast30
  <2>2. QED
    BY <2>1 DEF InLast30
<1> DEFINE escalates == InLast30(ring', now) >= 5 \/ ContinuousTier2(now)
<1>6. /\ escalates => retry_state' = "TIER3"
      /\ ~escalates /\ Len(ring') >= 3 => retry_state' = "TIER2"
      /\ ~escalates /\ ~(Len(ring') >= 3) => retry_state' = "TIER1"
  BY CloseFacts DEF TierOf
<1>7. retry_state' \in {"TIER1", "TIER2", "TIER3"}
  BY <1>6
<1>8. TierShape'
  <2>1. Cardinality(RingLast30') >= 5 => retry_state' = "TIER3"
    BY <1>5, <1>6
  <2>2. retry_state' = "TIER1" => Len(ring') < 3
    BY <1>3, <1>6
  <2>3. retry_state' = "TIER2" => Len(ring') >= 3
    BY <1>6
  <2>4. QED
    BY <2>1, <2>2, <2>3 DEF TierShape
<1>9. Tier2Shape'
  <2>1. SUFFICES ASSUME retry_state' = "TIER2"
                 PROVE  /\ tier2_since' = tier2_entered_ns'
                        /\ tier2_since' \in Times /\ tier2_since' <= now
                        /\ tier2_since' > 0 => now - tier2_since' < NS5MIN
    BY <1>2 DEF Tier2Shape
  <2>2. CASE retry_state # "TIER2"
    <3>1. tier2_since' = now /\ tier2_entered_ns' = now
      BY <2>1, <2>2, CloseFacts
    <3>2. QED
      BY <1>2, <3>1
  <2>3. CASE retry_state = "TIER2"
    <3>1. tier2_since' = tier2_since /\ tier2_entered_ns' = tier2_entered_ns
      BY <2>1, <2>3, CloseFacts
    <3>2. /\ tier2_since = tier2_entered_ns /\ tier2_since \in Times /\ tier2_since \in Nat
          /\ tier2_since <= last_close_ns
      BY <2>3, WindowTypes DEF RetryInv, Tier2Shape
    <3>3. ~ContinuousTier2(now)
      BY <1>6, <2>1
    <3>4. tier2_since <= now /\ Elapsed(now, tier2_since) = now - tier2_since
      BY <1>2, <3>2, ElapsedIs
    <3>5. tier2_since > 0 => now - tier2_since < NS5MIN
      BY <1>2, <2>3, <3>2, <3>3, <3>4 DEF ContinuousTier2
    <3>6. QED
      BY <3>1, <3>2, <3>4, <3>5
  <2>4. QED
    BY <2>2, <2>3
<1>10. QED
  BY <1>7, <1>8, <1>9

\* A close keeps the invariant.
LEMMA CloseInv ==
  ASSUME RetryInv, NEW now \in Times, RecordClose(now)
  PROVE  RetryInv'
<1>1. /\ ring' \in Seq(Times) /\ Len(ring') <= RingSlots /\ log' \in Seq(Times)
      /\ LogShape' /\ RingShape'
  BY CloseShape
<1>2. retry_state' \in {"TIER1", "TIER2", "TIER3"} /\ TierShape' /\ Tier2Shape'
  BY CloseTier
<1>3. /\ tier2_entered_ns' \in Times /\ tier2_since' \in Times \cup {-1}
      /\ last_close_ns' \in Times /\ result' = "OK"
  <2>1. 0 \in Times
    BY WindowTypes DEF Times
  <2>2. tier2_entered_ns' \in {0, now, tier2_entered_ns} /\ tier2_since' \in {-1, now, tier2_since}
    BY CloseFacts
  <2>3. QED
    BY <2>1, <2>2, CloseFacts DEF RetryInv, RetryTypeOK
<1>4. RetryTypeOK'
  BY <1>1, <1>2, <1>3 DEF RetryTypeOK, RingSlots, Times
<1>5. QED
  BY <1>1, <1>2, <1>4 DEF RetryInv

\* An empty ring and log, as at the start and after a user retry.
IsEmpty ==
  /\ ring = <<>> /\ log = <<>> /\ last_close_ns = 0 /\ retry_state = "OK"
  /\ tier2_entered_ns = 0 /\ tier2_since = -1
  /\ result \in {"none", "OK", "CLOCK_BACKWARDS", "INVALID_ARG"}

LEMMA EmptyShape == IsEmpty => RetryInv
<1> SUFFICES ASSUME IsEmpty PROVE RetryInv
  OBVIOUS
<1> USE DEF IsEmpty
<1>1. Len(ring) = 0 /\ Len(log) = 0 /\ ring \in Seq(Times) /\ log \in Seq(Times) /\ 0 \in Times
  BY EmptySeq, WindowTypes DEF Times
<1>2. Dropped = 0
  BY <1>1 DEF Dropped
<1>3. Cardinality(RingLast30) = 0
  <2>1. RingLast30 = {}
    BY <1>1 DEF RingLast30
  <2>2. QED
    BY <2>1, FS_EmptySet
<1>4. LogShape /\ RingShape
  BY <1>1, <1>2 DEF LogShape, RingShape
<1>5. TierShape /\ Tier2Shape
  BY <1>3 DEF TierShape, Tier2Shape
<1>6. RetryTypeOK
  BY <1>1 DEF RetryTypeOK, RingSlots
<1>7. QED
  BY <1>4, <1>5, <1>6 DEF RetryInv

\* The ring and the tier agree with the whole history at every point.
LEMMA RetryInvariance == RetrySpec => []RetryInv
<1>1. RetryInit => RetryInv
  BY EmptyShape DEF RetryInit, IsEmpty
<1>2. RetryInv /\ [RetryNext]_retryVars => RetryInv'
  <2> SUFFICES ASSUME RetryInv, [RetryNext]_retryVars PROVE RetryInv'
    OBVIOUS
  <2>1. ASSUME NEW now \in Times, RecordClose(now) PROVE RetryInv'
    BY <2>1, CloseInv
  <2>2. ASSUME UNCHANGED <<ring, retry_state, tier2_entered_ns, last_close_ns, log, tier2_since>>,
               result' \in {"none", "OK", "CLOCK_BACKWARDS", "INVALID_ARG"}
        PROVE  RetryInv'
    BY <2>2 DEF RetryInv, RetryTypeOK, LogShape, RingShape, TierShape, Tier2Shape, RingLast30,
                Dropped
  <2>3. CASE \E now \in Times : RecordCloseBackwards(now)
    BY <2>2, <2>3 DEF RecordCloseBackwards
  <2>4. CASE UserRetryRefused
    BY <2>2, <2>4 DEF UserRetryRefused
  <2>5. CASE UserRetry
    <3>1. IsEmpty'
      BY <2>5 DEF UserRetry, IsEmpty
    <3>2. IsEmpty' => RetryInv'
      BY EmptyShape, PTL
    <3>3. QED
      BY <3>1, <3>2
  <2>6. CASE UNCHANGED retryVars
    <3>1. result \in {"none", "OK", "CLOCK_BACKWARDS", "INVALID_ARG"}
      BY DEF RetryInv, RetryTypeOK
    <3>2. QED
      BY <2>2, <2>6, <3>1 DEF retryVars
  <2>7. QED
    BY <2>1, <2>3, <2>4, <2>5, <2>6 DEF RetryNext
<1>3. QED
  BY <1>1, <1>2, PTL DEF RetrySpec

\* The ring holds the recent closes, or eight of them.
LEMMA RecentClosesKept ==
  ASSUME RetryInv, log # <<>>
  PROVE  /\ Cardinality(Recent(NS60)) \in Nat
         /\ Len(ring) = IF Cardinality(Recent(NS60)) < RingSlots THEN Cardinality(Recent(NS60))
                        ELSE RingSlots
<1> DEFINE L == Len(log)
           R == Recent(NS60)
<1>1. /\ L \in Nat /\ L # 0 /\ Len(ring) \in Nat /\ Len(ring) <= RingSlots /\ Len(ring) <= L
      /\ Dropped = L - Len(ring) /\ Dropped \in Nat /\ DOMAIN log = 1..L
      /\ last_close_ns = log[L] /\ NS60 \in Nat /\ last_close_ns \in Nat
  <2>1. log \in Seq(Times)
    BY RingTimes
  <2>2. Len(log) # 0
    BY <2>1, EmptySeq
  <2>3. QED
    BY <2>1, <2>2, RingTimes, LenProperties, WindowTypes DEF RetryInv, RingShape, LogShape, Dropped
<1>2. \A i \in 1..L : log[i] \in Nat
  BY RingTimes
<1> HIDE DEF L
<1>3. R = {i \in 1..L : last_close_ns - log[i] <= NS60}
  BY <1>1 DEF Recent, L
<1> HIDE DEF R
<1>4. (Dropped + 1)..L \subseteq R
  <2> SUFFICES ASSUME NEW i \in (Dropped + 1)..L PROVE i \in R
    OBVIOUS
  <2>1. i - Dropped \in 1..Len(ring) /\ Dropped + (i - Dropped) = i /\ i \in 1..L
    BY <1>1
  <2>2. ring[i - Dropped] = log[i] /\ last_close_ns - ring[i - Dropped] <= NS60
    BY <2>1 DEF RetryInv, RingShape
  <2>3. QED
    BY <1>3, <2>1, <2>2
<1>5. IsFiniteSet(1..L)
  BY <1>1, IntervalSize
<1>6. IsFiniteSet(R)
  <2>1. R \subseteq 1..L
    BY <1>3
  <2>2. QED
    BY <1>5, <2>1, FS_Subset
<1>7. Cardinality((Dropped + 1)..L) = Len(ring)
  <2>1. Dropped + 1 \in Int /\ L \in Int /\ Dropped + 1 <= L + 1 /\ L - (Dropped + 1) + 1 = Len(ring)
    BY <1>1
  <2>2. QED
    BY <2>1, IntervalSize
<1>8. Cardinality(R) \in Nat /\ Len(ring) <= Cardinality(R)
  <2>1. Cardinality((Dropped + 1)..L) <= Cardinality(R)
    BY <1>4, <1>6, FS_Subset
  <2>2. QED
    BY <1>6, <1>7, <2>1, FS_CardinalityType
<1>9. CASE Len(ring) = RingSlots
  BY <1>1, <1>8, <1>9 DEF R
<1>10. CASE Len(ring) # RingSlots
  <2>1. R \subseteq (Dropped + 1)..L
    <3> SUFFICES ASSUME NEW i \in R PROVE i \in (Dropped + 1)..L
      OBVIOUS
    <3>1. i \in 1..L /\ last_close_ns - log[i] <= NS60 /\ log[i] \in Nat
      BY <1>2, <1>3
    <3>2. i \notin 1..Dropped
      BY <1>1, <1>10, <3>1 DEF RetryInv, RingShape
    <3>3. QED
      BY <1>1, <3>1, <3>2
  <2>2. R = (Dropped + 1)..L
    BY <1>4, <2>1
  <2>3. Cardinality(R) = Len(ring)
    BY <1>7, <2>2
  <2>4. Cardinality(R) \in Nat /\ Cardinality(R) < RingSlots
    BY <1>1, <1>10, <2>3 DEF RingSlots
  <2>5. QED
    BY <2>3, <2>4 DEF R
<1>11. QED
  BY <1>9, <1>10

\* Five closes of the last 30 s are five closes of the ring.
LEMMA FiveClosesInRing ==
  ASSUME RetryInv, log # <<>>, Cardinality(Recent(NS30)) >= 5
  PROVE  Cardinality(RingLast30) >= 5
<1> DEFINE L == Len(log)
           R == Recent(NS30)
           n == Len(ring)
<1>1. /\ L \in Nat /\ L # 0 /\ n \in Nat /\ n <= L
      /\ Dropped = L - n /\ Dropped \in Nat /\ DOMAIN log = 1..L
      /\ last_close_ns = log[L] /\ NS30 \in Nat /\ last_close_ns \in Nat
      /\ RingSlots = 8 /\ NS60 \in Nat /\ NS30 < NS60
  <2>1. log \in Seq(Times)
    BY RingTimes
  <2>2. Len(log) # 0
    BY <2>1, EmptySeq
  <2>3. QED
    BY <2>1, <2>2, RingTimes, LenProperties, WindowTypes
    DEF RetryInv, RingShape, LogShape, Dropped, RingSlots
<1>2. \A i \in 1..L : log[i] \in Nat
  BY RingTimes
<1> HIDE DEF L, n
<1>3. R = {i \in 1..L : last_close_ns - log[i] <= NS30} /\ Cardinality(R) >= 5
  BY <1>1 DEF Recent, L
<1> HIDE DEF R
<1>4. R \subseteq 1..L
  BY <1>3
\* the recent closes are the end of the log, so the last five are recent
<1>5. ASSUME NEW k \in Nat, k < 5, NEW S \in SUBSET (1..L), S \subseteq (L - k + 1)..L, S = R
      PROVE  FALSE
  <2>1. CASE k <= L
    <3>1. (L - k + 1) \in Int /\ L \in Int /\ L - k + 1 <= L + 1 /\ L - (L - k + 1) + 1 = k
      BY <1>1, <2>1
    <3>2. IsFiniteSet((L - k + 1)..L) /\ Cardinality((L - k + 1)..L) = k
      BY <3>1, IntervalSize
    <3>3. Cardinality(R) <= k /\ Cardinality(R) \in Nat
      <4>1. IsFiniteSet(R) /\ Cardinality(R) <= Cardinality((L - k + 1)..L)
        BY <1>5, <3>2, FS_Subset
      <4>2. QED
        BY <3>2, <4>1, FS_CardinalityType
    <3>4. QED
      BY <1>3, <1>5, <3>3
  <2>2. CASE k > L
    <3>1. IsFiniteSet(1..L) /\ Cardinality(1..L) = L
      <4>1. 1 \in Int /\ L \in Int /\ 1 <= L + 1 /\ L - 1 + 1 = L
        BY <1>1
      <4>2. QED
        BY <4>1, IntervalSize
    <3>2. Cardinality(R) <= L /\ Cardinality(R) \in Nat
      <4>1. IsFiniteSet(R) /\ Cardinality(R) <= Cardinality(1..L)
        BY <1>4, <3>1, FS_Subset
      <4>2. QED
        BY <3>1, <4>1, FS_CardinalityType
    <3>3. QED
      BY <1>1, <1>3, <1>5, <2>2, <3>2
  <2>3. QED
    BY <1>1, <2>1, <2>2
<1>6. PICK f \in R : f <= L - 4
  <2>1. SUFFICES ASSUME \A i \in R : ~(i <= L - 4) PROVE FALSE
    OBVIOUS
  <2>2. R \subseteq (L - 4 + 1)..L
    BY <1>1, <1>4, <2>1
  <2>3. QED
    BY <1>4, <1>5, <2>2
<1>7. \A i \in (L - 4)..L : i \in 1..L /\ log[f] <= log[i] /\ last_close_ns - log[i] <= NS30
  <2> TAKE i \in (L - 4)..L
  <2>1. i \in 1..L /\ f \in 1..L /\ f <= i /\ last_close_ns - log[f] <= NS30
    BY <1>1, <1>3, <1>6
  <2>2. log[f] <= log[i] /\ log[f] \in Nat /\ log[i] \in Nat
    BY <1>2, <2>1 DEF RetryInv, LogShape, L
  <2>3. QED
    BY <1>1, <2>1, <2>2
<1>8. n >= 5
  <2>1. SUFFICES ASSUME n < 5 PROVE FALSE
    BY <1>1
  <2>2. f \in 1..L /\ last_close_ns - log[f] <= NS30 /\ log[f] \in Nat
    BY <1>2, <1>3, <1>6
  <2>3. f \in 1..Dropped
    BY <1>1, <1>6, <2>1, <2>2
  <2>4. last_close_ns - log[f] > NS60
    <3>0. n # RingSlots
      BY <2>1 DEF RingSlots
    <3>1. Len(ring) # RingSlots
      BY <3>0 DEF n
    <3>2. QED
      BY <2>3, <3>1 DEF RetryInv, RingShape
  <2>5. QED
    BY <1>1, <2>2, <2>4
<1>9. (n - 4)..n \subseteq RingLast30
  <2> SUFFICES ASSUME NEW i \in (n - 4)..n PROVE i \in RingLast30
    OBVIOUS
  <2>1. i \in 1..n /\ Dropped + i \in (L - 4)..L
    BY <1>1, <1>8
  <2>2. ring[i] = log[Dropped + i]
    BY <2>1 DEF RetryInv, RingShape, n
  <2>3. QED
    BY <1>7, <2>1, <2>2 DEF RingLast30, n
<1>10. Cardinality((n - 4)..n) = 5
  <2>1. n - 4 \in Int /\ n \in Int /\ n - 4 <= n + 1 /\ n - (n - 4) + 1 = 5
    BY <1>1
  <2>2. QED
    BY <2>1, IntervalSize
<1>11. IsFiniteSet(RingLast30)
  <2>1. RingLast30 \subseteq 1..n
    BY DEF RingLast30, n
  <2>2. IsFiniteSet(1..n)
    BY <1>1, IntervalSize
  <2>3. QED
    BY <2>1, <2>2, FS_Subset
<1>12. Cardinality((n - 4)..n) <= Cardinality(RingLast30) /\ Cardinality(RingLast30) \in Nat
  BY <1>9, <1>11, FS_Subset, FS_CardinalityType
<1>13. QED
  BY <1>10, <1>12

\* The ring a session keeps is the end of the history of its closes: those of
\* the last 60 s and at most the eight latest, whatever was evicted, dropped
\* or left by a user retry in between (t3_retry_ring_record).
THEOREM RingIsHistory == RetrySpec => []RingIsRecentCloses
<1>1. RetryInv => RingIsRecentCloses
  <2> SUFFICES ASSUME RetryInv, log # <<>>
               PROVE  LET n == Cardinality(Recent(NS60))
                          m == IF n < RingSlots THEN n ELSE RingSlots
                      IN  ring = SubSeq(log, Len(log) - m + 1, Len(log))
    BY DEF RingIsRecentCloses, RetryInv
  <2> DEFINE n == Cardinality(Recent(NS60))
             m == IF n < RingSlots THEN n ELSE RingSlots
             part == SubSeq(log, Len(log) - m + 1, Len(log))
  <2>1. n \in Nat /\ m = Len(ring)
    BY RecentClosesKept DEF RetryInv
  <2> HIDE DEF n, m
  <2>2. /\ Len(log) \in Nat /\ Len(ring) \in Nat /\ Len(ring) <= Len(log)
        /\ log \in Seq(Times) /\ ring \in Seq(Times) /\ Dropped = Len(log) - Len(ring)
    BY RingTimes DEF RetryInv, RingShape, Dropped
  <2>3. \A i \in (Len(log) - m + 1)..Len(log) : log[i] \in Times
    <3> TAKE i \in (Len(log) - m + 1)..Len(log)
    <3>1. i \in 1..Len(log)
      BY <2>1, <2>2
    <3>2. QED
      BY <2>2, <3>1, ElementOfSeq
  <2>4. Len(log) - m + 1 \in Int /\ Len(log) \in Int
    BY <2>1, <2>2
  <2>5. /\ part \in Seq(Times)
        /\ Len(part) = IF Len(log) - m + 1 <= Len(log) THEN Len(log) - (Len(log) - m + 1) + 1 ELSE 0
        /\ \A i \in 1..(Len(log) - (Len(log) - m + 1) + 1) :
             part[i] = log[(Len(log) - m + 1) + i - 1]
    BY <2>3, <2>4, SubSeqProperties
  <2>6. Len(part) = Len(ring)
    BY <2>1, <2>2, <2>5
  <2>7. \A i \in 1..Len(ring) : part[i] = ring[i]
    <3> TAKE i \in 1..Len(ring)
    <3>1. /\ i \in 1..(Len(log) - (Len(log) - m + 1) + 1)
          /\ (Len(log) - m + 1) + i - 1 = Dropped + i
      BY <2>1, <2>2
    <3>2. part[i] = log[Dropped + i]
      BY <2>5, <3>1
    <3>3. QED
      BY <3>2 DEF RetryInv, RingShape
  <2> HIDE DEF part
  <2>8. ring = part
    BY <2>2, <2>5, <2>6, <2>7, SeqEqual
  <2>9. QED
    BY <2>8 DEF part, m, n
<1>2. QED
  BY <1>1, RetryInvariance, PTL

\* The tier a host reads is the one its whole history of closes calls for:
\* five closes in 30 s reach TIER3 although the ring forgets closes, TIER1 and
\* TIER2 tell fewer than three closes in 60 s from more, and no close leaves a
\* session in TIER2 five minutes after it got there.
THEOREM TierIsHistory == RetrySpec => []TierMatchesHistory
<1>1. RetryInv => TierMatchesHistory
  <2> SUFFICES ASSUME RetryInv, log # <<>>
               PROVE  /\ Cardinality(Recent(NS30)) >= 5 => retry_state = "TIER3"
                      /\ retry_state = "TIER1" => Cardinality(Recent(NS60)) < 3
                      /\ retry_state = "TIER2" => Cardinality(Recent(NS60)) >= 3
                      /\ retry_state = "TIER2" /\ tier2_since > 0
                           => log[Len(log)] - tier2_since < NS5MIN
    BY DEF TierMatchesHistory
  <2>0. /\ log \in Seq(Times) /\ Len(log) \in Nat /\ Len(log) # 0 /\ Len(ring) \in Nat
        /\ last_close_ns = log[Len(log)] /\ RingSlots = 8
    BY RingTimes, EmptySeq DEF RetryInv, LogShape, RingSlots
  <2>1. Cardinality(Recent(NS30)) >= 5 => retry_state = "TIER3"
    BY FiveClosesInRing DEF RetryInv, TierShape
  <2>2. /\ Cardinality(Recent(NS60)) \in Nat
        /\ Len(ring) = IF Cardinality(Recent(NS60)) < RingSlots THEN Cardinality(Recent(NS60))
                       ELSE RingSlots
    BY RecentClosesKept
  <2>3. retry_state = "TIER1" => Cardinality(Recent(NS60)) < 3
    BY <2>0, <2>2 DEF RetryInv, TierShape
  <2>4. retry_state = "TIER2" => Cardinality(Recent(NS60)) >= 3
    BY <2>0, <2>2 DEF RetryInv, TierShape
  <2>5. retry_state = "TIER2" /\ tier2_since > 0 => log[Len(log)] - tier2_since < NS5MIN
    BY <2>0 DEF RetryInv, Tier2Shape
  <2>6. QED
    BY <2>1, <2>3, <2>4, <2>5
<1>2. QED
  BY <1>1, RetryInvariance, PTL
=============================================================================
