------------------------- MODULE ClientStreamProofs -------------------------
(***************************************************************************)
(* Proof that the receive path of ClientStream delivers the server's       *)
(* plaintext in order, for every ring size, TLS record size, frame size    *)
(* and message length.                                                     *)
(*                                                                         *)
(* DeliveredInOrder is not inductive: it says nothing of the bytes still   *)
(* inside the rings.  The strengthening follows a byte backwards.  got,    *)
(* plain_in and reasm_in hold consecutive positions that end at dec; the   *)
(* tokens of in_ring are the last ones SSL_read returned; the first of     *)
(* them is a frame header whose payload starts at position dec + 1; and    *)
(* the wire is a sequence of well-formed frames over consecutive           *)
(* positions, the plaintext a sequence of whole messages.                  *)
(*                                                                         *)
(* From the same invariant the stream is shown to implement                *)
(* MessageChannel, at the end; in between, two properties that hold        *)
(* whatever was refused on the way down have invariants of their own.      *)
(***************************************************************************)
EXTENDS MCClientStream, SequenceTheorems, TLAPS

\* Position p of the plaintext t begins a message (or t ends before it).
MessageStart(t, p) == p = Len(t) + 1 \/ (p \in 1..Len(t) /\ t[p] > 0)

\* The plaintext is whole messages, back to back.
TextShape(t) ==
  /\ MessageStart(t, 1)
  /\ \A p \in 1..Len(t) : t[p] > 0 => MessageStart(t, p + t[p] + 1)

\* Token j of the wire r, which carries n units, begins a frame whose payload
\* starts at position p.
FrameStart(r, n, j, p) ==
  \/ j = Len(r) + 1 /\ p = n + 1
  \/ j \in 1..Len(r) /\ r[j].hdr >= 0 /\ r[j].pos = p

\* The wire is whole frames over consecutive positions.
RawShape(r, n) ==
  /\ FrameStart(r, n, 1, 1)
  /\ \A j \in 1..Len(r) :
       r[j].hdr >= 0 =>
         /\ FrameStart(r, n, j + r[j].hdr + 1, r[j].pos + r[j].hdr)
         /\ r[j].pos + r[j].hdr <= n + 1
         /\ j + r[j].hdr <= Len(r)
         /\ \A i \in 1..r[j].hdr : r[j + i] = Payload(r[j].pos + i - 1)

\* s holds the positions after n, in order.
Run(s, n) == \A i \in 1..Len(s) : s[i] = n + i

\* Tokens consumed from in_ring.
Taken == nRecv - Len(in_ring.q)

InRingShape ==
  /\ Len(in_ring.q) <= nRecv
  /\ \A i \in 1..Len(in_ring.q) : in_ring.q[i] = raw[Taken + i]
  /\ FrameStart(raw, nSent, Taken + 1, dec + 1)

\* How many units are where.
Returned == Len(got)
Queued   == Len(plain_in.q)
Pending  == Len(reasm_in.q)

PipeShape ==
  /\ Returned + Queued + Pending = dec
  /\ Run(got, 0)
  /\ Run(plain_in.q, Returned)
  /\ Run(reasm_in.q, Returned + Queued)

Boundaries ==
  /\ MessageStart(text, Returned + 1)
  /\ MessageStart(text, Returned + Queued + 1)

SyncInv ==
  /\ dec <= nSent
  /\ TextShape(text)
  /\ RawShape(raw, nSent)
  /\ InRingShape
  /\ PipeShape
  /\ Boundaries

IInv == TypeOK /\ (InSync => SyncInv)

-----------------------------------------------------------------------------
(* Facts about the operators the model is built from *)

\* The two parts of a concatenation.
LEMMA ConcatFacts ==
  ASSUME NEW S, NEW s \in Seq(S), NEW t \in Seq(S), NEW n \in Nat, Len(t) = n
  PROVE  /\ s \o t \in Seq(S)
         /\ Len(s \o t) = Len(s) + n
         /\ \A i \in 1..Len(s) : (s \o t)[i] = s[i]
         /\ \A i \in 1..n : (s \o t)[Len(s) + i] = t[i]
<1>1. Len(s) \in Nat
  BY LenProperties
<1>2. s \o t \in Seq(S) /\ Len(s \o t) = Len(s) + Len(t)
  BY ConcatProperties
<1>3. \A i \in 1..(Len(s) + Len(t)) :
        (s \o t)[i] = IF i <= Len(s) THEN s[i] ELSE t[i - Len(s)]
  BY ConcatProperties
<1>4. \A i \in 1..Len(s) : (s \o t)[i] = s[i]
  BY <1>1, <1>3
<1>5. \A i \in 1..n : (s \o t)[Len(s) + i] = t[i]
  <2> TAKE i \in 1..n
  <2>1. Len(s) + i \in 1..(Len(s) + Len(t)) /\ ~(Len(s) + i <= Len(s)) /\ (Len(s) + i) - Len(s) = i
    BY <1>1
  <2>2. QED
    BY <1>3, <2>1
<1>6. QED
  BY <1>2, <1>4, <1>5

\* A frame is its header and its payload tokens, position by position.
LEMMA FrameFacts ==
  ASSUME NEW k \in Nat, NEW p \in Nat
  PROVE  /\ Frame(k, p) \in Seq(Token)
         /\ Len(Frame(k, p)) = k + 1
         /\ Frame(k, p)[1] = Header(k, p)
         /\ p > 0 => \A i \in 1..k : Frame(k, p)[1 + i] = Payload(p + i - 1)
<1> DEFINE h == <<Header(k, p)>>
           b == [i \in 1..k |-> Payload(p + i - 1)]
<1>1. h \in Seq(Token) /\ Len(h) = 1 /\ h[1] = Header(k, p)
  BY DEF Header, Token
<1>2. b \in Seq(Token) /\ Len(b) = k
  BY DEF Payload, Token
<1>3. QED
  BY <1>1, <1>2, ConcatProperties DEF Frame

\* A control frame is a header and payload tokens of no plaintext position.
LEMMA CtrlFrameFacts ==
  ASSUME NEW k \in Nat
  PROVE  CtrlFrame(k) \in Seq(Token) /\ Len(CtrlFrame(k)) = k + 1
<1> DEFINE h == <<Header(k, Noise)>>
           b == [i \in 1..k |-> Payload(Noise)]
<1>1. h \in Seq(Token) /\ Len(h) = 1
  BY DEF Header, Token, Noise
<1>2. b \in Seq(Token) /\ Len(b) = k
  BY DEF Payload, Token, Noise
<1>3. QED
  BY <1>1, <1>2, ConcatProperties DEF CtrlFrame

\* A message of wire length L is a prefix that carries L and L payload units.
LEMMA MessageFacts ==
  ASSUME NEW L \in Nat \ {0}
  PROVE  /\ Message(L) \in Seq(Int) /\ Len(Message(L)) = L + 1
         /\ Message(L)[1] = L /\ \A i \in 2..(L + 1) : Message(L)[i] = 0
<1> DEFINE b == [i \in 1..L |-> 0]
<1>1. <<L>> \in Seq(Int) /\ Len(<<L>>) = 1 /\ <<L>>[1] = L
  OBVIOUS
<1>2. b \in Seq(Int) /\ Len(b) = L
  OBVIOUS
<1>3. QED
  BY <1>1, <1>2, ConcatProperties DEF Message

\* The units of a message are a run.
LEMMA UnitsFacts ==
  ASSUME NEW p \in Nat, NEW L \in Nat
  PROVE  /\ Units(p, L) \in Seq(Nat) /\ Len(Units(p, L)) = 1 + L
         /\ Units(p, L)[1] = p + 1 /\ Run(Units(p, L), p)
  BY DEF Units, Run

\* A padding frame is the marker and filler units.
LEMMA PaddingFacts ==
  ASSUME NEW k \in Nat \ {0}
  PROVE  Padding(k) \in Seq(Int) /\ Len(Padding(k)) = k
<1> DEFINE b == [i \in 1..(k - 1) |-> Filler]
<1>1. <<Marker>> \in Seq(Int) /\ Len(<<Marker>>) = 1
  BY DEF Marker
<1>2. b \in Seq(Int) /\ Len(b) = k - 1
  BY DEF Filler
<1>3. QED
  BY <1>1, <1>2, ConcatProperties DEF Padding

RingOf(S) == [head : Nat, q : Seq(S)]

\* ring_append leaves a ring, with the units at its end when there was room.
LEMMA RingAppendFacts ==
  ASSUME NEW S, NEW r \in RingOf(S), NEW s \in Seq(S)
  PROVE  /\ RingAppend(r, s) \in RingOf(S)
         /\ RingFits(r, Len(s)) => RingAppend(r, s).q = r.q \o s
         /\ ~RingFits(r, Len(s)) => RingAppend(r, s).q = r.q
<1>1. r.q \o s \in Seq(S)
  BY ConcatProperties DEF RingOf
<1>2. QED
  BY <1>1 DEF RingOf, RingAppend, RingCompact

\* ring_consume leaves a ring without its first n units.
LEMMA RingConsumeFacts ==
  ASSUME NEW S, NEW r \in RingOf(S), NEW n \in 0..Len(r.q)
  PROVE  /\ RingConsume(r, n) \in RingOf(S)
         /\ Len(RingConsume(r, n).q) = Len(r.q) - n
         /\ \A i \in 1..(Len(r.q) - n) : RingConsume(r, n).q[i] = r.q[n + i]
<1> DEFINE t == SubSeq(r.q, n + 1, Len(r.q))
<1>0. r.q \in Seq(S) /\ Len(r.q) \in Nat /\ r.head \in Nat /\ n \in Nat
  BY LenProperties DEF RingOf
<1>1. CASE n >= Len(r.q)
  BY <1>0, <1>1, EmptySeq DEF RingConsume, EmptyRing, RingOf
<1>2. CASE n < Len(r.q)
  <2>1. \A i \in (n + 1)..Len(r.q) : r.q[i] \in S
    BY <1>0, ElementOfSeq
  <2>2. /\ t \in Seq(S) /\ Len(t) = Len(r.q) - n
        /\ \A i \in 1..(Len(r.q) - n) : t[i] = r.q[n + i]
    BY <1>0, <1>2, <2>1, SubSeqProperties, SMTT(60)
  <2>3. RingConsume(r, n) = [head |-> r.head + n, q |-> t]
    BY <1>0, <1>2 DEF RingConsume
  <2>4. QED
    BY <1>0, <2>2, <2>3 DEF RingOf
<1>3. QED
  BY <1>0, <1>1, <1>2

\* A part of a sequence.
LEMMA PartFacts ==
  ASSUME NEW S, NEW s \in Seq(S), NEW m \in Nat, NEW n \in Nat, m + n <= Len(s)
  PROVE  /\ SubSeq(s, m + 1, m + n) \in Seq(S)
         /\ Len(SubSeq(s, m + 1, m + n)) = n
         /\ \A i \in 1..n : SubSeq(s, m + 1, m + n)[i] = s[m + i]
<1>1. \A i \in (m + 1)..(m + n) : s[i] \in S
  BY ElementOfSeq, LenProperties
<1>2. QED
  BY <1>1, SubSeqProperties, SMTT(60)

-----------------------------------------------------------------------------
(* Type correctness *)

\* Every variable keeps its type through every step of server, pump and host
\* (the struct fields of t3_client_stream and the counters beside them).
THEOREM TypeCorrect == Spec => []TypeOK
<1>0. /\ MsgLens \subseteq Nat \ {0} /\ FrameSizes \subseteq Nat
      /\ PadSizes \subseteq Nat \ {0} /\ CtrlSizes \subseteq Nat \ {0}
      /\ TlsMax \in Nat \ {0}
  BY StreamAssumption
<1>1. Init => TypeOK
  BY EmptySeq DEF Init, TypeOK, EmptyRing
<1>2. TypeOK /\ [Next]_vars => TypeOK'
  <2> SUFFICES ASSUME TypeOK, [Next]_vars PROVE TypeOK'
    OBVIOUS
  <2>t. text \in Seq(Int) /\ Len(text) \in Nat /\ nSent \in 0..Len(text)
    BY LenProperties DEF TypeOK
  <2>r. raw \in Seq(Token) /\ Len(raw) \in Nat /\ nRecv \in 0..Len(raw)
    BY LenProperties DEF TypeOK
  <2>n. dec \in Nat /\ enc \in Nat
    BY DEF TypeOK
  <2>i. in_ring \in RingOf(Token) /\ in_ring.q \in Seq(Token) /\ Len(in_ring.q) \in Nat
    BY LenProperties DEF TypeOK, RingOf
  <2>m. reasm_in \in RingOf(Nat) /\ reasm_in.q \in Seq(Nat) /\ Len(reasm_in.q) \in Nat
    BY LenProperties DEF TypeOK, RingOf
  <2>p. plain_in \in RingOf(Nat) /\ plain_in.q \in Seq(Nat) /\ Len(plain_in.q) \in Nat
    BY LenProperties DEF TypeOK, RingOf
  <2>o. out_ring \in RingOf(Token) /\ out_ring.q \in Seq(Token) /\ Len(out_ring.q) \in Nat
    BY LenProperties DEF TypeOK, RingOf
  <2>1. ASSUME NEW L \in MsgLens, SrvMessage(L) PROVE TypeOK'
    <3>1. L \in Nat \ {0}
      BY <1>0
    <3>2. Message(L) \in Seq(Int) /\ Len(Message(L)) = L + 1
      BY <3>1, MessageFacts
    <3>3. text' = text \o Message(L)
      BY <2>1 DEF SrvMessage
    <3>4. text' \in Seq(Int) /\ Len(text') = Len(text) + L + 1
      BY <2>t, <3>1, <3>2, <3>3, ConcatFacts
    <3>5. nSent' \in 0..Len(text')
      BY <2>t, <2>1, <3>1, <3>4 DEF SrvMessage
    <3>6. sent' \in Seq(Seq(Nat))
      <4>1. Units(Len(text), L) \in Seq(Nat)
        BY <2>t, <3>1, UnitsFacts
      <4>2. sent \in Seq(Seq(Nat)) /\ sent' = Append(sent, Units(Len(text), L))
        BY <2>1 DEF TypeOK, SrvMessage
      <4>3. QED
        BY <4>1, <4>2, AppendProperties
    <3>7. QED
      BY <2>1, <3>4, <3>5, <3>6 DEF TypeOK, SrvMessage, downVars, upVars
  <2>2. ASSUME NEW k \in FrameSizes, SrvFrame(k) PROVE TypeOK'
    <3>1. k \in Nat
      BY <1>0
    <3>2. Frame(k, nSent + 1) \in Seq(Token) /\ Len(Frame(k, nSent + 1)) = k + 1
      BY <2>t, <3>1, FrameFacts
    <3>3. raw' = raw \o Frame(k, nSent + 1)
      BY <2>2 DEF SrvFrame
    <3>4. raw' \in Seq(Token) /\ Len(raw') = Len(raw) + k + 1
      BY <2>r, <3>1, <3>2, <3>3, ConcatFacts
    <3>5. nSent' \in 0..Len(text') /\ nRecv' \in 0..Len(raw')
      BY <2>t, <2>r, <2>2, <3>1, <3>4 DEF SrvFrame, downVars
    <3>6. QED
      BY <2>2, <3>4, <3>5 DEF TypeOK, SrvFrame, downVars, upVars
  <2>3. ASSUME NEW k \in PadSizes, SrvPadding(k) PROVE TypeOK'
    <3>1. k \in Nat \ {0}
      BY <1>0
    <3>2. Frame(k, nSent + 1) \in Seq(Token) /\ Len(Frame(k, nSent + 1)) = k + 1
      BY <2>t, <3>1, FrameFacts
    <3>3. Padding(k) \in Seq(Int) /\ Len(Padding(k)) = k
      BY <3>1, PaddingFacts
    <3>4. raw' = raw \o Frame(k, nSent + 1) /\ text' = text \o Padding(k)
      BY <2>3 DEF SrvPadding
    <3>5. raw' \in Seq(Token) /\ Len(raw') = Len(raw) + k + 1
      BY <2>r, <3>1, <3>2, <3>4, ConcatFacts
    <3>6. text' \in Seq(Int) /\ Len(text') = Len(text) + k
      BY <2>t, <3>1, <3>3, <3>4, ConcatFacts
    <3>7. nSent' \in 0..Len(text') /\ nRecv' \in 0..Len(raw')
      BY <2>t, <2>r, <2>3, <3>1, <3>5, <3>6 DEF SrvPadding, downVars
    <3>8. QED
      BY <2>3, <3>5, <3>6, <3>7 DEF TypeOK, SrvPadding, downVars, upVars
  <2>4. ASSUME NEW k \in CtrlSizes, SrvControl(k) PROVE TypeOK'
    <3>1. k \in Nat
      BY <1>0
    <3>2. CtrlFrame(k) \in Seq(Token) /\ Len(CtrlFrame(k)) = k + 1
      BY <3>1, CtrlFrameFacts
    <3>3. raw' = raw \o CtrlFrame(k)
      BY <2>4 DEF SrvControl
    <3>4. raw' \in Seq(Token) /\ Len(raw') = Len(raw) + k + 1
      BY <2>r, <3>1, <3>2, <3>3, ConcatFacts
    <3>5. nRecv' \in 0..Len(raw')
      BY <2>r, <2>4, <3>1, <3>4 DEF SrvControl, downVars
    <3>6. QED
      BY <2>4, <3>4, <3>5 DEF TypeOK, SrvControl, downVars, upVars
  <2>5. CASE Pump \/ SslReadEnd \/ DeframeEnd \/ DeframeError \/ ExtractEnd \/ FlushEnd
    BY <2>5 DEF TypeOK, Pump, SslReadEnd, DeframeEnd, DeframeError, ExtractEnd, FlushEnd,
                srvVars, downVars, upVars
  <2>6. ASSUME NEW n \in 1..TlsMax, SslRead(n) PROVE TypeOK'
    <3>1. n \in Nat /\ nRecv + n <= Len(raw)
      BY <1>0, <2>6 DEF SslRead
    <3>2. SubSeq(raw, nRecv + 1, nRecv + n) \in Seq(Token)
      BY <2>r, <3>1, PartFacts
    <3>3. in_ring' \in RingOf(Token)
      BY <2>i, <2>6, <3>2, RingAppendFacts DEF SslRead
    <3>4. nRecv' \in 0..Len(raw')
      BY <2>r, <2>6, <3>1 DEF SslRead, srvVars
    <3>5. QED
      BY <2>6, <3>3, <3>4 DEF TypeOK, SslRead, Outcome, RingOf, srvVars, upVars
  <2>7. CASE DeframeTerminal
    <3>1. in_ring' \in RingOf(Token)
      BY <2>i, <2>7, RingConsumeFacts DEF DeframeTerminal, RingUsed
    <3>2. QED
      BY <2>7, <3>1 DEF TypeOK, DeframeTerminal, RingOf, srvVars, upVars
  <2>8. ASSUME NEW k \in FrameSizes \cup PadSizes \cup CtrlSizes, DeframeData(k) PROVE TypeOK'
    <3>0. k \in Nat /\ ~FrameNeedsMore(k)
      BY <1>0, <2>8 DEF DeframeData
    <3>1. k \in Nat /\ 1 + k \in 0..Len(in_ring.q)
      BY <2>i, <3>0 DEF FrameNeedsMore, RingUsed
    <3>2. Decrypt(k) \in Seq(Nat)
      BY <2>n, <3>1 DEF Decrypt, Noise
    <3>3. reasm_in' \in RingOf(Nat)
      BY <2>m, <2>8, <3>2, RingAppendFacts DEF DeframeData
    <3>4. in_ring' \in RingOf(Token)
      BY <2>i, <2>8, <3>1, RingConsumeFacts DEF DeframeData
    <3>5. dec' \in Nat
      BY <2>n, <2>8, <3>1 DEF DeframeData
    <3>6. QED
      BY <2>8, <3>3, <3>4, <3>5 DEF TypeOK, DeframeData, Outcome, RingOf, srvVars, upVars
  <2>9. CASE ExtractSkip
    <3>1. reasm_in' \in RingOf(Nat)
      BY <2>m, <2>9, RingConsumeFacts DEF ExtractSkip, RingUsed
    <3>2. QED
      BY <2>9, <3>1 DEF TypeOK, ExtractSkip, RingOf, srvVars, upVars
  <2>10. ASSUME NEW L \in MsgLens, ExtractMessage(L) PROVE TypeOK'
    <3>1. L \in Nat /\ 1 + L \in 0..Len(reasm_in.q)
      BY <1>0, <2>m, <2>10 DEF ExtractMessage, RingUsed
    <3>2. SubSeq(reasm_in.q, 1, 1 + L) \in Seq(Nat)
      BY <2>m, <3>1, PartFacts, 0 + 1 = 1, 0 + (1 + L) = 1 + L
    <3>3. plain_in' \in RingOf(Nat)
      BY <2>p, <2>10, <3>2, RingAppendFacts DEF ExtractMessage
    <3>4. reasm_in' \in RingOf(Nat)
      BY <2>m, <2>10, <3>1, RingConsumeFacts DEF ExtractMessage
    <3>5. QED
      BY <2>10, <3>3, <3>4 DEF TypeOK, ExtractMessage, RingOf, srvVars, upVars
  <2>11. CASE SslWrite
    <3> DEFINE n == IF RingUsed(out_ring) > TlsMax THEN TlsMax ELSE RingUsed(out_ring)
    <3>1. n \in 0..Len(out_ring.q) /\ n \in Nat
      BY <1>0, <2>o DEF RingUsed
    <3>2. up' = up \o SubSeq(out_ring.q, 1, n) /\ out_ring' = RingConsume(out_ring, n)
      BY <2>11 DEF SslWrite
    <3> HIDE DEF n
    <3>3. SubSeq(out_ring.q, 1, n) \in Seq(Token)
      BY <2>o, <3>1, PartFacts, 0 + 1 = 1, 0 + n = n
    <3>4. up' \in Seq(Token)
      BY <3>2, <3>3, ConcatProperties DEF TypeOK
    <3>5. out_ring' \in RingOf(Token)
      BY <2>o, <3>1, <3>2, RingConsumeFacts
    <3>6. QED
      BY <2>11, <3>4, <3>5 DEF TypeOK, SslWrite, RingOf, srvVars, downVars
  <2>12. ASSUME NEW L \in MsgLens, Read(L) PROVE TypeOK'
    <3>1. L \in Nat /\ 1 + L \in 0..Len(plain_in.q)
      BY <1>0, <2>p, <2>12 DEF Read, RingUsed
    <3>2. SubSeq(plain_in.q, 1, 1 + L) \in Seq(Nat)
      BY <2>p, <3>1, PartFacts, 0 + 1 = 1, 0 + (1 + L) = 1 + L
    <3>3. got' \in Seq(Nat)
      BY <2>12, <3>2, ConcatProperties DEF TypeOK, Read
    <3>4. plain_in' \in RingOf(Nat)
      BY <2>p, <2>12, <3>1, RingConsumeFacts DEF Read
    <3>5. rcvd' \in Seq(Seq(Nat))
      <4>1. rcvd \in Seq(Seq(Nat)) /\ rcvd' = Append(rcvd, SubSeq(plain_in.q, 1, 1 + L))
        BY <2>12 DEF TypeOK, Read
      <4>2. QED
        BY <3>2, <4>1, AppendProperties
    <3>6. QED
      BY <2>12, <3>3, <3>4, <3>5 DEF TypeOK, Read, RingOf, srvVars, upVars
  <2>13. ASSUME NEW L \in MsgLens, Write(L) PROVE TypeOK'
    <3>1. L \in Nat
      BY <1>0
    <3>2. Frame(1 + L, enc + 1) \in Seq(Token)
      BY <2>n, <3>1, FrameFacts
    <3>3. out_ring' \in RingOf(Token) /\ enc' \in Nat
      BY <2>n, <2>o, <2>13, <3>1, <3>2, RingAppendFacts DEF Write
    <3>4. QED
      BY <2>13, <3>3 DEF TypeOK, Write, Outcome, RingOf, srvVars, downVars
  <2>14. CASE UNCHANGED vars
    BY <2>14 DEF TypeOK, vars
  <2>15. QED
    BY <2>1, <2>2, <2>3, <2>4, <2>5, <2>6, <2>7, <2>8, <2>9, <2>10, <2>11, <2>12, <2>13,
       <2>14 DEF Next, Server, PumpStep, Host
<1>3. QED
  BY <1>1, <1>2, PTL DEF Spec
-----------------------------------------------------------------------------
(* The inductive invariant *)

\* The types and lengths the steps below rely on.
LEMMA Types ==
  ASSUME TypeOK
  PROVE  /\ text \in Seq(Int) /\ Len(text) \in Nat
         /\ raw \in Seq(Token) /\ Len(raw) \in Nat
         /\ nSent \in Nat /\ nSent <= Len(text)
         /\ nRecv \in Nat /\ nRecv <= Len(raw)
         /\ in_ring \in RingOf(Token) /\ in_ring.q \in Seq(Token) /\ Len(in_ring.q) \in Nat
         /\ reasm_in \in RingOf(Nat) /\ reasm_in.q \in Seq(Nat) /\ Len(reasm_in.q) \in Nat
         /\ plain_in \in RingOf(Nat) /\ plain_in.q \in Seq(Nat) /\ Len(plain_in.q) \in Nat
         /\ got \in Seq(Nat) /\ Len(got) \in Nat
         /\ dec \in Nat
BY LenProperties DEF TypeOK, RingOf

\* The counters are naturals within the sequences they count.
LEMMA Counts ==
  ASSUME TypeOK
  PROVE  Returned \in Nat /\ Queued \in Nat /\ Pending \in Nat /\ dec \in Nat
BY Types DEF Returned, Queued, Pending

\* The tokens of the wire, field by field.
LEMMA TokenTypes ==
  ASSUME TypeOK, NEW j \in 1..Len(raw)
  PROVE  raw[j].hdr \in Int /\ raw[j].pos \in Nat
<1>1. raw[j] \in Token
  BY ElementOfSeq DEF TypeOK
<1>2. QED
  BY <1>1 DEF Token

\* The plaintext, unit by unit.
LEMMA TextTypes ==
  ASSUME TypeOK, NEW p \in 1..Len(text)
  PROVE  text[p] \in Int
BY ElementOfSeq DEF TypeOK

\* A message appended to whole messages.
LEMMA TextExtend ==
  ASSUME NEW t \in Seq(Int), TextShape(t), NEW L \in Nat \ {0}
  PROVE  /\ \A p \in Nat : MessageStart(t, p) => MessageStart(t \o Message(L), p)
         /\ TextShape(t \o Message(L))
<1> DEFINE u == t \o Message(L)
<1>0. Len(t) \in Nat /\ L + 1 \in Nat
  BY LenProperties
<1>1. Message(L) \in Seq(Int) /\ Len(Message(L)) = L + 1
  BY MessageFacts
<1>2. Message(L)[1] = L /\ \A i \in 2..(L + 1) : Message(L)[i] = 0
  BY MessageFacts
<1>3. /\ Len(u) = Len(t) + (L + 1)
      /\ \A p \in 1..Len(t) : u[p] = t[p]
      /\ \A i \in 1..(L + 1) : u[Len(t) + i] = Message(L)[i]
  BY <1>0, <1>1, ConcatFacts
<1>4. u[Len(t) + 1] = L
  BY <1>0, <1>2, <1>3
<1> HIDE DEF u
<1>5. \A p \in Nat : MessageStart(t, p) => MessageStart(u, p)
  BY <1>0, <1>3, <1>4 DEF MessageStart
<1>6. ASSUME NEW p \in 1..Len(u), u[p] > 0
      PROVE  MessageStart(u, p + u[p] + 1)
  <2>1. CASE p \in 1..Len(t)
    <3>1. u[p] = t[p] /\ t[p] \in Int
      BY <1>3, <2>1, ElementOfSeq
    <3>2. MessageStart(t, p + t[p] + 1)
      BY <1>6, <2>1, <3>1 DEF TextShape
    <3>3. p + t[p] + 1 \in Nat
      BY <1>6, <3>1
    <3>4. QED
      BY <1>5, <3>1, <3>2, <3>3
  <2>2. CASE p = Len(t) + 1
    BY <1>0, <1>3, <1>4, <2>2 DEF MessageStart
  <2>3. CASE p > Len(t) + 1
    <3>1. p - Len(t) \in 2..(L + 1) /\ Len(t) + (p - Len(t)) = p
      BY <1>0, <1>3, <2>3
    <3>2. u[p] = Message(L)[p - Len(t)]
      BY <1>3, <3>1
    <3>3. QED
      BY <1>2, <1>6, <3>1, <3>2
  <2>4. QED
    BY <1>0, <1>3, <2>1, <2>2, <2>3
<1>7. TextShape(u)
  BY <1>5, <1>6 DEF TextShape
<1>8. QED
  BY <1>5, <1>7 DEF u

\* A frame appended to whole frames.
LEMMA RawExtend ==
  ASSUME NEW r \in Seq(Token), NEW n \in Nat, RawShape(r, n), NEW k \in Nat
  PROVE  /\ \A j, p \in Nat : FrameStart(r, n, j, p)
                             => FrameStart(r \o Frame(k, n + 1), n + k, j, p)
         /\ RawShape(r \o Frame(k, n + 1), n + k)
<1> DEFINE f == Frame(k, n + 1)
           u == r \o f
<1>0. Len(r) \in Nat /\ k + 1 \in Nat /\ n + 1 \in Nat
  BY LenProperties
<1>1. f \in Seq(Token) /\ Len(f) = k + 1
  BY <1>0, FrameFacts
<1>2. f[1] = Header(k, n + 1) /\ \A i \in 1..k : f[1 + i] = Payload(n + 1 + i - 1)
  <2>1. n + 1 > 0
    OBVIOUS
  <2>2. QED
    BY <1>0, <2>1, FrameFacts
<1> HIDE DEF f
<1>3. /\ Len(u) = Len(r) + (k + 1)
      /\ \A j \in 1..Len(r) : u[j] = r[j]
      /\ \A i \in 1..(k + 1) : u[Len(r) + i] = f[i]
  BY <1>0, <1>1, ConcatFacts
<1> HIDE DEF u
<1>4. u[Len(r) + 1].hdr = k /\ u[Len(r) + 1].pos = n + 1
  BY <1>0, <1>2, <1>3 DEF Header
<1>5. \A i \in 1..k : u[Len(r) + 1 + i] = Payload(n + 1 + i - 1)
  <2> TAKE i \in 1..k
  <2>1. 1 + i \in 1..(k + 1) /\ Len(r) + 1 + i = Len(r) + (1 + i)
    BY <1>0
  <2>2. QED
    BY <1>2, <1>3, <2>1
<1>6. \A j, p \in Nat : FrameStart(r, n, j, p) => FrameStart(u, n + k, j, p)
  BY <1>0, <1>3, <1>4 DEF FrameStart
<1>7. FrameStart(u, n + k, 1, 1)
  BY <1>6 DEF RawShape
<1>8. ASSUME NEW j \in 1..Len(u), u[j].hdr >= 0
      PROVE  /\ FrameStart(u, n + k, j + u[j].hdr + 1, u[j].pos + u[j].hdr)
             /\ u[j].pos + u[j].hdr <= n + k + 1
             /\ j + u[j].hdr <= Len(u)
             /\ \A i \in 1..u[j].hdr : u[j + i] = Payload(u[j].pos + i - 1)
  <2>1. CASE j \in 1..Len(r)
    <3>1. u[j] = r[j] /\ r[j].hdr \in Int /\ r[j].pos \in Nat
      <4>1. r[j] \in Token
        BY <2>1, ElementOfSeq
      <4>2. QED
        BY <1>3, <2>1, <4>1 DEF Token
    <3>2. /\ FrameStart(r, n, j + r[j].hdr + 1, r[j].pos + r[j].hdr)
          /\ r[j].pos + r[j].hdr <= n + 1
          /\ j + r[j].hdr <= Len(r)
          /\ \A i \in 1..r[j].hdr : r[j + i] = Payload(r[j].pos + i - 1)
      BY <1>8, <2>1, <3>1 DEF RawShape
    <3>3. j + r[j].hdr + 1 \in Nat /\ r[j].pos + r[j].hdr \in Nat
      BY <1>8, <2>1, <3>1, SMTT(60)
    <3>4. FrameStart(u, n + k, j + r[j].hdr + 1, r[j].pos + r[j].hdr)
      BY <1>6, <3>2, <3>3
    <3>5. \A i \in 1..r[j].hdr : j + i \in 1..Len(r)
      <4>1. j + r[j].hdr <= Len(r) /\ r[j].hdr \in Int
        BY <3>1, <3>2
      <4>2. QED
        BY <1>0, <2>1, <4>1
    <3>6. \A i \in 1..r[j].hdr : u[j + i] = Payload(r[j].pos + i - 1)
      BY <1>3, <3>2, <3>5
    <3>7. r[j].pos + r[j].hdr <= n + k + 1 /\ j + r[j].hdr <= Len(u)
      BY <1>0, <1>3, <2>1, <3>1, <3>2
    <3>8. QED
      BY <3>1, <3>4, <3>6, <3>7
  <2>2. CASE j = Len(r) + 1
    <3>1. u[j].hdr = k /\ u[j].pos = n + 1
      BY <1>4, <2>2
    <3>2. \A i \in 1..k : u[j + i] = Payload(n + 1 + i - 1)
      BY <1>5, <2>2
    <3>3. FrameStart(u, n + k, j + k + 1, n + 1 + k)
      <4>1. j + k + 1 = Len(u) + 1 /\ n + 1 + k = (n + k) + 1
        BY <1>0, <1>3, <2>2
      <4>2. QED
        BY <4>1 DEF FrameStart
    <3>4. n + 1 + k <= n + k + 1 /\ j + k <= Len(u)
      BY <1>0, <1>3, <2>2
    <3>5. QED
      BY <3>1, <3>2, <3>3, <3>4
  <2>3. CASE j > Len(r) + 1
    <3>1. j - (Len(r) + 1) \in 1..k /\ Len(r) + 1 + (j - (Len(r) + 1)) = j
      BY <1>0, <1>3, <2>3
    <3>2. u[j] = Payload(n + 1 + (j - (Len(r) + 1)) - 1)
      BY <1>5, <3>1
    <3>3. u[j].hdr = -1
      BY <3>2 DEF Payload
    <3>4. QED
      BY <1>8, <3>3
  <2>4. QED
    BY <1>0, <1>3, <2>1, <2>2, <2>3
<1>9. RawShape(u, n + k)
  BY <1>7, <1>8 DEF RawShape
<1>10. QED
  BY <1>6, <1>9 DEF u, f

\* A run of positions continued by the positions that follow.
LEMMA RunConcat ==
  ASSUME NEW s \in Seq(Nat), NEW t \in Seq(Nat), NEW n \in Nat,
         Run(s, n), Run(t, n + Len(s))
  PROVE  Run(s \o t, n)
<1>0. Len(s) \in Nat /\ Len(t) \in Nat
  BY LenProperties
<1>1. /\ Len(s \o t) = Len(s) + Len(t)
      /\ \A i \in 1..Len(s) : (s \o t)[i] = s[i]
      /\ \A i \in 1..Len(t) : (s \o t)[Len(s) + i] = t[i]
  BY <1>0, ConcatFacts, SMTT(60)
<1>2. ASSUME NEW i \in 1..Len(s \o t) PROVE (s \o t)[i] = n + i
  <2>1. CASE i \in 1..Len(s)
    BY <1>1, <2>1 DEF Run
  <2>2. CASE i > Len(s)
    <3>1. i - Len(s) \in 1..Len(t) /\ Len(s) + (i - Len(s)) = i
      BY <1>0, <1>1, <2>2
    <3>2. (s \o t)[i] = t[i - Len(s)]
      BY <1>1, <3>1
    <3>3. t[i - Len(s)] = (n + Len(s)) + (i - Len(s))
      BY <3>1 DEF Run
    <3>4. QED
      BY <1>0, <3>2, <3>3
  <2>3. QED
    BY <1>0, <1>1, <2>1, <2>2
<1>3. QED
  BY <1>2 DEF Run

\* The first m units of a ring that holds a run, and what consuming them leaves.
LEMMA RunSplit ==
  ASSUME NEW r \in RingOf(Nat), NEW n \in Nat, Run(r.q, n), NEW m \in Nat, m <= Len(r.q)
  PROVE  /\ SubSeq(r.q, 1, m) \in Seq(Nat) /\ Len(SubSeq(r.q, 1, m)) = m
         /\ Run(SubSeq(r.q, 1, m), n)
         /\ Len(RingConsume(r, m).q) = Len(r.q) - m
         /\ Run(RingConsume(r, m).q, n + m)
<1>0. r.q \in Seq(Nat) /\ Len(r.q) \in Nat
  BY LenProperties DEF RingOf
<1>1. /\ SubSeq(r.q, 0 + 1, 0 + m) \in Seq(Nat) /\ Len(SubSeq(r.q, 0 + 1, 0 + m)) = m
      /\ \A i \in 1..m : SubSeq(r.q, 0 + 1, 0 + m)[i] = r.q[0 + i]
  BY <1>0, PartFacts
<1>2. 0 + 1 = 1 /\ 0 + m = m /\ m \in 0..Len(r.q)
  BY <1>0
<1>3. /\ SubSeq(r.q, 1, m) \in Seq(Nat) /\ Len(SubSeq(r.q, 1, m)) = m
      /\ \A i \in 1..m : SubSeq(r.q, 1, m)[i] = r.q[i]
  BY <1>1, <1>2
<1>4. Run(SubSeq(r.q, 1, m), n)
  BY <1>0, <1>3 DEF Run
<1>5. /\ Len(RingConsume(r, m).q) = Len(r.q) - m
      /\ \A i \in 1..(Len(r.q) - m) : RingConsume(r, m).q[i] = r.q[m + i]
  BY <1>2, RingConsumeFacts
<1>6. ASSUME NEW i \in 1..(Len(r.q) - m) PROVE RingConsume(r, m).q[i] = (n + m) + i
  <2>1. m + i \in 1..Len(r.q)
    BY <1>0
  <2>2. r.q[m + i] = n + (m + i)
    BY <2>1 DEF Run
  <2>3. QED
    BY <1>5, <2>2
<1>7. Run(RingConsume(r, m).q, n + m)
  BY <1>5, <1>6 DEF Run
<1>8. QED
  BY <1>3, <1>4, <1>5, <1>7

-----------------------------------------------------------------------------
(* The inductive invariant, action by action *)

\* A step that touches neither the server's side nor the receive path.
LEMMA SyncUnchanged ==
  ASSUME SyncInv, UNCHANGED <<text, raw, nSent, nRecv, in_ring, reasm_in, plain_in, dec, got>>
  PROVE  SyncInv'
BY DEF SyncInv, InRingShape, PipeShape, Boundaries, Taken, Returned, Queued, Pending

\* The server has a new message: every message start stays one.
LEMMA SyncMessage ==
  ASSUME TypeOK, SyncInv, NEW L \in MsgLens, SrvMessage(L)
  PROVE  SyncInv'
<1>0. L \in Nat \ {0}
  BY StreamAssumption
<1>1. /\ text' = text \o Message(L)
      /\ UNCHANGED <<raw, nSent, nRecv, in_ring, reasm_in, plain_in, dec, got>>
  BY DEF SrvMessage, downVars
<1>2. text \in Seq(Int) /\ TextShape(text)
  BY DEF TypeOK, SyncInv
<1>3. (\A p \in Nat : MessageStart(text, p) => MessageStart(text', p)) /\ TextShape(text')
  BY <1>0, <1>1, <1>2, TextExtend
<1>4. Returned + 1 \in Nat /\ Returned + Queued + 1 \in Nat
  BY Counts
<1>5. Boundaries'
  BY <1>1, <1>3, <1>4 DEF SyncInv, Boundaries, Returned, Queued
<1>6. QED
  BY <1>1, <1>3, <1>5 DEF SyncInv, InRingShape, PipeShape, Taken, Returned, Queued, Pending

\* The server frames more of its plaintext: every frame start stays one.
LEMMA SyncFrame ==
  ASSUME TypeOK, SyncInv, NEW k \in FrameSizes, SrvFrame(k)
  PROVE  SyncInv'
<1>0. k \in Nat
  BY StreamAssumption
<1>1. /\ raw' = raw \o Frame(k, nSent + 1) /\ nSent' = nSent + k
      /\ UNCHANGED <<text, nRecv, in_ring, reasm_in, plain_in, dec, got>>
  BY DEF SrvFrame, downVars
<1>2. raw \in Seq(Token) /\ Len(raw) \in Nat /\ nSent \in Nat /\ RawShape(raw, nSent)
  BY Types DEF SyncInv
<1>3. /\ \A j, p \in Nat : FrameStart(raw, nSent, j, p) => FrameStart(raw', nSent', j, p)
      /\ RawShape(raw', nSent')
  BY <1>0, <1>1, <1>2, RawExtend
<1>4. \A j \in 1..Len(raw) : raw'[j] = raw[j]
  <2>1. Frame(k, nSent + 1) \in Seq(Token) /\ Len(Frame(k, nSent + 1)) = k + 1 /\ k + 1 \in Nat
    BY <1>0, <1>2, FrameFacts
  <2>2. QED
    BY <1>1, <1>2, <2>1, ConcatFacts
<1>5. Len(in_ring.q) \in Nat /\ nRecv \in Nat /\ nRecv <= Len(raw) /\ dec \in Nat
  BY Types
<1>6. Len(in_ring.q) <= nRecv /\ FrameStart(raw, nSent, Taken + 1, dec + 1)
  BY DEF SyncInv, InRingShape
<1>7. \A i \in 1..Len(in_ring.q) : Taken + i \in 1..Len(raw)
  BY <1>2, <1>5, <1>6 DEF Taken
<1>8. \A i \in 1..Len(in_ring.q) : in_ring.q[i] = raw'[Taken + i]
  BY <1>4, <1>7 DEF SyncInv, InRingShape
<1>9. Taken + 1 \in Nat /\ dec + 1 \in Nat
  BY <1>5, <1>6 DEF Taken
<1>10. FrameStart(raw', nSent', Taken + 1, dec + 1)
  BY <1>3, <1>6, <1>9
<1>11. InRingShape'
  BY <1>1, <1>6, <1>8, <1>10 DEF InRingShape, Taken
<1>12. dec' <= nSent'
  BY <1>0, <1>1, <1>2, <1>5 DEF SyncInv
<1>13. QED
  BY <1>1, <1>3, <1>11, <1>12 DEF SyncInv, PipeShape, Boundaries, Returned, Queued, Pending

\* A ring that took an append without a fault had room for it.
LEMMA OutcomeFits ==
  ASSUME NEW r, NEW name \in {"in", "reasm"}, NEW n, NEW next,
         Outcome(r, name, n, next), InSync'
  PROVE  RingFits(r, n) /\ faults' = faults
BY DEF Outcome, InSync

\* SSL_read appends the next tokens of the wire to in_ring.
LEMMA SyncRead ==
  ASSUME TypeOK, SyncInv, NEW n \in 1..TlsMax, SslRead(n), InSync'
  PROVE  SyncInv'
<1> DEFINE s == SubSeq(raw, nRecv + 1, nRecv + n)
<1>0. n \in Nat /\ nRecv + n <= Len(raw) /\ nRecv' = nRecv + n
  BY StreamAssumption DEF SslRead
<1>1. /\ in_ring' = RingAppend(in_ring, s)
      /\ UNCHANGED <<text, raw, nSent, reasm_in, plain_in, dec, got>>
  BY DEF SslRead, srvVars
<1>2. RingFits(in_ring, n)
  BY OutcomeFits DEF SslRead
<1>3. /\ raw \in Seq(Token) /\ Len(raw) \in Nat /\ nRecv \in Nat
      /\ in_ring \in RingOf(Token) /\ in_ring.q \in Seq(Token) /\ Len(in_ring.q) \in Nat
  BY Types
<1>4. s \in Seq(Token) /\ Len(s) = n /\ \A i \in 1..n : s[i] = raw[nRecv + i]
  BY <1>0, <1>3, PartFacts
<1> HIDE DEF s
<1>5. in_ring'.q = in_ring.q \o s
  BY <1>1, <1>2, <1>3, <1>4, RingAppendFacts
<1>6. /\ Len(in_ring'.q) = Len(in_ring.q) + n
      /\ \A i \in 1..Len(in_ring.q) : in_ring'.q[i] = in_ring.q[i]
      /\ \A i \in 1..n : in_ring'.q[Len(in_ring.q) + i] = s[i]
  BY <1>0, <1>3, <1>4, <1>5, ConcatFacts
<1>7. /\ Len(in_ring.q) <= nRecv /\ FrameStart(raw, nSent, Taken + 1, dec + 1)
      /\ \A i \in 1..Len(in_ring.q) : in_ring.q[i] = raw[Taken + i]
  BY DEF SyncInv, InRingShape
<1>8. nRecv' - Len(in_ring'.q) = Taken /\ Len(in_ring'.q) <= nRecv'
  BY <1>0, <1>3, <1>6, <1>7 DEF Taken
<1>9. ASSUME NEW i \in 1..Len(in_ring'.q) PROVE in_ring'.q[i] = raw[Taken + i]
  <2>1. CASE i \in 1..Len(in_ring.q)
    BY <1>6, <1>7, <2>1
  <2>2. CASE i > Len(in_ring.q)
    <3>1. /\ i - Len(in_ring.q) \in 1..n /\ Len(in_ring.q) + (i - Len(in_ring.q)) = i
          /\ nRecv + (i - Len(in_ring.q)) = Taken + i
      BY <1>0, <1>3, <1>6, <2>2 DEF Taken
    <3>2. in_ring'.q[i] = s[i - Len(in_ring.q)]
      BY <1>6, <3>1
    <3>3. QED
      BY <1>4, <3>1, <3>2
  <2>3. QED
    BY <1>0, <1>3, <1>6, <2>1, <2>2
<1>10. InRingShape'
  BY <1>1, <1>7, <1>8, <1>9 DEF InRingShape, Taken
<1>11. QED
  BY <1>1, <1>10 DEF SyncInv, PipeShape, Boundaries, Returned, Queued, Pending

\* What the parser meets at the head of in_ring is the header of the frame
\* that continues the plaintext at dec + 1.
LEMMA HeadIsHeader ==
  ASSUME TypeOK, SyncInv, RingUsed(in_ring) > 0
  PROVE  /\ Taken + 1 \in 1..Len(raw) /\ Taken \in Nat
         /\ in_ring.q[1] = raw[Taken + 1]
         /\ raw[Taken + 1].hdr \in Nat
         /\ raw[Taken + 1].pos = dec + 1
<1>1. /\ Len(raw) \in Nat /\ nRecv \in Nat /\ nRecv <= Len(raw)
      /\ Len(in_ring.q) \in Nat /\ dec \in Nat
  BY Types
<1>2. /\ Len(in_ring.q) <= nRecv /\ FrameStart(raw, nSent, Taken + 1, dec + 1)
      /\ \A i \in 1..Len(in_ring.q) : in_ring.q[i] = raw[Taken + i]
  BY DEF SyncInv, InRingShape
<1>3. Taken \in Nat /\ Taken + 1 \in 1..Len(raw) /\ 1 \in 1..Len(in_ring.q)
  BY <1>1, <1>2, SMTT(30) DEF Taken, RingUsed
<1>4. in_ring.q[1] = raw[Taken + 1]
  BY <1>2, <1>3
<1>5. raw[Taken + 1].hdr >= 0 /\ raw[Taken + 1].pos = dec + 1
  <2>1. Taken + 1 # Len(raw) + 1
    BY <1>1, <1>3
  <2>2. QED
    BY <1>2, <2>1 DEF FrameStart
<1>6. raw[Taken + 1].hdr \in Int
  BY <1>3, TokenTypes
<1>7. QED
  BY <1>3, <1>4, <1>5, <1>6

\* The size the parser reads off a header is the size of the frame.
LEMMA HeadSize ==
  ASSUME TypeOK, SyncInv, RingUsed(in_ring) > 0,
         NEW k \in Nat, k \in FrameReadings(in_ring.q[1])
  PROVE  /\ raw[Taken + 1].hdr = k
         /\ FrameStart(raw, nSent, Taken + 1 + k + 1, dec + 1 + k)
         /\ dec + 1 + k <= nSent + 1
         /\ \A i \in 1..k : raw[Taken + 1 + i] = Payload(dec + i)
<1>1. /\ Taken + 1 \in 1..Len(raw) /\ in_ring.q[1] = raw[Taken + 1]
      /\ raw[Taken + 1].hdr \in Nat /\ raw[Taken + 1].pos = dec + 1
  BY HeadIsHeader
<1>2. raw[Taken + 1].hdr = k
  BY <1>1 DEF FrameReadings, Bad
<1>3. /\ FrameStart(raw, nSent, Taken + 1 + raw[Taken + 1].hdr + 1,
                     raw[Taken + 1].pos + raw[Taken + 1].hdr)
      /\ raw[Taken + 1].pos + raw[Taken + 1].hdr <= nSent + 1
      /\ \A i \in 1..raw[Taken + 1].hdr :
           raw[Taken + 1 + i] = Payload(raw[Taken + 1].pos + i - 1)
  <2>1. raw[Taken + 1].hdr >= 0
    BY <1>1
  <2>2. QED
    BY <1>1, <2>1 DEF SyncInv, RawShape
<1>4. dec \in Nat
  BY Types
<1>5. \A i \in 1..k : dec + 1 + i - 1 = dec + i
  BY <1>4
<1>6. \A i \in 1..k : raw[Taken + 1 + i] = Payload(dec + 1 + i - 1)
  BY <1>1, <1>2, <1>3
<1>7. QED
  BY <1>1, <1>2, <1>3, <1>5, <1>6

\* Consuming m tokens of in_ring, m - 1 of which were decrypted.
LEMMA ConsumeFrame ==
  ASSUME TypeOK, SyncInv, NEW k \in Nat, 1 + k <= Len(in_ring.q),
         FrameStart(raw, nSent, Taken + 1 + k + 1, dec + 1 + k),
         in_ring' = RingConsume(in_ring, 1 + k), dec' = dec + k,
         UNCHANGED <<raw, nSent, nRecv>>
  PROVE  InRingShape'
<1>1. in_ring \in RingOf(Token) /\ Len(in_ring.q) \in Nat /\ nRecv \in Nat /\ dec \in Nat
  BY Types
<1>2. 1 + k \in 0..Len(in_ring.q)
  BY <1>1
<1>3. /\ Len(in_ring'.q) = Len(in_ring.q) - (1 + k)
      /\ \A i \in 1..(Len(in_ring.q) - (1 + k)) : in_ring'.q[i] = in_ring.q[1 + k + i]
  BY <1>1, <1>2, RingConsumeFacts
<1>4. /\ Len(in_ring.q) <= nRecv
      /\ \A i \in 1..Len(in_ring.q) : in_ring.q[i] = raw[Taken + i]
  BY DEF SyncInv, InRingShape
<1>l. /\ Len(in_ring'.q) = Len(in_ring.q) - (1 + k) /\ Len(in_ring.q) <= nRecv
      /\ Len(in_ring'.q) \in Nat
  BY <1>1, <1>2, <1>3, <1>4
<1>5. Len(in_ring'.q) <= nRecv /\ nRecv - Len(in_ring'.q) = Taken + 1 + k
  <2> DEFINE a == Len(in_ring'.q)
             b == Len(in_ring.q)
  <2>1. a \in Nat /\ b \in Nat /\ a = b - (1 + k) /\ b <= nRecv /\ Taken = nRecv - b
    BY <1>1, <1>l DEF Taken
  <2> HIDE DEF a, b
  <2>2. a <= nRecv /\ nRecv - a = Taken + 1 + k
    BY <1>1, <2>1
  <2>3. QED
    BY <2>2 DEF a
<1>6. ASSUME NEW i \in 1..Len(in_ring'.q) PROVE in_ring'.q[i] = raw[Taken + 1 + k + i]
  <2>1. 1 + k + i \in 1..Len(in_ring.q) /\ Taken + (1 + k + i) = Taken + 1 + k + i
    BY <1>1, <1>l DEF Taken
  <2>2. QED
    BY <1>3, <1>4, <2>1
<1>7. FrameStart(raw, nSent, Taken + 1 + k + 1, dec' + 1)
  <2>1. dec + 1 + k = dec' + 1
    BY <1>1
  <2>2. QED
    BY <2>1
<1>8. QED
  BY <1>5, <1>6, <1>7 DEF InRingShape, Taken

\* The terminal HTTP chunk: an empty frame that is consumed.
LEMMA SyncTerminal ==
  ASSUME TypeOK, SyncInv, DeframeTerminal
  PROVE  SyncInv'
<1>1. /\ RingUsed(in_ring) > 0 /\ 0 \in FrameReadings(in_ring.q[1])
      /\ in_ring' = RingConsume(in_ring, 1)
      /\ UNCHANGED <<text, raw, nSent, nRecv, reasm_in, plain_in, dec, got>>
  BY DEF DeframeTerminal, srvVars
<1>2. FrameStart(raw, nSent, Taken + 1 + 0 + 1, dec + 1 + 0)
  BY <1>1, HeadSize
<1>3. dec' = dec + 0 /\ 1 + 0 <= Len(in_ring.q) /\ in_ring' = RingConsume(in_ring, 1 + 0)
  BY <1>1, Types DEF RingUsed
<1>4. InRingShape'
  BY <1>1, <1>2, <1>3, ConsumeFrame
<1>5. QED
  BY <1>1, <1>4 DEF SyncInv, PipeShape, Boundaries, Returned, Queued, Pending

\* A data frame: decrypted at the right counter, appended and consumed.
LEMMA SyncData ==
  ASSUME TypeOK, SyncInv, NEW k \in FrameSizes \cup PadSizes \cup CtrlSizes,
         DeframeData(k), InSync'
  PROVE  SyncInv'
<1>0. k \in Nat
  BY StreamAssumption
<1>1. /\ RingUsed(in_ring) > 0 /\ k \in FrameReadings(in_ring.q[1])
      /\ ~FrameNeedsMore(k) /\ dec' = dec + k
      /\ reasm_in' = RingAppend(reasm_in, Decrypt(k))
      /\ UNCHANGED <<text, raw, nSent, nRecv, plain_in, got>>
  BY DEF DeframeData, srvVars
<1>2. RingFits(reasm_in, k)
  BY OutcomeFits DEF DeframeData
<1>3. in_ring' = RingConsume(in_ring, 1 + k)
  BY <1>2 DEF DeframeData
<1>4. /\ FrameStart(raw, nSent, Taken + 1 + k + 1, dec + 1 + k)
      /\ dec + 1 + k <= nSent + 1
      /\ \A i \in 1..k : raw[Taken + 1 + i] = Payload(dec + i)
  BY <1>0, <1>1, HeadSize
<1>5. Len(in_ring.q) \in Nat /\ dec \in Nat /\ nSent \in Nat
  BY Types
<1>6. 1 + k <= Len(in_ring.q)
  BY <1>0, <1>1, <1>5 DEF FrameNeedsMore, RingUsed
<1>7. InRingShape'
  BY <1>0, <1>1, <1>3, <1>4, <1>6, ConsumeFrame
<1>8. ASSUME NEW i \in 1..k PROVE in_ring.q[1 + i] = Payload(dec + i)
  <2>1. 1 + i \in 1..Len(in_ring.q) /\ Taken + (1 + i) = Taken + 1 + i
    <3>1. nRecv \in Nat
      BY Types
    <3>2. QED
      BY <1>0, <1>5, <1>6, <3>1 DEF Taken
  <2>2. in_ring.q[1 + i] = raw[Taken + 1 + i]
    BY <2>1 DEF SyncInv, InRingShape
  <2>3. QED
    BY <1>4, <2>2
<1>9. Decrypt(k) = [i \in 1..k |-> dec + i]
  BY <1>8 DEF Decrypt
<1>10. Decrypt(k) \in Seq(Nat) /\ Len(Decrypt(k)) = k /\ Run(Decrypt(k), dec)
  BY <1>0, <1>5, <1>9 DEF Run
<1>11. reasm_in \in RingOf(Nat) /\ reasm_in.q \in Seq(Nat)
  BY Types
<1>12. reasm_in'.q = reasm_in.q \o Decrypt(k)
  BY <1>1, <1>2, <1>10, <1>11, RingAppendFacts
<1>13. Pending' = Pending + k
  <2>1. Len(reasm_in.q \o Decrypt(k)) = Len(reasm_in.q) + Len(Decrypt(k))
    BY <1>10, <1>11, ConcatProperties
  <2>2. QED
    BY <1>10, <1>12, <2>1 DEF Pending
<1>14. Returned + Queued + Pending = dec /\ Run(reasm_in.q, Returned + Queued)
  BY DEF SyncInv, PipeShape
<1>15. Run(reasm_in'.q, Returned + Queued)
  <2>1. Returned + Queued \in Nat
    BY Counts
  <2>2. Run(Decrypt(k), Returned + Queued + Len(reasm_in.q))
    BY <1>10, <1>14 DEF Pending
  <2>3. QED
    BY <1>10, <1>11, <1>12, <1>14, <2>1, <2>2, RunConcat
<1>16. Returned' = Returned /\ Queued' = Queued
  BY <1>1 DEF Returned, Queued
<1>17. Returned + Queued + Pending' = dec'
  <2>1. dec' = dec + k
    BY <1>1
  <2>2. QED
    BY <1>0, <1>13, <1>14, <2>1, Counts
<1>18. PipeShape'
  BY <1>1, <1>15, <1>16, <1>17 DEF SyncInv, PipeShape
<1>19. dec' <= nSent
  <2>1. dec' = dec + k /\ dec + 1 + k <= nSent + 1
    BY <1>1, <1>4
  <2>2. QED
    BY <1>0, <1>5, <2>1
<1>20. QED
  BY <1>1, <1>7, <1>16, <1>18, <1>19 DEF SyncInv, Boundaries

\* A unit at a message start that has been decrypted reads as its length only.
LEMMA LengthAtStart ==
  ASSUME TypeOK, SyncInv, NEW u \in Nat, u > 0, u <= dec, MessageStart(text, u)
  PROVE  /\ LengthReadings(u) = {text[u]} /\ text[u] \in Nat /\ text[u] > 0
         /\ MessageStart(text, u + text[u] + 1)
<1>1. dec \in Nat /\ nSent \in Nat /\ nSent <= Len(text) /\ Len(text) \in Nat
  BY Types
<1>2. dec <= nSent
  BY DEF SyncInv
<1>3. u \in 1..Len(text) /\ u # Len(text) + 1
  BY <1>1, <1>2
<1>4. text[u] > 0 /\ text[u] \in Int
  BY <1>3, TextTypes DEF MessageStart
<1>5. LengthReadings(u) = {text[u]}
  BY <1>3, <1>4 DEF LengthReadings, Noise
<1>6. QED
  BY <1>3, <1>4, <1>5 DEF SyncInv, TextShape

\* The heads of reasm_in and of plain_in: the unit there begins a message.
LEMMA PendingHead ==
  ASSUME TypeOK, SyncInv, Pending > 0
  PROVE  /\ reasm_in.q[1] = Returned + Queued + 1
         /\ LengthReadings(reasm_in.q[1]) = {text[Returned + Queued + 1]}
         /\ text[Returned + Queued + 1] \in Nat /\ text[Returned + Queued + 1] > 0
         /\ MessageStart(text, Returned + Queued + 1 + text[Returned + Queued + 1] + 1)
<1>1. /\ Returned + Queued + Pending = dec /\ Run(reasm_in.q, Returned + Queued)
      /\ MessageStart(text, Returned + Queued + 1)
  BY DEF SyncInv, PipeShape, Boundaries
<1>2. Returned + Queued + 1 \in Nat /\ Returned + Queued + 1 > 0 /\ Returned + Queued + 1 <= dec
  <2>1. Returned + Queued + Pending = dec
    BY <1>1
  <2>2. QED
    BY <2>1, Counts
<1>3. 1 \in 1..Len(reasm_in.q)
  BY Counts DEF Pending
<1>4. reasm_in.q[1] = Returned + Queued + 1
  BY <1>1, <1>3 DEF Run
<1>5. QED
  BY <1>1, <1>2, <1>4, LengthAtStart

\* The same for plain_in.
LEMMA QueuedHead ==
  ASSUME TypeOK, SyncInv, Queued > 0
  PROVE  /\ plain_in.q[1] = Returned + 1
         /\ LengthReadings(plain_in.q[1]) = {text[Returned + 1]}
         /\ MessageStart(text, Returned + 1 + text[Returned + 1] + 1)
<1>1. /\ Returned + Queued + Pending = dec /\ Run(plain_in.q, Returned)
      /\ MessageStart(text, Returned + 1)
  BY DEF SyncInv, PipeShape, Boundaries
<1>2. Returned + 1 \in Nat /\ Returned + 1 > 0 /\ Returned + 1 <= dec
  <2>1. Returned + Queued + Pending = dec
    BY <1>1
  <2>2. QED
    BY <2>1, Counts
<1>3. 1 \in 1..Len(plain_in.q)
  BY Counts DEF Queued
<1>4. plain_in.q[1] = Returned + 1
  BY <1>1, <1>3 DEF Run
<1>5. QED
  BY <1>1, <1>2, <1>4, LengthAtStart

\* A complete message moves from reasm_in to plain_in, or neither changes.
LEMMA SyncExtract ==
  ASSUME TypeOK, SyncInv, NEW L \in MsgLens, ExtractMessage(L)
  PROVE  SyncInv'
<1> DEFINE s == SubSeq(reasm_in.q, 1, 1 + L)
<1>0. L \in Nat /\ 1 + L \in Nat
  BY StreamAssumption
<1>1. /\ Pending > 0 /\ L \in LengthReadings(reasm_in.q[1]) /\ 1 + L <= Pending
      /\ plain_in' = RingAppend(plain_in, s)
      /\ reasm_in' = IF RingFits(plain_in, 1 + L) THEN RingConsume(reasm_in, 1 + L) ELSE reasm_in
      /\ UNCHANGED <<text, raw, nSent, nRecv, in_ring, dec, got>>
  BY <1>0, Types DEF ExtractMessage, RingUsed, srvVars, Pending
<1>2. reasm_in \in RingOf(Nat) /\ plain_in \in RingOf(Nat) /\ plain_in.q \in Seq(Nat)
  BY Types
<1>3. /\ Returned + Queued + Pending = dec
      /\ Run(plain_in.q, Returned) /\ Run(reasm_in.q, Returned + Queued)
  BY DEF SyncInv, PipeShape
<1>4. MessageStart(text, Returned + Queued + 1 + L + 1)
  BY <1>1, PendingHead
<1>5. Returned + Queued \in Nat /\ Returned \in Nat
  BY Counts
<1>6. /\ s \in Seq(Nat) /\ Len(s) = 1 + L /\ Run(s, Returned + Queued)
      /\ Len(RingConsume(reasm_in, 1 + L).q) = Pending - (1 + L)
      /\ Run(RingConsume(reasm_in, 1 + L).q, Returned + Queued + (1 + L))
  <2>1. 1 + L <= Len(reasm_in.q)
    BY <1>1 DEF Pending
  <2>2. QED
    BY <1>0, <1>2, <1>3, <1>5, <2>1, RunSplit DEF Pending
<1> HIDE DEF s
<1>7. Returned' = Returned
  BY <1>1 DEF Returned
<1>8. CASE RingFits(plain_in, 1 + L)
  <2>1. plain_in'.q = plain_in.q \o s
    BY <1>1, <1>2, <1>6, <1>8, RingAppendFacts
  <2>2. reasm_in' = RingConsume(reasm_in, 1 + L)
    BY <1>1, <1>8
  <2>3. Run(plain_in'.q, Returned)
    <3>1. Run(s, Returned + Len(plain_in.q))
      BY <1>6 DEF Queued
    <3>2. QED
      BY <1>2, <1>3, <1>5, <1>6, <2>1, <3>1, RunConcat
  <2>4. Queued' = Queued + (1 + L)
    <3>1. Len(plain_in.q \o s) = Len(plain_in.q) + Len(s)
      BY <1>2, <1>6, ConcatProperties
    <3>2. QED
      BY <1>6, <2>1, <3>1 DEF Queued
  <2>5. Pending' = Pending - (1 + L) /\ Run(reasm_in'.q, Returned + Queued + (1 + L))
    BY <1>6, <2>2 DEF Pending
  <2>n. Returned + Queued + Pending = dec /\ Pending' = Pending - (1 + L)
    BY <1>3, <2>5
  <2>6. /\ Returned + Queued' + Pending' = dec
        /\ Returned + Queued + (1 + L) = Returned + Queued'
        /\ Returned + Queued + 1 + L + 1 = Returned + Queued' + 1
    BY <1>0, <2>4, <2>n, Counts
  <2>7. PipeShape'
    BY <1>1, <1>7, <2>3, <2>5, <2>6 DEF SyncInv, PipeShape
  <2>8. Boundaries'
    BY <1>1, <1>4, <1>7, <2>6 DEF SyncInv, Boundaries
  <2>9. QED
    BY <1>1, <2>7, <2>8 DEF SyncInv, InRingShape, Taken
<1>9. CASE ~RingFits(plain_in, 1 + L)
  <2>1. plain_in'.q = plain_in.q
    BY <1>1, <1>2, <1>6, <1>9, RingAppendFacts
  <2>2. reasm_in' = reasm_in
    BY <1>1, <1>9
  <2>3. QED
    BY <1>1, <2>1, <2>2 DEF SyncInv, InRingShape, PipeShape, Boundaries, Taken,
                            Returned, Queued, Pending
<1>10. QED
  BY <1>8, <1>9

\* The head of reasm_in is never taken for a padding marker.
LEMMA SyncSkip ==
  ASSUME TypeOK, SyncInv, ExtractSkip
  PROVE  FALSE
<1>1. Pending > 0 /\ Skip \in LengthReadings(reasm_in.q[1])
  BY DEF ExtractSkip, RingUsed, Pending
<1>2. LengthReadings(reasm_in.q[1]) = {text[Returned + Queued + 1]}
      /\ text[Returned + Queued + 1] \in Nat
  BY <1>1, PendingHead
<1>3. QED
  BY <1>1, <1>2 DEF Skip

\* The host takes the message at the head of plain_in.
LEMMA SyncHostRead ==
  ASSUME TypeOK, SyncInv, NEW L \in MsgLens, Read(L)
  PROVE  SyncInv'
<1> DEFINE s == SubSeq(plain_in.q, 1, 1 + L)
<1>0. L \in Nat /\ 1 + L \in Nat
  BY StreamAssumption
<1>1. /\ Queued > 0 /\ L \in LengthReadings(plain_in.q[1]) /\ 1 + L <= Queued
      /\ got' = got \o s
      /\ plain_in' = RingConsume(plain_in, 1 + L)
      /\ UNCHANGED <<text, raw, nSent, nRecv, in_ring, reasm_in, dec>>
  BY <1>0, Types DEF Read, RingUsed, srvVars, Queued
<1>2. plain_in \in RingOf(Nat) /\ got \in Seq(Nat)
  BY Types
<1>3. /\ Returned + Queued + Pending = dec
      /\ Run(got, 0) /\ Run(plain_in.q, Returned) /\ Run(reasm_in.q, Returned + Queued)
  BY DEF SyncInv, PipeShape
<1>4. MessageStart(text, Returned + 1 + L + 1)
  BY <1>1, QueuedHead
<1>5. /\ s \in Seq(Nat) /\ Len(s) = 1 + L /\ Run(s, Returned)
      /\ Len(RingConsume(plain_in, 1 + L).q) = Queued - (1 + L)
      /\ Run(RingConsume(plain_in, 1 + L).q, Returned + (1 + L))
  <2>1. 1 + L <= Len(plain_in.q) /\ Returned \in Nat
    BY <1>1, Counts DEF Queued
  <2>2. QED
    BY <1>0, <1>2, <1>3, <2>1, RunSplit DEF Queued
<1> HIDE DEF s
<1>6. Run(got', 0)
  <2>1. 0 + Len(got) = Returned
    BY Counts DEF Returned
  <2>2. QED
    BY <1>1, <1>2, <1>3, <1>5, <2>1, RunConcat
<1>7. Returned' = Returned + (1 + L)
  BY <1>1, <1>2, <1>5, ConcatProperties, ZenonT(60) DEF Returned
<1>8. Queued' = Queued - (1 + L) /\ Run(plain_in'.q, Returned')
  BY <1>1, <1>5, <1>7 DEF Queued
<1>9. Pending' = Pending
  BY <1>1 DEF Pending
<1>n. Queued' = Queued - (1 + L)
  BY <1>8
<1>10. Returned' + Queued' = Returned + Queued /\ Returned + 1 + L + 1 = Returned' + 1
  BY <1>0, <1>7, <1>n, Counts
<1>11. PipeShape'
  BY <1>1, <1>3, <1>6, <1>8, <1>9, <1>10 DEF PipeShape
<1>12. Boundaries'
  BY <1>1, <1>4, <1>10 DEF SyncInv, Boundaries
<1>13. QED
  BY <1>1, <1>11, <1>12 DEF SyncInv, InRingShape, Taken

-----------------------------------------------------------------------------
(* The theorems *)

\* Every step keeps the invariant as long as it raises no fault; a fault is
\* never taken back, so InSync' implies InSync.
THEOREM InvariantHolds == Spec => []IInv
<1>1. Init => IInv
  <2> SUFFICES ASSUME Init PROVE IInv
    OBVIOUS
  <2>1. TypeOK
    BY EmptySeq DEF Init, TypeOK, EmptyRing
  <2>2. Len(text) = 0 /\ Len(raw) = 0 /\ Len(got) = 0 /\ Len(in_ring.q) = 0
        /\ Len(plain_in.q) = 0 /\ Len(reasm_in.q) = 0
    BY EmptySeq DEF Init, EmptyRing
  <2>3. nSent = 0 /\ nRecv = 0 /\ dec = 0
    BY DEF Init
  <2>4. TextShape(text) /\ Boundaries
    BY <2>2 DEF TextShape, MessageStart, Boundaries, Returned, Queued
  <2>5. RawShape(raw, nSent) /\ InRingShape
    BY <2>2, <2>3 DEF RawShape, FrameStart, InRingShape, Taken
  <2>6. PipeShape
    BY <2>2, <2>3 DEF PipeShape, Run, Returned, Queued, Pending
  <2>7. QED
    BY <2>1, <2>3, <2>4, <2>5, <2>6 DEF IInv, SyncInv
<1>2. IInv /\ TypeOK' /\ [Next]_vars => IInv'
  <2> SUFFICES ASSUME TypeOK, InSync => SyncInv, [Next]_vars, InSync'
               PROVE  SyncInv'
    BY DEF IInv
  <2>1. ASSUME NEW L \in MsgLens, SrvMessage(L) PROVE SyncInv'
    <3>1. InSync
      BY <2>1 DEF SrvMessage, InSync
    <3>2. QED
      BY <2>1, <3>1, SyncMessage
  <2>2. ASSUME NEW k \in FrameSizes, SrvFrame(k) PROVE SyncInv'
    <3>1. InSync
      BY <2>2 DEF SrvFrame, InSync
    <3>2. QED
      BY <2>2, <3>1, SyncFrame
  <2>3. ASSUME NEW k, SrvPadding(k) \/ SrvControl(k) PROVE SyncInv'
    BY <2>3 DEF SrvPadding, SrvControl, InSync
  <2>4. CASE Pump \/ SslReadEnd \/ DeframeEnd \/ DeframeError \/ ExtractEnd \/ FlushEnd
    <3>1. InSync /\ UNCHANGED <<text, raw, nSent, nRecv, in_ring, reasm_in, plain_in, dec, got>>
      BY <2>4 DEF Pump, SslReadEnd, DeframeEnd, DeframeError, ExtractEnd, FlushEnd,
                  srvVars, downVars, InSync
    <3>2. QED
      BY <3>1, SyncUnchanged
  <2>5. ASSUME NEW n \in 1..TlsMax, SslRead(n) PROVE SyncInv'
    <3>1. InSync
      BY <2>5, OutcomeFits DEF SslRead, InSync
    <3>2. QED
      BY <2>5, <3>1, SyncRead
  <2>6. CASE DeframeTerminal
    <3>1. InSync
      BY <2>6 DEF DeframeTerminal, InSync
    <3>2. QED
      BY <2>6, <3>1, SyncTerminal
  <2>7. ASSUME NEW k \in FrameSizes \cup PadSizes \cup CtrlSizes, DeframeData(k) PROVE SyncInv'
    <3>1. InSync
      BY <2>7, OutcomeFits DEF DeframeData, InSync
    <3>2. QED
      BY <2>7, <3>1, SyncData
  <2>8. CASE ExtractSkip
    <3>1. InSync
      BY <2>8 DEF ExtractSkip, InSync
    <3>2. QED
      BY <2>8, <3>1, SyncSkip
  <2>9. ASSUME NEW L \in MsgLens, ExtractMessage(L) PROVE SyncInv'
    <3>1. InSync
      BY <2>9 DEF ExtractMessage, InSync
    <3>2. QED
      BY <2>9, <3>1, SyncExtract
  <2>10. CASE SslWrite
    <3>1. InSync /\ UNCHANGED <<text, raw, nSent, nRecv, in_ring, reasm_in, plain_in, dec, got>>
      BY <2>10 DEF SslWrite, srvVars, downVars, InSync
    <3>2. QED
      BY <3>1, SyncUnchanged
  <2>11. ASSUME NEW L \in MsgLens, Read(L) PROVE SyncInv'
    <3>1. InSync
      BY <2>11 DEF Read, InSync
    <3>2. QED
      BY <2>11, <3>1, SyncHostRead
  <2>12. ASSUME NEW L \in MsgLens, Write(L) PROVE SyncInv'
    <3>1. InSync /\ UNCHANGED <<text, raw, nSent, nRecv, in_ring, reasm_in, plain_in, dec, got>>
      BY <2>12 DEF Write, Outcome, srvVars, downVars, InSync
    <3>2. QED
      BY <3>1, SyncUnchanged
  <2>13. CASE UNCHANGED vars
    <3>1. InSync /\ UNCHANGED <<text, raw, nSent, nRecv, in_ring, reasm_in, plain_in, dec, got>>
      BY <2>13 DEF vars, InSync
    <3>2. QED
      BY <3>1, SyncUnchanged
  <2>14. QED
    BY <2>1, <2>2, <2>3, <2>4, <2>5, <2>6, <2>7, <2>8, <2>9, <2>10, <2>11, <2>12, <2>13
       DEF Next, Server, PumpStep, Host
<1>3. QED
  BY <1>1, <1>2, TypeCorrect, PTL DEF Spec

\* t3_client_read returns the server's plaintext in order and without a gap,
\* for all sizes of rings, TLS records, frames, messages and host buffers.
THEOREM DeliveryInOrder == Spec => []DeliveredInOrder
<1>1. IInv => DeliveredInOrder
  <2> SUFFICES ASSUME IInv, InSync PROVE got = [i \in 1..Len(got) |-> i]
    BY DEF DeliveredInOrder
  <2>1. got \in Seq(Nat) /\ Len(got) \in Nat
    BY Types DEF IInv
  <2>2. \A i \in 1..Len(got) : got[i] = 0 + i
    BY DEF IInv, SyncInv, PipeShape, Run
  <2>3. got = [i \in 1..Len(got) |-> got[i]]
    BY <2>1
  <2>4. QED
    BY <2>1, <2>2, <2>3
<1>2. QED
  BY <1>1, InvariantHolds, PTL

\* Each call of t3_client_read leaves the host at a message boundary.
THEOREM ReadsWholeMessages == Spec => []WholeMessages
<1>1. IInv => WholeMessages
  <2> SUFFICES ASSUME IInv, InSync, Len(got) < Len(text) PROVE text[Len(got) + 1] > 0
    BY DEF WholeMessages
  <2>1. Len(got) \in Nat /\ Len(text) \in Nat
    BY Types DEF IInv
  <2>2. MessageStart(text, Len(got) + 1)
    BY DEF IInv, SyncInv, Boundaries, Returned
  <2>3. QED
    BY <2>1, <2>2 DEF MessageStart
<1>2. QED
  BY <1>1, InvariantHolds, PTL

\* Every decrypted unit is in exactly one place: returned, queued in plain_in
\* or pending in reasm_in.
THEOREM NothingLost == Spec => []Conserved
<1>1. IInv => Conserved
  <2> SUFFICES ASSUME IInv, InSync
               PROVE  got \o plain_in.q \o reasm_in.q = [i \in 1..dec |-> i]
    BY DEF Conserved
  <2>0. TypeOK /\ SyncInv
    BY DEF IInv
  <2>1. got \in Seq(Nat) /\ plain_in.q \in Seq(Nat) /\ reasm_in.q \in Seq(Nat)
    BY <2>0, Types
  <2> DEFINE a == got \o plain_in.q
             b == a \o reasm_in.q
  <2>2. Run(got, 0) /\ Run(plain_in.q, Returned) /\ Run(reasm_in.q, Returned + Queued)
    BY <2>0 DEF SyncInv, PipeShape
  <2>3. a \in Seq(Nat) /\ Len(a) = Returned + Queued
    BY <2>1, ConcatProperties DEF Returned, Queued
  <2>4. Run(a, 0)
    <3>1. 0 + Len(got) = Returned
      BY <2>0, Counts DEF Returned
    <3>2. QED
      BY <2>1, <2>2, <3>1, RunConcat
  <2> HIDE DEF a
  <2>5. Run(b, 0)
    <3>1. 0 + Len(a) = Returned + Queued
      BY <2>0, <2>3, Counts
    <3>2. QED
      BY <2>1, <2>2, <2>3, <2>4, <3>1, RunConcat
  <2>6. b \in Seq(Nat) /\ Len(b) = dec /\ dec \in Nat
    <3>1. b \in Seq(Nat) /\ Len(b) = Len(a) + Len(reasm_in.q)
      BY <2>1, <2>3, ConcatProperties
    <3>2. Returned + Queued + Pending = dec
      BY <2>0 DEF SyncInv, PipeShape
    <3>3. QED
      BY <2>0, <2>3, <3>1, <3>2, Counts DEF Pending
  <2> HIDE DEF b
  <2>7. b = [i \in 1..dec |-> i]
    <3>1. b = [i \in 1..Len(b) |-> b[i]]
      BY <2>6
    <3>2. \A i \in 1..dec : b[i] = 0 + i
      BY <2>5, <2>6 DEF Run
    <3>3. QED
      BY <2>6, <3>1, <3>2
  <2>8. QED
    BY <2>7 DEF a, b
<1>2. QED
  BY <1>1, InvariantHolds, PTL

-----------------------------------------------------------------------------
(* Nothing is repeated, whatever the faults *)

\* The units other than noise ascend within s, lie below those of t, and
\* number at most n.
Asc(s)      == \A i, j \in 1..Len(s) : i < j /\ s[i] # 0 /\ s[j] # 0 => s[i] < s[j]
Below(s, t) == \A i \in 1..Len(s), j \in 1..Len(t) : s[i] # 0 /\ t[j] # 0 => s[i] < t[j]
UpTo(s, n)  == \A i \in 1..Len(s) : s[i] <= n

Ascending ==
  /\ Asc(got) /\ Asc(plain_in.q) /\ Asc(reasm_in.q)
  /\ Below(got, plain_in.q) /\ Below(got, reasm_in.q) /\ Below(plain_in.q, reasm_in.q)
  /\ UpTo(got, dec) /\ UpTo(plain_in.q, dec) /\ UpTo(reasm_in.q, dec)

\* u is t without its first m units.
Rest(u, t, m) ==
  /\ Len(u) = Len(t) - m
  /\ \A i \in 1..(Len(t) - m) : u[i] = t[m + i]

\* v is s followed by the first m units of t.
Joined(v, s, t, m) ==
  /\ Len(v) = Len(s) + m
  /\ \A i \in 1..Len(s) : v[i] = s[i]
  /\ \A i \in 1..m : v[Len(s) + i] = t[i]

\* Dropping units from the front of t keeps everything.
LEMMA AscRest ==
  ASSUME NEW t \in Seq(Nat), NEW u \in Seq(Nat), NEW m \in Nat, m <= Len(t), Rest(u, t, m)
  PROVE  /\ Asc(t) => Asc(u)
         /\ \A n \in Nat : UpTo(t, n) => UpTo(u, n)
         /\ \A w \in Seq(Nat) : Below(w, t) => Below(w, u)
         /\ \A w \in Seq(Nat) : Below(t, w) => Below(u, w)
<1>1. Len(t) \in Nat /\ Len(u) \in Nat /\ Len(u) = Len(t) - m
  BY LenProperties DEF Rest
<1>2. \A i \in 1..Len(u) : m + i \in 1..Len(t) /\ u[i] = t[m + i]
  BY <1>1 DEF Rest
<1>3. Asc(t) => Asc(u)
  <2> SUFFICES ASSUME Asc(t), NEW i \in 1..Len(u), NEW j \in 1..Len(u),
                      i < j, u[i] # 0, u[j] # 0
               PROVE  u[i] < u[j]
    BY DEF Asc
  <2>1. m + i < m + j /\ m + i \in 1..Len(t) /\ m + j \in 1..Len(t)
    BY <1>1, <1>2
  <2>2. QED
    BY <1>2, <2>1 DEF Asc
<1>4. \A n \in Nat : UpTo(t, n) => UpTo(u, n)
  BY <1>2 DEF UpTo
<1>5. \A w \in Seq(Nat) : Below(w, t) => Below(w, u)
  BY <1>2 DEF Below
<1>6. \A w \in Seq(Nat) : Below(t, w) => Below(u, w)
  BY <1>2 DEF Below
<1>7. QED
  BY <1>3, <1>4, <1>5, <1>6

\* So does moving them to the end of s, where s lies below t.
LEMMA AscMove ==
  ASSUME NEW s \in Seq(Nat), NEW t \in Seq(Nat), NEW v \in Seq(Nat), NEW u \in Seq(Nat),
         NEW m \in Nat, m <= Len(t), Joined(v, s, t, m), Rest(u, t, m),
         Asc(s), Asc(t), Below(s, t)
  PROVE  /\ Asc(v) /\ Below(v, u)
         /\ \A n \in Nat : UpTo(s, n) /\ UpTo(t, n) => UpTo(v, n)
         /\ \A w \in Seq(Nat) : Below(w, s) /\ Below(w, t) => Below(w, v)
         /\ \A w \in Seq(Nat) : Below(s, w) /\ Below(t, w) => Below(v, w)
<1>1. Len(s) \in Nat /\ Len(t) \in Nat /\ Len(u) \in Nat /\ Len(v) \in Nat
  BY LenProperties
<1>2. Len(u) = Len(t) - m /\ \A i \in 1..Len(u) : m + i \in 1..Len(t) /\ u[i] = t[m + i]
  BY <1>1, SMTT(60) DEF Rest
<1>3. \A i \in 1..Len(v) :
        \/ i \in 1..Len(s) /\ v[i] = s[i]
        \/ i > Len(s) /\ i - Len(s) \in 1..m /\ i - Len(s) \in 1..Len(t)
           /\ v[i] = t[i - Len(s)]
  <2> TAKE i \in 1..Len(v)
  <2>1. Len(v) = Len(s) + m
    BY DEF Joined
  <2>2. CASE i <= Len(s)
    BY <1>1, <2>2, SMTT(60) DEF Joined
  <2>3. CASE i > Len(s)
    <3>1. i - Len(s) \in 1..m /\ Len(s) + (i - Len(s)) = i
      BY <1>1, <2>1, <2>3
    <3>2. v[Len(s) + (i - Len(s))] = t[i - Len(s)]
      BY <3>1 DEF Joined
    <3>3. QED
      BY <1>1, <2>3, <3>1, <3>2
  <2>4. QED
    BY <1>1, <2>2, <2>3
<1>4. Asc(v)
  <2> SUFFICES ASSUME NEW i \in 1..Len(v), NEW j \in 1..Len(v), i < j, v[i] # 0, v[j] # 0
               PROVE  v[i] < v[j]
    BY DEF Asc
  <2>1. CASE j \in 1..Len(s) /\ v[j] = s[j]
    <3>1. i \in 1..Len(s) /\ v[i] = s[i]
      BY <1>1, <1>3, <2>1, SMTT(60)
    <3>2. QED
      BY <2>1, <3>1 DEF Asc
  <2>2. CASE j - Len(s) \in 1..Len(t) /\ v[j] = t[j - Len(s)]
    <3>1. CASE i \in 1..Len(s) /\ v[i] = s[i]
      BY <2>2, <3>1 DEF Below
    <3>2. CASE i - Len(s) \in 1..Len(t) /\ v[i] = t[i - Len(s)]
      <4>1. i - Len(s) < j - Len(s)
        BY <1>1
      <4>2. QED
        BY <2>2, <3>2, <4>1 DEF Asc
    <3>3. QED
      BY <1>3, <3>1, <3>2
  <2>3. QED
    BY <1>3, <2>1, <2>2
<1>5. Below(v, u)
  <2> SUFFICES ASSUME NEW i \in 1..Len(v), NEW j \in 1..Len(u), v[i] # 0, u[j] # 0
               PROVE  v[i] < u[j]
    BY DEF Below
  <2>1. CASE i \in 1..Len(s) /\ v[i] = s[i]
    BY <1>2, <2>1 DEF Below
  <2>2. CASE i - Len(s) \in 1..m /\ i - Len(s) \in 1..Len(t) /\ v[i] = t[i - Len(s)]
    <3>1. i - Len(s) < m + j
      BY <1>1, <2>2
    <3>2. QED
      BY <1>2, <2>2, <3>1 DEF Asc
  <2>3. QED
    BY <1>3, <2>1, <2>2
<1>6. \A n \in Nat : UpTo(s, n) /\ UpTo(t, n) => UpTo(v, n)
  BY <1>3 DEF UpTo
<1>7. \A w \in Seq(Nat) : Below(w, s) /\ Below(w, t) => Below(w, v)
  BY <1>3 DEF Below
<1>8. \A w \in Seq(Nat) : Below(s, w) /\ Below(t, w) => Below(v, w)
  BY <1>3 DEF Below
<1>9. QED
  BY <1>4, <1>5, <1>6, <1>7, <1>8

\* Units decrypted after the first n, appended to a ring that holds only those.
LEMMA AscExtend ==
  ASSUME NEW s \in Seq(Nat), NEW d \in Seq(Nat), NEW n \in Nat, NEW k \in Nat,
         Len(d) = k, \A i \in 1..k : d[i] = n + i \/ d[i] = 0,
         Asc(s), UpTo(s, n)
  PROVE  /\ Asc(s \o d) /\ UpTo(s \o d, n + k)
         /\ \A w \in Seq(Nat) : UpTo(w, n) /\ Below(w, s) => Below(w, s \o d)
<1>0. Len(s) \in Nat
  BY LenProperties
<1>1. /\ s \o d \in Seq(Nat) /\ Len(s \o d) = Len(s) + k
      /\ \A i \in 1..Len(s) : (s \o d)[i] = s[i]
      /\ \A i \in 1..k : (s \o d)[Len(s) + i] = d[i]
  BY ConcatFacts
<1> DEFINE v == s \o d
<1>2. Len(v) = Len(s) + k
  BY <1>1
<1>3. \A i \in 1..Len(v) :
        \/ i \in 1..Len(s) /\ v[i] = s[i]
        \/ i > Len(s) /\ i - Len(s) \in 1..k /\ (v[i] = n + (i - Len(s)) \/ v[i] = 0)
  <2> TAKE i \in 1..Len(v)
  <2>2. CASE i <= Len(s)
    BY <1>0, <1>1, <2>2
  <2>3. CASE i > Len(s)
    <3>1. i - Len(s) \in 1..k /\ Len(s) + (i - Len(s)) = i
      BY <1>0, <1>2, <2>3
    <3>2. v[Len(s) + (i - Len(s))] = d[i - Len(s)]
      BY <1>1, <3>1
    <3>3. QED
      BY <1>0, <2>3, <3>1, <3>2
  <2>4. QED
    BY <1>0, <2>2, <2>3
<1>4. \A i \in 1..Len(s) : s[i] \in Nat /\ s[i] <= n
  BY ElementOfSeq DEF UpTo
<1> HIDE DEF v
<1>5. Asc(v)
  <2> SUFFICES ASSUME NEW i \in 1..Len(v), NEW j \in 1..Len(v), i < j, v[i] # 0, v[j] # 0
               PROVE  v[i] < v[j]
    BY DEF Asc
  <2>1. CASE j \in 1..Len(s) /\ v[j] = s[j]
    <3>1. i \in 1..Len(s) /\ v[i] = s[i]
      BY <1>0, <1>3, <2>1
    <3>2. QED
      BY <2>1, <3>1 DEF Asc
  <2>2. CASE j - Len(s) \in 1..k /\ v[j] = n + (j - Len(s))
    <3>1. CASE i \in 1..Len(s) /\ v[i] = s[i]
      <4>1. v[i] \in Nat /\ v[i] <= n
        BY <1>4, <3>1
      <4>2. QED
        BY <1>0, <2>2, <4>1
    <3>2. CASE v[i] = n + (i - Len(s))
      BY <1>0, <2>2, <3>2
    <3>3. QED
      BY <1>3, <3>1, <3>2
  <2>3. QED
    BY <1>3, <2>1, <2>2
<1>6. UpTo(v, n + k)
  <2> SUFFICES ASSUME NEW i \in 1..Len(v) PROVE v[i] <= n + k
    BY DEF UpTo
  <2>1. CASE i \in 1..Len(s) /\ v[i] = s[i]
    <3>1. v[i] \in Nat /\ v[i] <= n
      BY <1>4, <2>1
    <3>2. QED
      BY <3>1
  <2>2. CASE i - Len(s) \in 1..k /\ v[i] = n + (i - Len(s))
    BY <1>0, <2>2
  <2>3. CASE v[i] = 0
    BY <2>3
  <2>4. QED
    BY <1>3, <2>1, <2>2, <2>3
<1>7. \A w \in Seq(Nat) : UpTo(w, n) /\ Below(w, s) => Below(w, v)
  <2> SUFFICES ASSUME NEW w \in Seq(Nat), UpTo(w, n), Below(w, s),
                      NEW i \in 1..Len(w), NEW j \in 1..Len(v), w[i] # 0, v[j] # 0
               PROVE  w[i] < v[j]
    BY DEF Below
  <2>1. w[i] \in Nat /\ w[i] <= n
    BY ElementOfSeq DEF UpTo
  <2>2. CASE j \in 1..Len(s) /\ v[j] = s[j]
    BY <2>2 DEF Below
  <2>3. CASE j - Len(s) \in 1..k /\ v[j] = n + (j - Len(s))
    BY <1>0, <2>1, <2>3, SMTT(60)
  <2>4. QED
    BY <1>3, <2>2, <2>3
<1>8. QED
  BY <1>5, <1>6, <1>7 DEF v

\* A frame is decrypted: its units are the next positions, or noise.
LEMMA AscData ==
  ASSUME TypeOK, TypeOK', Ascending, NEW k \in Nat, k > 0, DeframeData(k)
  PROVE  Ascending'
<1>0. /\ reasm_in \in RingOf(Nat) /\ reasm_in.q \in Seq(Nat) /\ plain_in.q \in Seq(Nat)
      /\ got \in Seq(Nat) /\ dec \in Nat
  BY Types
<1>1. Len(Decrypt(k)) = k /\ Decrypt(k) \in Seq(Nat)
      /\ \A i \in 1..k : Decrypt(k)[i] = dec + i \/ Decrypt(k)[i] = 0
  BY <1>0 DEF Decrypt, Noise
<1>2. dec' = dec + k /\ got' = got /\ plain_in' = plain_in
      /\ reasm_in' = RingAppend(reasm_in, Decrypt(k))
  BY DEF DeframeData
<1>3. UpTo(got, dec + k) /\ UpTo(plain_in.q, dec + k) /\ UpTo(reasm_in.q, dec + k)
  <2>1. ASSUME NEW s \in Seq(Nat), UpTo(s, dec) PROVE UpTo(s, dec + k)
    <3> SUFFICES ASSUME NEW i \in 1..Len(s) PROVE s[i] <= dec + k
      BY DEF UpTo
    <3>1. s[i] \in Nat /\ s[i] <= dec
      BY <2>1, ElementOfSeq DEF UpTo
    <3>2. QED
      BY <1>0, <3>1
  <2>2. QED
    BY <1>0, <2>1 DEF Ascending
<1>4. CASE RingFits(reasm_in, k)
  <2>1. reasm_in'.q = reasm_in.q \o Decrypt(k)
    BY <1>0, <1>1, <1>2, <1>4, RingAppendFacts
  <2>2. /\ Asc(reasm_in.q \o Decrypt(k)) /\ UpTo(reasm_in.q \o Decrypt(k), dec + k)
        /\ Below(got, reasm_in.q \o Decrypt(k)) /\ Below(plain_in.q, reasm_in.q \o Decrypt(k))
    BY <1>0, <1>1, AscExtend DEF Ascending
  <2>3. QED
    BY <1>2, <1>3, <2>1, <2>2 DEF Ascending
<1>5. CASE ~RingFits(reasm_in, k)
  <2>1. reasm_in'.q = reasm_in.q
    BY <1>0, <1>1, <1>2, <1>5, RingAppendFacts
  <2>2. QED
    BY <1>2, <1>3, <2>1 DEF Ascending
<1>6. QED
  BY <1>4, <1>5

\* m units move from the head of ring t to the end of s.
LEMMA MoveFacts ==
  ASSUME NEW s \in Seq(Nat), NEW t \in RingOf(Nat), NEW m \in Nat, m <= Len(t.q)
  PROVE  /\ s \o SubSeq(t.q, 1, m) \in Seq(Nat)
         /\ Joined(s \o SubSeq(t.q, 1, m), s, t.q, m)
         /\ RingConsume(t, m).q \in Seq(Nat)
         /\ Rest(RingConsume(t, m).q, t.q, m)
<1>1. t.q \in Seq(Nat) /\ Len(t.q) \in Nat
  BY LenProperties DEF RingOf
<1>2. /\ SubSeq(t.q, 1, m) \in Seq(Nat) /\ Len(SubSeq(t.q, 1, m)) = m
      /\ \A i \in 1..m : SubSeq(t.q, 1, m)[i] = t.q[i]
  <2>1. /\ SubSeq(t.q, 0 + 1, 0 + m) \in Seq(Nat) /\ Len(SubSeq(t.q, 0 + 1, 0 + m)) = m
        /\ \A i \in 1..m : SubSeq(t.q, 0 + 1, 0 + m)[i] = t.q[0 + i]
    BY <1>1, PartFacts
  <2>2. 0 + 1 = 1 /\ 0 + m = m /\ \A i \in 1..m : 0 + i = i
    OBVIOUS
  <2>3. QED
    BY <2>1, <2>2
<1>3. /\ s \o SubSeq(t.q, 1, m) \in Seq(Nat)
      /\ Joined(s \o SubSeq(t.q, 1, m), s, t.q, m)
  BY <1>2, ConcatFacts DEF Joined
<1>4. RingConsume(t, m) \in RingOf(Nat) /\ Rest(RingConsume(t, m).q, t.q, m)
  <2>1. m \in 0..Len(t.q)
    BY <1>1
  <2>2. /\ RingConsume(t, m) \in RingOf(Nat)
        /\ Len(RingConsume(t, m).q) = Len(t.q) - m
        /\ \A i \in 1..(Len(t.q) - m) : RingConsume(t, m).q[i] = t.q[m + i]
    BY <2>1, RingConsumeFacts, Zenon
  <2>3. QED
    BY <2>2 DEF Rest
<1>5. QED
  BY <1>3, <1>4 DEF RingOf

\* A message moves from reasm_in to plain_in, or stays.
LEMMA AscExtract ==
  ASSUME TypeOK, Ascending, NEW L \in Nat, ExtractMessage(L)
  PROVE  Ascending'
<1>0. /\ reasm_in \in RingOf(Nat) /\ reasm_in.q \in Seq(Nat) /\ plain_in \in RingOf(Nat)
      /\ plain_in.q \in Seq(Nat) /\ got \in Seq(Nat) /\ dec \in Nat /\ Len(reasm_in.q) \in Nat
  BY Types
<1> DEFINE m == 1 + L
           part == SubSeq(reasm_in.q, 1, m)
<1>1. /\ m \in Nat /\ m <= Len(reasm_in.q) /\ dec' = dec /\ got' = got
      /\ plain_in' = RingAppend(plain_in, part)
      /\ reasm_in' = IF RingFits(plain_in, m) THEN RingConsume(reasm_in, m) ELSE reasm_in
  BY <1>0 DEF ExtractMessage, RingUsed
<1> HIDE DEF m
<1>2. part \in Seq(Nat) /\ Len(part) = m
  <2>1. /\ SubSeq(reasm_in.q, 0 + 1, 0 + m) \in Seq(Nat)
        /\ Len(SubSeq(reasm_in.q, 0 + 1, 0 + m)) = m
    BY <1>0, <1>1, PartFacts
  <2>2. 0 + 1 = 1 /\ 0 + m = m
    BY <1>1
  <2>3. QED
    BY <2>1, <2>2
<1>3. CASE RingFits(plain_in, m)
  <2> DEFINE v == plain_in.q \o part
             u == RingConsume(reasm_in, m).q
  <2>1. plain_in'.q = v /\ reasm_in'.q = u
    BY <1>0, <1>1, <1>2, <1>3, RingAppendFacts
  <2>2. v \in Seq(Nat) /\ u \in Seq(Nat) /\ Joined(v, plain_in.q, reasm_in.q, m)
        /\ Rest(u, reasm_in.q, m)
    BY <1>0, <1>1, MoveFacts
  <2> HIDE DEF v, u
  <2>3. Asc(u) /\ UpTo(u, dec) /\ Below(got, u)
    BY <1>0, <1>1, <2>2, AscRest DEF Ascending
  <2>4. Asc(v) /\ Below(v, u) /\ UpTo(v, dec) /\ Below(got, v)
    BY <1>0, <1>1, <2>2, AscMove DEF Ascending
  <2>5. QED
    BY <1>1, <2>1, <2>3, <2>4 DEF Ascending
<1>4. CASE ~RingFits(plain_in, m)
  <2>1. plain_in'.q = plain_in.q /\ reasm_in' = reasm_in
    BY <1>0, <1>1, <1>2, <1>4, RingAppendFacts
  <2>2. QED
    BY <1>1, <2>1 DEF Ascending
<1>5. QED
  BY <1>3, <1>4

\* The host takes a message from plain_in.
LEMMA AscHostRead ==
  ASSUME TypeOK, Ascending, NEW L \in Nat, Read(L)
  PROVE  Ascending'
<1>0. /\ reasm_in.q \in Seq(Nat) /\ plain_in \in RingOf(Nat)
      /\ plain_in.q \in Seq(Nat) /\ got \in Seq(Nat) /\ dec \in Nat /\ Len(plain_in.q) \in Nat
  BY Types
<1> DEFINE m == 1 + L
           v == got \o SubSeq(plain_in.q, 1, m)
           u == RingConsume(plain_in, m).q
<1>1. /\ m \in Nat /\ m <= Len(plain_in.q) /\ dec' = dec /\ reasm_in' = reasm_in
      /\ got' = v /\ plain_in'.q = u
  BY <1>0 DEF Read, RingUsed
<1> HIDE DEF m
<1>2. v \in Seq(Nat) /\ u \in Seq(Nat) /\ Joined(v, got, plain_in.q, m) /\ Rest(u, plain_in.q, m)
  BY <1>0, <1>1, MoveFacts
<1> HIDE DEF v, u
<1>3. Asc(u) /\ UpTo(u, dec) /\ Below(u, reasm_in.q)
  BY <1>0, <1>1, <1>2, AscRest DEF Ascending
<1>4. Asc(v) /\ Below(v, u) /\ UpTo(v, dec) /\ Below(v, reasm_in.q)
  BY <1>0, <1>1, <1>2, AscMove DEF Ascending
<1>5. QED
  BY <1>1, <1>3, <1>4 DEF Ascending

\* One byte of what looks like padding is dropped from reasm_in.
LEMMA AscSkip ==
  ASSUME TypeOK, Ascending, ExtractSkip
  PROVE  Ascending'
<1>0. /\ reasm_in \in RingOf(Nat) /\ reasm_in.q \in Seq(Nat) /\ plain_in.q \in Seq(Nat)
      /\ got \in Seq(Nat) /\ dec \in Nat /\ Len(reasm_in.q) \in Nat
  BY Types
<1> DEFINE u == RingConsume(reasm_in, 1).q
<1>1. 1 <= Len(reasm_in.q) /\ dec' = dec /\ got' = got /\ plain_in' = plain_in /\ reasm_in'.q = u
  BY <1>0 DEF ExtractSkip, RingUsed
<1>2. u \in Seq(Nat) /\ Rest(u, reasm_in.q, 1)
  BY <1>0, <1>1, MoveFacts
<1> HIDE DEF u
<1>3. Asc(u) /\ UpTo(u, dec) /\ Below(got, u) /\ Below(plain_in.q, u)
  BY <1>0, <1>1, <1>2, AscRest DEF Ascending
<1>4. QED
  BY <1>1, <1>3 DEF Ascending

\* Whatever faults occur - refused appends, padding, control frames, frames
\* decrypted twice - no unit of plaintext is delivered, queued or pending twice
\* or after a later one.
THEOREM PlaintextNeverRepeated == Spec => []NeverRepeated
<1>0. /\ MsgLens \subseteq Nat /\ FrameSizes \subseteq Nat /\ PadSizes \subseteq Nat
      /\ CtrlSizes \subseteq Nat
  BY StreamAssumption
<1>1. Init => Ascending
  <2> SUFFICES ASSUME Init PROVE Ascending
    OBVIOUS
  <2>1. Len(got) = 0 /\ Len(plain_in.q) = 0 /\ Len(reasm_in.q) = 0
    BY EmptySeq DEF Init, EmptyRing
  <2>2. QED
    BY <2>1 DEF Ascending, Asc, Below, UpTo
<1>2. TypeOK /\ TypeOK' /\ Ascending /\ [Next]_vars => Ascending'
  <2> SUFFICES ASSUME TypeOK, TypeOK', Ascending, [Next]_vars PROVE Ascending'
    OBVIOUS
  <2>1. ASSUME UNCHANGED <<got, plain_in, reasm_in, dec>> PROVE Ascending'
    BY <2>1 DEF Ascending
  <2>2. CASE Server
    BY <2>1, <2>2 DEF Server, SrvMessage, SrvFrame, SrvPadding, SrvControl, downVars
  <2>3. CASE Pump \/ SslReadEnd \/ DeframeEnd \/ DeframeError \/ ExtractEnd \/ FlushEnd
    BY <2>1, <2>3 DEF Pump, SslReadEnd, DeframeEnd, DeframeError, ExtractEnd, FlushEnd, downVars
  <2>4. CASE (\E n \in 1..TlsMax : SslRead(n)) \/ DeframeTerminal
    BY <2>1, <2>4 DEF SslRead, DeframeTerminal
  <2>5. ASSUME NEW k \in FrameSizes \cup PadSizes \cup CtrlSizes, DeframeData(k)
        PROVE  Ascending'
    <3>1. k \in Nat /\ k > 0
      BY <1>0, <2>5 DEF DeframeData
    <3>2. QED
      BY <2>5, <3>1, AscData
  <2>6. CASE ExtractSkip
    BY <2>6, AscSkip
  <2>7. ASSUME NEW L \in MsgLens, ExtractMessage(L) PROVE Ascending'
    BY <1>0, <2>7, AscExtract
  <2>8. CASE SslWrite \/ \E L \in MsgLens : Write(L)
    BY <2>1, <2>8 DEF SslWrite, Write, downVars
  <2>9. ASSUME NEW L \in MsgLens, Read(L) PROVE Ascending'
    BY <1>0, <2>9, AscHostRead
  <2>10. CASE UNCHANGED vars
    BY <2>1, <2>10 DEF vars
  <2>11. QED
    BY <2>2, <2>3, <2>4, <2>5, <2>6, <2>7, <2>8, <2>9, <2>10 DEF Next, PumpStep, Host
<1>3. TypeOK /\ Ascending => NeverRepeated
  <2> SUFFICES ASSUME TypeOK, Ascending PROVE NeverRepeated
    OBVIOUS
  <2> DEFINE a == got \o plain_in.q
             b == a \o reasm_in.q
  <2>0. got \in Seq(Nat) /\ plain_in.q \in Seq(Nat) /\ reasm_in.q \in Seq(Nat)
    BY Types
  <2>a. ASSUME NEW s \in Seq(Nat), NEW t \in Seq(Nat)
        PROVE  s \o t \in Seq(Nat) /\ Joined(s \o t, s, t, Len(t))
    <3>1. Len(t) \in Nat
      BY LenProperties
    <3>2. /\ s \o t \in Seq(Nat)
          /\ Len(s \o t) = Len(s) + Len(t)
          /\ \A i \in 1..Len(s) : (s \o t)[i] = s[i]
          /\ \A i \in 1..Len(t) : (s \o t)[Len(s) + i] = t[i]
      BY <3>1, ConcatFacts
    <3>3. QED
      BY <3>2 DEF Joined
  <2>1. a \in Seq(Nat) /\ Joined(a, got, plain_in.q, Len(plain_in.q))
    BY <2>0, <2>a
  <2>2. b \in Seq(Nat) /\ Joined(b, a, reasm_in.q, Len(reasm_in.q))
    <3> HIDE DEF a
    <3>1. QED
      BY <2>0, <2>1, <2>a
  <2> HIDE DEF a, b
  <2>3. ASSUME NEW t \in Seq(Nat) PROVE <<>> \in Seq(Nat) /\ Rest(<<>>, t, Len(t)) /\ Len(t) \in Nat
                                       /\ Len(t) <= Len(t)
    BY LenProperties, EmptySeq DEF Rest
  <2>4. Asc(a) /\ Below(a, reasm_in.q)
    BY <2>0, <2>1, <2>3, AscMove, ZenonT(60) DEF Ascending
  <2>5. Asc(b)
    BY <2>0, <2>1, <2>2, <2>3, <2>4, AscMove DEF Ascending
  <2>6. DOMAIN b = 1..Len(b)
    BY <2>2, LenProperties
  <2>7. QED
    BY <2>5, <2>6 DEF Asc, NeverRepeated, Noise, a, b
<1>4. QED
  BY <1>1, <1>2, <1>3, TypeCorrect, PTL DEF Spec
-----------------------------------------------------------------------------
(* The way up.  What SSL_write has taken and what out_ring still holds is   *)
(* one sequence of frames over consecutive positions: SSL_write moves       *)
(* tokens within it, and t3_client_write appends to it.                     *)

\* The payload tokens of s carry the positions 1 to n, in order.
Consecutive(s, n) ==
  /\ \A i \in 1..Len(s) : s[i].hdr = -1 => s[i].pos \in 1..n
  /\ \A p \in 1..n : \E i \in 1..Len(s) : s[i].hdr = -1 /\ s[i].pos = p
  /\ \A i, j \in 1..Len(s) : i < j /\ s[i].hdr = -1 /\ s[j].hdr = -1 => s[i].pos < s[j].pos

WrittenInv == "out" \notin faults => Consecutive(up \o out_ring.q, enc)

\* A frame of the next k units goes behind them.
LEMMA ConsecutiveFrame ==
  ASSUME NEW s \in Seq(Token), NEW n \in Nat, NEW k \in Nat, Consecutive(s, n)
  PROVE  Consecutive(s \o Frame(k, n + 1), n + k)
<1> DEFINE f == Frame(k, n + 1)
           t == s \o f
<1>0. n + 1 \in Nat /\ n + 1 > 0 /\ k + 1 \in Nat
  OBVIOUS
<1>a. /\ f \in Seq(Token) /\ Len(f) = k + 1 /\ f[1] = Header(k, n + 1)
      /\ \A i \in 1..k : f[1 + i] = Payload((n + 1) + i - 1)
  BY <1>0, FrameFacts
<1> HIDE DEF f
<1>1. f \in Seq(Token) /\ Len(f) = k + 1 /\ f[1].hdr = k
  BY <1>a DEF Header
<1>2. \A i \in 1..k : f[1 + i] = Payload(n + i)
  <2> TAKE i \in 1..k
  <2>1. (n + 1) + i - 1 = n + i
    OBVIOUS
  <2>2. QED
    BY <2>1, <1>a
<1>3. /\ Len(t) = Len(s) + (k + 1)
      /\ \A i \in 1..Len(s) : t[i] = s[i]
      /\ \A i \in 1..(k + 1) : t[Len(s) + i] = f[i]
  BY <1>0, <1>1, ConcatFacts
<1>4. Len(s) \in Nat
  BY LenProperties
<1> HIDE DEF t
<1>5. \A i \in 1..k : t[Len(s) + 1 + i] = Payload(n + i)
  <2> TAKE i \in 1..k
  <2>1. Len(s) + (1 + i) = Len(s) + 1 + i /\ 1 + i \in 1..(k + 1)
    BY <1>4
  <2>2. QED
    BY <1>2, <1>3, <2>1
<1>6. t[Len(s) + 1].hdr # -1
  <2>1. 1 \in 1..(k + 1) /\ k # -1
    OBVIOUS
  <2>2. QED
    BY <2>1, <1>1, <1>3
<1>7. ASSUME NEW i \in 1..Len(t), t[i].hdr = -1
      PROVE  \/ i \in 1..Len(s) /\ t[i] = s[i] /\ t[i].pos \in 1..n
             \/ i - Len(s) - 1 \in 1..k /\ t[i].pos = n + (i - Len(s) - 1)
  <2>1. CASE i <= Len(s)
    <3>1. i \in 1..Len(s)
      BY <1>4, <2>1
    <3>2. t[i] = s[i]
      BY <1>3, <3>1
    <3>3. s[i].pos \in 1..n
      BY <1>7, <3>1, <3>2 DEF Consecutive
    <3>4. QED
      BY <3>1, <3>2, <3>3
  <2>2. CASE i > Len(s)
    <3>1. i # Len(s) + 1
      BY <1>6, <1>7
    <3>2. i - Len(s) - 1 \in 1..k /\ i = Len(s) + 1 + (i - Len(s) - 1)
      BY <1>3, <1>4, <2>2, <3>1
    <3>3. t[i] = Payload(n + (i - Len(s) - 1))
      BY <1>5, <3>2
    <3>4. QED
      BY <3>2, <3>3 DEF Payload
  <2>3. QED
    BY <1>3, <1>4, <2>1, <2>2
<1>8. \A i \in 1..Len(t) : t[i].hdr = -1 => t[i].pos \in 1..(n + k)
  <2> SUFFICES ASSUME NEW i \in 1..Len(t), t[i].hdr = -1 PROVE t[i].pos \in 1..(n + k)
    OBVIOUS
  <2>1. QED
    BY <1>4, <1>7
<1>9. \A p \in 1..(n + k) : \E i \in 1..Len(t) : t[i].hdr = -1 /\ t[i].pos = p
  <2> TAKE p \in 1..(n + k)
  <2>1. CASE p <= n
    <3>0. p \in 1..n
      BY <2>1
    <3>1. PICK i \in 1..Len(s) : s[i].hdr = -1 /\ s[i].pos = p
      BY <3>0 DEF Consecutive
    <3>2. QED
      BY <1>3, <1>4, <3>1
  <2>2. CASE p > n
    <3>1. p - n \in 1..k /\ Len(s) + 1 + (p - n) \in 1..Len(t) /\ n + (p - n) = p
      BY <1>3, <1>4, <2>2
    <3>2. t[Len(s) + 1 + (p - n)] = Payload(p)
      BY <1>5, <3>1
    <3>3. QED
      BY <3>1, <3>2, SMTT(30) DEF Payload
  <2>3. QED
    BY <2>1, <2>2
<1>10. \A i, j \in 1..Len(t) : i < j /\ t[i].hdr = -1 /\ t[j].hdr = -1 => t[i].pos < t[j].pos
  <2> SUFFICES ASSUME NEW i \in 1..Len(t), NEW j \in 1..Len(t), i < j,
                      t[i].hdr = -1, t[j].hdr = -1
               PROVE  t[i].pos < t[j].pos
    OBVIOUS
  <2>1. CASE j <= Len(s)
    <3>1. i \in 1..Len(s) /\ j \in 1..Len(s)
      BY <1>4, <2>1
    <3>2. t[i] = s[i] /\ t[j] = s[j]
      BY <1>3, <3>1
    <3>3. QED
      BY <3>1, <3>2 DEF Consecutive
  <2>2. CASE j > Len(s)
    <3>1. j - Len(s) - 1 \in 1..k /\ t[j].pos = n + (j - Len(s) - 1)
      BY <1>4, <1>7, <2>2
    <3>2. CASE i <= Len(s)
      <4>1. t[i].pos \in 1..n
        BY <1>4, <1>7, <3>2
      <4>2. QED
        BY <1>4, <3>1, <4>1
    <3>3. CASE i > Len(s)
      <4>1. i - Len(s) - 1 \in 1..k /\ t[i].pos = n + (i - Len(s) - 1)
        BY <1>4, <1>7, <3>3
      <4>2. QED
        BY <1>4, <3>1, <4>1
    <3>4. QED
      BY <1>4, <3>2, <3>3
  <2>3. QED
    BY <1>4, <2>1, <2>2
<1>11. QED
  BY <1>8, <1>9, <1>10 DEF Consecutive, t, f

\* SSL_write takes the first n tokens: the two parts together are the same.
LEMMA MovedUp ==
  ASSUME NEW u \in Seq(Token), NEW r \in RingOf(Token), NEW n \in 0..Len(r.q)
  PROVE  (u \o SubSeq(r.q, 1, n)) \o RingConsume(r, n).q = u \o r.q
<1> DEFINE a == SubSeq(r.q, 1, n)
           b == RingConsume(r, n).q
<1>1. r.q \in Seq(Token) /\ Len(r.q) \in Nat /\ n \in Nat
  BY LenProperties DEF RingOf
<1>2. a \in Seq(Token) /\ Len(a) = n /\ \A i \in 1..n : a[i] = r.q[i]
  BY <1>1, PartFacts, 0 + 1 = 1, 0 + n = n
<1>3. /\ b \in Seq(Token) /\ Len(b) = Len(r.q) - n
      /\ \A i \in 1..(Len(r.q) - n) : b[i] = r.q[n + i]
  BY RingConsumeFacts DEF RingOf
<1> HIDE DEF a, b
<1>4. /\ a \o b \in Seq(Token) /\ Len(a \o b) = n + (Len(r.q) - n)
      /\ \A i \in 1..n : (a \o b)[i] = a[i]
      /\ \A i \in 1..(Len(r.q) - n) : (a \o b)[n + i] = b[i]
  <2>1. Len(r.q) - n \in Nat
    BY <1>1
  <2>2. QED
    BY <1>2, <1>3, <2>1, ConcatFacts, SMTT(30)
<1>5. \A i \in 1..Len(r.q) : (a \o b)[i] = r.q[i]
  <2> TAKE i \in 1..Len(r.q)
  <2>1. CASE i <= n
    BY <1>1, <1>2, <1>4, <2>1
  <2>2. CASE i > n
    <3>1. i - n \in 1..(Len(r.q) - n) /\ n + (i - n) = i
      BY <1>1, <2>2
    <3>2. (a \o b)[n + (i - n)] = r.q[n + (i - n)]
      BY <1>3, <1>4, <3>1
    <3>3. QED
      BY <3>1, <3>2
  <2>3. i <= n \/ i > n
    BY <1>1
  <2>4. QED
    BY <2>1, <2>2, <2>3
<1>6. Len(a \o b) = Len(r.q)
  BY <1>1, <1>4
<1>7. a \o b = r.q
  BY <1>1, <1>4, <1>5, <1>6, SeqEqual
<1>8. (u \o a) \o b = u \o (a \o b)
  BY <1>2, <1>3, ConcatAssociative
<1>9. QED
  BY <1>7, <1>8 DEF a, b

\* What the server gets is what the host wrote: as long as out_ring never
\* refused a message, the payload units given to SSL_write and those still in
\* out_ring are the units encrypted so far, each once, in order, at its own
\* counter (t3_client_write, ssl_flush_out), for every ring and record size.
THEOREM WritesInOrder == Spec => []WrittenInOrder
<1>0. MsgLens \subseteq Nat \ {0} /\ TlsMax \in Nat
  BY StreamAssumption
<1>1. Init => WrittenInv
  <2> SUFFICES ASSUME Init PROVE WrittenInv
    OBVIOUS
  <2>1. up \o out_ring.q = <<>> /\ enc = 0
    BY EmptySeq, ConcatEmptySeq DEF Init, EmptyRing
  <2>2. Len(up \o out_ring.q) = 0
    BY <2>1, EmptySeq
  <2>3. QED
    BY <2>1, <2>2 DEF WrittenInv, Consecutive
<1>2. TypeOK /\ WrittenInv /\ [Next]_vars => WrittenInv'
  <2> SUFFICES ASSUME TypeOK, WrittenInv, [Next]_vars, "out" \notin faults' PROVE WrittenInv'
    BY DEF WrittenInv
  <2>t. /\ up \in Seq(Token) /\ out_ring \in RingOf(Token) /\ enc \in Nat
        /\ out_ring.q \in Seq(Token) /\ Len(out_ring.q) \in Nat
    BY LenProperties DEF TypeOK, RingOf
  <2>1. ASSUME UNCHANGED upVars, faults \subseteq faults' PROVE WrittenInv'
    BY <2>1 DEF WrittenInv, upVars
  <2>2. CASE Server
    BY <2>1, <2>2 DEF Server, SrvMessage, SrvFrame, SrvPadding, SrvControl
  <2>3. CASE Pump \/ SslReadEnd \/ DeframeEnd \/ DeframeError \/ ExtractEnd \/ FlushEnd
    BY <2>1, <2>3 DEF Pump, SslReadEnd, DeframeEnd, DeframeError, ExtractEnd, FlushEnd
  <2>4. CASE (\E n \in 1..TlsMax : SslRead(n)) \/ DeframeTerminal
    BY <2>1, <2>4 DEF SslRead, DeframeTerminal, Outcome
  <2>5. CASE \E k \in FrameSizes \cup PadSizes \cup CtrlSizes : DeframeData(k)
    BY <2>1, <2>5 DEF DeframeData, Outcome
  <2>6. CASE ExtractSkip \/ \E L \in MsgLens : ExtractMessage(L) \/ Read(L)
    BY <2>1, <2>6 DEF ExtractSkip, ExtractMessage, Read
  <2>7. CASE SslWrite
    <3> DEFINE n == IF RingUsed(out_ring) > TlsMax THEN TlsMax ELSE RingUsed(out_ring)
    <3>1. n \in 0..Len(out_ring.q)
      BY <1>0, <2>t DEF RingUsed
    <3>2. /\ up' = up \o SubSeq(out_ring.q, 1, n) /\ out_ring' = RingConsume(out_ring, n)
          /\ enc' = enc /\ faults' = faults
      BY <2>7 DEF SslWrite
    <3> HIDE DEF n
    <3>3. up' \o out_ring'.q = up \o out_ring.q
      BY <2>t, <3>1, <3>2, MovedUp
    <3>4. QED
      BY <3>2, <3>3 DEF WrittenInv
  <2>8. ASSUME NEW L \in MsgLens, Write(L) PROVE WrittenInv'
    <3> DEFINE f == Frame(1 + L, enc + 1)
    <3>1. L \in Nat /\ 1 + L \in Nat
      BY <1>0
    <3>a. enc + 1 \in Nat /\ (1 + L) + 1 = 2 + L
      BY <2>t, <3>1
    <3>2. f \in Seq(Token) /\ Len(f) = 2 + L
      BY <3>1, <3>a, FrameFacts
    <3>3. /\ enc' = enc + (1 + L) /\ out_ring' = RingAppend(out_ring, f) /\ up' = up
          /\ faults' = IF RingFits(out_ring, 2 + L) THEN faults ELSE faults \cup {"out"}
      BY <2>t, <2>8, <3>1 DEF Write, Outcome
    <3> HIDE DEF f
    <3>4. RingFits(out_ring, Len(f)) /\ "out" \notin faults
      BY <3>2, <3>3
    <3>5. out_ring'.q = out_ring.q \o f
      BY <2>t, <3>2, <3>3, <3>4, RingAppendFacts
    <3>6. up' \o out_ring'.q = (up \o out_ring.q) \o f
      <4>1. up \in Seq(Token) /\ out_ring.q \in Seq(Token)
        BY <2>t
      <4>2. \A u, v, w \in Seq(Token) : (u \o v) \o w = u \o (v \o w)
        BY ConcatAssociative
      <4>3. (up \o out_ring.q) \o f = up \o (out_ring.q \o f)
        BY <3>2, <4>1, <4>2
      <4>4. QED
        BY <3>3, <3>5, <4>3
    <3>7. Consecutive(up \o out_ring.q, enc)
      BY <3>4 DEF WrittenInv
    <3>8. up \o out_ring.q \in Seq(Token)
      BY <2>t, ConcatProperties
    <3>9. Consecutive((up \o out_ring.q) \o f, enc + (1 + L))
      BY <2>t, <3>1, <3>7, <3>8, ConsecutiveFrame DEF f
    <3>10. QED
      BY <3>3, <3>6, <3>9 DEF WrittenInv
  <2>9. CASE UNCHANGED vars
    BY <2>1, <2>9 DEF vars, upVars
  <2>10. QED
    BY <2>2, <2>3, <2>4, <2>5, <2>6, <2>7, <2>8, <2>9 DEF Next, PumpStep, Host
<1>3. TypeOK /\ WrittenInv => WrittenInOrder
  <2> SUFFICES ASSUME TypeOK, WrittenInv, "out" \notin faults
               PROVE  LET s == up \o out_ring.q
                      IN  /\ {s[i].pos : i \in UpUnits(s)} = 1..enc
                          /\ \A i, j \in UpUnits(s) : i < j => s[i].pos < s[j].pos
    BY DEF WrittenInOrder
  <2> DEFINE t == up \o out_ring.q
  <2>1. t \in Seq(Token)
    BY ConcatProperties DEF TypeOK, RingOf
  <2>2. DOMAIN t = 1..Len(t)
    BY <2>1, LenProperties
  <2>3. Consecutive(t, enc)
    BY DEF WrittenInv
  <2> HIDE DEF t
  <2>4. UpUnits(t) = {i \in 1..Len(t) : t[i].hdr = -1}
    BY <2>2 DEF UpUnits
  <2>5. {t[i].pos : i \in UpUnits(t)} = 1..enc
    BY <2>3, <2>4 DEF Consecutive
  <2>6. \A i, j \in UpUnits(t) : i < j => t[i].pos < t[j].pos
    BY <2>3, <2>4 DEF Consecutive
  <2>7. QED
    BY <2>5, <2>6 DEF t
<1>4. QED
  BY <1>1, <1>2, <1>3, TypeCorrect, PTL DEF Spec

-----------------------------------------------------------------------------
(* The stream implements the channel.  The messages sent lie back to back   *)
(* in the plaintext, those received are the first of them, and got ends     *)
(* where the next one begins; so what t3_client_read takes from plain_in,   *)
(* which begins with a message, is that one.                                *)

\* Where message k of s begins in a plaintext of n units, or would begin.
Begin(s, n, k) == IF k <= Len(s) THEN s[k][1] ELSE n + 1

SentShape(s, t) ==
  /\ Begin(s, Len(t), 1) = 1
  /\ \A k \in 1..Len(s) :
       /\ s[k] \in Seq(Nat) /\ s[k][1] \in 1..Len(t)
       /\ t[s[k][1]] > 0 /\ Len(s[k]) = 1 + t[s[k][1]]
       /\ Run(s[k], s[k][1] - 1)
       /\ Begin(s, Len(t), k + 1) = s[k][1] + Len(s[k])

RcvdShape(r, s, t, g) ==
  /\ Len(r) <= Len(s)
  /\ \A k \in 1..Len(r) : r[k] = s[k]
  /\ Begin(s, Len(t), Len(r) + 1) = g + 1

ChanInv == SentShape(sent, text) /\ RcvdShape(rcvd, sent, text, Len(got))

\* A message more at the end of the plaintext.
LEMMA SentMore ==
  ASSUME NEW s \in Seq(Seq(Nat)), NEW t \in Seq(Int), SentShape(s, t), NEW L \in Nat \ {0}
  PROVE  LET z == Append(s, Units(Len(t), L))
             u == t \o Message(L)
         IN  /\ SentShape(z, u)
             /\ \A k \in 1..(Len(s) + 1) : Begin(z, Len(u), k) = Begin(s, Len(t), k)
<1> DEFINE w == Units(Len(t), L)
           z == Append(s, w)
           u == t \o Message(L)
<1>0. Len(s) \in Nat /\ Len(t) \in Nat /\ L \in Nat /\ 1 + L \in Nat
  BY LenProperties
<1>1. w \in Seq(Nat) /\ Len(w) = 1 + L /\ w[1] = Len(t) + 1 /\ Run(w, Len(t))
  BY <1>0, UnitsFacts
<1>2. Message(L) \in Seq(Int) /\ Len(Message(L)) = 1 + L /\ Message(L)[1] = L
  <2>1. Message(L) \in Seq(Int) /\ Len(Message(L)) = L + 1 /\ Message(L)[1] = L
    BY MessageFacts
  <2>2. L + 1 = 1 + L
    OBVIOUS
  <2>3. QED
    BY <2>1, <2>2
<1>3. /\ Len(u) = Len(t) + (1 + L)
      /\ \A p \in 1..Len(t) : u[p] = t[p]
      /\ \A i \in 1..(1 + L) : u[Len(t) + i] = Message(L)[i]
  BY <1>0, <1>2, ConcatFacts
<1>4. u[Len(t) + 1] = L
  BY <1>0, <1>2, <1>3
<1> HIDE DEF w, u
<1>5. z \in Seq(Seq(Nat)) /\ Len(z) = Len(s) + 1 /\ z[Len(s) + 1] = w
      /\ \A k \in 1..Len(s) : z[k] = s[k]
  BY <1>0, <1>1, AppendProperties
<1> HIDE DEF z
<1>6. \A k \in 1..(Len(s) + 1) : Begin(z, Len(u), k) = Begin(s, Len(t), k)
  BY <1>0, <1>1, <1>5, SMTT(30) DEF Begin
<1>7. Begin(z, Len(u), 1) = 1
  BY <1>0, <1>6 DEF SentShape
<1>8. ASSUME NEW k \in 1..Len(s)
      PROVE  /\ z[k] \in Seq(Nat) /\ z[k][1] \in 1..Len(u)
             /\ u[z[k][1]] > 0 /\ Len(z[k]) = 1 + u[z[k][1]]
             /\ Run(z[k], z[k][1] - 1)
             /\ Begin(z, Len(u), k + 1) = z[k][1] + Len(z[k])
  <2>1. /\ s[k] \in Seq(Nat) /\ s[k][1] \in 1..Len(t)
        /\ t[s[k][1]] > 0 /\ Len(s[k]) = 1 + t[s[k][1]]
        /\ Run(s[k], s[k][1] - 1)
        /\ Begin(s, Len(t), k + 1) = s[k][1] + Len(s[k])
    BY DEF SentShape
  <2>2. z[k] = s[k] /\ k + 1 \in 1..(Len(s) + 1)
    BY <1>0, <1>5
  <2>3. u[s[k][1]] = t[s[k][1]] /\ s[k][1] \in 1..Len(u)
    <3>1. s[k][1] \in 1..Len(t)
      BY <2>1
    <3>2. \A p \in 1..Len(t) : p \in 1..Len(u)
      BY <1>0, <1>3
    <3>3. QED
      BY <1>3, <3>1, <3>2
  <2>4. Begin(z, Len(u), k + 1) = Begin(s, Len(t), k + 1)
    BY <1>6, <2>2
  <2>5. QED
    BY <2>1, <2>2, <2>3, <2>4
<1>9. /\ w \in Seq(Nat) /\ w[1] \in 1..Len(u)
      /\ u[w[1]] > 0 /\ Len(w) = 1 + u[w[1]]
      /\ Run(w, w[1] - 1)
      /\ Begin(z, Len(u), (Len(s) + 1) + 1) = w[1] + Len(w)
  <2>1. w[1] \in 1..Len(u) /\ u[w[1]] = L
    BY <1>0, <1>1, <1>3, <1>4
  <2>2. w[1] - 1 = Len(t)
    BY <1>0, <1>1
  <2>3. Begin(z, Len(u), (Len(s) + 1) + 1) = Len(u) + 1
    BY <1>0, <1>5 DEF Begin
  <2>4. QED
    BY <1>0, <1>1, <1>3, <2>1, <2>2, <2>3
<1>10. \A k \in 1..Len(z) : k \in 1..Len(s) \/ k = Len(s) + 1
  BY <1>0, <1>5
<1>11. SentShape(z, u)
  BY <1>5, <1>7, <1>8, <1>9, <1>10 DEF SentShape
<1>12. QED
  BY <1>6, <1>11 DEF z, u, w

\* The server has a new message: the channel's Send.
LEMMA ChanSend ==
  ASSUME TypeOK, ChanInv, NEW L \in MsgLens, SrvMessage(L)
  PROVE  ChanInv' /\ Channel!Next
<1>0. L \in Nat \ {0} /\ L \in Nat
  BY StreamAssumption
<1>t. /\ text \in Seq(Int) /\ Len(text) \in Nat /\ sent \in Seq(Seq(Nat)) /\ Len(sent) \in Nat
      /\ rcvd \in Seq(Seq(Nat)) /\ Len(rcvd) \in Nat
  BY LenProperties, Types DEF TypeOK
<1>1. /\ text' = text \o Message(L) /\ got' = got /\ Len(text) + 1 + L <= MaxText
      /\ sent' = Append(sent, Units(Len(text), L)) /\ rcvd' = rcvd
  BY DEF SrvMessage, downVars
<1>2. /\ SentShape(sent', text')
      /\ \A k \in 1..(Len(sent) + 1) : Begin(sent', Len(text'), k) = Begin(sent, Len(text), k)
  BY <1>0, <1>t, <1>1, SentMore DEF ChanInv
<1>3. Units(Len(text), L) \in Seq(Nat)
  BY <1>0, <1>t, UnitsFacts
<1>4. /\ sent' \in Seq(Seq(Nat)) /\ Len(sent') = Len(sent) + 1
      /\ \A k \in 1..Len(sent) : sent'[k] = sent[k]
  BY <1>t, <1>1, <1>3, AppendProperties
<1>5. RcvdShape(rcvd', sent', text', Len(got'))
  <2>1. /\ Len(rcvd) <= Len(sent) /\ \A k \in 1..Len(rcvd) : rcvd[k] = sent[k]
        /\ Begin(sent, Len(text), Len(rcvd) + 1) = Len(got) + 1
    BY DEF ChanInv, RcvdShape
  <2>2. Len(rcvd) + 1 \in 1..(Len(sent) + 1) /\ Len(rcvd) <= Len(sent')
    BY <1>t, <1>4, <2>1, SMTT(30)
  <2>3. \A k \in 1..Len(rcvd) : rcvd[k] = sent'[k]
    <3> TAKE k \in 1..Len(rcvd)
    <3>1. k \in 1..Len(sent)
      <4>1. Len(rcvd) <= Len(sent) /\ Len(rcvd) \in Nat /\ Len(sent) \in Nat
        BY <1>t, <2>1
      <4>2. QED
        BY <4>1
    <3>2. QED
      BY <1>4, <2>1, <3>1
  <2>4. QED
    BY <1>1, <1>2, <2>1, <2>2, <2>3 DEF RcvdShape
<1>6. ChanInv'
  BY <1>2, <1>5 DEF ChanInv
<1>7. Len(text) \in 0..MaxText
  BY <1>0, <1>t, <1>1, StreamAssumption
<1>8. Channel!Next
  <2>1. Channel!Send(Units(Len(text), L))
    BY <1>1 DEF Channel!Send
  <2>2. QED
    BY <1>7, <2>1 DEF Channel!Next
<1>9. QED
  BY <1>6, <1>8

\* The host reads: the channel's Recv.
LEMMA ChanRecv ==
  ASSUME TypeOK, SyncInv, ChanInv, NEW L \in MsgLens, Read(L)
  PROVE  ChanInv' /\ Channel!Next
<1> DEFINE s == SubSeq(plain_in.q, 1, 1 + L)
           m == sent[Len(rcvd) + 1]
<1>0. L \in Nat /\ 1 + L \in Nat
  BY StreamAssumption
<1>t. /\ Len(text) \in Nat /\ sent \in Seq(Seq(Nat)) /\ Len(sent) \in Nat
      /\ rcvd \in Seq(Seq(Nat)) /\ Len(rcvd) \in Nat /\ Returned \in Nat
  BY LenProperties, Types, Counts DEF TypeOK
<1>1. /\ Queued > 0 /\ L \in LengthReadings(plain_in.q[1]) /\ 1 + L <= Queued
      /\ got' = got \o s /\ text' = text
      /\ rcvd' = Append(rcvd, s) /\ sent' = sent
  BY <1>0, Types DEF Read, RingUsed, srvVars, Queued
<1>2. /\ s \in Seq(Nat) /\ Len(s) = 1 + L /\ Run(s, Returned)
  <2>1. 1 + L <= Len(plain_in.q) /\ Run(plain_in.q, Returned) /\ plain_in \in RingOf(Nat)
    BY <1>1, Types DEF Queued, SyncInv, PipeShape
  <2>2. QED
    BY <1>0, <1>t, <2>1, RunSplit
<1>3. text[Returned + 1] = L
  BY <1>1, QueuedHead
<1>4. Returned + 1 <= Len(text)
  <2>1. Returned + Queued + Pending = dec /\ dec <= nSent /\ nSent <= Len(text)
    BY Types DEF SyncInv, PipeShape
  <2>2. nSent \in Nat
    BY Types
  <2>3. QED
    BY <1>t, <1>1, <2>1, <2>2, Counts
<1> HIDE DEF s
<1>5. /\ Len(rcvd) <= Len(sent) /\ \A k \in 1..Len(rcvd) : rcvd[k] = sent[k]
      /\ Begin(sent, Len(text), Len(rcvd) + 1) = Returned + 1
  BY DEF ChanInv, RcvdShape, Returned
<1>6. Len(rcvd) + 1 \in 1..Len(sent) /\ Len(rcvd) < Len(sent) /\ m[1] = Returned + 1
  BY <1>t, <1>4, <1>5 DEF Begin
<1>7. /\ m \in Seq(Nat) /\ Len(m) = 1 + text[m[1]] /\ Run(m, m[1] - 1)
      /\ Begin(sent, Len(text), (Len(rcvd) + 1) + 1) = m[1] + Len(m)
  BY <1>6 DEF ChanInv, SentShape
<1> HIDE DEF m
<1>8. Len(m) = 1 + L /\ Run(m, Returned)
  <2>1. m[1] - 1 = Returned
    BY <1>t, <1>6
  <2>2. QED
    BY <1>3, <1>6, <1>7, <2>1
<1>9. s = m
  <2>1. \A i \in 1..Len(s) : s[i] = m[i]
    BY <1>2, <1>8 DEF Run
  <2>2. QED
    BY <1>2, <1>7, <1>8, <2>1, SeqEqual
<1>10. Channel!Next
  <2>1. Channel!Recv
    BY <1>1, <1>6, <1>9 DEF Channel!Recv, s, m
  <2>2. QED
    BY <2>1 DEF Channel!Next
<1>11. /\ rcvd' \in Seq(Seq(Nat)) /\ Len(rcvd') = Len(rcvd) + 1
       /\ rcvd'[Len(rcvd) + 1] = s /\ \A k \in 1..Len(rcvd) : rcvd'[k] = rcvd[k]
  BY <1>t, <1>1, <1>2, AppendProperties
<1>12. Len(got') = Returned + (1 + L)
  <2>1. got \in Seq(Nat) /\ Len(got) = Returned
    BY Types DEF Returned
  <2>2. QED
    BY <1>1, <1>2, <2>1, ConcatProperties
<1>13. \A k \in 1..Len(rcvd') : rcvd'[k] = sent[k]
  <2> TAKE k \in 1..Len(rcvd')
  <2>1. k \in 1..Len(rcvd) \/ k = Len(rcvd) + 1
    BY <1>t, <1>11
  <2>2. QED
    BY <1>5, <1>9, <1>11, <2>1 DEF m
<1>14. Begin(sent, Len(text), Len(rcvd') + 1) = Len(got') + 1 /\ Len(rcvd') <= Len(sent)
  <2>1. m[1] + Len(m) = (Returned + 1) + (1 + L)
    BY <1>6, <1>8
  <2>2. (Returned + 1) + (1 + L) = (Returned + (1 + L)) + 1
    BY <1>0, <1>t
  <2>3. Begin(sent, Len(text), (Len(rcvd) + 1) + 1) = Len(got') + 1
    BY <1>7, <1>12, <2>1, <2>2
  <2>4. Len(rcvd') <= Len(sent)
    BY <1>t, <1>6, <1>11
  <2>5. QED
    BY <1>11, <2>3, <2>4
<1>15. RcvdShape(rcvd', sent', text', Len(got'))
  BY <1>1, <1>13, <1>14 DEF RcvdShape
<1>16. ChanInv'
  BY <1>1, <1>15 DEF ChanInv
<1>17. QED
  BY <1>10, <1>16

\* A step that neither end sees.
LEMMA ChanUnseen ==
  ASSUME ChanInv, UNCHANGED <<text, got, sent, rcvd>>
  PROVE  ChanInv' /\ UNCHANGED Channel!vars
BY DEF ChanInv, Channel!vars

\* Every step is one of the channel's or is not seen by it.
LEMMA ChanStep ==
  ASSUME TypeOK, SyncInv, InSync', ChanInv, [Next]_vars
  PROVE  ChanInv' /\ [Channel!Next]_(Channel!vars)
<1>1. ASSUME NEW L \in MsgLens, SrvMessage(L) PROVE ChanInv' /\ Channel!Next
  BY <1>1, ChanSend
<1>2. ASSUME NEW L \in MsgLens, Read(L) PROVE ChanInv' /\ Channel!Next
  BY <1>2, ChanRecv
<1>3. ~\E k \in PadSizes : SrvPadding(k)
  BY DEF SrvPadding, InSync
<1>4. ASSUME NEW k, SrvFrame(k) \/ SrvControl(k) PROVE UNCHANGED <<text, got, sent, rcvd>>
  BY <1>4 DEF SrvFrame, SrvControl, downVars
<1>5. CASE Pump \/ SslReadEnd \/ DeframeEnd \/ DeframeError \/ ExtractEnd \/ FlushEnd
  <2>1. UNCHANGED <<text, got, sent, rcvd>>
    BY <1>5 DEF Pump, SslReadEnd, DeframeEnd, DeframeError, ExtractEnd, FlushEnd, downVars, srvVars
  <2>2. QED
    BY <2>1, ChanUnseen
<1>6. CASE (\E n \in 1..TlsMax : SslRead(n)) \/ DeframeTerminal \/ ExtractSkip \/ SslWrite
  <2>1. UNCHANGED <<text, got, sent, rcvd>>
    BY <1>6 DEF SslRead, DeframeTerminal, ExtractSkip, SslWrite, srvVars, downVars
  <2>2. QED
    BY <2>1, ChanUnseen
<1>7. ASSUME NEW k, DeframeData(k) PROVE UNCHANGED <<text, got, sent, rcvd>>
  BY <1>7 DEF DeframeData, srvVars
<1>8. ASSUME NEW L, ExtractMessage(L) \/ Write(L) PROVE UNCHANGED <<text, got, sent, rcvd>>
  BY <1>8 DEF ExtractMessage, Write, srvVars, downVars
<1>9. CASE UNCHANGED vars
  <2>1. UNCHANGED <<text, got, sent, rcvd>>
    BY <1>9 DEF vars
  <2>2. QED
    BY <2>1, ChanUnseen
<1>10. CASE Server
  BY <1>1, <1>3, <1>4, <1>10, ChanUnseen DEF Server
<1>11. CASE PumpStep
  BY <1>5, <1>6, <1>7, <1>8, <1>11, ChanUnseen DEF PumpStep
<1>12. CASE Host
  BY <1>2, <1>8, <1>12, ChanUnseen DEF Host
<1>13. QED
  BY <1>9, <1>10, <1>11, <1>12 DEF Next

\* As long as the receive path meets nothing it is not built for, the client
\* stream is a FIFO of whole messages: with frames, TLS records and messages
\* cut independently and any ring sizes, each call of t3_client_read returns
\* the next message the server had to send, unit by unit.
THEOREM StreamIsChannel == Spec /\ []InSync => ImplementsChannel
<1>1. Init => ChanInv /\ Channel!Init
  <2> SUFFICES ASSUME Init PROVE ChanInv /\ Channel!Init
    OBVIOUS
  <2>1. sent = <<>> /\ rcvd = <<>> /\ text = <<>> /\ got = <<>>
    BY DEF Init
  <2>2. Len(sent) = 0 /\ Len(rcvd) = 0 /\ Len(text) = 0 /\ Len(got) = 0
    BY <2>1
  <2>3. SentShape(sent, text) /\ RcvdShape(rcvd, sent, text, Len(got))
    BY <2>2 DEF SentShape, RcvdShape, Begin
  <2>4. QED
    BY <2>1, <2>3 DEF ChanInv, Channel!Init
<1>2. IInv /\ InSync /\ InSync' /\ ChanInv /\ [Next]_vars
        => ChanInv' /\ [Channel!Next]_(Channel!vars)
  BY ChanStep DEF IInv
<1>3. QED
  BY <1>1, <1>2, InvariantHolds, PTL DEF Spec, ImplementsChannel, Channel!Spec

\* The rings hold all the traffic and the server sends cipher frames only.
Roomy == PadSizes = {} /\ CtrlSizes = {} /\ MaxRaw <= RingCap /\ MaxDec <= RingCap

RoomInv == InSync /\ Len(raw) <= MaxRaw

\* With room, nothing is refused.
LEMMA RoomKept ==
  ASSUME Roomy, IInv, RoomInv, [Next]_vars
  PROVE  RoomInv'
<1>0. RingCap \in Nat /\ MaxRaw \in Nat /\ MaxDec \in Nat /\ FrameSizes \subseteq Nat
  BY RingCapAssumption, StreamAssumption
<1>t. TypeOK /\ SyncInv /\ InSync /\ Len(raw) <= MaxRaw
  BY DEF IInv, RoomInv
<1>1. ASSUME UNCHANGED <<raw, faults>> PROVE RoomInv'
  BY <1>1 DEF RoomInv, InSync
<1>2. ASSUME NEW L \in MsgLens, SrvMessage(L) \/ Read(L) \/ ExtractMessage(L) PROVE RoomInv'
  BY <1>1, <1>2 DEF SrvMessage, Read, ExtractMessage, srvVars
<1>3. ASSUME NEW k \in FrameSizes, SrvFrame(k) PROVE RoomInv'
  <2>1. /\ raw' = raw \o Frame(k, nSent + 1) /\ faults' = faults
        /\ Len(raw) + 1 + k <= MaxRaw
    BY <1>3 DEF SrvFrame
  <2>2. k \in Nat /\ nSent + 1 \in Nat /\ raw \in Seq(Token) /\ Len(raw) \in Nat
    BY <1>0, <1>t, Types
  <2>3. Frame(k, nSent + 1) \in Seq(Token) /\ Len(Frame(k, nSent + 1)) = k + 1
    BY <2>2, FrameFacts
  <2>4. Len(raw') = Len(raw) + (k + 1)
    <3>1. raw \in Seq(Token) /\ k + 1 \in Nat
      BY <2>2
    <3>2. Len(raw \o Frame(k, nSent + 1)) = Len(raw) + (k + 1)
      BY <2>3, <3>1, ConcatFacts
    <3>3. QED
      BY <2>1, <3>2
  <2>5. QED
    BY <1>t, <2>1, <2>2, <2>4 DEF RoomInv, InSync
<1>4. ~(\E k \in PadSizes : SrvPadding(k)) /\ ~(\E k \in CtrlSizes : SrvControl(k))
  BY DEF Roomy
<1>5. CASE Pump \/ SslReadEnd \/ DeframeEnd \/ DeframeError \/ ExtractEnd \/ FlushEnd
  BY <1>1, <1>5 DEF Pump, SslReadEnd, DeframeEnd, DeframeError, ExtractEnd, FlushEnd, srvVars
<1>6. CASE DeframeTerminal \/ ExtractSkip \/ SslWrite
  BY <1>1, <1>6 DEF DeframeTerminal, ExtractSkip, SslWrite, srvVars
<1>7. ASSUME NEW n \in 1..TlsMax, SslRead(n) PROVE RoomInv'
  <2>1. raw' = raw /\ nRecv + n <= Len(raw) /\ Outcome(in_ring, "in", n, "read")
    BY <1>7 DEF SslRead, srvVars
  <2>2. Len(in_ring.q) <= nRecv /\ Len(in_ring.q) \in Nat /\ nRecv \in Nat /\ Len(raw) \in Nat
    BY <1>t, Types DEF SyncInv, InRingShape
  <2>3. n \in Nat
    BY StreamAssumption
  <2>4. RingFits(in_ring, n)
    BY <1>0, <1>t, <2>1, <2>2, <2>3 DEF RingFits, RingAvail, RingUsed, Roomy
  <2>5. QED
    BY <1>1, <2>1, <2>4 DEF Outcome
<1>8. ASSUME NEW k \in FrameSizes \cup PadSizes \cup CtrlSizes, DeframeData(k) PROVE RoomInv'
  <2>1. /\ raw' = raw /\ dec + k <= MaxDec
        /\ faults' = IF RingFits(reasm_in, k) THEN faults ELSE faults \cup {"reasm"}
    BY <1>8 DEF DeframeData, srvVars, Outcome
  <2>2. Returned + Queued + Pending = dec
    BY <1>t DEF SyncInv, PipeShape
  <2>3. Returned \in Nat /\ Queued \in Nat /\ Pending \in Nat
    BY <1>t, Counts
  <2>4. k \in Nat
    BY <1>0 DEF Roomy
  <2>5. Pending + k <= RingCap
    BY <1>0, <2>1, <2>2, <2>3, <2>4 DEF Roomy
  <2>6. RingFits(reasm_in, k)
    BY <1>0, <2>3, <2>4, <2>5 DEF RingFits, RingAvail, RingUsed, Pending
  <2>7. QED
    BY <1>1, <2>1, <2>6
<1>9. ASSUME NEW L \in MsgLens, Write(L) PROVE RoomInv'
  BY <1>t, <1>9 DEF Write, Outcome, srvVars, RoomInv, InSync
<1>10. CASE UNCHANGED vars
  BY <1>1, <1>10 DEF vars
<1>11. QED
  BY <1>2, <1>3, <1>4, <1>5, <1>6, <1>7, <1>8, <1>9, <1>10 DEF Next, Server, PumpStep, Host

\* With rings that hold the traffic no append of ssl_read_in or
\* process_incoming is refused, so the stream is the FIFO unconditionally.
THEOREM RoomyIsChannel ==
  ASSUME Roomy
  PROVE  Spec => ImplementsChannel
<1>1. Init => RoomInv
  <2> SUFFICES ASSUME Init PROVE RoomInv
    OBVIOUS
  <2>1. Len(raw) = 0 /\ faults = {} /\ MaxRaw \in Nat
    BY StreamAssumption DEF Init
  <2>2. QED
    BY <2>1 DEF RoomInv, InSync
<1>2. IInv /\ RoomInv /\ [Next]_vars => RoomInv'
  BY RoomKept
<1>3. RoomInv => InSync
  BY DEF RoomInv
<1>4. QED
  BY <1>1, <1>2, <1>3, InvariantHolds, StreamIsChannel, PTL DEF Spec
=============================================================================
