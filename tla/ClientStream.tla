---------------------------- MODULE ClientStream ----------------------------
(***************************************************************************)
(* The READY state of the Type3 client stream, lib/src/t3_client_stream.c: *)
(*                                                                         *)
(*   TLS -> in_ring -> deframe, decrypt -> reasm_in -> plain_in -> host    *)
(*   host -> encrypt, frame -> out_ring -> TLS                             *)
(*                                                                         *)
(* The library is single-threaded and its calls run to completion, so      *)
(* t3_client_pump is a sequence of steps ordered by pc that only the       *)
(* network interleaves with; t3_client_read and t3_client_write start from *)
(* pc = "idle".                                                            *)
(*                                                                         *)
(* Bytes are grouped into units.  A message of wire_length L is a prefix   *)
(* unit and L payload units.  Unit n of the server's plaintext is          *)
(* encrypted with keystream position n; a unit decrypted at any other      *)
(* position of the counter is Noise.  A frame (an HTTP chunk or a          *)
(* WebSocket frame) is a header token that carries the payload size and    *)
(* one token per payload unit.                                             *)
(***************************************************************************)
EXTENDS Ring

CONSTANTS Mode,        \* "HTTP" or "WS": T3C_MODE_HTTP, T3C_MODE_WS
          TlsMax,      \* the largest SSL_read / SSL_write (16384 bytes), in units
          MaxFrame,    \* the largest chunk t3_http_chunk_parse takes (65535 bytes)
          MsgLens,     \* wire lengths of the messages in either direction
          FrameSizes,  \* payload sizes the server's framing produces; 0: empty frame
          PadSizes,    \* sizes of the padding frames the server sends
          CtrlSizes,   \* payload sizes of the WebSocket control frames it sends
          HostCap,     \* out_cap: the host's read buffer
          MaxText,     \* bound: plaintext units the server sends
          MaxRaw,      \* bound: tokens the server puts on the wire
          MaxDec,      \* bound: units decrypted, the repeated ones included
          MaxWrites    \* bound: plaintext units the host writes

ASSUME StreamAssumption ==
  /\ Mode \in {"HTTP", "WS"}
  /\ TlsMax \in Nat \ {0}
  /\ MaxFrame \in Nat \ {0}
  /\ MsgLens \subseteq Nat \ {0}
  /\ FrameSizes \subseteq Nat
  /\ PadSizes \subseteq Nat \ {0}
  /\ CtrlSizes \subseteq Nat \ {0}
  /\ {HostCap, MaxText, MaxRaw, MaxDec, MaxWrites} \subseteq Nat

VARIABLES
  text,      \* the server's plaintext: L at a prefix, 0 at payload, or padding
  raw,       \* the tokens the server has written to the TLS stream
  nSent,     \* units of text framed into raw: the server's keystream position
  nRecv,     \* tokens SSL_read has returned
  in_ring, reasm_in, plain_in, out_ring,
  dec,       \* decrypt_ctx: units decrypted
  enc,       \* encrypt_ctx: units encrypted
  got,       \* history: units returned by t3_client_read, prefixes included
  up,        \* history: tokens given to SSL_write
  sent,      \* history: the messages the server had to send, as their units
  rcvd,      \* history: what each call of t3_client_read returned, likewise
  faults,    \* history: the rings that refused an append, and "ctrl" and "pad"
             \* once the server has sent such a frame
  pc         \* where the running call is; "dead": killed by an overrun

vars == <<text, raw, nSent, nRecv, in_ring, reasm_in, plain_in, out_ring,
          dec, enc, got, up, sent, rcvd, faults, pc>>
srvVars  == <<text, sent, raw, nSent>>
downVars == <<nRecv, in_ring, reasm_in, plain_in, dec, got, rcvd>>
upVars   == <<out_ring, enc, up>>

Noise  == 0     \* a unit decrypted with the wrong keystream
Marker == -1    \* T3_PADDING_MARKER, the first unit of a padding frame
Filler == -5    \* any other unit of a padding frame

\* Tokens: a header announces size units that begin at position pos.
Header(size, p)  == [hdr |-> size, pos |-> p]
Payload(p)       == [hdr |-> -1, pos |-> p]
Frame(size, p)   == <<Header(size, p)>> \o [i \in 1..size |-> Payload(p + i - 1)]
CtrlFrame(size)  == <<Header(size, Noise)>> \o [i \in 1..size |-> Payload(Noise)]

\* The plaintext of a message of wire length L, and of a padding frame.
Message(L) == <<L>> \o [i \in 1..L |-> 0]
Padding(k) == <<Marker>> \o [i \in 1..(k - 1) |-> Filler]

\* The units of a message of wire length L behind the first p of the plaintext.
Units(p, L) == [i \in 1..(1 + L) |-> p + i]

Init ==
  /\ text = <<>> /\ raw = <<>> /\ nSent = 0
  /\ nRecv = 0 /\ dec = 0 /\ enc = 0
  /\ in_ring = EmptyRing /\ reasm_in = EmptyRing
  /\ plain_in = EmptyRing /\ out_ring = EmptyRing
  /\ got = <<>> /\ up = <<>>
  /\ sent = <<>> /\ rcvd = <<>>
  /\ faults = {}
  /\ pc = "idle"

-----------------------------------------------------------------------------
(* The server, as the stream sees it *)

SrvMessage(L) ==
  /\ Len(text) + 1 + L <= MaxText
  /\ text' = text \o Message(L)
  /\ sent' = Append(sent, Units(Len(text), L))
  /\ UNCHANGED <<raw, nSent, downVars, upVars, faults, pc>>

\* Frame boundaries fall anywhere in the plaintext (spec/wire-format.md 2.2).
SrvFrame(k) ==
  /\ nSent + k <= Len(text)
  /\ Len(raw) + 1 + k <= MaxRaw
  /\ raw' = raw \o Frame(k, nSent + 1)
  /\ nSent' = nSent + k
  /\ UNCHANGED <<text, sent, downVars, upVars, faults, pc>>

\* A padding frame between two messages: the marker and k - 1 random units.
SrvPadding(k) ==
  /\ nSent = Len(text)
  /\ Len(text) + k <= MaxText /\ Len(raw) + 1 + k <= MaxRaw
  /\ text' = text \o Padding(k)
  /\ raw' = raw \o Frame(k, nSent + 1)
  /\ nSent' = nSent + k
  /\ faults' = faults \cup {"pad"}
  /\ UNCHANGED <<sent, downVars, upVars, pc>>

SrvControl(k) ==
  /\ Mode = "WS"
  /\ Len(raw) + 1 + k <= MaxRaw
  /\ raw' = raw \o CtrlFrame(k)
  /\ faults' = faults \cup {"ctrl"}
  /\ UNCHANGED <<text, sent, nSent, downVars, upVars, pc>>

-----------------------------------------------------------------------------
(* t3_client_pump in READY: ssl_read_in, process_incoming, ssl_flush_out;  *)
(* it ignores what the three return.                                       *)

\* An append of n units to ring r, called name: a refusal is recorded, and an
\* append past the allocation is undefined, so it either kills the process
\* or happens to read back intact.
Outcome(r, name, n, next) ==
  /\ faults' = IF RingFits(r, n) THEN faults ELSE faults \cup {name}
  /\ pc' \in {next} \cup (IF RingOverruns(r, n) THEN {"dead"} ELSE {})

Pump ==
  /\ pc = "idle"
  /\ pc' = "read"
  /\ UNCHANGED <<srvVars, downVars, upVars, faults>>

\* One SSL_read of n tokens; the result of ring_append is ignored.
SslRead(n) ==
  /\ pc = "read"
  /\ nRecv + n <= Len(raw)
  /\ nRecv' = nRecv + n
  /\ in_ring' = RingAppend(in_ring, SubSeq(raw, nRecv + 1, nRecv + n))
  /\ Outcome(in_ring, "in", n, "read")
  /\ UNCHANGED <<srvVars, reasm_in, plain_in, dec, got, rcvd, upVars>>

\* WANT_READ, or the peer's close, which looks the same to the pump.
SslReadEnd ==
  /\ pc = "read"
  /\ pc' = "deframe"
  /\ UNCHANGED <<srvVars, downVars, upVars, faults>>

\* What the frame parser makes of the token at the head of in_ring: its
\* size, Bad, or More.  Bytes that are not a header can look like any of them.
Bad  == -2
More == -3
FrameReadings(tok) ==
  IF tok.hdr >= 0
    THEN {IF Mode = "HTTP" /\ tok.hdr > MaxFrame THEN Bad ELSE tok.hdr}
    ELSE FrameSizes \cup {Bad, More}

FrameNeedsMore(k) == k = More \/ (k >= 0 /\ RingUsed(in_ring) < 1 + k)

DeframeEnd ==
  /\ pc = "deframe"
  /\ \/ RingUsed(in_ring) = 0
     \/ RingUsed(in_ring) > 0
        /\ \E k \in FrameReadings(in_ring.q[1]) : FrameNeedsMore(k)
  /\ pc' = "extract"
  /\ UNCHANGED <<srvVars, downVars, upVars, faults>>

\* A malformed frame, or an empty WebSocket frame (t3c_aes_crypt refuses
\* length 0): process_incoming returns -1 and the frame stays where it is.
DeframeError ==
  /\ pc = "deframe" /\ RingUsed(in_ring) > 0
  /\ \E k \in FrameReadings(in_ring.q[1]) : k = Bad \/ (k = 0 /\ Mode = "WS")
  /\ pc' = "flush"
  /\ UNCHANGED <<srvVars, downVars, upVars, faults>>

\* The terminal HTTP chunk is consumed and the loop goes on.
DeframeTerminal ==
  /\ pc = "deframe" /\ RingUsed(in_ring) > 0
  /\ Mode = "HTTP" /\ 0 \in FrameReadings(in_ring.q[1])
  /\ in_ring' = RingConsume(in_ring, 1)
  /\ UNCHANGED <<srvVars, nRecv, reasm_in, plain_in, dec, got, rcvd, upVars, faults, pc>>

Decrypt(k) ==
  [i \in 1..k |-> IF in_ring.q[1 + i] = Payload(dec + i) THEN dec + i ELSE Noise]

\* Faulty variant: the frame header is left in in_ring.
DeframeDataKeepsHeader(k) ==
  /\ pc = "deframe" /\ RingUsed(in_ring) > 0
  /\ k > 0 /\ k \in FrameReadings(in_ring.q[1]) /\ ~FrameNeedsMore(k)
  /\ dec + k <= MaxDec
  /\ dec' = dec + k
  /\ reasm_in' = RingAppend(reasm_in, Decrypt(k))
  /\ in_ring' = IF RingFits(reasm_in, k) THEN RingConsume(in_ring, k) ELSE in_ring
  /\ Outcome(reasm_in, "reasm", k, IF RingFits(reasm_in, k) THEN "deframe" ELSE "extract")
  /\ UNCHANGED <<srvVars, nRecv, plain_in, got, rcvd, upVars>>

\* Decrypt first, append after: the counter moves even when reasm_in refuses
\* the units and the frame is left in in_ring for the next pump.
DeframeData(k) ==
  /\ pc = "deframe" /\ RingUsed(in_ring) > 0
  /\ k > 0 /\ k \in FrameReadings(in_ring.q[1]) /\ ~FrameNeedsMore(k)
  /\ dec + k <= MaxDec
  /\ dec' = dec + k
  /\ reasm_in' = RingAppend(reasm_in, Decrypt(k))
  /\ in_ring' = IF RingFits(reasm_in, k) THEN RingConsume(in_ring, 1 + k) ELSE in_ring
  /\ Outcome(reasm_in, "reasm", k, IF RingFits(reasm_in, k) THEN "deframe" ELSE "extract")
  /\ UNCHANGED <<srvVars, nRecv, plain_in, got, rcvd, upVars>>

\* What the unit at the head of reasm_in reads as when taken for a
\* wire_length: its length, Skip (out of range with the marker's first
\* byte), or Bad (out of range).
Skip == -4
LengthReadings(u) ==
  IF u # Noise /\ text[u] > 0 THEN {text[u]}
  ELSE MsgLens \cup {Skip} \cup (IF u # Noise /\ text[u] = Marker THEN {} ELSE {Bad})

\* Faulty variant: a message that fills reasm_in exactly counts as incomplete.
ExtractEndOffByOne ==
  /\ pc = "extract"
  /\ \/ RingUsed(reasm_in) = 0
     \/ RingUsed(reasm_in) > 0
        /\ \E L \in LengthReadings(reasm_in.q[1]) :
             L = Bad \/ (L > 0 /\ RingUsed(reasm_in) <= 1 + L)
  /\ pc' = "flush"
  /\ UNCHANGED <<srvVars, downVars, upVars, faults>>

\* No complete message at the head of reasm_in, or a malformed length.
ExtractEnd ==
  /\ pc = "extract"
  /\ \/ RingUsed(reasm_in) = 0
     \/ RingUsed(reasm_in) > 0
        /\ \E L \in LengthReadings(reasm_in.q[1]) :
             L = Bad \/ (L > 0 /\ RingUsed(reasm_in) < 1 + L)
  /\ pc' = "flush"
  /\ UNCHANGED <<srvVars, downVars, upVars, faults>>

ExtractSkip ==
  /\ pc = "extract" /\ RingUsed(reasm_in) > 0
  /\ Skip \in LengthReadings(reasm_in.q[1])
  /\ reasm_in' = RingConsume(reasm_in, 1)
  /\ UNCHANGED <<srvVars, nRecv, in_ring, plain_in, dec, got, rcvd, upVars, faults, pc>>

\* Faulty variant: reasm_in is consumed although plain_in had no room.
ExtractMessageDrops(L) ==
  /\ pc = "extract" /\ RingUsed(reasm_in) > 0
  /\ L \in LengthReadings(reasm_in.q[1]) /\ L > 0
  /\ RingUsed(reasm_in) >= 1 + L
  /\ plain_in' = RingAppend(plain_in, SubSeq(reasm_in.q, 1, 1 + L))
  /\ reasm_in' = RingConsume(reasm_in, 1 + L)
  /\ UNCHANGED <<srvVars, nRecv, in_ring, dec, got, rcvd, upVars, faults, pc>>

ExtractMessage(L) ==
  /\ pc = "extract" /\ RingUsed(reasm_in) > 0
  /\ L \in LengthReadings(reasm_in.q[1]) /\ L > 0
  /\ RingUsed(reasm_in) >= 1 + L
  /\ plain_in' = RingAppend(plain_in, SubSeq(reasm_in.q, 1, 1 + L))
  /\ reasm_in' = IF RingFits(plain_in, 1 + L) THEN RingConsume(reasm_in, 1 + L)
                                              ELSE reasm_in
  /\ pc' \in {IF RingFits(plain_in, 1 + L) THEN "extract" ELSE "flush"}
             \cup (IF RingOverruns(plain_in, 1 + L) THEN {"dead"} ELSE {})
  /\ UNCHANGED <<srvVars, nRecv, in_ring, dec, got, rcvd, upVars, faults>>

\* Faulty variant: all of out_ring is consumed, not what SSL_write took.
SslWriteTruncates ==
  /\ pc = "flush" /\ RingUsed(out_ring) > 0
  /\ LET n == IF RingUsed(out_ring) > TlsMax THEN TlsMax ELSE RingUsed(out_ring)
     IN  up' = up \o SubSeq(out_ring.q, 1, n)
  /\ out_ring' = EmptyRing
  /\ UNCHANGED <<srvVars, downVars, enc, faults, pc>>

SslWrite ==
  /\ pc = "flush" /\ RingUsed(out_ring) > 0
  /\ LET n == IF RingUsed(out_ring) > TlsMax THEN TlsMax ELSE RingUsed(out_ring)
     IN  /\ up' = up \o SubSeq(out_ring.q, 1, n)
         /\ out_ring' = RingConsume(out_ring, n)
  /\ UNCHANGED <<srvVars, downVars, enc, faults, pc>>

\* Everything written, WANT_WRITE, or an error the caller ignores.
FlushEnd ==
  /\ pc = "flush"
  /\ pc' = "idle"
  /\ UNCHANGED <<srvVars, downVars, upVars, faults>>

-----------------------------------------------------------------------------
(* The host's calls *)

\* Faulty variant: the prefix is not counted when the message is consumed.
ReadShort(L) ==
  /\ pc = "idle" /\ RingUsed(plain_in) > 0
  /\ L \in LengthReadings(plain_in.q[1]) /\ L > 0
  /\ RingUsed(plain_in) >= 1 + L
  /\ L <= HostCap
  /\ got' = got \o SubSeq(plain_in.q, 1, L)
  /\ rcvd' = Append(rcvd, SubSeq(plain_in.q, 1, L))
  /\ plain_in' = RingConsume(plain_in, L)
  /\ UNCHANGED <<srvVars, nRecv, in_ring, reasm_in, dec, upVars, faults, pc>>

\* Faulty variant: the message stays in plain_in after it was returned.
ReadTwice(L) ==
  /\ pc = "idle" /\ RingUsed(plain_in) > 0
  /\ L \in LengthReadings(plain_in.q[1]) /\ L > 0
  /\ RingUsed(plain_in) >= 1 + L
  /\ L <= HostCap /\ Len(got) < MaxText
  /\ got' = got \o SubSeq(plain_in.q, 1, 1 + L)
  /\ rcvd' = Append(rcvd, SubSeq(plain_in.q, 1, 1 + L))
  /\ UNCHANGED <<srvVars, nRecv, in_ring, reasm_in, plain_in, dec, upVars, faults, pc>>

\* t3_client_read hands out one whole message, prefix stripped.
Read(L) ==
  /\ pc = "idle" /\ RingUsed(plain_in) > 0
  /\ L \in LengthReadings(plain_in.q[1]) /\ L > 0
  /\ RingUsed(plain_in) >= 1 + L
  /\ L <= HostCap
  /\ got' = got \o SubSeq(plain_in.q, 1, 1 + L)
  /\ rcvd' = Append(rcvd, SubSeq(plain_in.q, 1, 1 + L))
  /\ plain_in' = RingConsume(plain_in, 1 + L)
  /\ UNCHANGED <<srvVars, nRecv, in_ring, reasm_in, dec, upVars, faults, pc>>

\* t3_client_write encrypts a message, frames it, ignores ring_append's
\* result, flushes and returns T3_OK.
Write(L) ==
  /\ pc = "idle"
  /\ enc + 1 + L <= MaxWrites
  /\ enc' = enc + 1 + L
  /\ out_ring' = RingAppend(out_ring, Frame(1 + L, enc + 1))
  /\ Outcome(out_ring, "out", 2 + L, "flush")
  /\ UNCHANGED <<srvVars, downVars, up>>

Server ==
  \/ \E L \in MsgLens : SrvMessage(L)
  \/ \E k \in FrameSizes : SrvFrame(k)
  \/ \E k \in PadSizes : SrvPadding(k)
  \/ \E k \in CtrlSizes : SrvControl(k)

PumpStep ==
  \/ Pump
  \/ \E n \in 1..TlsMax : SslRead(n)
  \/ SslReadEnd
  \/ DeframeEnd
  \/ DeframeError
  \/ DeframeTerminal
  \/ \E k \in FrameSizes \cup PadSizes \cup CtrlSizes : DeframeData(k)
  \/ ExtractEnd
  \/ ExtractSkip
  \/ \E L \in MsgLens : ExtractMessage(L)
  \/ SslWrite
  \/ FlushEnd

Host ==
  \/ \E L \in MsgLens : Read(L)
  \/ \E L \in MsgLens : Write(L)

Next == Server \/ PumpStep \/ Host

Spec == Init /\ [][Next]_vars

(***************************************************************************)
(* Fairness.  The host keeps pumping and reading (t3_client.h asks it to   *)
(* pump on every poll event) and the pump's loops run to their end; TLS    *)
(* eventually returns data that has arrived, however often SSL_read said   *)
(* WANT_READ before.                                                       *)
(***************************************************************************)
Loop ==
  \/ Pump \/ SslReadEnd
  \/ DeframeEnd \/ DeframeError \/ DeframeTerminal
  \/ \E k \in FrameSizes \cup PadSizes \cup CtrlSizes : DeframeData(k)
  \/ ExtractEnd \/ ExtractSkip \/ \E L \in MsgLens : ExtractMessage(L)
  \/ FlushEnd

Fairness ==
  /\ WF_vars(Loop)
  /\ SF_vars(\E n \in 1..TlsMax : SslRead(n))
  /\ SF_vars(\E L \in MsgLens : Read(L))

FairSpec == Spec /\ Fairness

-----------------------------------------------------------------------------
(* Properties *)

Token == [hdr : Nat \cup {-1}, pos : Nat]

TypeOK ==
  /\ text \in Seq(Int) /\ raw \in Seq(Token)
  /\ nSent \in 0..Len(text) /\ nRecv \in 0..Len(raw)
  /\ in_ring \in [head : Nat, q : Seq(Token)]
  /\ reasm_in \in [head : Nat, q : Seq(Nat)]
  /\ plain_in \in [head : Nat, q : Seq(Nat)]
  /\ out_ring \in [head : Nat, q : Seq(Token)]
  /\ dec \in Nat /\ enc \in Nat
  /\ got \in Seq(Nat) /\ up \in Seq(Token)
  /\ sent \in Seq(Seq(Nat)) /\ rcvd \in Seq(Seq(Nat))
  /\ faults \subseteq {"in", "reasm", "out", "ctrl", "pad"}
  /\ pc \in {"idle", "read", "deframe", "extract", "flush", "dead"}

\* The receive path has met only what it is built for: cipher frames, and
\* room in in_ring and in reasm_in (plain_in may have been full).
InSync == faults \cap {"in", "reasm", "ctrl", "pad"} = {}

\* What t3_client_read has returned is the server's plaintext from its first
\* unit on: nothing lost, repeated, reordered or decrypted at the wrong
\* counter, whatever the frame boundaries, the TLS records and the host's
\* pace, a full plain_in included (process_incoming, t3_client_read).
DeliveredInOrder ==
  InSync => got = [i \in 1..Len(got) |-> i]

\* Everything decrypted is in exactly one place: returned, in plain_in or in
\* reasm_in (the two backpressure exits of process_incoming).
Conserved ==
  InSync => got \o plain_in.q \o reasm_in.q = [i \in 1..dec |-> i]

\* Whatever goes wrong - refused appends, padding, control frames - a unit of
\* plaintext is never delivered twice or after a later one: decrypt_ctx only
\* moves forward, so what is decrypted again comes out as Noise.
NeverRepeated ==
  LET units == got \o plain_in.q \o reasm_in.q
  IN  \A i, j \in DOMAIN units :
        i < j /\ units[i] # Noise /\ units[j] # Noise => units[i] < units[j]

\* Between two calls of t3_client_read the host stands at a message boundary:
\* one call, one message (the prefix kept in plain_in).
WholeMessages ==
  InSync /\ Len(got) < Len(text) => text[Len(got) + 1] > 0

\* The payload units on their way to the server are those the host wrote, in
\* order and encrypted at consecutive counters, as long as out_ring had room
\* (t3_client_write, ssl_flush_out).
UpUnits(s) == {i \in DOMAIN s : s[i].hdr = -1}
WrittenInOrder ==
  "out" \notin faults =>
    LET s == up \o out_ring.q
    IN  /\ {s[i].pos : i \in UpUnits(s)} = 1..enc
        /\ \A i, j \in UpUnits(s) : i < j => s[i].pos < s[j].pos

\* The comment of process_incoming: a frame reasm_in has no room for is
\* retried on the next pump, so backpressure never damages the stream.
BackpressureRetries ==
  faults \subseteq {"reasm"} => \A i \in DOMAIN reasm_in.q : reasm_in.q[i] # Noise

\* The comment on RING_CAP sizes a ring to hold its content: the write
\* position stays within the allocation.
RingsInBounds ==
  /\ RingInBounds(in_ring) /\ RingInBounds(reasm_in)
  /\ RingInBounds(plain_in) /\ RingInBounds(out_ring)

\* Every message the server has framed in full reaches the host, whatever the
\* frames and TLS records it was cut into (t3_client_pump and t3_client_read
\* under Fairness), unless a fault or an overrun came first.
SentInFull(n) == n <= nSent /\ (n < Len(text) => text[n + 1] > 0)
EverythingDelivered ==
  \A n \in 1..MaxText :
    SentInFull(n) ~> (~InSync \/ pc = "dead" \/ Len(got) >= n)
=============================================================================
