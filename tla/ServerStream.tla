---------------------------- MODULE ServerStream ----------------------------
(* The server's end of a Type3 connection over HTTP: the request that opens *)
(* it, the chunked body (or, behind nginx, the bare one), the session       *)
(* header and the obfs2 init in front of the cipher stream, the packets in  *)
(* it, and the answers.  cpu_tcp_server_reader and the parser it calls run  *)
(* to their end, then the writer; what the network delivers in between is   *)
(* cut anywhere.  The unit is a four-byte word, numbered by its place p in  *)
(* the client's stream: 1 is the session header, 2 .. Pre the obfs2 init,   *)
(* and Pre + i was encrypted at place i of the keystream.                   *)
EXTENDS Integers, Sequences

CONSTANTS InitUnits,   \* units of the obfs2 init
          MinUnits,    \* units the parser needs before it looks at any
          ReqLen,      \* tokens of the request, the last one ends it
          MaxHead,     \* tokens of a request the server accepts
          MaxChunk,    \* units of the longest chunk the server accepts
          ReadSizes,   \* bound: how many tokens may arrive together
          MsgLens,     \* lengths of the client's messages, without the prefix
          ChunkSizes,  \* sizes of the client's chunks
          MaxText,     \* bound: units the client sends after the init
          MaxReplies   \* bound: units the server sends

ASSUME ServerStreamAssumption ==
    /\ {InitUnits, MinUnits, ReqLen} \subseteq Nat \ {0} /\ MinUnits <= InitUnits
    /\ {MaxHead, MaxChunk, MaxText, MaxReplies} \subseteq Nat
    /\ \A L \in MsgLens : L \in Nat \ {0} /\ 1 + L >= MinUnits
    /\ ChunkSizes \subseteq Nat /\ ReadSizes \subseteq Nat /\ {0, 1} \subseteq ReadSizes

Pre == 1 + InitUnits   \* T3_PRECRYPTO_BYTES

VARIABLES mode, text, cut, wire, nRecv,      \* the client and the network
          in, in_u, transport, remaining, header_state, crypto, dec, skip,
          pc, next,                          \* where the job is
          out, out_p, sent, replies,         \* the way back
          got                                \* units of the packets executed
client == <<mode, text, cut, wire>>
framing == <<remaining, header_state>>
back == <<out, out_p, sent, replies>>
streamVars == <<mode, text, cut, wire, nRecv, in, in_u, transport, remaining, header_state, crypto,
                dec, skip, pc, next, out, out_p, sent, replies, got>>

Noise == 0   \* a unit decrypted at a place that is not its own

\* Tokens of the wire
Part == [t |-> "part", n |-> 0]     \* of the request
Blank == [t |-> "blank", n |-> 0]   \* the empty line after it
Size(k) == [t |-> "size", n |-> k]
Eol == [t |-> "eol", n |-> 0]       \* of a chunk header, or half of CRLF
Data(p) == [t |-> "data", n |-> p]
Chunk(k, p) == <<Size(k), Eol>> \o [i \in 1 .. k |-> Data(p + i)] \o <<Eol, Eol>>

StreamInit ==
    /\ mode \in {"CHUNKED", "RAW"} /\ text = <<>> /\ cut = 0 /\ nRecv = 0
    /\ wire = [i \in 1 .. ReqLen |-> IF i = ReqLen THEN Blank ELSE Part]
    /\ in = <<>> /\ in_u = <<>> /\ transport = "NONE"
    /\ remaining = 0 /\ header_state = 0
    /\ crypto = FALSE /\ dec = 0 /\ skip = 0
    /\ pc = "idle" /\ next = "gate"
    /\ out = <<>> /\ out_p = <<>> /\ sent = <<>> /\ replies = 0 /\ got = <<>>

-----------------------------------------------------------------------------
(* The client *)

ClientMessage(L) ==
    /\ Len(text) + 1 + L <= MaxText
    /\ text' = text \o <<L>> \o [i \in 1 .. L |-> 0]
    /\ UNCHANGED <<mode, cut, wire, nRecv, in, in_u, transport, framing, crypto, dec, skip,
                   pc, next, back, got>>

\* the next k units of its stream, in a chunk of their own if it sends chunks
ClientChunk(k) ==
    /\ cut + k <= Pre + Len(text)
    /\ Blank \in {wire[i] : i \in DOMAIN wire} /\ Size(0) \notin {wire[i] : i \in DOMAIN wire}
    /\ cut' = cut + k
    /\ wire' = wire \o (IF mode = "CHUNKED" THEN Chunk(k, cut)
                        ELSE [i \in 1 .. k |-> Data(cut + i)])
    /\ UNCHANGED <<mode, text, nRecv, in, in_u, transport, framing, crypto, dec, skip,
                   pc, next, back, got>>

-----------------------------------------------------------------------------
(* The reader: net-tcp-connections.c *)

Reader == UNCHANGED <<client, nRecv, transport, skip, back, got>>

\* cpu_tcp_server_reader: n more tokens have come, or the job was woken without
Arrive(n) ==
    /\ pc = "idle" /\ nRecv + n <= Len(wire)
    /\ LET new == SubSeq(wire, nRecv + 1, nRecv + n) IN
       IF crypto \/ transport = "CHUNKED"
       THEN in_u' = in_u \o new /\ UNCHANGED in
       ELSE in' = in \o (IF transport = "NONE" THEN new ELSE [i \in 1 .. n |-> new[i].n])
            /\ UNCHANGED in_u
    /\ nRecv' = nRecv + n
    /\ pc' = IF crypto THEN "decrypt" ELSE IF transport = "CHUNKED" THEN "unwrap" ELSE "gate"
    /\ next' = "gate"
    /\ UNCHANGED <<client, transport, framing, crypto, dec, skip, back, got>>

\* http_stream_unwrap_precrypto stops at the init's last byte, so that the rest
\* is left to the decryption; the latter takes everything
More == /\ in_u # <<>> /\ transport = "CHUNKED"
        /\ pc = "decrypt" \/ (pc = "unwrap" /\ Len(in) < Pre)

SkipCrlf ==
    /\ More /\ remaining = 0 /\ header_state = 2 /\ Len(in_u) >= 2
    /\ in_u' = SubSeq(in_u, 3, Len(in_u)) /\ header_state' = 0
    /\ Reader /\ UNCHANGED <<in, remaining, crypto, dec, pc, next>>

\* http_stream_chunk_header_parse
ParseSize ==
    /\ More /\ remaining = 0 /\ header_state = 0 /\ Len(in_u) >= 2
    /\ IF in_u[1].n \in 1 .. MaxChunk
       THEN /\ in_u' = SubSeq(in_u, 3, Len(in_u))
            /\ remaining' = in_u[1].n /\ header_state' = 1 /\ UNCHANGED pc
       ELSE pc' = "last" /\ UNCHANGED <<in_u, framing>>
    /\ Reader /\ UNCHANGED <<in, crypto, dec, next>>

\* the units of S at the places of the keystream after dec
Decrypted(S) == [i \in DOMAIN S |-> IF S[i].n = Pre + dec + i THEN S[i].n ELSE Noise]

Least(S) == CHOOSE n \in S : \A m \in S : n <= m

\* Faulty variant: the chunk is taken whole, past the end of the init.
TakeDataWhole ==
    /\ More /\ remaining > 0
    /\ LET n == Least({Len(in_u), remaining})
           S == SubSeq(in_u, 1, n)
       IN /\ in' = in \o (IF pc = "decrypt" THEN Decrypted(S) ELSE [i \in 1 .. n |-> S[i].n])
          /\ dec' = IF pc = "decrypt" THEN dec + n ELSE dec
          /\ in_u' = SubSeq(in_u, n + 1, Len(in_u))
          /\ remaining' = remaining - n
          /\ header_state' = IF remaining = n THEN 2 ELSE header_state
    /\ Reader /\ UNCHANGED <<crypto, pc, next>>

TakeData ==
    /\ More /\ remaining > 0
    /\ LET n == Least({Len(in_u), remaining} \union (IF pc = "unwrap" THEN {Pre - Len(in)} ELSE {}))
           S == SubSeq(in_u, 1, n)
       IN /\ in' = in \o (IF pc = "decrypt" THEN Decrypted(S) ELSE [i \in 1 .. n |-> S[i].n])
          /\ dec' = IF pc = "decrypt" THEN dec + n ELSE dec
          /\ in_u' = SubSeq(in_u, n + 1, Len(in_u))
          /\ remaining' = remaining - n
          /\ header_state' = IF remaining = n THEN 2 ELSE header_state
    /\ Reader /\ UNCHANGED <<crypto, pc, next>>

\* a header or a CRLF that is not all there waits for more
LoopEnd ==
    /\ pc \in {"unwrap", "decrypt"} /\ transport = "CHUNKED"
    /\ ~More \/ (remaining = 0 /\ Len(in_u) < 2)
    /\ pc' = next
    /\ Reader /\ UNCHANGED <<in, in_u, framing, crypto, dec, next>>

\* cpu_tcp_aes_crypto_ctr128_decrypt_input without framing
DecryptRaw ==
    /\ pc = "decrypt" /\ transport = "RAW"
    /\ in' = in \o Decrypted(in_u) /\ dec' = dec + Len(in_u) /\ in_u' = <<>>
    /\ pc' = next
    /\ Reader /\ UNCHANGED <<framing, crypto, next>>

\* the parser runs when what it asked for is there, and as long as it has input
Gate ==
    /\ pc = "gate"
    /\ IF Len(in) >= skip THEN pc' = "parse" /\ skip' = 0 ELSE pc' = "write" /\ UNCHANGED skip
    /\ UNCHANGED <<client, nRecv, in, in_u, transport, framing, crypto, dec, next, back, got>>

-----------------------------------------------------------------------------
(* tcp_rpcs_compact_parse_execute *)

Parse == pc = "parse" /\ in # <<>>

ParseEnd ==
    /\ pc = "parse" /\ in = <<>>
    /\ pc' = "write"
    /\ UNCHANGED <<client, nRecv, in, in_u, transport, framing, crypto, dec, skip, next, back, got>>

\* the request is not all there
ProbeWaits ==
    /\ Parse /\ transport = "NONE" /\ Blank \notin {in[i] : i \in DOMAIN in}
    /\ pc' = IF Len(in) >= MaxHead THEN "last" ELSE "write"
    /\ UNCHANGED <<client, nRecv, in, in_u, transport, framing, crypto, dec, skip, next, back, got>>

\* the request is answered and taken; chunks behind it are unwrapped at once
Probe ==
    /\ Parse /\ transport = "NONE" /\ Blank \in {in[i] : i \in DOMAIN in}
    /\ LET rest == SubSeq(in, ReqLen + 1, Len(in)) IN
       IF mode = "CHUNKED"
       THEN in_u' = rest /\ in' = <<>> /\ pc' = "unwrap"
       ELSE in' = [i \in DOMAIN rest |-> rest[i].n] /\ pc' = "parse" /\ UNCHANGED in_u
    /\ transport' = mode /\ next' = "parse"
    /\ out' = Append(out, "response")
    /\ UNCHANGED <<client, nRecv, framing, crypto, dec, skip, out_p, sent, replies, got>>

\* the dispatch hook takes the session header; on any other word it runs because
\* the init was not there with it, and Type3Dispatch has what follows
HookAgain ==
    /\ Parse /\ transport # "NONE" /\ ~crypto /\ in[1] # 1
    /\ pc' = "lost"
    /\ UNCHANGED <<client, nRecv, in, in_u, transport, framing, crypto, dec, skip, next, back, got>>

HeaderOnly ==
    /\ Parse /\ transport # "NONE" /\ ~crypto /\ in[1] = 1 /\ Len(in) < Pre
    /\ in' = Tail(in)
    /\ skip' = CASE in' = <<>> -> 0
                 [] Len(in') \in 1 .. MinUnits - 1 -> MinUnits - Len(in') + Len(in_u)
                 [] OTHER -> InitUnits - Len(in') + Len(in_u)
    /\ pc' = "write"
    /\ UNCHANGED <<client, nRecv, in_u, transport, framing, crypto, dec, next, back, got>>

\* Faulty variant: what is in out stays there and will be encrypted.
StartCryptoKeeps ==
    /\ Parse /\ transport # "NONE" /\ ~crypto /\ in[1] = 1 /\ Len(in) >= Pre
    /\ in_u' = in_u \o [i \in 1 .. Len(in) - Pre |-> Data(in[Pre + i])] /\ in' = <<>>
    /\ crypto' = TRUE /\ pc' = "decrypt" /\ next' = "parse"
    /\ UNCHANGED <<client, nRecv, transport, framing, dec, skip, back, got>>

\* header and init: the keys are set, what is behind goes to the decryption, and
\* what was written in clear is put where the writer does not encrypt it
StartCrypto ==
    /\ Parse /\ transport # "NONE" /\ ~crypto /\ in[1] = 1 /\ Len(in) >= Pre
    /\ in_u' = in_u \o [i \in 1 .. Len(in) - Pre |-> Data(in[Pre + i])] /\ in' = <<>>
    /\ crypto' = TRUE /\ pc' = "decrypt" /\ next' = "parse"
    /\ out_p' = out_p \o [i \in DOMAIN out |-> <<"clear", out[i]>>] /\ out' = <<>>
    /\ UNCHANGED <<client, nRecv, transport, framing, dec, skip, sent, replies, got>>

\* the length a unit announces as the first one of a packet
Length(p) == IF p > Pre THEN text[p - Pre] ELSE 0

\* how much has to be there before the parser goes on
Wanted == IF Len(in) < MinUnits THEN MinUnits ELSE 1 + Length(in[1])

\* Faulty variant: the prefix is counted twice.
PacketWaitsLong ==
    /\ Parse /\ crypto /\ Len(in) < Wanted
    /\ skip' = Wanted + 1
    /\ pc' = "write"
    /\ UNCHANGED <<client, nRecv, in, in_u, transport, framing, crypto, dec, next, back, got>>

\* as many units as are missing, and the reader adds those that are there
PacketWaits ==
    /\ Parse /\ crypto /\ Len(in) < Wanted
    /\ skip' = (Wanted - Len(in)) + Len(in)
    /\ pc' = "write"
    /\ UNCHANGED <<client, nRecv, in, in_u, transport, framing, crypto, dec, next, back, got>>

Packet ==
    /\ Parse /\ crypto /\ Len(in) >= Wanted
    /\ got' = got \o SubSeq(in, 1, Wanted) /\ in' = SubSeq(in, Wanted + 1, Len(in))
    /\ UNCHANGED <<client, nRecv, in_u, transport, framing, crypto, dec, skip, pc, next, back>>

-----------------------------------------------------------------------------
(* The way back *)

\* the job is woken with a packet to send
Reply ==
    /\ pc = "idle" /\ crypto /\ replies < MaxReplies
    /\ replies' = replies + 1 /\ out' = Append(out, replies')
    /\ pc' = "write"
    /\ UNCHANGED <<client, nRecv, in, in_u, transport, framing, crypto, dec, skip, next,
                   out_p, sent, got>>

\* cpu_tcp_server_writer, which runs after a reader that failed, too
Write ==
    /\ pc \in {"write", "last"}
    /\ IF crypto
       THEN sent' = sent \o out_p \o [i \in DOMAIN out |-> <<"cipher", out[i]>>]
       ELSE sent' = sent \o [i \in DOMAIN out |-> <<"clear", out[i]>>]
    /\ out' = <<>> /\ out_p' = IF crypto THEN <<>> ELSE out_p
    /\ pc' = IF pc = "last" THEN "failed" ELSE "idle"
    /\ UNCHANGED <<client, nRecv, in, in_u, transport, framing, crypto, dec, skip, next,
                   replies, got>>

-----------------------------------------------------------------------------
Client == (\E L \in MsgLens : ClientMessage(L)) \/ (\E k \in ChunkSizes : ClientChunk(k))

Job == \/ SkipCrlf \/ ParseSize \/ TakeData \/ LoopEnd \/ DecryptRaw \/ Gate
       \/ ParseEnd \/ ProbeWaits \/ Probe \/ HookAgain \/ HeaderOnly \/ StartCrypto
       \/ PacketWaits \/ Packet \/ Write

StreamNext == Client \/ Job \/ Reply \/ \E n \in ReadSizes : Arrive(n)

StreamSpec == StreamInit /\ [][StreamNext]_streamVars

\* the job runs, and is woken for what the network has; no client has to send
FairStreamSpec == /\ StreamSpec
                  /\ WF_streamVars(Job)
                  /\ SF_streamVars(\E n \in ReadSizes \ {0} : Arrive(n))

-----------------------------------------------------------------------------
(* Properties *)

StreamTypeOK ==
    /\ transport \in {"NONE", mode} /\ header_state \in 0 .. 2
    /\ remaining \in 0 .. MaxChunk /\ dec \in 0 .. MaxText /\ skip \in Nat
    /\ crypto \in BOOLEAN /\ nRecv \in 0 .. Len(wire) /\ cut \in 0 .. Pre + MaxText
    /\ pc \in {"idle", "unwrap", "decrypt", "gate", "parse", "write", "last", "lost", "failed"}

(* What the server executes, and has ready to execute, is the client's      *)
(* stream from its first unit on, each decrypted at its own place, and in   *)
(* whole messages, however chunks, reads and messages are cut and whatever  *)
(* came along with the init: the hand-over of the unframed bytes from the   *)
(* reader to the decryption loses and reorders nothing.                     *)
ReceivedInOrder ==
    /\ StreamTypeOK
    /\ crypto => got \o in = [i \in 1 .. dec |-> Pre + i]
    /\ got # <<>> => Len(got) = Len(text) \/ text[Len(got) + 1] > 0

(* The answer to the request leaves first and in clear even when the keys   *)
(* are set before the writer has run, and all that follows leaves encrypted *)
(* and in order.                                                            *)
HeadInClear ==
    \A i \in DOMAIN sent : sent[i] = IF i = 1 THEN <<"clear", "response">> ELSE <<"cipher", i - 1>>

(* A message whose last unit is on the wire is executed, unless the         *)
(* connection is given up: no waiting count is larger than what comes.      *)
AllReceived == \A i \in 1 .. MaxText :
    (cut >= Pre + i /\ (i = Len(text) \/ (i < Len(text) /\ text[i + 1] > 0)))
        ~> (Len(got) >= i \/ pc \in {"lost", "failed"})
=============================================================================
