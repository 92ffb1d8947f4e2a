-------------------------- MODULE ClientHandshake --------------------------
(***************************************************************************)
(* t3_client_pump before READY, lib/src/t3_client_stream.c: TCP connect,   *)
(* TLS handshake, then the HTTP POST or the WebSocket upgrade and the      *)
(* 64-byte obfs2 init.  The calls run to completion; pc orders the parts   *)
(* of one pump and only the network interleaves with them.                 *)
(*                                                                         *)
(* The server's answer is a stream of units, numbered from 1: head units   *)
(* of its response head and then the body.  The first unit is at most 3    *)
(* bytes, the second completes what the head is recognised by ("HTTP", or  *)
(* "HTTP/1.1 101"), and the last head unit is the empty line.              *)
(***************************************************************************)
EXTENDS Integers, Sequences, SequencesExt

CONSTANTS HeadLens,   \* lengths of the response heads; 0: the body comes at once
          MaxHead,    \* the 8192 (HTTP) or 4096 (WS) bytes a head may have
          MaxBody     \* bound: body units the server sends

ASSUME HandshakeAssumption ==
  /\ HeadLens \subseteq Nat \ {1} /\ MaxHead \in Nat /\ MaxBody \in Nat

VARIABLES
  mode,              \* s->mode: "HTTP" or "WS"
  state,             \* s->state
  upgrade_sent, upgrade_done, headers_sent, response_done, obfs2_sent,
  out_ring, sent,    \* requests queued, and given to TLS
  recv, consumed,    \* units SSL_read returned, and units taken out of in_ring
  res,               \* what the last pump returned
  pc,                \* where the running pump is
  net,               \* TCP: "connecting", "up" or "refused"
  tls,               \* "going", "up" or "failed"
  head, switching,   \* the server's head, and whether it is a 101
  srvSent, closed    \* units the server has sent; it has closed

clientVars == <<upgrade_sent, upgrade_done, headers_sent, response_done, obfs2_sent>>
netVars    == <<mode, net, tls, head, switching, srvSent, closed>>
vars == <<state, clientVars, out_ring, sent, recv, consumed, res, pc, netVars>>

\* t3_client_create has succeeded.
Init ==
  /\ state = "CONNECTING"
  /\ upgrade_sent = FALSE /\ upgrade_done = FALSE
  /\ headers_sent = FALSE /\ response_done = FALSE /\ obfs2_sent = FALSE
  /\ out_ring = <<>> /\ sent = <<>> /\ recv = 0 /\ consumed = 0
  /\ res = "OK" /\ pc = "idle"
  /\ net = "connecting" /\ tls = "going"
  /\ mode \in {"HTTP", "WS"} /\ switching \in BOOLEAN
  /\ head \in HeadLens /\ (mode = "WS" => head # 0)
  /\ srvSent = 0 /\ closed = FALSE

-----------------------------------------------------------------------------
(* The network and the server *)

Connected(outcome) ==
  /\ net = "connecting" /\ net' = outcome
  /\ UNCHANGED <<state, clientVars, out_ring, sent, recv, consumed, res, pc, tls, head, mode,
                 switching, srvSent, closed>>

TlsDone(outcome) ==
  /\ net = "up" /\ tls = "going" /\ ~closed /\ tls' = outcome
  /\ UNCHANGED <<state, clientVars, out_ring, sent, recv, consumed, res, pc, net, head, mode,
                 switching, srvSent, closed>>

\* The head answers the request, the body answers the init.
ServerSend ==
  /\ ~closed /\ srvSent < head + MaxBody
  /\ IF srvSent < head THEN Len(sent) >= 1 ELSE Contains(sent, "init")
  /\ srvSent' = srvSent + 1
  /\ UNCHANGED <<state, clientVars, out_ring, sent, recv, consumed, res, pc, net, tls, head, mode,
                 switching, closed>>

ServerClose ==
  /\ tls = "up" /\ ~closed /\ closed' = TRUE
  /\ UNCHANGED <<state, clientVars, out_ring, sent, recv, consumed, res, pc, net, tls, head, mode,
                 switching, srvSent>>

-----------------------------------------------------------------------------
(* t3_client_pump *)

Return(r) == res' = r /\ pc' = "idle"
Fails == state' = "ERROR" /\ Return("INTERNAL")

\* ssl_flush_out: TLS takes some of the queue.
FlushOut(queue) ==
  \E n \in 0..Len(queue) :
    /\ sent' = sent \o SubSeq(queue, 1, n)
    /\ out_ring' = SubSeq(queue, n + 1, Len(queue))

\* ssl_read_in: whatever has arrived, or part of it; a close is not reported.
ReadIn == recv' \in recv..srvSent

Pump ==
  /\ pc = "idle"
  /\ IF state = "ERROR"
       THEN res' = "INTERNAL" /\ UNCHANGED pc
       ELSE pc' = state /\ UNCHANGED res
  /\ UNCHANGED <<state, clientVars, out_ring, sent, recv, consumed, netVars>>

PumpConnecting ==
  /\ pc = "CONNECTING"
  /\ \/ net = "connecting" /\ Return("BUF_TOO_SMALL") /\ UNCHANGED state
     \/ net = "refused" /\ Fails
     \/ net = "up" /\ state' = "TLS" /\ pc' = "TLS" /\ UNCHANGED res
  /\ UNCHANGED <<clientVars, out_ring, sent, recv, consumed, netVars>>

PumpTls ==
  /\ pc = "TLS"
  /\ \/ tls = "going" /\ Return("BUF_TOO_SMALL") /\ UNCHANGED state
     \/ tls = "failed" /\ Fails
     \/ tls = "up" /\ state' = "HANDSHAKE" /\ pc' = "HANDSHAKE" /\ UNCHANGED res
  /\ UNCHANGED <<clientVars, out_ring, sent, recv, consumed, netVars>>

Avail == recv - consumed

\* Faulty variant: wants a byte after the empty line.
UpgradeResultLate ==
  IF Avail < 2 \/ (Avail <= head /\ Avail <= MaxHead) THEN "BUF_TOO_SMALL"
  ELSE IF Avail < head \/ ~switching THEN "INTERNAL" ELSE "OK"

\* handle_ws_upgrade, while its answer is not 0: the request on the first
\* call, then more input is needed, the head is too long, or it is no 101.
UpgradeResult ==
  IF Avail < 2 \/ (Avail < head /\ Avail <= MaxHead) THEN "BUF_TOO_SMALL"
  ELSE IF Avail < head \/ ~switching THEN "INTERNAL" ELSE "OK"

PumpUpgradeWait ==
  /\ pc = "HANDSHAKE" /\ mode = "WS" /\ ~upgrade_done
  /\ \/ /\ ~upgrade_sent /\ upgrade_sent' = TRUE
        /\ FlushOut(Append(out_ring, "upgrade")) /\ Return("BUF_TOO_SMALL")
     \/ /\ ~upgrade_sent /\ UNCHANGED upgrade_sent   \* the request exceeds its buffer
        /\ FlushOut(out_ring) /\ Return("INTERNAL")
     \/ /\ upgrade_sent /\ UpgradeResult # "OK" /\ UNCHANGED upgrade_sent
        /\ FlushOut(out_ring) /\ Return(UpgradeResult)
  /\ ReadIn
  /\ UNCHANGED <<state, upgrade_done, headers_sent, response_done, obfs2_sent, consumed, netVars>>

\* Faulty variant: the head is left in in_ring.
PumpUpgradedKeepsHead ==
  /\ pc = "HANDSHAKE" /\ mode = "WS" /\ ~upgrade_done
  /\ upgrade_sent /\ UpgradeResult = "OK"
  /\ upgrade_done' = TRUE /\ pc' = "init"
  /\ UNCHANGED <<state, upgrade_sent, headers_sent, response_done, obfs2_sent, out_ring, sent,
                 recv, consumed, res, netVars>>

\* Faulty variant: takes the byte after the head too.
PumpUpgradedTakesBody ==
  /\ pc = "HANDSHAKE" /\ mode = "WS" /\ ~upgrade_done
  /\ upgrade_sent /\ UpgradeResult = "OK"
  /\ consumed' = consumed + head + 1
  /\ upgrade_done' = TRUE /\ pc' = "init"
  /\ UNCHANGED <<state, upgrade_sent, headers_sent, response_done, obfs2_sent, out_ring, sent,
                 recv, res, netVars>>

PumpUpgraded ==
  /\ pc = "HANDSHAKE" /\ mode = "WS" /\ ~upgrade_done
  /\ upgrade_sent /\ UpgradeResult = "OK"
  /\ consumed' = consumed + head
  /\ upgrade_done' = TRUE /\ pc' = "init"
  /\ UNCHANGED <<state, upgrade_sent, headers_sent, response_done, obfs2_sent, out_ring, sent,
                 recv, res, netVars>>

\* Faulty variant: headers_sent is not recorded.
PumpHeadersAgain ==
  /\ pc = "HANDSHAKE" /\ mode = "HTTP"
  /\ out_ring' = Append(out_ring, "post") /\ Len(sent) < 4
  /\ pc' = "init"
  /\ UNCHANGED <<state, clientVars, sent, recv, consumed, res, netVars>>

\* send_http_post_headers, once; in WS mode the upgrade is already done.
PumpHeaders ==
  /\ pc = "HANDSHAKE" /\ (mode = "HTTP" \/ upgrade_done)
  /\ IF mode = "HTTP" /\ ~headers_sent
       THEN out_ring' = Append(out_ring, "post") /\ headers_sent' = TRUE
       ELSE UNCHANGED <<out_ring, headers_sent>>
  /\ pc' = "init"
  /\ UNCHANGED <<state, upgrade_sent, upgrade_done, response_done, obfs2_sent, sent, recv,
                 consumed, res, netVars>>

\* send_obfs2_init, once, and the flush.
PumpInit ==
  /\ pc = "init"
  /\ \/ /\ ~obfs2_sent /\ obfs2_sent' = TRUE
        /\ FlushOut(Append(out_ring, "init")) /\ pc' = "response" /\ UNCHANGED <<state, res>>
     \/ ~obfs2_sent /\ Fails /\ UNCHANGED <<obfs2_sent, out_ring, sent>>
     \/ /\ obfs2_sent /\ UNCHANGED obfs2_sent
        /\ FlushOut(out_ring) /\ pc' = "response" /\ UNCHANGED <<state, res>>
  /\ UNCHANGED <<upgrade_sent, upgrade_done, headers_sent, response_done, recv, consumed, netVars>>

\* Faulty variant: waits for a byte after the head.
PumpResponseLate ==
  /\ pc = "response" /\ mode = "HTTP" /\ ~response_done
  /\ FlushOut(out_ring) /\ ReadIn
  /\ LET avail == recv' - consumed
         http  == avail >= 2 /\ head >= 2
     IN  \/ /\ avail = 0 \/ (http /\ avail <= head /\ avail <= MaxHead)
            /\ Return("BUF_TOO_SMALL") /\ UNCHANGED <<state, response_done, consumed>>
         \/ /\ http /\ avail <= head /\ avail > MaxHead
            /\ Fails /\ UNCHANGED <<response_done, consumed>>
         \/ /\ avail > 0 /\ (http => avail > head)
            /\ consumed' = IF http THEN consumed + head ELSE consumed
            /\ response_done' = TRUE /\ state' = "READY" /\ pc' = "READY" /\ UNCHANGED res
  /\ UNCHANGED <<upgrade_sent, upgrade_done, headers_sent, obfs2_sent, netVars>>

\* HTTP: read the response head.  What does not begin with the four bytes
\* "HTTP" - fewer than four bytes included - is taken for the body.
PumpResponse ==
  /\ pc = "response" /\ mode = "HTTP" /\ ~response_done
  /\ FlushOut(out_ring) /\ ReadIn
  /\ LET avail == recv' - consumed
         http  == avail >= 2 /\ head >= 2
     IN  \/ /\ avail = 0 \/ (http /\ avail < head /\ avail <= MaxHead)
            /\ Return("BUF_TOO_SMALL") /\ UNCHANGED <<state, response_done, consumed>>
         \/ /\ http /\ avail < head /\ avail > MaxHead
            /\ Fails /\ UNCHANGED <<response_done, consumed>>
         \/ /\ avail > 0 /\ (http => avail >= head)
            /\ consumed' = IF http THEN consumed + head ELSE consumed
            /\ response_done' = TRUE /\ state' = "READY" /\ pc' = "READY" /\ UNCHANGED res
  /\ UNCHANGED <<upgrade_sent, upgrade_done, headers_sent, obfs2_sent, netVars>>

PumpNoResponse ==
  /\ pc = "response" /\ (mode = "WS" \/ response_done)
  /\ state' = "READY" /\ pc' = "READY"
  /\ UNCHANGED <<clientVars, out_ring, sent, recv, consumed, res, netVars>>

\* READY: ssl_read_in, process_incoming (module ClientStream) and
\* ssl_flush_out; what they return is ignored.
PumpReady ==
  /\ pc = "READY"
  /\ FlushOut(out_ring) /\ ReadIn
  /\ Return("OK")
  /\ UNCHANGED <<state, clientVars, consumed, netVars>>

Network ==
  \/ \E outcome \in {"up", "refused"} : Connected(outcome)
  \/ \E outcome \in {"up", "failed"} : TlsDone(outcome)
  \/ ServerSend \/ ServerClose

PumpStep ==
  \/ Pump \/ PumpConnecting \/ PumpTls \/ PumpUpgradeWait \/ PumpUpgraded \/ PumpHeaders
  \/ PumpInit \/ PumpResponse \/ PumpNoResponse \/ PumpReady

Next == Network \/ PumpStep

Spec == Init /\ [][Next]_vars

\* The host keeps pumping (t3_client.h: "keep polling"), TLS eventually takes
\* what is queued and returns what has arrived.
Fairness ==
  /\ WF_vars(PumpStep)
  /\ SF_vars(PumpStep /\ (out_ring # <<>> => Len(sent') > Len(sent)))
  /\ SF_vars(PumpStep /\ recv' > recv)

FairSpec == Spec /\ Fairness

-----------------------------------------------------------------------------
(* Properties *)

TypeOK ==
  /\ mode \in {"HTTP", "WS"}
  /\ state \in {"CONNECTING", "TLS", "HANDSHAKE", "READY", "ERROR"}
  /\ {upgrade_sent, upgrade_done, headers_sent, response_done, obfs2_sent} \subseteq BOOLEAN
  /\ {out_ring, sent} \subseteq Seq({"post", "upgrade", "init"})
  /\ recv \in 0..srvSent /\ consumed \in 0..recv
  /\ res \in {"OK", "BUF_TOO_SMALL", "INTERNAL"}
  /\ pc \in {"idle", "CONNECTING", "TLS", "HANDSHAKE", "init", "response", "READY"}
  /\ net \in {"connecting", "up", "refused"} /\ tls \in {"going", "up", "failed"}
  /\ head \in HeadLens /\ srvSent \in 0..(head + MaxBody)
  /\ {switching, closed} \subseteq BOOLEAN

\* However often the pump is re-entered with its output half flushed, the
\* request and the obfs2 init go out exactly once, the request first; and in
\* WS mode the init waits for the 101 (the *_sent and *_done flags).
OpeningOrder ==
  LET queued == sent \o out_ring
  IN  /\ TypeOK
      /\ IsPrefix(queued, <<IF mode = "WS" THEN "upgrade" ELSE "post", "init">>)
      /\ mode = "WS" /\ Contains(queued, "init") => switching /\ consumed = head
      /\ state = "READY" => Len(queued) = 2

\* The handshake takes the head out of in_ring whole, however it was cut into
\* TLS records, and nothing of the body with it; a head of which the first
\* read brought fewer than four bytes is, in HTTP mode, left there whole.
HeadTakenWhole ==
  state = "READY" => consumed = head \/ (mode = "HTTP" /\ consumed = 0)

\* When the stream is READY the next unit process_incoming will deframe is the
\* first of the body, however the head was cut into TLS records (the comment in
\* t3_client_pump: only what does not begin with HTTP is a body).
BodyAtHead == state = "READY" => consumed = head

\* A complete, acceptable answer makes the stream READY, in whatever pieces it
\* came.
Acceptable == head <= MaxHead /\ (mode = "WS" => switching)
ReadyReached ==
  (srvSent >= head /\ srvSent > 0 /\ Acceptable) ~> state \in {"READY", "ERROR"}
=============================================================================
