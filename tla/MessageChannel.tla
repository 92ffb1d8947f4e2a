--------------------------- MODULE MessageChannel ---------------------------
(***************************************************************************)
(* What the receive path of a client stream promises its host: a FIFO of   *)
(* whole messages.  The host receives the messages the server sent, each   *)
(* once, in order, with their boundaries.                                  *)
(***************************************************************************)
EXTENDS Naturals, Sequences

CONSTANT Messages

VARIABLES sent, rcvd

vars == <<sent, rcvd>>

Init == sent = <<>> /\ rcvd = <<>>

Send(m) ==
  /\ sent' = Append(sent, m)
  /\ UNCHANGED rcvd

Recv ==
  /\ Len(rcvd) < Len(sent)
  /\ rcvd' = Append(rcvd, sent[Len(rcvd) + 1])
  /\ UNCHANGED sent

Next == (\E m \in Messages : Send(m)) \/ Recv

Spec == Init /\ [][Next]_vars
=============================================================================
