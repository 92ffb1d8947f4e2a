--------------------------- MODULE MCClientStream ---------------------------
(***************************************************************************)
(* ClientStream as an implementation of MessageChannel.  A message is the  *)
(* sequence of its units' places in the server's plaintext; it is sent     *)
(* when the server has it to send and received when t3_client_read returns *)
(* it.                                                                     *)
(***************************************************************************)
EXTENDS ClientStream

Channel == INSTANCE MessageChannel WITH
  Messages <- {Units(p, L) : p \in 0..MaxText, L \in MsgLens}

\* With room in its rings the client stream implements the FIFO of messages:
\* every step of server, pump and host is a Send, a Recv or invisible, so that
\* each call of t3_client_read returns, unit by unit, the next message the
\* server had to send.
ImplementsChannel == Channel!Spec
=============================================================================
