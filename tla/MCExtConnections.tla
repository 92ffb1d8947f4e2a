-------------------------- MODULE MCExtConnections --------------------------
(* Descriptors of a role are interchangeable.                               *)
EXTENDS ExtConnections, TLC

Interchangeable == Permutations(ClientFd) \union Permutations(MiddleFd)
=============================================================================
