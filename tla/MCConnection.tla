---------------------------- MODULE MCConnection ----------------------------
(* Connection with interchangeable descriptors. *)
EXTENDS Connection, TLC

FdSymmetry == Permutations(Fd)
=============================================================================
