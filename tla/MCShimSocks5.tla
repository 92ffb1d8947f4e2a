---------------------------- MODULE MCShimSocks5 ----------------------------
(* ShimSocks5 with interchangeable client connections. *)
EXTENDS ShimSocks5, TLC

Symmetry == Permutations(Tunnels)
=============================================================================
