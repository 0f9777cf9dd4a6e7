----------------------------- MODULE MCSecureLink -----------------------------
(* A client with two addresses.                                             *)
EXTENDS SecureLink, TLC

CONSTANTS a1, a2

AddrSymmetry == Permutations(Addrs)

ThreePings == <<"ping1", "ping2", "ping3">>
=============================================================================
