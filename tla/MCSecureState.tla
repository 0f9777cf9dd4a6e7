---------------------------- MODULE MCSecureState ----------------------------
(* Three peers and a table for two of them, so that every set overflows.    *)
EXTENDS SecureState

CONSTANTS a1, a2, a3, h1, h2, h3

\* One handshake with a later timestamp than the others.
Stamps == [h \in Hellos |-> IF h = h3 THEN 3 ELSE 1]

Symmetry == Permutations(Addrs) \cup Permutations({h1, h2}) \cup Permutations(Sentences)
=============================================================================
