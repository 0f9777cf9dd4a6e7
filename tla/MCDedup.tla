------------------------------- MODULE MCDedup -------------------------------
(* A cache of two entries for three keys.                                   *)
EXTENDS Dedup, TLC

KeySymmetry == Permutations(Keys)
=============================================================================
