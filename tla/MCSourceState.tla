---------------------------- MODULE MCSourceState ----------------------------
(* Four sources, of which two fit.                                          *)
EXTENDS SourceState, TLC

NameSymmetry == Permutations(Names)
=============================================================================
