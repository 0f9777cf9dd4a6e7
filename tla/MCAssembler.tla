----------------------------- MODULE MCAssembler -----------------------------
(* A small assembler: two keys of two fragments, one of three, one single   *)
(* message and one that declares more fragments than allowed.               *)
EXTENDS Assembler, TLC

MCKeys == 1 .. 5
MCTotal ==
  [k \in MCKeys |-> CASE k = 4 -> 1 [] k = 5 -> 4 [] k = 3 -> 3 [] OTHER -> 2]

TextSymmetry == Permutations(Texts)
=============================================================================
