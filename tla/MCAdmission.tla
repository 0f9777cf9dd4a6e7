----------------------------- MODULE MCAdmission -----------------------------
(* Five readers before a queue of two.                                      *)
EXTENDS Admission
=============================================================================
