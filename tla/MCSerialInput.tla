---------------------------- MODULE MCSerialInput ----------------------------
(* A queue of two lines of one byte each, over two openings of the port.     *)
EXTENDS SerialInput
=============================================================================
