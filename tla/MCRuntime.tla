------------------------------ MODULE MCRuntime ------------------------------
(* Two inputs, a queue of one, and three targets of which two share a        *)
(* transport.                                                                *)
EXTENDS RuntimeStatistics

CONSTANTS t1, t2, t3

\* A frame that emits nothing, and one that emits for all targets.
SomeBatches == {<<>>, <<t1, t2, t3>>}

SomeEndpoints == [t \in {t1, t2, t3} |-> IF t = t3 THEN t1 ELSE t]
=============================================================================
