------------------------------ MODULE MCRouting ------------------------------
(* Up to three zones over every expression of at most two references, one   *)
(* of which may be to a name that is not defined.                           *)
EXTENDS Routing, TLC

CONSTANTS n1, n2, n3, s1, s2

MCNames == {n1, n2, n3}
MCSorted == <<n1, n2, n3>>
MCSources == {s1, s2}

Pairs == {<<x, y>> : x, y \in MCNames}
Expression(op, refs) == [op |-> op, refs |-> refs, sources |-> {}]

MCDefinitions ==
  {[op |-> "include", refs |-> <<>>, sources |-> s] : s \in {{s1}, {s1, s2}}}
  \cup {Expression(op, refs) : op \in {"union", "intersection", "difference"}, refs \in Pairs}
  \cup {Expression("difference", <<x>>) : x \in MCNames}
  \cup {Expression("intersection", <<>>), Expression("malformed", <<>>)}

Route(name, zone, to) == [name |-> name, zone |-> zone, to |-> to]

MCRouteLists ==
  {<<Route("one", n1, <<"t1", "t2">>), Route("two", n2, <<"t3", "t2">>)>>,
   <<Route("one", n3, <<"t3">>), Route("two", n1, <<"t1", "t3">>)>>,
   <<Route("one", n2, <<"t4">>)>>}

MCTargetId == [t \in {"t1", "t2", "t3"} |-> CASE t = "t1" -> 1 [] t = "t2" -> 0 [] t = "t3" -> 2]
=============================================================================
