------------------------------- MODULE Routing -------------------------------
(***************************************************************************)
(* The compilation of a routing section, src/core/routing.py and           *)
(* src/core/runtime_routing.py: zones are resolved depth first, in the      *)
(* order of their names, each once; then the routes are checked and their   *)
(* targets numbered.  A step is a call or a return of resolve.              *)
(*                                                                         *)
(* The section and the table it compiles to are data: the operators at the *)
(* end say which targets a source is sent to.                              *)
(***************************************************************************)
EXTENDS Naturals, Sequences, SequencesExt

CONSTANTS
  Names,        \* names a zone may be defined or referred to by
  Sorted,       \* the names, in their order
  Sources,
  Definitions,  \* what a zone may be defined as: [op, refs, sources]
  RouteLists,   \* the routes of a section: sequences of [name, zone, to]
  TargetId      \* the numbers of the targets there are, by name

Operations == {"union", "intersection", "difference"}

ASSUME RoutingAssumption ==
  /\ Sorted \in Seq(Names) /\ \A n \in Names : \E i \in DOMAIN Sorted : Sorted[i] = n
  /\ \A d \in Definitions :
       /\ d.refs \in Seq(Names)
       /\ d.sources \subseteq Sources
       /\ d.op \in {"malformed", "include"} \cup Operations
  /\ \A list \in RouteLists :
       /\ list \in Seq(ToSet(list))
       /\ \A i \in DOMAIN list : list[i].to \in Seq(ToSet(list[i].to))

VARIABLES
  zones,     \* the definitions, by name
  routes,
  waiting,   \* names still to be looked at
  stack,     \* calls of resolve under way: [zone, next], next the reference looked at
  resolved,  \* the sources of each zone resolved
  outcome    \* "loading", "resolving", "compiled" or an error, with what it names

routingVars == <<zones, routes, waiting, stack, resolved, outcome>>

Is(kind) == outcome.kind = kind

Ends(result) ==
  /\ outcome' = result
  /\ UNCHANGED <<zones, routes, waiting, stack, resolved>>

-----------------------------------------------------------------------------
(* Loading.                                                                *)

\* A zone has exactly one expression.
Malformed == \E z \in DOMAIN zones : zones[z].op = "malformed"

Load ==
  /\ Is("loading")
  /\ Ends([kind |-> IF Malformed THEN "malformed" ELSE "resolving"])

-----------------------------------------------------------------------------
(* resolve                                                                 *)

Path == [i \in DOMAIN stack |-> stack[i].zone]
Top == stack[Len(stack)]
Refs(z) == zones[z].refs

Call(z) == Append(stack, [zone |-> z, next |-> 1])

\* The next of the sorted names that is defined, unless a reference resolved it
\* before.
Begin ==
  /\ Is("resolving") /\ stack = <<>> /\ waiting # <<>>
  /\ waiting' = Tail(waiting)
  /\ stack' = IF Head(waiting) \in DOMAIN zones \ DOMAIN resolved
              THEN Call(Head(waiting)) ELSE <<>>
  /\ UNCHANGED <<zones, routes, resolved, outcome>>

\* A call with references left looks at the reference r.
Looks(r) ==
  /\ Is("resolving") /\ stack # <<>>
  /\ Top.next \in DOMAIN Refs(Top.zone)
  /\ r = Refs(Top.zone)[Top.next]

OnPath_Bug(r) == r = Top.zone

OnPath(r) == \E i \in DOMAIN stack : stack[i].zone = r

\* Resolved before: its value is taken.
Known(r) ==
  /\ Looks(r) /\ r \in DOMAIN resolved
  /\ stack' = [stack EXCEPT ![Len(stack)].next = @ + 1]
  /\ UNCHANGED <<zones, routes, waiting, resolved, outcome>>

Unknown(r) ==
  /\ Looks(r) /\ r \notin DOMAIN resolved /\ r \notin DOMAIN zones
  /\ Ends([kind |-> "unknown zone", by |-> Top.zone, zone |-> r])

\* The error names the cycle: the path from the first call of r on.
Circular(r) ==
  /\ Looks(r) /\ r \notin DOMAIN resolved /\ r \in DOMAIN zones
  /\ OnPath(r)
  /\ \E i \in DOMAIN stack :
       /\ stack[i].zone = r
       /\ Ends([kind |-> "circular", cycle |-> SubSeq(Path, i, Len(stack))])

Enter(r) ==
  /\ Looks(r) /\ r \notin DOMAIN resolved /\ r \in DOMAIN zones
  /\ ~OnPath(r)
  /\ stack' = Call(r)
  /\ UNCHANGED <<zones, routes, waiting, resolved, outcome>>

\* _apply_operation, over the values of the references; what is neither a union
\* nor an intersection is a difference.
Applied(op, refs) ==
  IF refs = <<>> THEN {}
  ELSE LET operands == {resolved[refs[i]] : i \in DOMAIN refs}
       IN  CASE op = "union" -> UNION operands
             [] op = "intersection" -> {s \in Sources : \A v \in operands : s \in v}
             [] OTHER ->
                  {s \in resolved[refs[1]] : \A i \in DOMAIN refs \ {1} : s \notin resolved[refs[i]]}

Value(z) ==
  IF zones[z].op = "include" THEN zones[z].sources ELSE Applied(zones[z].op, Refs(z))

\* All references looked at: the call returns the zone's value.
Return ==
  /\ Is("resolving") /\ stack # <<>>
  /\ Top.next \notin DOMAIN Refs(Top.zone)
  /\ resolved' = [z \in DOMAIN resolved \cup {Top.zone} |->
                    IF z = Top.zone THEN Value(z) ELSE resolved[z]]
  /\ stack' = SubSeq(stack, 1, Len(stack) - 1)
  /\ UNCHANGED <<zones, routes, waiting, outcome>>

-----------------------------------------------------------------------------
(* The routes.                                                             *)

RouteZonesKnown == \A i \in DOMAIN routes : routes[i].zone \in DOMAIN resolved

TargetsKnown ==
  \A i \in DOMAIN routes : \A j \in DOMAIN routes[i].to : routes[i].to[j] \in DOMAIN TargetId

\* Zones first, then the routes' zones, then their targets.
Finish ==
  /\ Is("resolving") /\ stack = <<>> /\ waiting = <<>>
  /\ Ends([kind |-> IF ~RouteZonesKnown THEN "unknown route zone"
                    ELSE IF ~TargetsKnown THEN "unknown target" ELSE "compiled"])

\* compile_target_ids: the sources and the numbered targets of every route.
Plan == [i \in DOMAIN routes |->
           [sources |-> resolved[routes[i].zone],
            targets |-> [j \in DOMAIN routes[i].to |-> TargetId[routes[i].to[j]]]]]

WithNew_Bug(list, x) == Append(list, x)

WithNew(list, x) == IF \E i \in DOMAIN list : list[i] = x THEN list ELSE Append(list, x)

\* match_target_ids: what the data plane asks.
MatchTargetIds(s) ==
  FoldLeft(LAMBDA ids, route :
             IF s \in route.sources THEN FoldLeft(WithNew, ids, route.targets) ELSE ids,
           <<>>, Plan)

\* match_routes: the matching routes, by their place.
Matching(s) == {i \in DOMAIN routes : s \in resolved[routes[i].zone]}

\* The table or the error stays.
Ended ==
  /\ ~Is("loading") /\ ~Is("resolving")
  /\ UNCHANGED routingVars

-----------------------------------------------------------------------------

RoutingInit ==
  /\ \E defined \in SUBSET Names : zones \in [defined -> Definitions]
  /\ routes \in RouteLists
  /\ waiting = Sorted
  /\ stack = <<>>
  /\ resolved = [z \in {} |-> {}]
  /\ outcome = [kind |-> "loading"]

RoutingNext ==
  \/ Load \/ Begin
  \/ \E r \in Names : Known(r) \/ Unknown(r) \/ Circular(r) \/ Enter(r)
  \/ Return \/ Finish \/ Ended

RoutingSpec == RoutingInit /\ [][RoutingNext]_routingVars

-----------------------------------------------------------------------------
(* Properties.                                                             *)

\* A resolved zone holds the sources its definition says, of zones resolved
\* before it: no value is taken of a call still under way.
Sound ==
  \A z \in DOMAIN resolved :
    /\ z \in DOMAIN zones
    /\ \A i \in DOMAIN Refs(z) : Refs(z)[i] \in DOMAIN resolved
    /\ resolved[z] = Value(z)

\* An error is one: the zone named is referred to and not defined, the cycle
\* named is a cycle.
ErrorsAreReal ==
  /\ Is("unknown zone") =>
       /\ outcome.zone \notin DOMAIN zones
       /\ \E i \in DOMAIN Refs(outcome.by) : Refs(outcome.by)[i] = outcome.zone
  /\ Is("circular") =>
       LET c == outcome.cycle
       IN  /\ c # <<>>
           /\ \A i \in DOMAIN c :
                \E k \in DOMAIN Refs(c[i]) :
                  Refs(c[i])[k] = IF i = Len(c) THEN c[1] ELSE c[i + 1]

\* No zone is resolved inside its own resolution: the recursion is never
\* deeper than there are zones.
PathIsSimple ==
  \A i, j \in DOMAIN stack : stack[i].zone = stack[j].zone => i = j

\* A table is compiled of all zones, which can be ranked so that each refers to
\* lower ones only: no cycle goes unnoticed.
Complete ==
  Is("compiled") =>
    /\ DOMAIN resolved = DOMAIN zones
    /\ \E rank \in [DOMAIN zones -> DOMAIN Sorted] :
         \A z \in DOMAIN zones : \A i \in DOMAIN Refs(z) : rank[Refs(z)[i]] < rank[z]

\* Zones are resolved as they are defined, whatever their order and references,
\* and an error is reported only of a section that has it.
ResolvesAsDefined == Sound /\ ErrorsAreReal /\ PathIsSimple /\ Complete

\* Where the matching routes name targets: as which target of which route.
Named(s) == UNION {{<<i, j>> : j \in DOMAIN routes[i].to} : i \in Matching(s)}

IdAt(p) == TargetId[routes[p[1]].to[p[2]]]

Before(p, q) == p[1] < q[1] \/ (p[1] = q[1] /\ p[2] < q[2])

\* ids are those named at the places P, each once, in the order of its first place.
InOrder(ids, P) ==
  /\ ToSet(ids) = {IdAt(p) : p \in P}
  /\ \A a, b \in DOMAIN ids : a < b =>
       \E p \in P : /\ IdAt(p) = ids[a]
                    /\ \A q \in P : IdAt(q) = ids[b] => Before(p, q)

\* The data plane sends a source to the targets of its routes, each once, in the
\* order in which the routes first name them, as match_routes would.
TargetsInOrder ==
  Is("compiled") => \A s \in Sources : InOrder(MatchTargetIds(s), Named(s))
=============================================================================
