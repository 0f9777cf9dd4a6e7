---------------------------- MODULE RoutingControl ----------------------------
(***************************************************************************)
(* The control protocol over the routing state of one process: what        *)
(* src/core/routing_control_protocol.py answers to a request and what       *)
(* src/core/routing_control.py and src/core/routing_state.py then hold.     *)
(*                                                                         *)
(* A request is [version, id, method, params, routing, expected], where     *)
(* params are the names of the parameters given and expected the set of the *)
(* generation given, empty when there is none or it is no natural number.   *)
(* An unknown field counts as a version that is no integer, and a filter     *)
(* that is not of its type as an unknown parameter: they are answered alike. *)
(* A snapshot is [generation, table].  Handling a request has no            *)
(* suspension: it is one step of the process.                               *)
(***************************************************************************)
EXTENDS Naturals

CONSTANTS
  BadTable,     \* a candidate section that does not compile (see module Routing)
  DeepTable,    \* one whose zones nest deeper than the interpreter's stack
  Disabled      \* the table of a process that does no routing

NoId == "no id"
None == "none"
Absent == {"absent"}
NoObject == {"not an object"}

Statistics == {"runtime.statistics", "runtime.statistics.inputs", "runtime.statistics.outputs"}
ReadOnly == {"routing.status"} \cup Statistics
Methods == ReadOnly \cup {"routing.replace", "routing.disable"}

-----------------------------------------------------------------------------
(* The schema of a request.                                                *)

Accepts(method) ==
  CASE method = "routing.replace" -> {"routing", "expected_generation"}
    [] method = "routing.disable" -> {"expected_generation"}
    [] method = "runtime.statistics.inputs" -> {"input"}
    [] method = "runtime.statistics.outputs" -> {"target_id", "name"}
    [] OTHER -> {}

\* None where the method takes none, an object of known fields where it takes
\* some, with the section to install and one filter at most.
ParamsFit(r) ==
  IF r.params = Absent THEN r.method # "routing.replace"
  ELSE /\ r.method \notin {"routing.status", "runtime.statistics"}
       /\ r.params # NoObject
       /\ r.params \subseteq Accepts(r.method)
       /\ r.method = "routing.replace" => "routing" \in r.params
       /\ ~({"target_id", "name"} \subseteq r.params)
       /\ "expected_generation" \in r.params => r.expected # {}

\* The first thing wrong with a request.
SchemaError(r) ==
  CASE r.version = "not an integer" -> "invalid_request"
    [] r.version = "another" -> "unsupported_version"
    [] r.id = NoId -> "invalid_request"
    [] r.method \notin Methods -> "unknown_method"
    [] ~ParamsFit(r) -> "invalid_request"
    [] OTHER -> None

-----------------------------------------------------------------------------
(* Handling.                                                               *)

\* Why a candidate is not installed.  The RecursionError of a table that is too
\* deep is not one the service expects.
CandidateError(routing) ==
  CASE routing = BadTable -> "invalid_routing_config"
    [] routing = DeepTable -> "internal_error"
    [] OTHER -> None

\* RoutingState.replace, where the generation given is another one, and where
\* it is not.
Stale(r, s) == r.expected \notin {{}, {s.generation}}

Replaced(table, s) == [generation |-> s.generation + 1, table |-> table]

Fails_Unchecked(r, s) ==
  CASE SchemaError(r) # None -> SchemaError(r)
    [] r.method = "routing.replace" -> CandidateError(r.routing)
    [] OTHER -> None

\* A candidate is compiled before the generation is compared, so that of two
\* errors the candidate's is reported.
Fails(r, s) ==
  CASE SchemaError(r) # None -> SchemaError(r)
    [] r.method = "routing.replace" /\ CandidateError(r.routing) # None ->
         CandidateError(r.routing)
    [] r.method \notin ReadOnly /\ Stale(r, s) -> "stale_generation"
    [] OTHER -> None

After_Eager(r, s) ==
  IF SchemaError(r) # None \/ CandidateError(r.routing) # None \/ r.method \in ReadOnly
  THEN s
  ELSE Replaced(IF r.method = "routing.disable" THEN Disabled ELSE r.routing, s)

\* The snapshot after the request.
After(r, s) ==
  IF Fails(r, s) # None \/ r.method \in ReadOnly THEN s
  ELSE Replaced(IF r.method = "routing.disable" THEN Disabled ELSE r.routing, s)

\* The answer: an error, or the snapshot that holds now; statistics are left out.
Answer(r, s) ==
  IF Fails(r, s) # None THEN [id |-> r.id, error |-> Fails(r, s)]
  ELSE IF r.method \in Statistics THEN [id |-> r.id, error |-> None]
  ELSE [id |-> r.id, error |-> None, status |-> After(r, s)]

\* No request can be made of the bytes.
MalformedAnswer == [id |-> NoId, error |-> "malformed_json"]

\* _write_transport_error
TransportError(code) == [id |-> NoId, error |-> code]
=============================================================================
