------------------------------ MODULE MCControl ------------------------------
(* Two operators, with two commands each, over two starts.                   *)
EXTENDS ControlSocket, TLC

CONSTANTS o1, o2

MCBadTable == <<"bad", 0>>
MCDeepTable == <<"deep", 0>>
MCDisabled == <<"disabled", 0>>

Replace(cells, params, table) ==
  [version |-> "1", id |-> "an id", method |-> "routing.replace", cells |-> cells,
   routing |-> table, params |-> params, expected |-> {}]

\* A section that does not compile, one too deep, and one too long.
MCOthers == {Replace(1, {"routing"}, MCBadTable), Replace(1, {"routing"}, MCDeepTable),
             Replace(2, {"routing"}, MCDisabled)}
=============================================================================
