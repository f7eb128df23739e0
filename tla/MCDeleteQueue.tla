---------------------------- MODULE MCDeleteQueue ----------------------------
(***************************************************************************)
(* Small instances of DeleteQueue: a library of the track a and the        *)
(* album b, cleaned up as a whole or for its tracks alone.                 *)
(***************************************************************************)
EXTENDS DeleteQueue

CONSTANTS a, b

MCOrder == <<a, b>>
MCSections == [s \in Scopes |-> IF s = "full" THEN {a, b} ELSE {a}]
============================================================================
