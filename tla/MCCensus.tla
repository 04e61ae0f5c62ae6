------------------------------ MODULE MCCensus ------------------------------
(* An instance of Census for TLC: one ID that census-url always lists, and *)
(* one that a file may list.                                               *)
EXTENDS Census

CONSTANTS a, x

Always  == [s \in Source |-> IF s = Url THEN {a} ELSE {}]
Allowed == [s \in Source |-> IF s = Url THEN {a} ELSE {x}]

(* The legacy flag alone, which turns both sources on, but only when the   *)
(* server starts with it; no census.                                       *)
Flags(enabled, strict, url, files) ==
  [enabled |-> enabled, strict |-> strict, url |-> url, files |-> files]
SomeSettings == {Flags(TRUE, TRUE, FALSE, FALSE), Flags(FALSE, TRUE, TRUE, TRUE)}

(* Both sources on, and never off.                                         *)
StrictAlways == {Flags(TRUE, TRUE, TRUE, TRUE)}
=============================================================================
