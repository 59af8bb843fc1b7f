------------------------------ MODULE MCReload ------------------------------
(* Instances of Reload for TLC: the versions of the sources.               *)
EXTENDS Reload

CONSTANTS v1, v2, v3, v4, v5, kept, dropped, r1

\* The second version drops a boundary; the others fail, each later.
SomeBoundaries == [v \in Version |-> IF v = v2 THEN {kept} ELSE {kept, dropped}]
SomeFaults     == [v \in Version |-> CASE v = v3 -> "compile" [] v = v4 -> "hook" [] v = v5 -> "initialize" [] OTHER -> "none"]
=============================================================================
