------------------------- MODULE MCFixtureLifecycle -------------------------
(* Instances of FixtureLifecycle for TLC: the fixtures of an engine.       *)
EXTENDS FixtureLifecycle

CONSTANTS v1, v2, shared, added, unmatched

\* The second version changes one fixture and adds one; one that no contract
\* matches is in both.
TwoVersions ==
  [v \in {v1, v2} |-> IF v = v1 THEN {shared, unmatched} ELSE {shared, added, unmatched}]
=============================================================================
