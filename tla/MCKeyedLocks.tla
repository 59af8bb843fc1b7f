----------------------------- MODULE MCKeyedLocks -----------------------------
(* An instance of KeyedLocks for TLC.                                      *)
EXTENDS KeyedLocks, TLC

CONSTANTS t1, t2, t3, t4

\* Two pairs that overlap in a circle with a third, and a task on one key.
FourTasks == t1 :> {1, 2} @@ t2 :> {2, 3} @@ t3 :> {1, 3} @@ t4 :> {2}
=============================================================================
