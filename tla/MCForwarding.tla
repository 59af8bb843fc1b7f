---------------------------- MODULE MCForwarding ----------------------------
(* Instances of Forwarding for TLC: the names of requests and versions.    *)
EXTENDS Forwarding

CONSTANTS r1, r2, v1, v2
=============================================================================
