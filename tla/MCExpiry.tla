------------------------------ MODULE MCExpiry ------------------------------
(* An instance of Expiry for TLC: clocks that differ by a whole lifetime.  *)
EXTENDS Expiry

Offsets  == {-2, 0, 2}
Advances == {-2, 2}
=============================================================================
