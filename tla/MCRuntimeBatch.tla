---------------------------- MODULE MCRuntimeBatch ----------------------------
(* Instances of RuntimeBatch for TLC: the calls clients make.              *)
EXTENDS RuntimeBatch

CONSTANTS a1, a2, k1

ItemIds == Call \X (1..MaxItems)

Plain(a) == [agg |-> a, key |-> NoKey]
Keyed(a) == [agg |-> a, key |-> k1]

Single(item) == [kind |-> "single", items |-> <<item>>]
Bulk(items)  == [kind |-> "bulk", items |-> items]
Transaction(items) == [kind |-> "transactional", items |-> items]

\* Ordinary and bulk writes beside transactions whose items share a key, an
\* aggregate or neither.
MixedPlans ==
  { Single(Keyed(a1)),
    Bulk(<<Plain(a1), Keyed(a2)>>),
    Transaction(<<Plain(a1), Plain(a2)>>),
    Transaction(<<Keyed(a1), Keyed(a1)>>) }
=============================================================================
