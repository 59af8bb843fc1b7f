--------------------------- MODULE MCRuntimeEngine ---------------------------
(* Instances of RuntimeEngine for TLC: the commands clients send.          *)
EXTENDS RuntimeEngine, TLC

CONSTANTS a1, a2, k1

Create(a) == [agg |-> a, intent |-> "creation"]
Update(a) == [agg |-> a, intent |-> "mutation"]

Plain(writes)        == [writes |-> writes, key |-> NoKey, conditional |-> FALSE, dryRun |-> FALSE]
Keyed(writes)        == [Plain(writes) EXCEPT !.key = k1]
Conditional(writes)  == [Plain(writes) EXCEPT !.conditional = TRUE]
DryRun(cmdRecord)    == [cmdRecord EXCEPT !.dryRun = TRUE]

\* a1 is seeded.  A creation whose dispatch updates another aggregate, an
\* update that emits twice, a conditional update, keyed and dry-run forms.
MixedCommands ==
  { Plain(<<Create(a2), Update(a1)>>),
    Plain(<<Update(a1), Update(a1)>>),
    Conditional(<<Update(a1)>>),
    Keyed(<<Update(a1)>>),
    DryRun(Keyed(<<Update(a1)>>)) }

Symmetry == Permutations(Request) \cup Permutations(Admin)
=============================================================================
