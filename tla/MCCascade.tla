----------------------------- MODULE MCCascade -----------------------------
(* Instances of Cascade for TLC: definitions that run in circles.          *)
EXTENDS Cascade

CONSTANTS T1, T2, a1, a2, Place, Touch, Loop, Make

BareType(t) == [boundary |-> AnyBoundary, type |-> t]
Qualified(n, t) == [boundary |-> n, type |-> t]

Applied(t) == [has |-> {t}, lacks |-> {}]
Missing(t) == [has |-> {}, lacks |-> {t}]

\* Reactions to and of both types, in both boundaries, to any target.
Rules ==
  {[on |-> on, when |-> when, boundary |-> n, emit |-> t, target |-> to[1], intent |-> to[2]] :
     on \in {BareType(T1), Qualified(2, T2)}, when \in {Always, Missing(T2)}, n \in Boundary, t \in {T1, T2},
     to \in {<<Same, "mutation">>, <<a2, "mutation">>, <<a2, "creation">>, <<Generated, "creation">>}}

\* A mutation must name its target.
Untargeted == [on |-> BareType(T1), when |-> Always, boundary |-> 1, emit |-> T2, target |-> Generated, intent |-> "mutation"]

Command1(op, target) == [op |-> op, target |-> target, depth |-> 0]

OneEmit(t) == [type |-> t, when |-> Always]

Does(n, intent, emits, dispatches) ==
  [boundary |-> n, intent |-> intent, when |-> Always, guard |-> Always, emits |-> emits,
   dispatches |-> dispatches, post |-> Always, fallback |-> FALSE]

To(op, target) == [op |-> op, target |-> target, when |-> Always]

\* Place creates and touches twice; Touch touches again; Loop only
\* dispatches itself; Make has no target and falls back when T2 is missing.
Operations ==
  (Place :> Does(1, "creation", <<OneEmit(T1), [type |-> T2, when |-> Applied(T1)]>>,
                 <<To(Touch, Same), To(Touch, a2), [To(Make, Generated) EXCEPT !.when = Applied(T1)]>>)) @@
  (Touch :> [Does(2, "mutation", <<OneEmit(T2)>>, <<To(Touch, Same), To(Make, Generated)>>)
               EXCEPT !.guard = Missing(GenericUpdate)]) @@
  (Loop  :> Does(1, "mutation", <<>>, <<To(Loop, Same)>>)) @@
  (Make  :> [Does(2, "creation", <<OneEmit(T2), OneEmit(T1)>>, <<>>)
               EXCEPT !.when = Applied(T2), !.fallback = TRUE])

NoOwn == [n \in Boundary |-> <<>>]

Program(global, own, first, maxDepth) ==
  [operations |-> Operations, global |-> global, own |-> own, states |-> (a2 :> {T2}), first |-> first,
   maxDepth |-> maxDepth, skipReactions |-> FALSE, skipDispatch |-> FALSE, invalid |-> {}]

\* The parser of YAML lists the reactions of a file for its boundary and for all.
Yaml(n, rules, first, maxDepth) == Program(rules, [NoOwn EXCEPT ![n] = rules], first, maxDepth)

Pairs == {<<r1, r2>> : r1, r2 \in Rules}

Circular ==
  {Program(rules, NoOwn, Command1(Place, a1), 1) : rules \in Pairs}
    \cup {Yaml(2, rules, Command1(Touch, a2), 2) : rules \in Pairs}

Controlled ==
  LET p == Program(<<>>, NoOwn, Command1(Place, a1), 2)
      ends == [p EXCEPT !.operations[Touch].dispatches = <<To(Make, Generated)>>]
  IN
  {p, ends, [ends EXCEPT !.operations[Make].when = Always], [p EXCEPT !.first.target = a2], [p EXCEPT !.skipReactions = TRUE, !.maxDepth = 5],
   [p EXCEPT !.global = <<Untargeted>>], [p EXCEPT !.skipDispatch = TRUE], [p EXCEPT !.invalid = {T2}],
   [p EXCEPT !.first = Command1(Touch, a1)], [p EXCEPT !.first = Command1(Loop, a2)],
   [p EXCEPT !.first = Command1(Make, Generated)],
   [p EXCEPT !.operations[Touch].post = Missing(T2), !.first = Command1(Touch, a2)],
   [p EXCEPT !.operations[Touch].when = Missing(T2), !.first = Command1(Touch, a2)],
   [p EXCEPT !.states = (a2 :> {GenericUpdate}), !.first = Command1(Touch, a2)]}
    \cup {[Program(<<r>>, NoOwn, Command1(Make, Generated), 0) EXCEPT !.operations[Make].when = Always] : r \in Rules}
    \cup {[Program(<<r>>, NoOwn, Command1(Touch, a2), 0) EXCEPT !.invalid = {T1}] : r \in Rules}

SomePrograms == Circular \cup Controlled
=============================================================================
