---------------------------- MODULE EventSourcing ----------------------------
(***************************************************************************)
(* The event log, the state graph projected from it and the sequence       *)
(* versions of the runtime engine: src/src/core/storage.ts,                *)
(* src/src/domain/eventSourcing.ts and the commit, initialization and      *)
(* reducer code of src/src/core/engine.ts.                                 *)
(*                                                                         *)
(* The log is kept per aggregate: no operation modelled here compares the  *)
(* positions of events of two aggregates.  An event is the sequence        *)
(* version it was given and what caused it (a request, or the baseline).   *)
(* A reducer is an arbitrary function of the previous state and the event, *)
(* so the state of an aggregate is represented by the history that the     *)
(* reducers were applied to: the sequence of causes.  Every concrete       *)
(* reducer is a function of that history.  The empty history stands for an *)
(* aggregate absent from the state graph.                                  *)
(***************************************************************************)
EXTENDS Integers, Sequences

CONSTANTS
  Aggregate,      \* aggregate identifiers
  Request,        \* requests, which cause events
  Seeded,         \* aggregates that have an initialization record
  Baseline        \* the cause of a BaselineEntityCreatedEvent

ASSUME SeededAssumption   == Seeded \subseteq Aggregate
ASSUME BaselineAssumption == Baseline \notin Request

Cause    == Request \cup {Baseline}
Event    == [seq : Nat, by : Cause]
EventLog == [Aggregate -> Seq(Event)]
StateGraph == [Aggregate -> Seq(Cause)]

\* No event on any aggregate; also the state graph without entities.
Nothing == [a \in Aggregate |-> <<>>]

(***************************************************************************)
(* RuntimeEventStore.currentSequenceVersion: the largest version stored    *)
(* for the aggregate, 0 when it has none.                                  *)
(***************************************************************************)
CurrentSequenceVersion(log, a) ==
  IF log[a] = <<>> THEN 0
  ELSE CHOOSE v \in {log[a][i].seq : i \in 1..Len(log[a])} :
         \A i \in 1..Len(log[a]) : log[a][i].seq <= v

\* A version computed without the events the unit of work already holds.
IgnorePending(log, pending, a) == CurrentSequenceVersion(log, a) + 1

\* nextSequenceVersion: stored version, plus the pending events, plus one.
NextSequenceVersion(log, pending, a) ==
  CurrentSequenceVersion(log, a) + Len(pending[a]) + 1

\* An append that loses all but the first event of each aggregate.
AppendFirstOnly(log, pending) ==
  [a \in Aggregate |-> IF pending[a] = <<>> THEN log[a]
                       ELSE Append(log[a], Head(pending[a]))]

\* RuntimeEventStore.append of everything a unit of work emitted.
AppendAll(log, pending) == [a \in Aggregate |-> log[a] \o pending[a]]

\* applyEvent folded over a log, as initialize and replaceProgram do.
Replay(log) ==
  [a \in Aggregate |-> [i \in 1..Len(log[a]) |-> log[a][i].by]]

\* The baseline events: one per initialization record, sequence version 1.
BaselineLog ==
  [a \in Aggregate |->
     IF a \in Seeded THEN <<[seq |-> 1, by |-> Baseline]>> ELSE <<>>]

Contiguous(log) ==
  \A a \in Aggregate : \A i \in 1..Len(log[a]) : log[a][i].seq = i

\* How many events request r has on aggregate a.
EventsBy(log, r, a) == {i \in 1..Len(log[a]) : log[a][i].by = r}

Committed(log, r) == \E a \in Aggregate : EventsBy(log, r, a) # {}
=============================================================================
