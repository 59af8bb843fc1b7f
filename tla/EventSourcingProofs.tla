------------------------- MODULE EventSourcingProofs -------------------------
(***************************************************************************)
(* Facts about the operators of EventSourcing, for every set of            *)
(* aggregates and requests.                                                *)
(***************************************************************************)
EXTENDS EventSourcing, SequenceTheorems, WellFoundedInduction, TLAPS

\* A non-empty set of naturals has a least element.
LEMMA LeastNatural ==
  ASSUME NEW T \in SUBSET Nat, T # {}
  PROVE  \E x \in T : \A y \in T : x <= y
<1> DEFINE R == OpToRel(<, Nat)
<1>1. IsWellFoundedOn(R, Nat)
  BY NatLessThanWellFounded
<1>2. \A x, y \in Nat : x < y => <<x, y>> \in R
  BY DEF OpToRel
<1> HIDE DEF R
<1>3. PICK x \in T : \A y \in T : ~ (<<y, x>> \in R)
  BY <1>1, WFMin
<1>4. ASSUME NEW y \in T
      PROVE  x <= y
  <2>1. x \in Nat /\ y \in Nat
    OBVIOUS
  <2>2. ~ (y < x)
    BY <2>1, <1>2, <1>3, Zenon
  <2> QED
    BY <2>1, <2>2
<1> QED
  BY <1>4

\* The numbers in a finite sequence have an upper bound.
LEMMA BoundExists ==
  ASSUME NEW N \in Nat, NEW f, \A i \in 1..N : f[i] \in Nat
  PROVE  \E u \in Nat : \A i \in 1..N : f[i] <= u
<1> DEFINE Bounded(n) == \E u \in Nat : \A i \in 1..n : f[i] <= u
           Bad == {n \in 0..N : ~ Bounded(n)}
<1>1. CASE Bad = {}
  BY <1>1, N \in 0..N
<1>2. CASE Bad # {}
  <2>1. PICK b \in Bad : \A c \in Bad : b <= c
    <3>1. Bad \in SUBSET Nat
      OBVIOUS
    <3> HIDE DEF Bad
    <3> QED
      BY <1>2, <3>1, LeastNatural
  <2>2. Bounded(0)
    OBVIOUS
  <2>3. b \in 1..N /\ b - 1 \in 0..N /\ ~ Bounded(b)
    BY <2>2
  <2>4. b - 1 \notin Bad
    <3> HIDE DEF Bad
    <3> QED
      BY <2>1, <2>3
  <2>5. PICK u \in Nat : \A i \in 1..(b - 1) : f[i] <= u
    BY <2>3, <2>4
  <2>6. f[b] \in Nat
    BY <2>3
  <2>7. PICK v \in Nat : u <= v /\ f[b] <= v
    BY <2>6, u + f[b] \in Nat
  <2>8. \A i \in 1..b : f[i] <= v
    <3> SUFFICES ASSUME NEW i \in 1..b
                 PROVE  f[i] <= v
      OBVIOUS
    <3>1. CASE i = b
      BY <3>1, <2>7
    <3>2. CASE i # b
      <4>1. i \in 1..(b - 1) /\ i \in 1..N
        BY <3>2, <2>3
      <4>2. f[i] <= u /\ f[i] \in Nat
        BY <4>1, <2>5
      <4> QED
        BY <4>2, <2>7
    <3> QED
      BY <3>1, <3>2
  <2> QED
    BY <2>3, <2>7, <2>8
<1> QED
  BY <1>1, <1>2

\* A non-empty finite sequence of numbers has a largest element.
LEMMA MaximumExists ==
  ASSUME NEW N \in Nat \ {0}, NEW f, \A i \in 1..N : f[i] \in Nat
  PROVE  \E i \in 1..N : \A j \in 1..N : f[j] <= f[i]
<1> DEFINE Bounds == {u \in Nat : \A i \in 1..N : f[i] <= u}
<1>1. Bounds # {}
  BY BoundExists
<1>2. PICK m \in Bounds : \A u \in Bounds : m <= u
  <2> Bounds \in SUBSET Nat
    OBVIOUS
  <2> HIDE DEF Bounds
  <2> QED
    BY <1>1, LeastNatural
<1>3. \E i \in 1..N : f[i] = m
  <2> SUFFICES ASSUME \A i \in 1..N : f[i] # m
               PROVE  FALSE
    OBVIOUS
  <2>1. \A i \in 1..N : f[i] <= m - 1
    OBVIOUS
  <2>2. m - 1 \in Nat
    BY <2>1, 1 \in 1..N
  <2>3. m - 1 \in Bounds
    BY <2>1, <2>2
  <2> QED
    BY <1>2, <2>3
<1> QED
  BY <1>3

\* currentSequenceVersion is a natural number for every log.
LEMMA CurrentSequenceVersionType ==
  ASSUME NEW log \in EventLog, NEW a \in Aggregate
  PROVE  CurrentSequenceVersion(log, a) \in Nat
<1>1. CASE log[a] = <<>>
  BY <1>1 DEF CurrentSequenceVersion
<1>2. CASE log[a] # <<>>
  <2> DEFINE N == Len(log[a])
             f == [i \in 1..N |-> log[a][i].seq]
             S == {log[a][i].seq : i \in 1..N}
  <2>1. log[a] \in Seq(Event)
    BY DEF EventLog
  <2>2. N \in Nat \ {0}
    BY <1>2, <2>1, EmptySeq
  <2>3. \A i \in 1..N : f[i] = log[a][i].seq /\ f[i] \in Nat
    <3>1. \A i \in 1..N : log[a][i] \in Event
      BY <2>1, ElementOfSeq
    <3> QED
      BY <3>1 DEF Event
  <2>4. PICK k \in 1..N : \A j \in 1..N : f[j] <= f[k]
    <3> HIDE DEF N, f
    <3> QED
      BY <2>2, <2>3, MaximumExists
  <2>5. f[k] \in S /\ \A i \in 1..N : log[a][i].seq <= f[k]
    BY <2>3, <2>4
  <2>6. CurrentSequenceVersion(log, a) =
          CHOOSE v \in S : \A i \in 1..N : log[a][i].seq <= v
    BY <1>2 DEF CurrentSequenceVersion
  <2>7. CurrentSequenceVersion(log, a) \in S
    BY <2>5, <2>6
  <2> QED
    BY <2>7, <2>3
<1> QED
  BY <1>1, <1>2

\* Without gaps the current version is the number of events.
LEMMA CurrentSequenceVersionContiguous ==
  ASSUME NEW log \in EventLog, NEW a \in Aggregate, Contiguous(log)
  PROVE  CurrentSequenceVersion(log, a) = Len(log[a])
<1>1. log[a] \in Seq(Event) /\ Len(log[a]) \in Nat
  BY DEF EventLog
<1>2. CASE log[a] = <<>>
  BY <1>2 DEF CurrentSequenceVersion
<1>3. CASE log[a] # <<>>
  <2> DEFINE N == Len(log[a])
             S == {log[a][i].seq : i \in 1..N}
  <2>1. N \in Nat \ {0}
    BY <1>1, <1>3, EmptySeq
  <2>2. \A i \in 1..N : log[a][i].seq = i
    BY DEF Contiguous
  <2>3. N \in S /\ \A i \in 1..N : log[a][i].seq <= N
    BY <2>1, <2>2
  <2>4. \A v \in S : (\A i \in 1..N : log[a][i].seq <= v) => v = N
    BY <2>1, <2>2
  <2>5. CurrentSequenceVersion(log, a) =
          CHOOSE v \in S : \A i \in 1..N : log[a][i].seq <= v
    BY <1>3 DEF CurrentSequenceVersion
  <2> QED
    BY <2>3, <2>4, <2>5
<1> QED
  BY <1>2, <1>3

\* The next version is a natural number for every log.
LEMMA NextSequenceVersionType ==
  ASSUME NEW log \in EventLog, NEW pending \in EventLog, NEW a \in Aggregate
  PROVE  NextSequenceVersion(log, pending, a) \in Nat
<1>1. pending[a] \in Seq(Event)
  BY DEF EventLog
<1>2. Len(pending[a]) \in Nat
  BY <1>1, LenProperties
<1> QED
  BY <1>2, CurrentSequenceVersionType DEF NextSequenceVersion

\* Appending a unit of work to a log gives a log.
LEMMA AppendAllType ==
  ASSUME NEW log \in EventLog, NEW pending \in EventLog
  PROVE  AppendAll(log, pending) \in EventLog
BY DEF EventLog, AppendAll

\* A log projects to a state graph of histories as long as its own.
LEMMA ReplayType ==
  ASSUME NEW log \in EventLog
  PROVE  Replay(log) \in StateGraph
<1> SUFFICES ASSUME NEW a \in Aggregate
             PROVE  [i \in 1..Len(log[a]) |-> log[a][i].by] \in Seq(Cause)
  BY DEF Replay, StateGraph
<1>1. log[a] \in Seq(Event) /\ Len(log[a]) \in Nat
  BY DEF EventLog
<1>2. \A i \in 1..Len(log[a]) : log[a][i].by \in Cause
  <2>1. \A i \in 1..Len(log[a]) : log[a][i] \in Event
    BY <1>1, ElementOfSeq
  <2> QED
    BY <2>1 DEF Event
<1> QED
  BY <1>1, <1>2

LEMMA NothingType == Nothing \in EventLog /\ Nothing \in StateGraph
BY DEF Nothing, EventLog, StateGraph

LEMMA BaselineType ==
  BaselineLog \in EventLog /\ Contiguous(BaselineLog)
<1>1. [seq |-> 1, by |-> Baseline] \in Event
  BY DEF Event, Cause
<1>2. \A a \in Aggregate : BaselineLog[a] \in Seq(Event)
  BY <1>1 DEF BaselineLog
<1>3. \A a \in Aggregate : \A i \in 1..Len(BaselineLog[a]) : BaselineLog[a][i].seq = i
  BY DEF BaselineLog
<1> QED
  BY <1>2, <1>3 DEF BaselineLog, EventLog, Contiguous

\* The projection of an empty log is the empty state graph.
LEMMA ReplayNothing == Replay(Nothing) = Nothing
BY DEF Replay, Nothing

LEMMA AppendAllNothing ==
  ASSUME NEW log \in EventLog
  PROVE  AppendAll(log, Nothing) = log
<1>1. \A a \in Aggregate : log[a] \o <<>> = log[a]
  BY ConcatEmptySeq DEF EventLog
<1> QED
  BY <1>1 DEF AppendAll, Nothing, EventLog

\* Functions that agree on their common domain are equal.
LEMMA SameFunction ==
  ASSUME NEW S, NEW T, NEW f \in [S -> T], NEW g \in [S -> T],
         \A x \in S : f[x] = g[x]
  PROVE  f = g
OBVIOUS

\* Appending to the second of two sequences appends to their concatenation.
LEMMA AppendToConcat ==
  ASSUME NEW S, NEW s \in Seq(S), NEW t \in Seq(S), NEW e \in S
  PROVE  s \o Append(t, e) = Append(s \o t, e)
<1>1. <<e>> \in Seq(S) /\ s \o t \in Seq(S)
  OBVIOUS
<1>2. Append(t, e) = t \o <<e>> /\ Append(s \o t, e) = (s \o t) \o <<e>>
  BY <1>1, AppendIsConcat
<1> QED
  BY <1>1, <1>2, ConcatAssociative

(***************************************************************************)
(* One more event with the next version keeps the versions without gaps.   *)
(***************************************************************************)
LEMMA ContiguousAppend ==
  ASSUME NEW log \in EventLog, NEW a \in Aggregate, NEW event \in Event,
         Contiguous(log), event.seq = Len(log[a]) + 1
  PROVE  Contiguous([log EXCEPT ![a] = Append(@, event)])
<1> DEFINE after == [log EXCEPT ![a] = Append(@, event)]
<1>1. log[a] \in Seq(Event) /\ Len(log[a]) \in Nat
  BY LenProperties DEF EventLog
<1>2. after[a] = Append(log[a], event) /\ \A b \in Aggregate \ {a} : after[b] = log[b]
  BY DEF EventLog
<1>3. \A b \in Aggregate : \A j \in 1..Len(log[b]) : log[b][j].seq = j
  BY DEF Contiguous
<1> HIDE DEF after
<1> SUFFICES ASSUME NEW b \in Aggregate, NEW i \in 1..Len(after[b])
             PROVE  after[b][i].seq = i
  BY DEF Contiguous, after
<1>4. CASE b # a
  BY <1>2, <1>3, <1>4
<1>5. CASE b = a
  <2>1. /\ Len(after[a]) = Len(log[a]) + 1
        /\ \A j \in 1..Len(log[a]) : after[a][j] = log[a][j]
        /\ after[a][Len(log[a]) + 1] = event
    BY <1>1, <1>2, AppendProperties
  <2>2. i \in 1..Len(log[a]) \/ i = Len(log[a]) + 1
    BY <1>1, <1>5, <2>1
  <2> QED
    BY <1>3, <1>5, <2>1, <2>2
<1> QED
  BY <1>4, <1>5

(***************************************************************************)
(* One more event appends its cause to the projected history.              *)
(***************************************************************************)
LEMMA ReplayAppend ==
  ASSUME NEW log \in EventLog, NEW a \in Aggregate, NEW event \in Event,
         NEW after \in EventLog, after[a] = Append(log[a], event),
         \A b \in Aggregate \ {a} : after[b] = log[b]
  PROVE  Replay(after) = [Replay(log) EXCEPT ![a] = Append(@, event.by)]
<1> DEFINE target == [Replay(log) EXCEPT ![a] = Append(@, event.by)]
<1>1. event.by \in Cause
  BY DEF Event
<1>2. log[a] \in Seq(Event) /\ Len(log[a]) \in Nat
  BY LenProperties DEF EventLog
<1>4. Replay(log) \in StateGraph /\ Replay(after) \in StateGraph
  BY ReplayType
<1>5. target \in StateGraph /\ target[a] = Append(Replay(log)[a], event.by)
  BY <1>1, <1>4 DEF StateGraph
<1>7. \A b \in Aggregate \ {a} : Replay(after)[b] = target[b]
  <2> SUFFICES ASSUME NEW b \in Aggregate \ {a}
               PROVE  Replay(after)[b] = target[b]
    OBVIOUS
  <2>1. target[b] = Replay(log)[b]
    BY <1>4 DEF StateGraph
  <2>2. Replay(after)[b] = Replay(log)[b]
    BY DEF Replay
  <2> QED
    BY <2>1, <2>2
<1>8. Replay(after)[a] = target[a]
  <2> DEFINE s == Replay(after)[a]
             t == target[a]
             u == Replay(log)[a]
  <2>1. s \in Seq(Cause) /\ t \in Seq(Cause) /\ u \in Seq(Cause)
    BY <1>4, <1>5 DEF StateGraph
  <2>2. /\ s = [i \in 1..Len(after[a]) |-> after[a][i].by]
        /\ u = [i \in 1..Len(log[a]) |-> log[a][i].by]
    BY DEF Replay
  <2>3. /\ Len(after[a]) = Len(log[a]) + 1
        /\ \A j \in 1..Len(log[a]) : after[a][j] = log[a][j]
        /\ after[a][Len(log[a]) + 1] = event
    BY <1>2, AppendProperties
  <2>4. t = Append(u, event.by)
    BY <1>5
  <2> HIDE DEF s, t, u, target
  <2>5. Len(s) = Len(log[a]) + 1 /\ Len(u) = Len(log[a])
    BY <1>2, <2>2, <2>3
  <2>6. /\ Len(t) = Len(log[a]) + 1
        /\ \A j \in 1..Len(log[a]) : t[j] = u[j]
        /\ t[Len(log[a]) + 1] = event.by
    BY <1>1, <2>1, <2>4, <2>5, AppendProperties
  <2>7. ASSUME NEW i \in 1..Len(s)
        PROVE  s[i] = t[i]
    <3>1. i \in 1..Len(log[a]) \/ i = Len(log[a]) + 1
      BY <1>2, <2>5
    <3>2. s[i] = after[a][i].by
      BY <2>2, <2>3, <2>5
    <3> QED
      BY <2>2, <2>3, <2>6, <3>1, <3>2
  <2>8. s = t
    BY <2>1, <2>5, <2>6, <2>7, SeqEqual
  <2> QED
    BY <2>8 DEF s, t
<1> HIDE DEF target
<1>9. \A b \in Aggregate : Replay(after)[b] = target[b]
  BY <1>7, <1>8
<1>10. Replay(after) = target
  BY <1>4, <1>5, <1>9, SameFunction DEF StateGraph
<1> QED
  BY <1>10 DEF target

\* The events of an aggregate in a log and those appended to them.
LEMMA ConcatEvents ==
  ASSUME NEW log \in EventLog, NEW pending \in EventLog, NEW a \in Aggregate
  PROVE  /\ Len(log[a]) \in Nat /\ Len(pending[a]) \in Nat
         /\ Len(log[a] \o pending[a]) = Len(log[a]) + Len(pending[a])
         /\ \A i \in 1..(Len(log[a]) + Len(pending[a])) :
              (log[a] \o pending[a])[i] =
                IF i <= Len(log[a]) THEN log[a][i] ELSE pending[a][i - Len(log[a])]
<1>1. ASSUME NEW s \in Seq(Event), NEW t \in Seq(Event)
      PROVE  /\ Len(s) \in Nat /\ Len(t) \in Nat
             /\ Len(s \o t) = Len(s) + Len(t)
             /\ \A i \in 1..(Len(s) + Len(t)) :
                  (s \o t)[i] = IF i <= Len(s) THEN s[i] ELSE t[i - Len(s)]
  BY LenProperties, ConcatProperties
<1>2. log[a] \in Seq(Event) /\ pending[a] \in Seq(Event)
  BY DEF EventLog
<1> QED
  BY <1>1, <1>2, Zenon

\* Without gaps the next version follows the stored and the pending events.
LEMMA NextSequenceVersionContiguous ==
  ASSUME NEW log \in EventLog, NEW pending \in EventLog, NEW a \in Aggregate,
         Contiguous(log)
  PROVE  /\ NextSequenceVersion(log, pending, a) = Len(AppendAll(log, pending)[a]) + 1
         /\ NextSequenceVersion(log, pending, a) \in Nat
<1> DEFINE m == Len(log[a])
           n == Len(pending[a])
<1>2. m \in Nat /\ n \in Nat
  BY ConcatEvents
<1>3. Len(AppendAll(log, pending)[a]) = m + n
  BY ConcatEvents DEF AppendAll
<1>4. NextSequenceVersion(log, pending, a) = m + n + 1
  BY CurrentSequenceVersionContiguous DEF NextSequenceVersion
<1> HIDE DEF m, n
<1> QED
  BY <1>2, <1>3, <1>4

(***************************************************************************)
(* createEvent: an event that is given the next sequence version extends   *)
(* the log of stored and pending events without a gap, and appends its     *)
(* cause to the projected history.                                         *)
(***************************************************************************)
LEMMA EmitEvent ==
  ASSUME NEW log \in EventLog, NEW pending \in EventLog,
         NEW a \in Aggregate, NEW event \in Event,
         event.seq = NextSequenceVersion(log, pending, a),
         Contiguous(log), Contiguous(AppendAll(log, pending))
  PROVE  LET emitted == [pending EXCEPT ![a] = Append(@, event)]
         IN  /\ emitted \in EventLog
             /\ Contiguous(AppendAll(log, emitted))
             /\ Replay(AppendAll(log, emitted)) =
                  [Replay(AppendAll(log, pending)) EXCEPT ![a] = Append(@, event.by)]
<1> DEFINE emitted == [pending EXCEPT ![a] = Append(@, event)]
           before == AppendAll(log, pending)
<1>1. event.seq = Len(before[a]) + 1
  BY NextSequenceVersionContiguous
<1>2. log[a] \in Seq(Event) /\ pending[a] \in Seq(Event)
  BY DEF EventLog
<1>3. emitted \in EventLog
  BY <1>2, AppendProperties DEF EventLog
<1>4. before \in EventLog
  BY AppendAllType
<1>5. before[a] = log[a] \o pending[a]
  BY DEF AppendAll
<1>6. log[a] \o Append(pending[a], event) = Append(before[a], event)
  <2> DEFINE stored == log[a]
             staged == pending[a]
  <2>1. stored \in Seq(Event) /\ staged \in Seq(Event) /\ before[a] = stored \o staged
    BY <1>2, <1>5
  <2> HIDE DEF stored, staged, before
  <2>2. stored \o Append(staged, event) = Append(stored \o staged, event)
    BY <2>1, AppendToConcat
  <2> QED
    BY <2>1, <2>2 DEF stored, staged
<1>7. AppendAll(log, emitted) = [before EXCEPT ![a] = Append(@, event)]
  BY <1>6 DEF AppendAll, EventLog
<1>8. Contiguous(before)
  OBVIOUS
<1> HIDE DEF before, emitted
<1>9. Contiguous(AppendAll(log, emitted))
  BY <1>1, <1>4, <1>7, <1>8, ContiguousAppend
<1>10. Replay(AppendAll(log, emitted)) = [Replay(before) EXCEPT ![a] = Append(@, event.by)]
  <2> DEFINE after == AppendAll(log, emitted)
  <2>1. after \in EventLog
    BY <1>3, AppendAllType
  <2>2. after[a] = Append(before[a], event) /\ \A b \in Aggregate \ {a} : after[b] = before[b]
    BY <1>4, <1>7 DEF EventLog
  <2> HIDE DEF after
  <2>3. Replay(after) = [Replay(before) EXCEPT ![a] = Append(@, event.by)]
    BY <1>4, <2>1, <2>2, ReplayAppend
  <2> QED
    BY <2>3 DEF after
<1> QED
  BY <1>3, <1>9, <1>10 DEF before, emitted

-----------------------------------------------------------------------------
(* What a log has of a request.                                            *)

\* What is committed in a longer log was, or is in the events appended.
LEMMA CommittedAppend ==
  ASSUME NEW log \in EventLog, NEW pending \in EventLog, NEW r,
         Committed(AppendAll(log, pending), r)
  PROVE  \/ Committed(log, r)
         \/ \E a \in Aggregate : \E i \in 1..Len(pending[a]) : pending[a][i].by = r
<1>1. PICK a \in Aggregate : \E i \in 1..Len(log[a] \o pending[a]) :
                               (log[a] \o pending[a])[i].by = r
  BY DEF Committed, EventsBy, AppendAll
<1> DEFINE m == Len(log[a])
           n == Len(pending[a])
           s == log[a] \o pending[a]
<1>3. m \in Nat /\ n \in Nat
  BY ConcatEvents
<1>4. Len(s) = m + n /\ \A i \in 1..(m + n) : s[i] = IF i <= m THEN log[a][i] ELSE pending[a][i - m]
  BY ConcatEvents, Zenon
<1>5. PICK i \in 1..Len(s) : s[i].by = r
  BY <1>1
<1> HIDE DEF s, m, n
<1>6. CASE i <= m
  <2>1. i \in 1..m /\ log[a][i].by = r
    BY <1>3, <1>4, <1>5, <1>6
  <2> QED
    BY <2>1 DEF Committed, EventsBy, m
<1>7. CASE ~(i <= m)
  <2>1. i - m \in 1..n /\ pending[a][i - m].by = r
    BY <1>3, <1>4, <1>5, <1>7
  <2> QED
    BY <2>1 DEF n
<1> QED
  BY <1>6, <1>7

\* What is committed stays so when events are appended.
LEMMA CommittedStays ==
  ASSUME NEW log \in EventLog, NEW pending \in EventLog, NEW r, Committed(log, r)
  PROVE  Committed(AppendAll(log, pending), r)
<1>1. PICK a \in Aggregate : \E i \in 1..Len(log[a]) : log[a][i].by = r
  BY DEF Committed, EventsBy
<1>2. PICK i \in 1..Len(log[a]) : log[a][i].by = r
  BY <1>1
<1>4. i \in 1..Len(log[a] \o pending[a]) /\ (log[a] \o pending[a])[i] = log[a][i]
  <2> DEFINE m == Len(log[a])
             n == Len(pending[a])
             s == log[a] \o pending[a]
  <2>1. m \in Nat /\ n \in Nat
    BY ConcatEvents
  <2>2. Len(s) = m + n /\ \A j \in 1..(m + n) : s[j] = IF j <= m THEN log[a][j] ELSE pending[a][j - m]
    BY ConcatEvents, Zenon
  <2>3. i \in 1..m
    BY <1>2
  <2> HIDE DEF m, n, s
  <2>4. i \in 1..Len(s) /\ s[i] = log[a][i]
    BY <2>1, <2>2, <2>3
  <2> QED
    BY <2>4 DEF s
<1> QED
  BY <1>2, <1>4 DEF Committed, EventsBy, AppendAll

\* What is appended is committed.
LEMMA PendingCommitted ==
  ASSUME NEW log \in EventLog, NEW pending \in EventLog, NEW r,
         NEW a \in Aggregate, NEW i \in 1..Len(pending[a]), pending[a][i].by = r
  PROVE  Committed(AppendAll(log, pending), r)
<1> DEFINE m == Len(log[a])
           n == Len(pending[a])
           s == log[a] \o pending[a]
<1>2. m \in Nat /\ n \in Nat /\ i \in 1..n
  BY ConcatEvents
<1>3. Len(s) = m + n /\ \A j \in 1..(m + n) : s[j] = IF j <= m THEN log[a][j] ELSE pending[a][j - m]
  BY ConcatEvents, Zenon
<1>4. s = AppendAll(log, pending)[a]
  BY DEF AppendAll
<1> HIDE DEF m, n, s
<1>5. i + m \in 1..(m + n) /\ ~(i + m <= m) /\ (i + m) - m = i
  BY <1>2
<1>6. i + m \in 1..Len(s) /\ s[i + m] = pending[a][i]
  BY <1>3, <1>5
<1> QED
  BY <1>4, <1>6 DEF Committed, EventsBy

\* No request is committed in the empty log or in the baseline.
LEMMA NoneCommitted ==
  ASSUME NEW r \in Request
  PROVE  ~Committed(Nothing, r) /\ ~Committed(BaselineLog, r)
<1>1. \A a \in Aggregate : \A i \in 1..Len(BaselineLog[a]) : BaselineLog[a][i].by # r
  BY BaselineAssumption DEF BaselineLog
<1> QED
  BY <1>1 DEF Committed, EventsBy, Nothing

\* All events are by one request.
OnlyBy(pending, r) == \A a \in Aggregate : \A i \in 1..Len(pending[a]) : pending[a][i].by = r

\* Where the events of request r are in log2, the log after pending was appended to it.
Appended(log, pending, r, log2) ==
  \A a \in Aggregate :
    /\ EventsBy(log2, r, a) = (Len(log[a]) + 1)..(Len(log[a]) + Len(pending[a]))
    /\ \A s \in Request \ {r} : EventsBy(log2, s, a) = EventsBy(log, s, a)

LEMMA EventsAppended ==
  ASSUME NEW log \in EventLog, NEW pending \in EventLog, NEW r \in Request,
         OnlyBy(pending, r), ~Committed(log, r)
  PROVE  Appended(log, pending, r, AppendAll(log, pending))
<1> SUFFICES ASSUME NEW a \in Aggregate
             PROVE  /\ EventsBy(AppendAll(log, pending), r, a) = (Len(log[a]) + 1)..(Len(log[a]) + Len(pending[a]))
                    /\ \A s \in Request \ {r} : EventsBy(AppendAll(log, pending), s, a) = EventsBy(log, s, a)
  BY Zenon DEF Appended
<1> DEFINE m == Len(log[a])
           n == Len(pending[a])
           t == log[a] \o pending[a]
<1>1. m \in Nat /\ n \in Nat
  BY ConcatEvents
<1>2. Len(t) = m + n /\ \A i \in 1..(m + n) : t[i] = IF i <= m THEN log[a][i] ELSE pending[a][i - m]
  BY ConcatEvents, Zenon
<1>3. \A i \in 1..m : log[a][i].by # r
  BY DEF Committed, EventsBy
<1>4. \A i \in 1..n : pending[a][i].by = r
  BY DEF OnlyBy
<1>5. AppendAll(log, pending)[a] = t
  BY DEF AppendAll
<1> HIDE DEF m, n, t
<1>6. /\ \A i \in 1..(m + n) : i \in 1..m \/ (i \in (m + 1)..(m + n) /\ i - m \in 1..n /\ ~(i <= m))
      /\ \A i \in 1..m : i \in 1..(m + n) /\ i <= m /\ i \notin (m + 1)..(m + n)
      /\ \A i \in (m + 1)..(m + n) : i \in 1..(m + n) /\ i - m \in 1..n /\ ~(i <= m)
  BY <1>1
<1>7. /\ \A i \in 1..m : t[i] = log[a][i] /\ t[i].by # r
      /\ \A i \in (m + 1)..(m + n) : t[i].by = r
  BY <1>2, <1>3, <1>4, <1>6
<1>8. {i \in 1..(m + n) : t[i].by = r} = (m + 1)..(m + n)
  BY <1>6, <1>7
<1>9. \A s : s # r => {i \in 1..(m + n) : t[i].by = s} = {i \in 1..m : log[a][i].by = s}
  BY <1>6, <1>7
<1>10. \A s : EventsBy(AppendAll(log, pending), s, a) = {i \in 1..(m + n) : t[i].by = s}
  BY <1>2, <1>5, Zenon DEF EventsBy
<1> QED
  BY <1>8, <1>9, <1>10, Zenon DEF EventsBy, m, n
=============================================================================
