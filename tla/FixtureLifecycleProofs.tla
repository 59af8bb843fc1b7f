------------------------ MODULE FixtureLifecycleProofs ------------------------
(***************************************************************************)
(* Proofs about FixtureLifecycle for any versions, paths and bounds: the   *)
(* monitor inside the composition takes the steps of HealthMonitor and     *)
(* keeps its counters; tasks have names of their own; one of them applies  *)
(* its set at a time; what is excluded has a stub, but while that one      *)
(* replaces the set; and the last transition wins.                         *)
(***************************************************************************)
EXTENDS FixtureLifecycle, FiniteSetTheorems, TLAPS

-----------------------------------------------------------------------------
(* The monitor.                                                            *)

\* The counters, without the history variable.
Counters ==
  /\ health \in {"Up", "Degraded", "Down"}
  /\ failures \in 0..3
  /\ successes \in 0..2
  /\ probe \in {"none", "ok", "failed"}
  /\ Monitor!CountersFitState

\* What a late answer of the engine finds.
LateAnswer == overtaken => probe # "none" /\ (health = "Down" => successes = 0)

MonitorInv == Counters /\ reachable \in BOOLEAN /\ overtaken \in BOOLEAN /\ LateAnswer

LEMMA MonitorInit == Monitor!Init => MonitorInv
<1> SUFFICES ASSUME Monitor!Init
             PROVE  MonitorInv
  OBVIOUS
<1>1. Counters
  BY DEF Monitor!Init, Counters, Monitor!CountersFitState, Monitor!DownAfter, Monitor!UpAfter
<1>2. reachable \in BOOLEAN /\ overtaken \in BOOLEAN /\ LateAnswer
  BY Zenon DEF Monitor!Init, LateAnswer
<1> QED
  BY <1>1, <1>2 DEF MonitorInv

\* One step of the monitor keeps the counters.
LEMMA CountersStep ==
  ASSUME Counters, Monitor!Next
  PROVE  Counters'
<1> USE DEF Counters, Monitor!CountersFitState, Monitor!DownAfter, Monitor!UpAfter
<1>1. CASE Monitor!AnswerProbe
  <2>1. probe' \in {"none", "ok", "failed"}
    BY <1>1, Zenon DEF Monitor!AnswerProbe
  <2> QED
    BY <1>1, <2>1 DEF Monitor!AnswerProbe
<1>2. CASE Monitor!ApplyProbe
  <2>1. CASE probe = "ok" /\ Monitor!ProbeSucceeded
    BY <1>2, <2>1 DEF Monitor!ApplyProbe, Monitor!ProbeSucceeded, Monitor!AtMost
  <2>2. CASE probe = "failed" /\ Monitor!ProbeFailed
    <3>1. CASE health = "Up"
      BY <1>2, <2>2, <3>1 DEF Monitor!ApplyProbe, Monitor!ProbeFailed, Monitor!AtMost
    <3>2. CASE health = "Degraded"
      BY <1>2, <2>2, <3>2 DEF Monitor!ApplyProbe, Monitor!ProbeFailed, Monitor!AtMost
    <3>3. CASE health = "Down"
      BY <1>2, <2>2, <3>3 DEF Monitor!ApplyProbe, Monitor!ProbeFailed, Monitor!AtMost
    <3> QED
      BY <3>1, <3>2, <3>3
  <2> QED
    BY <1>2, <2>1, <2>2 DEF Monitor!ApplyProbe
<1>3. CASE Monitor!MarkDown
  BY <1>3 DEF Monitor!MarkDown
<1>4. CASE Monitor!MarkUp
  BY <1>4 DEF Monitor!MarkUp
<1>5. CASE Monitor!EngineFlips
  BY <1>5 DEF Monitor!EngineFlips
<1> QED
  BY <1>1, <1>2, <1>3, <1>4, <1>5 DEF Monitor!Next

\* Handlers and probes move the monitor as HealthMonitor says, one at a time.
LEMMA MonitorStep ==
  ASSUME MonitorInv, Monitor!Next
  PROVE  MonitorInv' /\ Monitor!StaleProbeRevivesNot
<1>1. Counters'
  BY CountersStep DEF MonitorInv
<1> SUFFICES /\ reachable' \in BOOLEAN /\ overtaken' \in BOOLEAN /\ LateAnswer'
             /\ Monitor!StaleProbeRevivesNot
  BY <1>1 DEF MonitorInv
<1> USE DEF MonitorInv, LateAnswer, Monitor!StaleProbeRevivesNot
<1>2. CASE Monitor!AnswerProbe
  BY <1>2, Zenon DEF Monitor!AnswerProbe
<1>3. CASE Monitor!ApplyProbe
  <2>1. reachable' \in BOOLEAN /\ overtaken' \in BOOLEAN /\ LateAnswer'
    BY <1>3, Zenon DEF Monitor!ApplyProbe
  <2>2. ASSUME health = "Down", successes = 0
        PROVE  health' = "Down"
    <3>1. CASE probe = "ok" /\ Monitor!ProbeSucceeded
      BY <2>2, <3>1 DEF Monitor!ProbeSucceeded, Monitor!AtMost, Monitor!UpAfter
    <3>2. CASE probe = "failed" /\ Monitor!ProbeFailed
      BY <2>2, <3>2 DEF Monitor!ProbeFailed
    <3> QED
      BY <1>3, <3>1, <3>2 DEF Monitor!ApplyProbe
  <2> QED
    BY <2>1, <2>2, Zenon
<1>4. CASE Monitor!MarkDown
  BY <1>4, Zenon DEF Monitor!MarkDown
<1>5. CASE Monitor!MarkUp
  BY <1>5, Zenon DEF Monitor!MarkUp
<1>6. CASE Monitor!EngineFlips
  BY <1>6, Zenon DEF Monitor!EngineFlips
<1> QED
  BY <1>2, <1>3, <1>4, <1>5, <1>6 DEF Monitor!Next

\* A step of the composition is a step of the monitor or leaves it alone.
LEMMA StepsOfTheMonitor ==
  ASSUME Next
  PROVE  Monitor!Next \/ UNCHANGED monitor
<1>1. CASE Probing
  BY <1>1 DEF Probing, Monitor!Next
<1>2. CASE ShutdownArrives
  BY <1>2 DEF ShutdownArrives, Monitor!Next
<1>3. CASE ReadyArrives
  BY <1>3 DEF ReadyArrives, Monitor!Next
<1>4. CASE RefreshNow
  BY <1>4 DEF RefreshNow
<1>5. CASE EngineFlips
  BY <1>5 DEF EngineFlips, Monitor!Next
<1>6. CASE EngineEdits
  BY <1>6 DEF EngineEdits
<1>7. CASE StartReload
  BY <1>7 DEF StartReload
<1>8. CASE \E t \in tasks : TaskStep(t)
  BY <1>8 DEF TaskStep, Ask, Answered, Store, Label, ApplyStep, Acquire, Forget, RegisterCleared, Record
<1> QED
  BY <1>1, <1>2, <1>3, <1>4, <1>5, <1>6, <1>7, <1>8 DEF Next

LEMMA MonitorKept ==
  ASSUME MonitorInv, [Next]_vars
  PROVE  MonitorInv' /\ [Monitor!CountersFitState' /\ Monitor!StaleProbeRevivesNot]_vars
<1>1. CASE UNCHANGED monitor
  BY <1>1 DEF monitor, MonitorInv, Counters, LateAnswer, Monitor!CountersFitState, Monitor!StaleProbeRevivesNot
<1>2. CASE Monitor!Next
  BY <1>2, MonitorStep DEF MonitorInv, Counters
<1> QED
  BY <1>1, <1>2, StepsOfTheMonitor DEF vars

(***************************************************************************)
(* The counters fit the state whatever threads move them, and an answer    *)
(* from before a shutdown does not revive the engine.                      *)
(***************************************************************************)
THEOREM MonitorSound == Spec => MonitorIsSound
<1>1. Init => MonitorInv
  BY MonitorInit DEF Init
<1>2. MonitorInv /\ [Next]_vars => MonitorInv'
  BY MonitorKept
<1>3. MonitorInv /\ [Next]_vars => [Monitor!CountersFitState' /\ Monitor!StaleProbeRevivesNot]_vars
  BY MonitorKept
<1> QED
  BY <1>1, <1>2, <1>3, PTL DEF Spec, MonitorIsSound

-----------------------------------------------------------------------------
(* The coroutines.                                                         *)

TasksOK ==
  /\ tasks \subseteq Task
  /\ IsFiniteSet(tasks)
  /\ \A t, u \in tasks : t.id = u.id /\ t.kind = u.kind => t = u

\* One of the first n + 1 numbers is not the name of one of n tasks.
LEMMA FreeIdIsFree ==
  ASSUME TasksOK, NEW kind
  PROVE  FreeId(kind) \in Nat /\ \A t \in tasks : t.kind = kind => t.id # FreeId(kind)
<1> DEFINE ids == {t.id : t \in tasks}
           f == [t \in tasks |-> t.id]
           n == Cardinality(tasks)
<1>1. n \in Nat
  BY FS_CardinalityType DEF TasksOK
<1>2. IsFiniteSet(ids) /\ Cardinality(ids) <= n
  <2>1. f \in Surjection(tasks, ids)
    BY DEF Surjection
  <2> QED
    BY <2>1, FS_Surjection DEF TasksOK
<1>3. IsFiniteSet(1..(n + 1)) /\ Cardinality(1..(n + 1)) = n + 1
  BY <1>1, FS_Interval
<1>4. ~ (1..(n + 1) \subseteq ids)
  <2> SUFFICES ASSUME 1..(n + 1) \subseteq ids
               PROVE  FALSE
    OBVIOUS
  <2>1. Cardinality(1..(n + 1)) <= Cardinality(ids)
    BY <1>2, FS_Subset
  <2>2. Cardinality(ids) \in Nat
    BY <1>2, FS_CardinalityType
  <2> QED
    BY <1>1, <1>2, <1>3, <2>1, <2>2
<1>5. \E k \in 1..(n + 1) : \A t \in tasks : t.kind = kind => t.id # k
  BY <1>4
<1>6. FreeId(kind) \in 1..(n + 1) /\ \A t \in tasks : t.kind = kind => t.id # FreeId(kind)
  BY <1>5 DEF FreeId
<1> QED
  BY <1>1, <1>6

\* A task after a newer number was taken.
Older(t) == [t EXCEPT !.latest = FALSE]

LEMMA TakeNumberTasks ==
  ASSUME TasksOK, NEW kinds, TakeNumber(kinds),
         kinds \subseteq {"push", "clear", "refresh"},
         \A k, l \in kinds : k = l
  PROVE  /\ TasksOK'
         /\ \A t \in tasks' : t.latest => t.kind \in kinds /\ t.pc = "launched"
         /\ \A k \in kinds : \E t \in tasks' : t.kind = k /\ t.latest
         /\ \A t \in tasks' : t.pc = "launched" \/ \E u \in tasks : t = Older(u)
         /\ \A u \in tasks : u.pc # "launched" => Older(u) \in tasks'
<1> DEFINE rest == {u \in tasks : ~NoticesAtOnce(u)}
           older == {Older(t) : t \in rest}
           new == {Launched(FreeId(kind), kind) : kind \in kinds}
           f == [t \in rest |-> Older(t)]
           g == [k \in kinds |-> Launched(FreeId(k), k)]
<1>1. tasks' = older \cup new
  BY DEF TakeNumber, Older
<1>2. \A t \in rest : Older(t) \in Task /\ Older(t).id = t.id /\ Older(t).kind = t.kind /\ Older(t).latest = FALSE
  BY DEF TasksOK, Task, Older
<1>3. \A k \in kinds : Launched(FreeId(k), k) \in Task /\ Launched(FreeId(k), k).id = FreeId(k)
                       /\ Launched(FreeId(k), k).kind = k /\ Launched(FreeId(k), k).latest = TRUE
                       /\ Launched(FreeId(k), k).pc = "launched"
  BY FreeIdIsFree DEF Launched, Task
<1>4. tasks' \subseteq Task
  BY <1>1, <1>2, <1>3
<1>5. IsFiniteSet(tasks')
  <2>1. f \in Surjection(rest, older) /\ g \in Surjection(kinds, new)
    BY DEF Surjection
  <2>2. IsFiniteSet(rest)
    BY FS_Subset DEF TasksOK
  <2>3. IsFiniteSet(kinds)
    <3>1. CASE kinds = {}
      BY <3>1, FS_EmptySet
    <3>2. CASE kinds # {}
      <4>1. PICK k : kinds = {k}
        BY <3>2
      <4> QED
        BY <4>1, FS_Singleton
    <3> QED
      BY <3>1, <3>2
  <2>4. IsFiniteSet(older) /\ IsFiniteSet(new)
    BY <2>1, <2>2, <2>3, FS_Surjection
  <2> QED
    BY <1>1, <2>4, FS_Union
<1>6. \A t, u \in tasks' : t.id = u.id /\ t.kind = u.kind => t = u
  <2> SUFFICES ASSUME NEW t \in tasks', NEW u \in tasks', t.id = u.id, t.kind = u.kind
               PROVE  t = u
    OBVIOUS
  <2>1. CASE t \in older /\ u \in older
    <3>1. PICK t0 \in rest, u0 \in rest : t = Older(t0) /\ u = Older(u0)
      BY <2>1
    <3>2. t0 = u0
      BY <1>2, <3>1 DEF TasksOK
    <3> QED
      BY <3>1, <3>2
  <2>2. CASE t \in new /\ u \in new
    BY <2>2
  <2>3. CASE (t \in older /\ u \in new) \/ (t \in new /\ u \in older)
    BY <1>2, <1>3, <2>3, FreeIdIsFree
  <2> QED
    BY <1>1, <2>1, <2>2, <2>3
<1>7. \A t \in tasks' : t.latest => t.kind \in kinds /\ t.pc = "launched"
  BY <1>1, <1>2, <1>3
<1>8. \A k \in kinds : \E t \in tasks' : t.kind = k /\ t.latest
  BY <1>1, <1>3
<1>9. \A t \in tasks' : t.pc = "launched" \/ \E u \in tasks : t = Older(u)
  BY <1>1, <1>3
<1>10. \A u \in tasks : u.pc # "launched" => Older(u) \in tasks'
  BY <1>1 DEF NoticesAtOnce
<1> QED
  BY <1>4, <1>5, <1>6, <1>7, <1>8, <1>9, <1>10 DEF TasksOK

LEMMA BecomesTasks ==
  ASSUME TasksOK, NEW t \in tasks, NEW u \in Task, u.id = t.id, u.kind = t.kind, Becomes(t, u)
  PROVE  TasksOK'
<1>1. IsFiniteSet(tasks')
  <2>1. IsFiniteSet(tasks \ {t})
    BY FS_RemoveElement DEF TasksOK
  <2> QED
    BY <2>1, FS_AddElement DEF Becomes
<1> QED
  BY <1>1 DEF TasksOK, Becomes

LEMMA EndsTasks ==
  ASSUME TasksOK, NEW t \in tasks, Ends(t)
  PROVE  TasksOK'
<1>1. IsFiniteSet(tasks')
  BY FS_RemoveElement DEF TasksOK, Ends
<1> QED
  BY <1>1 DEF TasksOK, Ends

-----------------------------------------------------------------------------
(* The invariant.                                                          *)

Plain ==
  /\ served \in Version
  /\ cache \in Version \cup {NoVersion}
  /\ events \in 0..MaxEvents
  /\ refreshing \in 0..events
  /\ lastSignal \in Version \cup {NoVersion, NoSignal}

Flags == booted \in BOOLEAN /\ refreshed \in BOOLEAN /\ mislabelled \in BOOLEAN

\* What Specmatic was given, and what is left to it.
StubsOK ==
  /\ registered \in SUBSET (Version \X Path)
  /\ excluded \in SUBSET Path
  /\ (\A t \in tasks : ~Emptied(t)) => \A p \in excluded : \E v \in Version : <<v, p>> \in registered

\* One coroutine applies at a time, and what it has done so far is there.
HolderOK ==
  /\ \A t, u \in tasks : Applies(t) /\ Applies(u) => t = u
  /\ \A t \in tasks :
       /\ t.kind = "clear" => t.pc \in {"launched", "forgetting"}
       /\ t.pc = "forgetting" => registered = {}
       /\ t.pc = "recording" => Stubs(t.got) \subseteq registered

\* After the transition to Down its clear is to come, or nothing is left, and
\* no other coroutine applies anything any more.
LastWins ==
  health = "Down" /\ ~refreshed =>
    /\ \A t \in tasks : t.latest => t.kind = "clear"
    /\ \/ \E t \in tasks : t.kind = "clear" /\ t.latest
       \/ registered = {} /\ excluded = {} /\ \A t \in tasks : ~Applies(t)

LifecycleInv == MonitorInv /\ Plain /\ Flags /\ TasksOK /\ StubsOK /\ HolderOK /\ LastWins

LEMMA LifecycleInit == Init => LifecycleInv
<1> SUFFICES ASSUME Init
             PROVE  LifecycleInv
  OBVIOUS
<1>1. MonitorInv
  BY MonitorInit DEF Init
<1>2. Plain
  BY VersionAssumption, BoundsAssumption DEF Init, Plain
<1>6. Flags
  BY Zenon DEF Init, Flags
<1>3. TasksOK
  <2>1. Launched(1, "start") \in Task
    BY DEF Launched, Task
  <2> QED
    BY <2>1, FS_Singleton DEF Init, TasksOK
<1>4. StubsOK
  BY DEF Init, StubsOK
<1>5. LastWins
  BY DEF Init, LastWins, Monitor!Init
<1>7. HolderOK
  BY DEF Init, HolderOK, Launched, Applies, Applying
<1> QED
  BY <1>1, <1>2, <1>3, <1>4, <1>5, <1>6, <1>7 DEF LifecycleInv

\* A newer number leaves the holder of the mutex where it is.
LEMMA NumberStep ==
  ASSUME TasksOK, HolderOK, StubsOK, UNCHANGED <<registered, excluded>>,
         NEW kinds, TakeNumber(kinds),
         kinds \subseteq {"push", "clear", "refresh"},
         \A k, l \in kinds : k = l
  PROVE  TasksOK' /\ HolderOK' /\ StubsOK'
<1>1. /\ TasksOK'
      /\ \A t \in tasks' : t.pc = "launched" \/ \E u \in tasks : t = Older(u)
      /\ \A u \in tasks : u.pc # "launched" => Older(u) \in tasks'
  BY TakeNumberTasks
<1>2. \A u \in tasks : Older(u).pc = u.pc /\ Older(u).kind = u.kind /\ Older(u).got = u.got
  BY DEF TasksOK, Task, Older
<1>3. HolderOK'
  <2>1. ASSUME NEW t \in tasks', NEW u \in tasks', Applies(t), Applies(u)
        PROVE  t = u
    <3>1. PICK t0 \in tasks, u0 \in tasks : t = Older(t0) /\ u = Older(u0)
      BY <1>1, <2>1 DEF Applies, Applying
    <3>2. Applies(t0) /\ Applies(u0)
      BY <1>2, <2>1, <3>1 DEF Applies
    <3> QED
      BY <3>1, <3>2 DEF HolderOK
  <2>2. ASSUME NEW t \in tasks'
        PROVE  /\ t.kind = "clear" => t.pc \in {"launched", "forgetting"}
               /\ t.pc = "forgetting" => registered = {}
               /\ t.pc = "recording" => Stubs(t.got) \subseteq registered
    <3>1. CASE t.pc = "launched"
      BY <3>1
    <3>2. CASE \E u \in tasks : t = Older(u)
      BY <1>2, <3>2 DEF HolderOK
    <3> QED
      BY <1>1, <3>1, <3>2
  <2> QED
    BY <2>1, <2>2 DEF HolderOK, Applies, Stubs
<1>4. StubsOK'
  <2>1. ASSUME NEW u \in tasks, Emptied(u)
        PROVE  \E t \in tasks' : Emptied(t)
    <3>1. u.pc # "launched" /\ Emptied(Older(u))
      BY <1>2, <2>1 DEF Emptied
    <3> QED
      BY <1>1, <3>1
  <2> QED
    BY <2>1 DEF StubsOK, Emptied
<1> QED
  BY <1>1, <1>3, <1>4

\* A notification, inside the lock of the monitor.
LEMMA NotifiedStep ==
  ASSUME LifecycleInv, Notified, MonitorInv', UNCHANGED <<registered, excluded>>
  PROVE  TasksOK' /\ HolderOK' /\ StubsOK' /\ refreshed' \in BOOLEAN /\ LastWins'
<1> USE DEF LifecycleInv
<1>1. CASE health' = health
  <2>1. UNCHANGED <<refreshed, tasks>>
    BY <1>1 DEF Notified
  <2> QED
    BY <1>1, <2>1, Zenon DEF TasksOK, HolderOK, StubsOK, Flags, LastWins
<1>2. CASE health' # health
  <2>1. OnTransition(health') /\ health' \in {"Up", "Degraded", "Down"}
    BY <1>2 DEF Notified, MonitorInv, Counters
  <2>2. refreshed' = FALSE
    BY <2>1 DEF OnTransition
  <2>3. CASE health' # "Down"
    <3>1. PICK kinds : TakeNumber(kinds) /\ kinds \subseteq {"push", "clear", "refresh"} /\ \A k, l \in kinds : k = l
      BY <2>1, <2>3 DEF OnTransition
    <3>2. TasksOK' /\ HolderOK' /\ StubsOK'
      BY <3>1, NumberStep
    <3> QED
      BY <2>2, <2>3, <3>2 DEF LastWins
  <2>4. CASE health' = "Down"
    <3>1. TakeNumber({"clear"})
      BY <2>1, <2>4 DEF OnTransition
    <3>2. /\ \A t \in tasks' : t.latest => t.kind \in {"clear"} /\ t.pc = "launched"
          /\ \A k \in {"clear"} : \E t \in tasks' : t.kind = k /\ t.latest
      BY <3>1, TakeNumberTasks
    <3>3. TasksOK' /\ HolderOK' /\ StubsOK'
      BY <3>1, NumberStep
    <3>4. LastWins'
      BY <3>2 DEF LastWins
    <3> QED
      BY <2>2, <3>3, <3>4
  <2> QED
    BY <2>3, <2>4
<1> QED
  BY <1>1, <1>2

-----------------------------------------------------------------------------
(* The steps of the coroutines.                                            *)

\* What a step of a coroutine leaves alone.
Alone == UNCHANGED <<monitor, served, refreshing, refreshed, events>>

LEMMA AloneKeeps ==
  ASSUME LifecycleInv, Alone
  PROVE  MonitorInv' /\ health' = health /\ refreshed' = refreshed
BY Zenon DEF LifecycleInv, Alone, monitor, MonitorInv, Counters, LateAnswer, Monitor!CountersFitState

\* A coroutine is replaced by itself, further on.
LEMMA OneMoves ==
  ASSUME TasksOK, NEW t \in tasks, NEW u \in Task, u.id = t.id, u.kind = t.kind, u.latest = t.latest,
         Becomes(t, u)
  PROVE  /\ TasksOK' /\ u \in tasks'
         /\ \A v \in tasks' : v = u \/ v \in tasks \ {t}
         /\ \A v \in tasks : v = t \/ v \in tasks'
BY BecomesTasks DEF Becomes

\* While the engine is down nothing but the clear of that is latest.
LEMMA LastWinsKept ==
  ASSUME LastWins, health' = health, refreshed' = refreshed,
         NEW t \in tasks, NEW u, u.kind = t.kind, u.latest = t.latest, Becomes(t, u),
         health = "Down" /\ ~t.latest => Applies(t) \/ (UNCHANGED <<registered, excluded>> /\ ~Applies(u))
  PROVE  LastWins'
<1> SUFFICES ASSUME health = "Down", ~refreshed
             PROVE  LastWins'
  BY DEF LastWins
<1>1. tasks' = (tasks \ {t}) \cup {u}
  BY DEF Becomes
<1>2. \A v \in tasks' : v.latest => v.kind = "clear"
  BY <1>1 DEF LastWins
<1>3. CASE t.latest
  <2>1. u \in tasks' /\ u.kind = "clear" /\ u.latest
    BY <1>1, <1>3 DEF LastWins
  <2> QED
    BY <1>2, <2>1 DEF LastWins
<1>4. CASE ~t.latest
  <2>1. CASE \E v \in tasks : v.kind = "clear" /\ v.latest
    <3>1. \E v \in tasks' : v.kind = "clear" /\ v.latest
      BY <1>1, <1>4, <2>1
    <3> QED
      BY <1>2, <3>1 DEF LastWins
  <2>2. CASE registered = {} /\ excluded = {} /\ \A v \in tasks : ~Applies(v)
    <3>1. registered' = {} /\ excluded' = {} /\ ~Applies(u)
      BY <1>4, <2>2
    <3>2. \A v \in tasks' : ~Applies(v)
      BY <1>1, <2>2, <3>1
    <3> QED
      BY <1>2, <3>1, <3>2 DEF LastWins, Applies
  <2> QED
    BY <2>1, <2>2 DEF LastWins
<1> QED
  BY <1>3, <1>4

\* A coroutine that does not hold the mutex fetches, or labels what it got.
LEMMA FetchStep ==
  ASSUME LifecycleInv, NEW t \in tasks, Ask(t) \/ Answered(t) \/ Store(t) \/ Label(t)
  PROVE  LifecycleInv'
<1> USE DEF LifecycleInv
<1>1. /\ Alone /\ UNCHANGED <<lastSignal, registered, excluded, mislabelled, booted>>
      /\ cache' \in Version \cup {NoVersion}
  <2>1. t.got \in Version \cup {NoVersion} /\ cache \in Version \cup {NoVersion}
    BY DEF TasksOK, Task, Plain
  <2> QED
    BY <2>1 DEF Ask, Answered, Store, Label, Alone, fixtures
<1>2. PICK u : /\ u \in Task /\ u.id = t.id /\ u.kind = t.kind /\ u.latest = t.latest /\ u.kind # "clear"
               /\ u.pc \in {"asking", "answered", "fetched", "labelled"} /\ Becomes(t, u)
  <2>0. t \in Task /\ (t.pc # "launched" /\ ~Applies(t) => t.kind # "clear") /\ cache \in Version \cup {NoVersion}
    BY DEF TasksOK, HolderOK, Plain, Applies, Applying
  <2>1. CASE Ask(t)
    <3>1. [t EXCEPT !.pc = "asking", !.signal = cache] \in Task
      BY <2>0 DEF Task
    <3> QED
      BY <2>0, <2>1, <3>1 DEF Ask, Task
  <2>2. CASE Answered(t)
    <3> DEFINE got == IF reachable /\ served # t.signal THEN served ELSE cache
               pc == IF reachable THEN "answered" ELSE "fetched"
               w == [t EXCEPT !.pc = pc, !.got = got, !.signal = NoSignal]
    <3>1. got \in Version \cup {NoVersion} /\ pc \in {"answered", "fetched"}
      BY <2>0 DEF Plain
    <3>2. Becomes(t, w) /\ t.pc = "asking"
      BY <2>2 DEF Answered
    <3> HIDE DEF got, pc
    <3>3. w \in Task /\ w.id = t.id /\ w.kind = t.kind /\ w.latest = t.latest /\ w.pc = pc
      BY <2>0, <3>1 DEF Task
    <3>4. w.kind # "clear"
      BY <2>0, <3>2, <3>3 DEF Applies, Applying
    <3> QED
      BY <3>1, <3>2, <3>3, <3>4
  <2>3. CASE Store(t)
    <3>1. [t EXCEPT !.pc = "fetched"] \in Task
      BY <2>0 DEF Task
    <3> QED
      BY <2>0, <2>3, <3>1 DEF Store, Task, Applies, Applying
  <2>4. CASE Label(t)
    <3>1. [t EXCEPT !.pc = "labelled", !.signal = cache] \in Task
      BY <2>0 DEF Task
    <3> QED
      BY <2>0, <2>4, <3>1 DEF Label, Task, Applies, Applying
  <2> QED
    BY <2>1, <2>2, <2>3, <2>4
<1>3. MonitorInv' /\ health' = health /\ refreshed' = refreshed
  BY <1>1, AloneKeeps
<1>4. /\ TasksOK' /\ u \in tasks'
      /\ \A v \in tasks' : v = u \/ v \in tasks \ {t}
      /\ \A v \in tasks : v = t \/ v \in tasks'
  BY <1>2, OneMoves
<1>5. ~Applies(t) /\ ~Emptied(t) /\ ~Applies(u) /\ ~Emptied(u)
  BY <1>2 DEF Ask, Answered, Store, Label, Applies, Applying, Emptied
<1>6. Plain'
  BY <1>1 DEF Plain, Alone
<1>7. Flags'
  BY <1>1, Zenon DEF Flags, Alone
<1>8. HolderOK'
  <2>1. \A v \in tasks' : Applies(v) => v \in tasks
    BY <1>4, <1>5
  <2>2. u.kind # "clear" /\ u.pc \notin {"forgetting", "recording"}
    BY <1>2
  <2> QED
    BY <1>1, <1>4, <2>1, <2>2 DEF HolderOK, Applies, Stubs
<1>9. StubsOK'
  BY <1>1, <1>4, <1>5 DEF StubsOK, Emptied
<1>10. LastWins'
  BY <1>1, <1>2, <1>3, <1>5, LastWinsKept
<1> QED
  BY <1>3, <1>4, <1>6, <1>7, <1>8, <1>9, <1>10

\* What the holder of the mutex may make of the stubs and the signal.
Typed ==
  /\ registered' \in SUBSET (Version \X Path) /\ excluded' \in SUBSET Path
  /\ lastSignal' \in Version \cup {NoVersion, NoSignal}
  /\ mislabelled' \in BOOLEAN

AllHaveStubs == \A p \in excluded : \E v \in Version : <<v, p>> \in registered

LEMMA HolderMoves ==
  ASSUME LifecycleInv, Alone, cache' = cache, Typed,
         NEW t \in tasks, NEW pc \in Applying, Proceeds(t, pc),
         \A v \in tasks : Applies(v) => v = t,
         t.kind = "clear" => pc = "forgetting",
         pc = "forgetting" => registered' = {},
         pc = "recording" => Stubs(t.got) \subseteq registered',
         ~Emptied([t EXCEPT !.pc = pc]) => AllHaveStubs',
         health = "Down" /\ ~t.latest => Applies(t)
  PROVE  LifecycleInv'
<1> USE DEF LifecycleInv
<1> DEFINE u == [t EXCEPT !.pc = pc]
<1>1. /\ u \in Task /\ u.id = t.id /\ u.kind = t.kind /\ u.latest = t.latest
      /\ u.pc = pc /\ u.got = t.got /\ Becomes(t, u) /\ booted' = booted
  BY DEF TasksOK, Task, Proceeds
<1> HIDE DEF u
<1>2. /\ TasksOK' /\ u \in tasks'
      /\ \A v \in tasks' : v = u \/ v \in tasks \ {t}
      /\ \A v \in tasks : v = t \/ v \in tasks'
  BY <1>1, OneMoves
<1>3. MonitorInv' /\ health' = health /\ refreshed' = refreshed
  BY AloneKeeps
<1>4. Plain'
  BY DEF Plain, Alone, Typed
<1>5. Flags'
  BY <1>1, Zenon DEF Flags, Alone, Typed
<1>6. \A v \in tasks' : v # u => v \in tasks /\ ~Applies(v)
  BY <1>2
<1>7. HolderOK'
  <2>1. \A v, w \in tasks' : Applies(v) /\ Applies(w) => v = w
    BY <1>6
  <2>2. ASSUME NEW v \in tasks'
        PROVE  /\ v.kind = "clear" => v.pc \in {"launched", "forgetting"}
               /\ v.pc = "forgetting" => registered' = {}
               /\ v.pc = "recording" => Stubs(v.got) \subseteq registered'
    <3>1. CASE v = u
      BY <1>1, <3>1
    <3>2. CASE v # u
      BY <1>6, <3>2 DEF HolderOK, Applies, Applying
    <3> QED
      BY <3>1, <3>2
  <2> QED
    BY <2>1, <2>2 DEF HolderOK, Applies, Stubs
<1>8. StubsOK'
  <2>1. (\A v \in tasks' : ~Emptied(v)) => AllHaveStubs'
    BY <1>2 DEF u
  <2> QED
    BY <2>1 DEF StubsOK, Typed, AllHaveStubs, Emptied
<1>9. LastWins'
  BY <1>1, <1>3, LastWinsKept
<1> QED
  BY <1>2, <1>3, <1>4, <1>5, <1>7, <1>8, <1>9

LEMMA HolderEnds ==
  ASSUME LifecycleInv, Alone, cache' = cache, Typed,
         NEW t \in tasks, Ends(t),
         \A v \in tasks : Applies(v) => v = t,
         AllHaveStubs',
         health = "Down" /\ ~refreshed /\ t.latest => registered' = {} /\ excluded' = {},
         ~t.latest => Applies(t) \/ UNCHANGED <<registered, excluded>>
  PROVE  LifecycleInv'
<1> USE DEF LifecycleInv
<1>1. TasksOK' /\ tasks' = tasks \ {t} /\ booted' = (booted \/ t.kind = "start")
  BY EndsTasks DEF Ends
<1>2. MonitorInv' /\ health' = health /\ refreshed' = refreshed
  BY AloneKeeps
<1>3. Plain'
  BY DEF Plain, Alone, Typed
<1>4. Flags'
  BY <1>1, Zenon DEF Flags, Alone, Typed
<1>5. \A v \in tasks' : v \in tasks /\ ~Applies(v)
  BY <1>1
<1>6. HolderOK'
  BY <1>5 DEF HolderOK, Applies, Applying, Stubs
<1>7. StubsOK'
  BY DEF StubsOK, Typed, AllHaveStubs, Emptied
<1>8. LastWins'
  <2> SUFFICES ASSUME health = "Down", ~refreshed
               PROVE  LastWins'
    BY <1>2 DEF LastWins
  <2>1. \A v \in tasks' : v.latest => v.kind = "clear"
    BY <1>1 DEF LastWins
  <2>2. \A v \in tasks' : ~Applies(v)'
    BY <1>5 DEF Applies
  <2>3. CASE registered' = {} /\ excluded' = {}
    BY <2>1, <2>2, <2>3 DEF LastWins
  <2>4. CASE ~t.latest
    <3>1. CASE \E v \in tasks : v.kind = "clear" /\ v.latest
      <4>1. \E v \in tasks' : v.kind = "clear" /\ v.latest
        BY <1>1, <2>4, <3>1
      <4> QED
        BY <2>1, <4>1 DEF LastWins
    <3>2. CASE registered = {} /\ excluded = {} /\ \A v \in tasks : ~Applies(v)
      <4>1. registered' = {} /\ excluded' = {}
        BY <2>4, <3>2
      <4> QED
        BY <2>3, <4>1
    <3> QED
      BY <3>1, <3>2 DEF LastWins
  <2> QED
    BY <2>3, <2>4
<1> QED
  BY <1>1, <1>2, <1>3, <1>4, <1>6, <1>7, <1>8

\* Stubs are added; who pushed them is about to record their paths.
LEMMA RegisterAdds ==
  ASSUME LifecycleInv, NEW t \in tasks, Register(t), excluded' = excluded
  PROVE  /\ Typed /\ registered \subseteq registered' /\ Stubs(t.got) \subseteq registered'
         /\ AllHaveStubs => AllHaveStubs'
<1>1. t.got \in Version \cup {NoVersion} /\ t.signal \in Version \cup {NoVersion, NoSignal}
  BY DEF LifecycleInv, TasksOK, Task
<1>2. Stubs(t.got) \subseteq Version \X Path
  BY <1>1, VersionAssumption DEF Stubs, Paths
<1>3. registered' = registered \cup Stubs(t.got) /\ lastSignal' = t.signal
  BY DEF Register
<1>4. mislabelled' \in BOOLEAN
  BY Zenon DEF Register, LifecycleInv, Flags
<1> QED
  BY <1>1, <1>2, <1>3, <1>4 DEF Typed, AllHaveStubs, LifecycleInv, StubsOK

LEMMA AcquireStep ==
  ASSUME LifecycleInv, NEW t \in tasks, Acquire(t)
  PROVE  LifecycleInv'
<1> USE DEF LifecycleInv
<1>1. /\ Alone /\ cache' = cache /\ excluded' = excluded
      /\ \A v \in tasks : ~Applies(v)
  BY DEF Acquire, Alone, Free
<1>2. AllHaveStubs
  BY <1>1 DEF StubsOK, AllHaveStubs, Emptied, Applies, Applying
<1>3. t \in Task /\ t.signal \in Version \cup {NoVersion, NoSignal}
      /\ lastSignal \in Version \cup {NoVersion, NoSignal}
  BY DEF TasksOK, Task, Plain
<1>4. ASSUME Ends(t), UNCHANGED <<registered, mislabelled>>, lastSignal' \in Version \cup {NoVersion, NoSignal},
             t.latest => health # "Down" \/ refreshed
      PROVE  LifecycleInv'
  <2>1. Typed
    BY <1>1, <1>4, Zenon DEF Typed, StubsOK, Flags
  <2>2. AllHaveStubs'
    BY <1>1, <1>2, <1>4 DEF AllHaveStubs
  <2> QED
    BY <1>1, <1>4, <2>1, <2>2, HolderEnds
<1>5. \/ ~MayApply(t) /\ Ends(t) /\ UNCHANGED <<lastSignal, registered, mislabelled>>
      \/ MayApply(t) /\ t.kind = "reload" /\ ClearIfChanged(t)
      \/ MayApply(t) /\ t.kind \in {"start", "push"} /\ Register(t)
      \/ MayApply(t) /\ t.kind \in {"refresh", "clear"} /\ ClearStubs(t)
  BY DEF Acquire
<1>6. CASE ~MayApply(t) /\ Ends(t) /\ UNCHANGED <<lastSignal, registered, mislabelled>>
  <2>1. t.latest => health # "Down" \/ refreshed
    BY <1>6 DEF LastWins, MayApply, Latest
  <2> QED
    BY <1>3, <1>4, <1>6, <2>1
<1>7. CASE MayApply(t) /\ t.kind = "reload" /\ ClearIfChanged(t)
  <2>1. health = "Up" /\ lastSignal' = t.signal /\ mislabelled' = mislabelled
    BY <1>7 DEF MayApply, ClearIfChanged
  <2>2. CASE Ends(t) /\ UNCHANGED registered
    BY <1>3, <1>4, <2>1, <2>2
  <2>3. CASE Proceeds(t, "registering") /\ registered' = {}
    <3>1. Typed
      BY <1>1, <1>3, <2>1, <2>3 DEF Typed, StubsOK, Flags
    <3>2. Emptied([t EXCEPT !.pc = "registering"])
      BY <1>3, <1>7 DEF Emptied, Task
    <3> QED
      BY <1>1, <1>7, <2>1, <2>3, <3>1, <3>2, HolderMoves DEF Applying
  <2> QED
    BY <1>7, <2>2, <2>3 DEF ClearIfChanged
<1>8. CASE MayApply(t) /\ t.kind \in {"start", "push"} /\ Register(t)
  <2>1. t.latest /\ Proceeds(t, "recording")
    BY <1>8 DEF MayApply, Latest, Register
  <2>2. Typed /\ Stubs(t.got) \subseteq registered' /\ AllHaveStubs'
    BY <1>1, <1>2, <1>8, RegisterAdds
  <2> QED
    BY <1>1, <1>8, <2>1, <2>2, HolderMoves DEF Applying
<1>9. CASE MayApply(t) /\ t.kind \in {"refresh", "clear"} /\ ClearStubs(t)
  <2>1. t.latest /\ Proceeds(t, "forgetting") /\ registered' = {} /\ UNCHANGED <<lastSignal, mislabelled>>
    BY <1>9 DEF MayApply, Latest, ClearStubs
  <2>2. Typed
    <3>1. mislabelled' \in BOOLEAN
      BY <2>1, Zenon DEF Flags
    <3> QED
      BY <1>1, <1>3, <2>1, <3>1 DEF Typed, StubsOK
  <2>3. Emptied([t EXCEPT !.pc = "forgetting"])
    BY <1>3 DEF Emptied, Task
  <2> QED
    BY <1>1, <2>1, <2>2, <2>3, HolderMoves DEF Applying
<1> QED
  BY <1>5, <1>6, <1>7, <1>8, <1>9

\* The holder is the only one to apply anything.
LEMMA OnlyHolder ==
  ASSUME LifecycleInv, NEW t \in tasks, Applies(t)
  PROVE  /\ \A v \in tasks : Applies(v) => v = t
         /\ ~Emptied(t) => AllHaveStubs
<1>1. \A v \in tasks : Applies(v) => v = t
  BY DEF LifecycleInv, HolderOK
<1>2. \A v \in tasks : Emptied(v) => Applies(v)
  BY DEF Emptied, Applies, Applying
<1> QED
  BY <1>1, <1>2 DEF LifecycleInv, StubsOK, AllHaveStubs

LEMMA HoldingStep ==
  ASSUME LifecycleInv, NEW t \in tasks, Forget(t) \/ RegisterCleared(t) \/ Record(t)
  PROVE  LifecycleInv'
<1> USE DEF LifecycleInv
<1>1. Alone /\ cache' = cache /\ Applies(t)
  BY DEF Forget, RegisterCleared, Record, Alone, Applies, Applying
<1>2. (\A v \in tasks : Applies(v) => v = t) /\ (~Emptied(t) => AllHaveStubs)
  BY <1>1, OnlyHolder
<1>3. t \in Task /\ (t.kind = "clear" => t.pc = "forgetting") /\ (t.pc = "forgetting" => registered = {})
      /\ (t.pc = "recording" => Stubs(t.got) \subseteq registered)
  BY <1>1 DEF TasksOK, HolderOK, Applies, Applying
<1>4. CASE Forget(t)
  <2>1. /\ t.pc = "forgetting" /\ excluded' = {} /\ registered' = registered /\ registered = {}
        /\ lastSignal' = NoSignal /\ mislabelled' = mislabelled
    BY <1>3, <1>4 DEF Forget
  <2>2. Typed
    BY <2>1, Zenon DEF Typed, StubsOK, Flags
  <2>3. AllHaveStubs'
    BY <2>1 DEF AllHaveStubs
  <2>4. CASE t.kind = "clear"
    <3>1. Ends(t)
      BY <1>4, <2>4 DEF Forget
    <3> QED
      BY <1>1, <1>2, <2>1, <2>2, <2>3, <3>1, HolderEnds
  <2>5. CASE t.kind # "clear"
    <3>1. Proceeds(t, "registering")
      BY <1>4, <2>5 DEF Forget
    <3> QED
      BY <1>1, <1>2, <2>2, <2>3, <2>5, <3>1, HolderMoves DEF Applying
  <2> QED
    BY <2>4, <2>5
<1>5. CASE RegisterCleared(t)
  <2>1. t.pc = "registering" /\ Register(t) /\ Proceeds(t, "recording") /\ excluded' = excluded
    BY <1>5 DEF RegisterCleared, Register
  <2>2. Typed /\ Stubs(t.got) \subseteq registered' /\ (AllHaveStubs => AllHaveStubs')
    BY <2>1, RegisterAdds
  <2>3. Emptied(t) => Emptied([t EXCEPT !.pc = "recording"])
    BY <1>3, <2>1 DEF Emptied, Task
  <2> QED
    BY <1>1, <1>2, <1>3, <2>1, <2>2, <2>3, HolderMoves DEF Applying
<1>6. CASE Record(t)
  <2>1. /\ t.pc = "recording" /\ Ends(t) /\ excluded' = Paths(t.got)
        /\ UNCHANGED <<registered, lastSignal, mislabelled>>
    BY <1>6 DEF Record
  <2>2. t.got \in Version \cup {NoVersion}
    BY <1>3 DEF Task
  <2>3. Paths(t.got) \subseteq Path /\ (t.got \notin Version => Paths(t.got) = {})
    BY <2>2, VersionAssumption DEF Paths
  <2>4. Typed
    <3>1. mislabelled' \in BOOLEAN
      BY <2>1, Zenon DEF Flags
    <3> QED
      BY <2>1, <2>3, <3>1 DEF Typed, StubsOK, Plain
  <2>5. AllHaveStubs'
    BY <1>3, <2>1, <2>3 DEF AllHaveStubs, Stubs
  <2>6. ~(health = "Down" /\ ~refreshed /\ t.latest)
    BY <1>3, <2>1 DEF LastWins
  <2> QED
    BY <1>1, <1>2, <2>1, <2>4, <2>5, <2>6, HolderEnds
<1> QED
  BY <1>4, <1>5, <1>6

\* The engine or a handler did something once more.
LEMMA CountedStep ==
  ASSUME LifecycleInv, Event, UNCHANGED <<cache, lastSignal>>, served' \in Version,
         refreshing' \in {refreshing, refreshing + 1}
  PROVE  Plain'
BY BoundsAssumption DEF LifecycleInv, Plain, Event

\* Nothing happens to the coroutines and to what they have applied.
LEMMA TasksLeft ==
  ASSUME LifecycleInv, UNCHANGED <<tasks, registered, excluded>>
  PROVE  TasksOK' /\ HolderOK' /\ StubsOK'
BY Zenon DEF LifecycleInv, TasksOK, HolderOK, StubsOK

LEMMA LifecycleStep ==
  ASSUME LifecycleInv, [Next]_vars
  PROVE  LifecycleInv'
<1> USE DEF LifecycleInv
<1>1. MonitorInv'
  BY MonitorKept
<1>2. CASE Probing
  <2>1. TasksOK' /\ HolderOK' /\ StubsOK' /\ refreshed' \in BOOLEAN /\ LastWins'
    BY <1>1, <1>2, NotifiedStep DEF Probing, fixtures
  <2>2. Plain'
    BY <1>2 DEF Probing, fixtures, Plain
  <2>3. Flags'
    BY <1>2, <2>1, Zenon DEF Probing, fixtures, Flags
  <2> QED
    BY <1>1, <2>1, <2>2, <2>3
<1>3. CASE ShutdownArrives
  <2>1. TasksOK' /\ HolderOK' /\ StubsOK' /\ refreshed' \in BOOLEAN /\ LastWins'
    BY <1>1, <1>3, NotifiedStep DEF ShutdownArrives, fixtures
  <2>2. Plain'
    <3>1. Event /\ UNCHANGED <<served, fixtures, refreshing>>
      BY <1>3, Zenon DEF ShutdownArrives
    <3>2. served' \in Version
      BY <3>1 DEF Plain
    <3> QED
      BY <3>1, <3>2, CountedStep DEF fixtures
  <2>3. Flags'
    BY <1>3, <2>1, Zenon DEF ShutdownArrives, fixtures, Flags
  <2> QED
    BY <1>1, <2>1, <2>2, <2>3
<1>4. CASE ReadyArrives
  <2>1. TasksOK' /\ HolderOK' /\ StubsOK' /\ refreshed' \in BOOLEAN /\ LastWins'
    BY <1>1, <1>4, NotifiedStep DEF ReadyArrives, fixtures
  <2>2. Plain'
    <3>1. Event /\ refreshing' = refreshing + 1 /\ UNCHANGED <<served, fixtures>>
      BY <1>4, Zenon DEF ReadyArrives
    <3>2. served' \in Version
      BY <3>1 DEF Plain
    <3> QED
      BY <3>1, <3>2, CountedStep DEF fixtures
  <2>3. Flags'
    BY <1>4, <2>1, Zenon DEF ReadyArrives, fixtures, Flags
  <2> QED
    BY <1>1, <2>1, <2>2, <2>3
<1>5. CASE RefreshNow
  <2>1. TasksOK' /\ HolderOK' /\ StubsOK'
    BY <1>5, NumberStep DEF RefreshNow, fixtures
  <2>2. LastWins'
    BY <1>5, Zenon DEF RefreshNow, LastWins
  <2>3. Plain'
    <3>1. /\ refreshing > 0 /\ refreshing' = refreshing - 1
          /\ UNCHANGED <<served, fixtures, events>>
      BY <1>5, Zenon DEF RefreshNow
    <3> QED
      BY <3>1, BoundsAssumption DEF fixtures, Plain
  <2>4. Flags'
    BY <1>5, Zenon DEF RefreshNow, fixtures, Flags
  <2> QED
    BY <1>1, <2>1, <2>2, <2>3, <2>4
<1>6. CASE EngineFlips
  <2>1. Plain' /\ StubsOK' /\ HolderOK' /\ TasksOK'
    <3>1. Event /\ UNCHANGED <<served, fixtures, tasks, refreshing>>
      BY <1>6, Zenon DEF EngineFlips
    <3>2. served' \in Version
      BY <3>1 DEF Plain
    <3>3. TasksOK' /\ HolderOK' /\ StubsOK'
      BY <3>1, TasksLeft DEF fixtures
    <3> QED
      BY <3>1, <3>2, <3>3, CountedStep DEF fixtures
  <2>2. Flags' /\ LastWins'
    BY <1>6, Zenon DEF EngineFlips, Monitor!EngineFlips, fixtures, Flags, LastWins
  <2> QED
    BY <1>1, <2>1, <2>2
<1>7. CASE EngineEdits
  <2>1. Plain' /\ StubsOK' /\ HolderOK' /\ TasksOK'
    <3>1. Event /\ served' \in Version /\ UNCHANGED <<fixtures, tasks, refreshing>>
      BY <1>7, Zenon DEF EngineEdits
    <3>2. TasksOK' /\ HolderOK' /\ StubsOK'
      BY <3>1, TasksLeft DEF fixtures
    <3> QED
      BY <3>1, <3>2, CountedStep DEF fixtures
  <2>2. Flags' /\ LastWins'
    BY <1>7, Zenon DEF EngineEdits, monitor, fixtures, Flags, LastWins
  <2> QED
    BY <1>1, <2>1, <2>2
<1>8. CASE StartReload
  <2> DEFINE new == Launched(FreeId("reload"), "reload")
  <2>1. tasks' = tasks \cup {new} /\ health' = "Up"
    BY <1>8 DEF StartReload, monitor
  <2>2. /\ new \in Task /\ new.pc = "launched" /\ new.kind = "reload" /\ ~new.latest
        /\ \A t \in tasks : t.kind = new.kind => t.id # new.id
    BY FreeIdIsFree DEF Launched, Task
  <2>3. TasksOK'
    <3>1. IsFiniteSet(tasks')
      BY <2>1, FS_AddElement DEF TasksOK
    <3> HIDE DEF new
    <3> QED
      BY <2>1, <2>2, <3>1 DEF TasksOK
  <2>4. Plain' /\ LastWins'
    BY <1>8, <2>1 DEF StartReload, fixtures, Plain, LastWins
  <2>6. HolderOK' /\ StubsOK'
    <3> HIDE DEF new
    <3>1. UNCHANGED <<registered, excluded>>
      BY <1>8 DEF StartReload, fixtures
    <3>2. HolderOK'
      BY <2>1, <2>2, <3>1 DEF HolderOK, Applies, Applying, Stubs
    <3>3. StubsOK'
      BY <2>1, <2>2, <3>1 DEF StubsOK, Emptied
    <3> QED
      BY <3>2, <3>3
  <2>5. Flags'
    BY <1>8, Zenon DEF StartReload, fixtures, Flags
  <2> QED
    BY <1>1, <2>3, <2>4, <2>5, <2>6
<1>9. CASE \E t \in tasks : TaskStep(t)
  BY <1>9, FetchStep, AcquireStep, HoldingStep DEF TaskStep, ApplyStep
<1>10. CASE UNCHANGED vars
  <2>1. Plain' /\ StubsOK' /\ HolderOK' /\ TasksOK'
    <3>1. UNCHANGED <<tasks, registered, excluded>>
      BY <1>10 DEF vars, fixtures
    <3> QED
      BY <1>10, <3>1, TasksLeft DEF vars, fixtures, Plain
  <2>2. Flags' /\ LastWins'
    BY <1>10, Zenon DEF vars, monitor, fixtures, Flags, LastWins
  <2> QED
    BY <1>1, <2>1, <2>2
<1> QED
  BY <1>2, <1>3, <1>4, <1>5, <1>6, <1>7, <1>8, <1>9, <1>10 DEF Next

\* The invariant gives the type invariant the runs check.
LEMMA LifecycleTypes == LifecycleInv => TypeOK
<1> SUFFICES ASSUME LifecycleInv
             PROVE  TypeOK
  OBVIOUS
<1>1. Monitor!TypeOK
  <2>1. failures \in 0..Monitor!DownAfter /\ successes \in 0..Monitor!UpAfter /\ health \in Monitor!HealthState
    BY DEF LifecycleInv, MonitorInv, Counters, Monitor!DownAfter, Monitor!UpAfter, Monitor!HealthState
  <2> QED
    BY <2>1, Zenon DEF LifecycleInv, MonitorInv, Counters, Monitor!TypeOK
<1>2. refreshing \in 0..MaxEvents /\ events \in 0..MaxEvents
  BY BoundsAssumption DEF LifecycleInv, Plain
<1>3. served \in Version /\ cache \in Version \cup {NoVersion}
      /\ lastSignal \in Version \cup {NoVersion, NoSignal}
  BY DEF LifecycleInv, Plain
<1>4. /\ tasks \in SUBSET Task
      /\ \A t, u \in tasks : t.id = u.id /\ t.kind = u.kind => t = u
  BY DEF LifecycleInv, TasksOK
<1>5. registered \in SUBSET (Version \X Path) /\ excluded \in SUBSET Path
  BY DEF LifecycleInv, StubsOK
<1> QED
  BY <1>1, <1>2, <1>3, <1>4, <1>5, Zenon DEF LifecycleInv, Flags, TypeOK

\* LifecycleInv is inductive.
LEMMA LifecycleInvariant == Spec => []LifecycleInv
<1>1. LifecycleInv /\ [Next]_vars => LifecycleInv'
  BY LifecycleStep
<1> QED
  BY LifecycleInit, <1>1, PTL DEF Spec

(***************************************************************************)
(* What the plugin leaves to Specmatic has a stub there, whatever pushes,  *)
(* clears, refreshes and reloads overlap, but for the time in which the    *)
(* one that holds the mutex has yet to replace the paths.                  *)
(***************************************************************************)
THEOREM ExcludedHaveStubs == Spec => []ExcludedPathsHaveStubs
<1>1. LifecycleInv => ExcludedPathsHaveStubs
  BY LifecycleTypes DEF LifecycleInv, StubsOK, ExcludedPathsHaveStubs
<1> QED
  BY LifecycleInvariant, <1>1, PTL

(***************************************************************************)
(* After the engine went down nothing is left of its fixtures once the     *)
(* coroutines are done: the last transition wins.                          *)
(***************************************************************************)
THEOREM LastWinsForever == Spec => []LastTransitionWins
<1>1. LifecycleInv => LastTransitionWins
  <2> SUFFICES ASSUME LifecycleInv, Quiescent, health = "Down", ~refreshed
               PROVE  registered = {} /\ excluded = {}
    BY Zenon DEF LastTransitionWins
  <2>1. \A t \in tasks : t.kind # "clear"
    BY DEF Quiescent
  <2> QED
    BY <2>1 DEF LifecycleInv, LastWins
<1> QED
  BY LifecycleInvariant, <1>1, PTL
=============================================================================
