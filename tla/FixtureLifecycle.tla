-------------------------- MODULE FixtureLifecycle --------------------------
(***************************************************************************)
(* FixtureLifecycleManager.kt with the FixturesClient it fetches through,  *)
(* the SpecmaticStubBridge it registers with, the HealthMonitor that       *)
(* notifies it, and the handlers of ControlServer.kt.                      *)
(*                                                                         *)
(* Transitions and explicit refreshes take a sequence number and launch a  *)
(* coroutine; one more coroutine re-fetches periodically.  A number is     *)
(* only ever compared with the latest one: a coroutine is latest or not.   *)
(* All of them fetch without a lock and apply under transitionMutex, but a *)
(* request reads the recorded paths, and Specmatic its stubs, without that *)
(* mutex: an application is as many steps as it makes calls.  The stubs of *)
(* a set are registered in one, their paths are recorded after the last.   *)
(*                                                                         *)
(* The engine is external: its fixtures have a version, of which the ETag  *)
(* is a checksum (runtimeGateway.ts:145-159); a stub is a version and a    *)
(* path, and stubs no contract matches are refused by Specmatic.  The      *)
(* refresh of the routes between markUp and refreshNow takes time only.    *)
(***************************************************************************)
EXTENDS Integers, FiniteSets

CONSTANTS
  Version,          \* contents of the engine's fixtures
  FirstVersion,     \* of the engine the plugin boots with
  NoVersion,        \* before the first fetch: no stubs, no ETag
  NoSignal,         \* no stubs pushed, or cleared since
  Path,
  FixturePaths,     \* the paths of a version's fixtures
  Refused,          \* paths whose stubs Specmatic refuses
  MaxEvents,        \* bound: the engine stops, starts, edits its fixtures or notifies
  MaxTasks          \* bound: coroutines at work when a number is taken

ASSUME VersionAssumption ==
  /\ FirstVersion \in Version
  /\ NoVersion \notin Version /\ NoSignal \notin Version /\ NoVersion # NoSignal
  /\ FixturePaths \in [Version -> SUBSET Path]
  /\ Refused \subseteq Path

ASSUME BoundsAssumption == MaxEvents \in Nat /\ MaxTasks \in Nat

VARIABLES
  reachable, health, failures, successes, probe, overtaken,   \* HealthMonitor
  served,        \* external: the version the engine serves
  cache,         \* FixturesClient.cache
  tasks,         \* coroutines that are not done; transitionSeq is in "latest"
  booted,        \* start() has returned
  refreshing,    \* ready handlers between markUpExternal and refreshNow
  lastSignal,
  registered,    \* stubs Specmatic has
  excluded,      \* pushedPaths: requests the plugin leaves to Specmatic
  refreshed,     \* history: the latest number was taken by a refresh
  mislabelled,   \* history: fixtures were stored under the ETag of others
  events         \* how often the engine did

monitor  == <<reachable, health, failures, successes, probe, overtaken>>
fixtures == <<cache, lastSignal, registered, excluded, mislabelled>>
vars == <<monitor, served, fixtures, tasks, booted, refreshing, refreshed, events>>

Monitor == INSTANCE HealthMonitor

\* What is left to do under transitionMutex.
Applying == {"forgetting", "registering", "recording"}

Task == [id : Nat, kind : {"start", "push", "clear", "refresh", "reload"}, latest : BOOLEAN,
         pc : {"launched", "asking", "answered", "fetched", "labelled"} \cup Applying,
         got : Version \cup {NoVersion}, signal : Version \cup {NoVersion, NoSignal}]

TypeOK ==
  /\ Monitor!TypeOK
  /\ served \in Version
  /\ cache \in Version \cup {NoVersion}
  /\ tasks \in SUBSET Task
  /\ \A t, u \in tasks : t.id = u.id /\ t.kind = u.kind => t = u
  /\ booted \in BOOLEAN
  /\ refreshing \in 0..MaxEvents
  /\ events \in 0..MaxEvents
  /\ lastSignal \in Version \cup {NoVersion, NoSignal}
  /\ registered \in SUBSET (Version \X Path)
  /\ excluded \in SUBSET Path
  /\ refreshed \in BOOLEAN
  /\ mislabelled \in BOOLEAN

Launched(id, kind) ==
  [id |-> id, kind |-> kind, latest |-> kind # "reload", pc |-> "launched", got |-> NoVersion, signal |-> NoSignal]

\* start() has taken its number: the monitor is Up when the plugin boots.
Init ==
  /\ Monitor!Init
  /\ served = FirstVersion
  /\ cache = NoVersion
  /\ tasks = {Launched(1, "start")}
  /\ booted = FALSE
  /\ refreshing = 0
  /\ lastSignal = NoSignal
  /\ registered = {}
  /\ excluded = {}
  /\ refreshed = FALSE
  /\ mislabelled = FALSE
  /\ events = 0

-----------------------------------------------------------------------------
(* Transitions of the monitor.  Listeners run under its lock.              *)

FreeId(kind) == CHOOSE n \in 1..(Cardinality(tasks) + 1) : \A t \in tasks : t.kind = kind => t.id # n

\* A push or a clear that has not begun notices that it is stale and returns.
NoticesAtOnce(t) == t.pc = "launched" /\ t.kind \in {"push", "clear"} /\ t.latest

\* transitionSeq.incrementAndGet(), and the launch of at most one coroutine.
TakeNumber(kinds) ==
  /\ tasks' = {[t EXCEPT !.latest = FALSE] : t \in {u \in tasks : ~NoticesAtOnce(u)}}
               \cup {Launched(FreeId(kind), kind) : kind \in kinds}
  /\ Cardinality(tasks') <= MaxTasks

\* Only a recovery pushes.
OnTransitionFromDown(to) ==
  /\ TakeNumber(CASE to = "Up" /\ health = "Down" -> {"push"} [] to = "Down" -> {"clear"} [] OTHER -> {})
  /\ refreshed' = FALSE

\* onTransition.  Degraded only takes a number: what is in flight is stale.
OnTransition(to) ==
  /\ TakeNumber(CASE to = "Up" -> {"push"} [] to = "Down" -> {"clear"} [] to = "Degraded" -> {})
  /\ refreshed' = FALSE

Notified ==
  IF health' = health THEN UNCHANGED <<refreshed, tasks>> ELSE OnTransition(health')

Probing ==
  /\ \/ Monitor!AnswerProbe \/ Monitor!ApplyProbe
  /\ Notified
  /\ UNCHANGED <<served, fixtures, booted, refreshing, events>>

Event == events < MaxEvents /\ events' = events + 1

\* The control server starts last, and stays.
ShutdownArrives ==
  /\ booted
  /\ Event
  /\ Monitor!MarkDown
  /\ Notified
  /\ UNCHANGED <<served, fixtures, booted, refreshing>>

ReadyArrives ==
  /\ booted
  /\ Event
  /\ Monitor!MarkUp
  /\ Notified
  /\ refreshing' = refreshing + 1
  /\ UNCHANGED <<served, fixtures, booted>>

\* The handler goes on with refreshNow.
RefreshNow ==
  /\ refreshing > 0
  /\ refreshing' = refreshing - 1
  /\ TakeNumber({"refresh"})
  /\ refreshed' = TRUE
  /\ UNCHANGED <<monitor, served, fixtures, booted, events>>

\* External.
EngineFlips ==
  /\ Event
  /\ Monitor!EngineFlips
  /\ UNCHANGED <<served, fixtures, tasks, booted, refreshing, refreshed>>

EngineEdits ==
  /\ Event
  /\ served' \in Version \ {served}
  /\ UNCHANGED <<monitor, fixtures, tasks, booted, refreshing, refreshed>>

-----------------------------------------------------------------------------
(* The coroutines.                                                         *)

\* The number taken is not compared again.
NeverStale(t) == TRUE

Latest(t) == t.latest

Becomes(t, u) == tasks' = (tasks \ {t}) \cup {u}
Ends(t) ==
  /\ tasks' = tasks \ {t}
  /\ booted' = (booted \/ t.kind = "start")

StartReload ==
  /\ booted /\ health = "Up"
  /\ \A t \in tasks : t.kind # "reload"
  /\ tasks' = tasks \cup {Launched(FreeId("reload"), "reload")}
  /\ UNCHANGED <<monitor, served, fixtures, booted, refreshing, refreshed, events>>

\* fetchFixtures sends the ETag of what is cached.
Ask(t) ==
  /\ t.pc = "launched" /\ t.kind # "clear"
  /\ Becomes(t, [t EXCEPT !.pc = "asking", !.signal = cache])
  /\ UNCHANGED <<monitor, served, fixtures, booted, refreshing, refreshed, events>>

\* doFetch: 304 copies what the cache holds by now; a failed call ends the
\* fetch, with what the cache holds.
Answered(t) ==
  /\ t.pc = "asking"
  /\ LET stored == reachable /\ served # t.signal
     IN  Becomes(t, [t EXCEPT !.pc = IF reachable THEN "answered" ELSE "fetched",
                              !.got = IF stored THEN served ELSE cache, !.signal = NoSignal])
  /\ UNCHANGED <<monitor, served, fixtures, booted, refreshing, refreshed, events>>

\* The rest of fetchFixtures: the last answer to be stored is what is cached.
Store(t) ==
  /\ t.pc = "answered"
  /\ cache' = t.got
  /\ Becomes(t, [t EXCEPT !.pc = "fetched"])
  /\ UNCHANGED <<monitor, served, lastSignal, registered, excluded, mislabelled, booted,
                 refreshing, refreshed, events>>

\* changeSignal: the ETag the client has now.
Label(t) ==
  /\ t.pc = "fetched"
  /\ Becomes(t, [t EXCEPT !.pc = "labelled", !.signal = cache])
  /\ UNCHANGED <<monitor, served, fixtures, booted, refreshing, refreshed, events>>

Paths(version) == IF version = NoVersion THEN {} ELSE FixturePaths[version] \ Refused
Stubs(version) == {version} \X Paths(version)

Applies(t) == t.pc \in Applying

\* The mutex is only held during a call.
FreeBetweenCalls == TRUE

\* transitionMutex.
Free == \A t \in tasks : ~Applies(t)

Proceeds(t, pc) == Becomes(t, [t EXCEPT !.pc = pc]) /\ UNCHANGED booted

\* The checks are made once: the engine may go down and numbers may be taken
\* while a set is applied.
MayApply(t) ==
  CASE t.kind = "reload"                     -> health = "Up"
    [] t.kind = "refresh"                    -> Latest(t) /\ health = "Up"
    [] t.kind \in {"start", "push", "clear"} -> Latest(t)

\* applyPush, and the end of a hot reload, up to recordPushedPaths: onto what
\* is left of the stubs.
Register(t) ==
  /\ lastSignal' = t.signal
  /\ registered' = registered \cup Stubs(t.got)
  /\ mislabelled' = (mislabelled \/ t.signal # t.got)
  /\ Proceeds(t, "recording")

\* clearFixtures up to recordPushedPaths.
ClearStubs(t) ==
  /\ registered' = {}
  /\ Proceeds(t, "forgetting")
  /\ UNCHANGED <<lastSignal, mislabelled>>

\* hotReloadIfChanged: the recorded paths are left alone.
ClearIfChanged(t) ==
  /\ lastSignal' = t.signal
  /\ IF lastSignal \in {NoSignal, t.signal}
     THEN Ends(t) /\ UNCHANGED registered
     ELSE Proceeds(t, "registering") /\ registered' = {}
  /\ UNCHANGED mislabelled

\* transitionMutex.withLock: the checks and the first call, one step since
\* nothing that may happen in between depends on that call.
Acquire(t) ==
  /\ t.pc = IF t.kind = "clear" THEN "launched" ELSE "labelled"
  /\ Free
  /\ \/ ~MayApply(t) /\ Ends(t) /\ UNCHANGED <<lastSignal, registered, mislabelled>>
     \/ /\ MayApply(t)
        /\ \/ t.kind = "reload" /\ ClearIfChanged(t)
           \/ t.kind \in {"start", "push"} /\ Register(t)
           \/ t.kind \in {"refresh", "clear"} /\ ClearStubs(t)
  /\ UNCHANGED <<monitor, served, cache, excluded, refreshing, refreshed, events>>

\* The rest of clearFixtures: the paths and the signal.
Forget(t) ==
  /\ t.pc = "forgetting"
  /\ excluded' = {}
  /\ lastSignal' = NoSignal
  /\ IF t.kind = "clear" THEN Ends(t) ELSE Proceeds(t, "registering")
  /\ UNCHANGED <<monitor, served, cache, registered, mislabelled, refreshing, refreshed, events>>

\* A set after the stubs of another have been removed.
RegisterCleared(t) ==
  /\ t.pc = "registering"
  /\ Register(t)
  /\ UNCHANGED <<monitor, served, cache, excluded, refreshing, refreshed, events>>

\* recordPushedPaths.
Record(t) ==
  /\ t.pc = "recording"
  /\ excluded' = Paths(t.got)
  /\ Ends(t)
  /\ UNCHANGED <<monitor, served, cache, lastSignal, registered, mislabelled, refreshing, refreshed, events>>

ApplyStep(t) == Acquire(t) \/ Forget(t) \/ RegisterCleared(t) \/ Record(t)

TaskStep(t) == Ask(t) \/ Answered(t) \/ Store(t) \/ Label(t) \/ ApplyStep(t)

Next ==
  \/ Probing \/ ShutdownArrives \/ ReadyArrives \/ RefreshNow \/ EngineFlips \/ EngineEdits
  \/ StartReload
  \/ \E t \in tasks : TaskStep(t)

Spec == Init /\ [][Next]_vars

\* Dispatchers run every coroutine, calls time out, handlers go on.
FairSpec ==
  /\ Spec
  /\ WF_vars(Probing)
  /\ WF_vars(RefreshNow)
  /\ WF_vars(StartReload)
  /\ WF_vars(\E t \in tasks : t.kind = "reload" /\ TaskStep(t))
  /\ \A kind \in {"start", "push", "clear", "refresh"} :
       SF_vars(\E t \in tasks : t.kind = kind /\ TaskStep(t))

-----------------------------------------------------------------------------
(* Properties.                                                             *)

Quiescent == refreshing = 0 /\ \A t \in tasks : t.kind = "reload"

\* The stubs are gone, the paths are still those of the old set.
Emptied(t) ==
  \/ t.pc = "forgetting"
  \/ t.kind = "reload" /\ t.pc \in {"registering", "recording"}

(***************************************************************************)
(* A request that the plugin leaves to Specmatic as a fixture finds a stub *)
(* there: StatefulRequestHandler.kt:76 decides by the recorded paths, and  *)
(* Specmatic would make up an answer for an engine path without a stub.    *)
(* It may do so while a coroutine has removed the stubs and has yet to     *)
(* replace the paths, since requests do not wait for the mutex, but never  *)
(* longer: no other that overlaps leaves paths behind without stubs.       *)
(***************************************************************************)
ExcludedPathsHaveStubs ==
  /\ TypeOK
  /\ (\A t \in tasks : ~Emptied(t)) => \A p \in excluded : \E v \in Version : <<v, p>> \in registered

(***************************************************************************)
(* Once the coroutines are done the registered stubs reflect the latest    *)
(* transition (FixtureLifecycleManager.kt:60): none are left if it was     *)
(* Down, although pushes, refreshes and reloads were on their way.         *)
(***************************************************************************)
LastTransitionWins ==
  Quiescent /\ health = "Down" /\ ~refreshed => registered = {} /\ excluded = {}

(***************************************************************************)
(* The monitor in this composition, which is moved by the control server   *)
(* as well as by its probes, is the one of HealthMonitor: its counters fit *)
(* its state, and a late answer does not undo a shutdown.                  *)
(***************************************************************************)
MonitorIsSound == [][Monitor!CountersFitState' /\ Monitor!StaleProbeRevivesNot]_vars

(***************************************************************************)
(* When the engine stays up, or stays down, the monitor finds out: probes, *)
(* late results and late notifications do not keep it wrong.               *)
(***************************************************************************)
MonitorConverges ==
  /\ <>[]reachable => <>[](health = "Up")
  /\ <>[]~reachable => <>[](health = "Down")

(***************************************************************************)
(* If the ETag has changed the new set is pushed, whatever failed or was   *)
(* superseded before (FixtureLifecycleManager.kt:31): while the engine     *)
(* stays up, the plugin ends up with its fixtures; unless a set was stored *)
(* under the ETag of another fetch, which nothing notices later.           *)
(***************************************************************************)
ReloadCatchesUp ==
  <>[]reachable => <>(mislabelled \/ [](excluded = Paths(served)))
=============================================================================
