# Potemkin in TLA+

Potemkin is a contract-driven mock runtime: a TypeScript engine that answers
HTTP requests from event-sourced, stateful aggregates, beside a Kotlin plugin
that feeds stubs and routes of the engine to Specmatic. This directory models
the parts of it whose correctness depends on the order in which things happen.
Paths are relative to the repository; `engine.ts` is `src/core/engine.ts`, and
the Kotlin files are under `plugin/src/main/kotlin/com/potemkin/specmatic/`.

Everything was translated from the source. Where a doc or a comment says
something else than the code does, the model follows the code, and the
disagreement is a run that is expected to be violated, or an entry in the
section "Disagreements".

## 1. Inventory

### 1.1 The components

| Component | State | Operations | Modelled by |
|---|---|---|---|
| Request path of `RuntimeEngine` (`engine.ts`) | event store, state graph, idempotency records, barrier, `resetGeneration`, `initializationPromise`, the unit of work (`tx`) | `execute`, `executeInternal`, `executeMutation`, `runCommands`, `runPostCommit`, `storeIdempotency`, `reset`, `initialize` | `RuntimeEngine` |
| Stores (`core/storage.ts`), versions (`domain/eventSourcing.ts`) | the log, the projected entities, the records | append, version lookup, projection | `EventSourcing`; abstractly `AtomicStore` |
| Keyed locks (`engine.ts` `acquire`, `acquireMany`) | the map of promises | acquire, release | `KeyedLocks`; abstractly `FifoLocks` |
| Bulk and transactional batches (`executeBatch`) | `activeBatch`, its records and post-commit work, the checkpoint | items, flush, rollback | `RuntimeBatch` |
| Sagas (`runSagas`) | journal, completed steps, locks of the request | steps, compensations | `Saga` |
| Reactions and dispatched commands (`runCommands`, `enqueueReactions`) | command queue, `tx`, `reactionKeys`, `reactionEvents` | select, emit, react, dispatch, respond | `Cascade` |
| Reload (`replaceProgram`, `runtime/system.ts`, `parser/configuredWatcher.ts`) | program, contract, fingerprints, timer, checkpoint | poll, reload, replace, roll back | `Reload` |
| Health monitor (`reliability/HealthMonitor.kt`) | state and two counters, the probe on the wire | probe, mark up, mark down | `HealthMonitor` |
| Fixture lifecycle (`reliability/FixtureLifecycleManager.kt`, `FixturesClient.kt`, `SpecmaticStubBridge.kt`) | transition number, fixture cache, last signal, stubs, excluded paths | push, clear, refresh, hot reload | `FixtureLifecycle`, which contains `HealthMonitor` |
| Route discovery (`RoutesDiscoveryClient.kt`) | routes, ETag, expiry, who fetches | cold, background and forced fetch | `RouteDiscovery` |
| Forwarding (`StatefulRequestHandler.kt`, `reliability/ResilientForwarder.kt`, `CqrsBackendClient.kt`) | circuit breaker, calls on the wire | route, admit, call, retry | `Forwarding`, which contains `RouteDiscovery` |
| Control server of the plugin (`control/ControlServer.kt`), its start (`PluginInitializer.kt`) | none of their own | ready, shutdown, refresh | partly, in `FixtureLifecycle` and `Forwarding` |
| Derived projections, webhooks (`runPostCommit`, `webhooks/transport.ts`) | projection rows, attempts | `runProjections`, `runWebhooks`, `deliver` | `PostCommit`, within `Saga`; one effect per item in `RuntimeBatch` |
| What expires: idempotency records with fingerprints (`core/storage.ts`, `engine.ts`), sessions (`identity/sessionStore.ts`), dynamic faults (`core/faults.ts`), the clock (`runtime/host.ts`) | three tables of ends, the clock's offset | look up, store, log in, sweep, add, prune, advance | `Expiry`; a fault is also an answer without effect in `Saga` and `RuntimeBatch` |
| HTTP gateway and admin routes (`http/`) | none of their own | translate requests | partly: matching in `Reload`, ETags and the forward endpoint in the modules of the plugin, `reset` |
| Idempotency reservations (`idempotency/store.ts`) | reservations | reserve, complete, expire | not modelled: the engine does not use them |
| Graceful shutdown (`lifecycle/`) | none after the signal | close in order, exit | not modelled: one handler that runs to its end and exits |
| Patches, DSL, CEL, parser, compiler, contract validation, generators, lint, language server, conformance, tracing | none shared | sequential functions | not modelled: a validator or reducer either throws or returns something, and both are choices of the models |

### 1.2 How they interact

Every top-level request and every batch takes one FIFO lock,
`__runtime_batch__`, the *barrier*, for its whole life. Inside it,
`executeInternal` takes keyed locks: the aggregate, the idempotency key and,
in programs with reactions or dispatched commands, a cascade lock. Mutations
copy the state graph, run a queue of commands on the copy - each event is
projected at once and answered by reactions, each command's dispatches join the
queue - and install states and events in one synchronous stretch. Post-commit
work (projections, webhooks, sagas) follows, awaited, under the barrier; saga
steps are *secondary commands* that go through `executeUnlocked`: no barrier,
no cascade lock, the other locks as usual. The administrative reset clears the
same stores **without** the barrier, then awaits hooks, then seeds.

A reload installs the new contract, waits for `initializationPromise` and then
for the barrier, and replaces the program: from empty stores if the watcher
asks, over the stored events, with a checkpoint to go back to, if the SDK does.
The gateway matches a request against contract and program before it queues.

The plugin probes the engine, and the engine tells it when it is ready or shuts
down; either moves the health state, whose transitions push stubs to Specmatic
or clear them, in coroutines that fetch from the engine. A request that reaches
the plugin goes to the engine if the route cache has its path, through a circuit
breaker and up to three attempts, and else to Specmatic.

### 1.3 What is hard

JavaScript runs one task at a time, so two steps interleave only at an await.
The plugin has threads, coroutines and locks. The hard behaviours are:

- a reset between two steps of a request, a batch, a reload or another reset;
- an exception between the commit and the idempotency record, or in the
  post-commit work of a batch whose earlier items are delivered or recorded;
- locks that are not reentrant, taken by commands that run for a command which
  holds some; several locks taken one by one by many callers; the map entry of a
  lock that is forgotten while somebody queues behind it;
- sagas: one step of several failing, compensations that fail in turn, headers
  (idempotency key, If-Match) inherited by every step;
- an endpoint that refuses, a reducer or a hook that throws in the middle of the
  post-commit work, for the trigger of a saga or for one of its steps;
- numbering events of one aggregate when a unit of work emits several;
- reactions and dispatches that run in circles, share one budget, one set of
  keys and one copy of the state, and are listed twice for a YAML boundary;
- a reload that fails half way, one that overtakes a request matched under the
  previous contract, edits while the watcher is busy;
- results of fetches and probes that are applied after something newer has
  happened: an external mark, a later transition, another fetch of the cache;
- lifetimes that are read by the clock of a request and end by the clock of the
  runtime, which an administrator moves in both directions;
- calls that time out and are executed all the same, an engine that crashes and
  forgets, a breaker that decides from calls it admitted earlier.

`PROJECT.json` "hazards" lists these and the others at their lines, with the
properties that would catch them going wrong.

### 1.4 What makes each part correct

- *Request path*: state is the projection of the log; versions are contiguous;
  a unit of work is there with all its events or none; an error has no effect;
  a key executes once; If-Match loses no update; everybody is answered; reset
  restores the boot state.
- *Locks*: exclusion per key, FIFO, no deadlock.
- *Batches*: all or nothing; a rollback touches only its own work; nothing is
  delivered before the last item has succeeded; keys answer for what survived.
- *Sagas*: the journal is a documented lifecycle; no effect of a failed saga is
  neither undone nor noted; sagas end.
- *Projections and webhooks*: what the outside sees follows the log.
- *Cascades*: every unit ends within its bounds; a reaction fires once for an
  aggregate and is not forgotten; the order of the events is fixed by the
  definitions; the caller is answered with the result of its own command.
- *Reload*: state, events, contract and program belong together whenever nobody
  is in the middle; the watcher starts from a clean state and catches up.
- *Lifetimes*: nobody's own clock ends anything for others; a key answers only
  for the body it was executed with.
- *Plugin*: monitor, stubs and routes follow the engine; nothing stale wins over
  something newer; owned paths reach the engine; a keyed request takes effect
  once.

## 2. The modules

```
EventSourcing ──► AtomicStore                (abstract store)
      │               ▲ refinement
      ├──► RuntimeEngine ──► RuntimeEngineProofs ◄── EventSourcingProofs
      └──► RuntimeBatch ──► RuntimeBatchProofs
FifoLocks ◄─refinement─ KeyedLocks ─┐
PostCommit ◄─INSTANCE─ Saga ────────┴──► LockAndSagaProofs
Cascade, Expiry ──► RequestProofs    Reload ──► ReloadProofs
HealthMonitor ◄─INSTANCE─ FixtureLifecycle ──► FixtureLifecycleProofs
RouteDiscovery ◄─INSTANCE, refinement─ Forwarding ──► ForwardingProofs
MC<module>: instances for TLC
```

`LockAndSagaProofs` and `RequestProofs` extend two modules each; therefore the
names of `KeyedLocks` and `Expiry` carry a prefix (`LockInit`, `ExpirySpec`).

**EventSourcing** is the vocabulary: log, state graph, versions, append, replay,
the baseline. The log is kept per aggregate. A reducer is an arbitrary
function, so the state of an entity is the *history of causes* its reducers
were applied to: two histories that are equal give equal states for every
reducer, two that differ may not. A command emits one event per write; an
event that emits several is a command with several writes on one aggregate.

**RuntimeEngine** is one request at a time through `pc`:
`idle → queued → entered → staging → postCommit → ok | replayed | failed`.

| Action | Code |
|---|---|
| `Submit` | the client's call; `execute` queues on the barrier (`engine.ts:365-370`) |
| `Enter` | the barrier is granted, `initializationPromise` resolved |
| `ReplayCached` | `cachedIdempotency` answers (697-709, 743-754) |
| `BeginUnitOfWork` | existence and If-Match, then `tx` copies the state graph (1811-1867) |
| `RunCommand` | one turn of the `runCommands` loop (1920-2123) |
| `FinishDryRun`, `Commit`, `CommitAfterReset` | the end of `executeMutation` (1881-1909) |
| `FinishPostCommit`, `FailPostCommit` | `runPostCommit` returns or throws (2422-2446) |
| `Abort` | every throw and every fault before the commit |
| `Expire` | a record's TTL passes |
| `ResetClear`, `ResetHookFails`, `ResetInitialize`, `ResetDone` | `reset` between its awaits (785-802) and `initialize` (964-1054) |

`epoch`, `txEpoch`, `stale`, `wiped`, `lapsed`, `fresh` are history variables
that only the properties read. The inner keyed locks are not in this module:
all its commands run under the barrier, so they are never contended.

**AtomicStore** is what the stores promise: units of work one at a time, whole,
numbered without gaps, with the view always the projection; a wipe; a seeding.
`RuntimeEngine` refines it with `log <- events, view <- state`.

**KeyedLocks** has the promises of `acquire`: the map `locks` names the promise
of the last caller of every key, `previous` what a caller awaits, `released`
the resolved promises. `Enqueue` is the synchronous head of `acquire`,
`Resume` the continuation of an await (next key, or return), `Release` the loop
of `acquireMany`'s release with its conditional delete. `queue` is history.

**FifoLocks** is what it promises: one queue per key whose head holds the lock.
`RuntimeEngine`, `RuntimeBatch` and `Reload` use a FIFO queue for the barrier;
theorem `LocksAreFifo` is what justifies it.

**RuntimeBatch** has single, bulk and transactional calls: `Start` (434-457),
the items (`ItemAnswered`, `ItemBegin`, `ItemThrows`, `CommitDeferred`,
`CommitItemNow`, `CommitItemAfterReset`, `ItemPostCommit`,
`ItemPostCommitThrows`), `CloseItems` (no active batch, records flushed,
466-467), `PostCommit`, `PostCommitThrows` (468-471), `Finish`, the rollback in
`Fail` (477-486), `RejectNested` (434) and a reset. `delivered` is the outside
world, which no rollback reaches.

**Saga** follows one request after its commit. `phase` is the place in it:
`trigger` (the post-commit work of the triggering command), `next` (a saga),
`do`/`doLocks`/`doPost` (a step, queued on its locks, committed and in its own
post-commit work), `undo`/`undoLocks`/`undoPost` (a compensation). `held` are the locks of the
triggering command: its own and the cascade lock, or none in a batch, which has
released its items' locks by then. `recorded` are the operations that have a
record under the client's key. A plan's `may` names what can go wrong in it
beside a step that throws: a declared fault, post-commit work that throws, a
throwing expression or reducer, an endpoint that refuses; `skipped` what the
headers of the request skip.

**PostCommit**, which `Saga` contains, is `runPostCommit` up to the sagas
(`engine.ts:2422-2443`): `HookReturns`, `Project` with the events whose reducers
throw left out (2448-2522), `Deliver` and `DeliveryFails` for each attempt of a
webhook (2524-2580), and `PostCommitThrows` for the hook, the trigger, the url
and the payload, which nothing catches. `log` has the events in the order they
were committed, `rows` those the projection was reduced from, `delivered` those
the endpoint has accepted. The work of a step runs while that of its trigger is
over and the rest of its saga waits, so one `stage` is enough.

**Cascade** is one unit of work from the inside. `queue` holds the commands,
`current` the one that runs with the state it found (a sequence of at most one,
as `response` is), `toEmit` the types it has
yet to emit, `frames` the calls of `enqueueReactions`, innermost first.

| Action | Code |
|---|---|
| `Dequeue` | depth, existence, `findBehavior`, fallback, guard, the choice of emissions (1932-2025) |
| `Emit` | `createEvent`, `applyEvent`, the call of `enqueueReactions` (2025-2031) |
| `RefuseReaction` | the throws of `enqueueReactions`: budget, target, existence, validation (2323-2372) |
| `SkipReaction` | its `continue`s: the condition, the fired key (2334-2374) |
| `Fire`, `ReactionsEnd` | a reaction, and the return from the recursion (2374-2420) |
| `Respond` | postcondition, dispatches, the first response (2032-2121) |
| `Finish` | the queue is empty (2121-2123) |

A state is the set of event types projected into an entity and an expression a
condition on that set (some it must have, some it must lack): enough to tell
which state an expression was given. `events` carry their trigger, rule and
command as history.

**Reload** has a step for every await between an edit of the sources and the
new program in service.

| Action | Code |
|---|---|
| `Poll`, `Compare`, `EndPoll`, `ForceReload`, `LoadSources`, `Snapshot` | the watcher and its single flight (`configuredWatcher.ts:66-146`) |
| `CallByHand`, `Call` | `system.reload`: compile, lint, the contract (`runtime/system.ts:320-361`) |
| `Awaits` (in `Call`), `Enters` | `replaceProgram` awaits the `initializationPromise` it finds; once that is resolved its callers go on in order and queue for the barrier (`engine.ts:815-816`) |
| `Begin`, `AfterHook`, `Initialized` | without the events: install, clear, hook, `initialize` (820-839, 964-1054) |
| `BeginPreserving`, `Validated` | with the events: checkpoint, replay, validation, or roll back (841-922) |
| `Reset`, `ResetAfterHook`, `ResetInitialized` | `reset`, which takes no barrier (785-802) |
| `Match`, `Execute` | the gateway, and `executeInternal` behind the barrier |

Of a program the boundaries it knows and the step at which it fails matter, of a
boundary's events only whether there are any, of the state which events it was
projected from and by which program.

**Expiry** has one request at a time, behind the barrier, with a clock of its
own: `Authenticate` finds its session (`engine.ts:1056-1084`), `AnswerFault` a
living fault (1407-1442), `RefuseOtherBody`, `Replay` and `BeginExecution` are
the three outcomes of fingerprint and record (697-709, 743-754, 3244-3263),
`StoreRecord` and `EndWithoutRecord` those of the execution (755-775).
`Login`, `Logout`, `Sweep`, `AddFault`, `RemoveFault` and `ListFaults` are the
operations of the other two tables, `AdvanceClock`, `ResetClock` and `Reset`
those of administrators. An entry is its end; `promised` are the entries that
were stored and that nothing has removed or ended since. Requests differ in
key, body, session and offset. They ask for what needs an actor, programs hash
the body (`hashIncludesBody`), and all sessions are those of one actor, which a
stored key contains. The two lookups before and behind the keyed locks are one:
nothing of the table moves between them but by a reset.

**HealthMonitor** is the state machine of the probes: `AnswerProbe` is the call
outside the lock, `ApplyProbe` its result under it, `MarkDown` and `MarkUp` the
notifications. **FixtureLifecycle** contains it (`INSTANCE`), with one record
per coroutine in `tasks`. A transition number is only ever compared with the
latest one, so a coroutine is `latest` or not.

| Action | Code |
|---|---|
| `Probing`, `ShutdownArrives`, `ReadyArrives` | a step of the monitor with `onTransition` under its lock (`FixtureLifecycleManager.kt:132-174`, `ControlServer.kt:77-102`) |
| `RefreshNow` | the handler goes on to `refreshNow` (117-118) |
| `StartReload` | the refresh loop (178-187) |
| `Ask`, `Answered`, `Store` | `fetchFixtures`: the ETag is read, the call answered, the cache written (`FixturesClient.kt:62-67,104-159`) |
| `Label` | `changeSignal` (197-203) |
| `Acquire` | takes `transitionMutex` and makes the checks: superseded, or the first call of `applyPush`, `clearFixtures` or `hotReloadIfChanged` (117-172, 219-297) |
| `Forget`, `RegisterCleared`, `Record` | the other calls under the mutex: a step each, since requests read the recorded paths without it (230, 251, 298-306, `StatefulRequestHandler.kt:76`) |
| `EngineFlips`, `EngineEdits` | external |

**RouteDiscovery** is the route cache with its three fetchers. A fetch reads the
ETag (`Send`), is answered or fails (`Answer`, `Fail`), and writes the cache
(`Finish`); nothing excludes the fetches from each other. **Forwarding** takes
requests through it: `Route`, `EnterColdFetch`, `LeaveColdFetch`, `Match` decide
whether the engine owns the path (`RoutesDiscoveryClient.kt:103-173`,
`StatefulRequestHandler.kt:93-101`), `Admit` asks the circuit breaker, `Call`,
`TimeOut` and `Retry` are the attempts inside it
(`ResilientForwarder.kt:44-83`, `CqrsBackendClient.kt:55-130`). The engine is
external: `Execute` executes a call that is on the wire, waited for or not, and
`EngineChanges` makes it slow, crashes it (what is in memory dies), restarts or
reloads it. `Forwarding` refines `RouteDiscovery!Spec`.

## 3. The runs

Passing runs; every property has a mutant of the code that violates it under the
same configuration ("mutants" in `PROJECT.json`).

| Run | Question |
|---|---|
| `engine` | Requests of mixed kinds (creation with dispatch, two writes of one aggregate, conditional, keyed, dry run), two resets at any moment, expiring records: `StoresAgree`, `UnitsAreAtomic`, `KeysExecuteOnce`, `NoLostUpdate` |
| `engine_quiet_reset` | If resets wait for an idle system: `ResetRestoresBaseline`, the stores refine `AtomicStore`, and `EveryRequestAnswered` although hooks fail |
| `locks` | `MutualExclusion`, refinement of `FifoLocks`, `EveryTaskServed` for callers whose keys overlap in a circle |
| `batch` | Failing items, failing hooks and a reset: `RollbackIsWhole`, `RollbackIsLocal`, `NoEarlyDelivery`, `KeysExecuteOnce`, `EveryCallAnswered` |
| `saga` | Requests in which everything throws, and some in which only steps do: `JournalFollowsLifecycle`, `NoOrphanEffects`, `OutsideFollowsLog`, `SagasEnd` |
| `cascade` | Some 8,300 programs of reactions and dispatches in circles: `OncePerTarget`, `WorkIsBounded`, `FanOutIsComplete`, `StableOrder`, `AnswerIsOwn`; a unit that cannot go on would be a deadlock |
| `reload` | Edits, forced reloads, a reload by the SDK, a reset and a request: `StoresFitProgram`, `ContractFitsProgram`, `CleanStart`, `SourcesCatchUp`, `EveryoneIsAnswered` |
| `expiry` | Requests with clocks ahead, behind and in step, administrators, the sweep: `LifetimesAreShared`, `ReplaysFitBodies` |
| `fixtures` | The engine stops, starts, edits and notifies: `ExcludedPathsHaveStubs`, `LastTransitionWins`, `MonitorIsSound`, `MonitorConverges`, `ReloadCatchesUp` |
| `forwarding` | Two requests and an engine that is slow, crashes, restarts or is reloaded: `OwnedPathsAreForwarded`, `EffectsFitAnswers`, refinement of `RouteDiscovery`, `Recovers` |

Runs that are violated:

| Run | What the counterexample shows |
|---|---|
| `saga_self_lock` | A saga step on the aggregate of its trigger queues behind the lock its own request holds (comment at `engine.ts:737-739`) |
| `reload_previous` | A hook throws in a reload by the watcher: the new program stays, with emptied stores (README.md:2339-2342) |

**Conditions in the properties.** `StoresAgree` of `RuntimeEngine` is stated
while `~stale`: `stale` turns true when a unit of work that began before the
stores were replaced is committed after it, which the code allows, and false at
the next clear. `KeysExecuteOnce` of `RuntimeEngine` excepts requests whose
record expired or was cleared and those in flight when a reset cleared the
records, and its run has hooks that do not throw. That of `RuntimeBatch`
excepts histories with a reset and those in which
the post-commit work of a call threw (`HookThrew`); `NoOrphanEffects` requests
with a client key, faults or throwing hooks. `ContractFitsProgram` excepts
histories in which a reload failed after it had installed the contract or was
called while another awaited an older promise of `initialize`,
`ExcludedPathsHaveStubs` the time in which a coroutine has removed the stubs and
not yet replaced the recorded paths,
`SourcesCatchUp` an edit between load and fingerprints, a program installed by
the SDK and an `initialize` that was rejected; `ReloadCatchesUp` a set that was
stored under the ETag of another fetch; `ReplaysFitBodies` a key that
somebody has found expired. Section 7 says what happens in the cases
excepted. `Recovers` asks for requests that keep coming, and for its second part
for an end of the handler's fetches.

**Bounds.** `engine`: three requests, so that two can race while a third comes
after; two aggregates, one seeded, so that a unit of work can span a present
and an absent one; one key, which all keyed requests share; two resets by two
administrators, the least that overlap (3.7 million states). `engine_quiet_reset`: two resets, so that one starts from a store the
other seeded. `locks`: four tasks on three keys, the least circle of pairs plus
a task that competes on a single key. `batch`: two calls of up to two items, one
reset; items of a transaction beyond the second repeat the state "an earlier
item has committed". `saga`: two sagas of up to three steps, so that a
compensated step, one without compensation and a repeated operation meet; an
operation that commits two events, so that a projection or a webhook can fail in
between (222,000 states).
`cascade` (148,000 states): every pair of 64 rules over two boundaries and two
types, with every kind of target, as policies of a creation that dispatches
three commands and as the reactions of a YAML boundary, which are listed twice;
a budget of three events, so that it runs out in some and not in others; depths
0 to 2. `reload` (519,000 states): five versions - sound, sound without a
boundary, and failing to compile, in a hook and in `initialize` - two edits and
two administrative calls, the least with which a reset overlaps a reload that an
edit overlaps. `expiry` (534,000 states): one key, session
and fault and two bodies; time units of half a lifetime, so that offsets and
advances of two units in either direction pass a whole one; two ticks of real
time. `fixtures` (380,000 states): two versions, two external events
and three coroutines at once: a push, a clear or refresh that overtakes it, and
the hot reload. `forwarding` (277,000 states): two requests, one of them keyed,
two attempts and two permits, the least of each with which a retry meets a late
execution and a half-open breaker counts a call that it admitted before; one
external event beside any number of recoveries.
`MaxResets`, `MaxItems`, `MaxSagas`, `MaxSteps`, `MaxReactionEvents`,
`MaxEdits`, `MaxCalls`, `MaxWall`, `MaxSkew`, `MaxEvents`, `MaxTasks`, `MaxAttempts` and
`HalfOpenPermits` are the only bounds on counters; `MaxReactionEvents`,
`MaxAttempts` and `HalfOpenPermits` are constants of the code as well (1000, 3
and 3). Requests, tasks and calls happen once each, except in `Forwarding`,
where another one takes the place of a request that is over.

**Symmetry** is used in `engine` only (permutations of requests and of administrators), which has no
liveness property.

**Deadlock** is checked except where a liveness property says it better: systems
without open clients stop, and the property tells that from a hang.
Where it is checked, `Stopped` marks the states in which a system may stop.

**Fairness.** Weak fairness of each request's, reset's, call's, reload's or
task's own steps. The event loop runs every continuation whose promise is
resolved, and the models let hooks, timers and webhook attempts end (each
attempt has a timeout and their number is bounded in the code). In the plugin
dispatchers run every coroutine and thread, calls time out, the probe loop
sleeps for a bounded time and time passes until an expiry or the wait of an open
breaker is over. Fairness is strong in two places, where a step is enabled again
and again without staying so: a request that waits for the lock of the cold
fetch, and each kind of coroutine of `FixtureLifecycle` (a transition replaces
the one that has not begun by another, and the mutex and the
dispatcher do not starve the kind for ever). No fairness is assumed of clients,
of administrators, of editors of the sources, of the engine's comings and
goings, of the records' expiry or of the choice between success and failure.

## 4. The proofs

Proved by TLAPS for every value of the constants, from the named assumptions in
the modules: types of the constants, distinctness of the special values, bounds
that are natural numbers, for `KeyedLocks` keys that are integers (their sort
order), and for `Cascade` operations that are finitely many and aggregates whose
names are not the generated ones.

| Theorem | Statement |
|---|---|
| `Typing` (`RuntimeEngineProofs`) | `Spec => []TypeOK` |
| `BarrierExclusion` | at most one request is in flight |
| `StoresStayInAgreement` | `Spec => []StoresAgree` |
| `UnitsAreWhole` | `HooksMayFail = FALSE` implies `Spec => []UnitsAreAtomic` |
| `KeysAnswerOnce` | `HooksMayFail = FALSE` implies `Spec => []KeysExecuteOnce` |
| `VersionsAreRead` | `Spec => []NoLostUpdate` |
| `ResetRestores` | `QuietAdmin = TRUE` implies `Spec => []ResetRestoresBaseline` |
| `StoresAreAtomic` | `QuietAdmin = TRUE` implies `Spec => AtomicStoreSpec`: the refinement |
| `LockTyping` (`LockAndSagaProofs`) | `LockSpec => []LockTypeOK` |
| `LocksExclude` | `LockSpec => []MutualExclusion` |
| `LocksAreFifo` | `LockSpec => FifoLocksSpec`: the refinement |
| `LocksNeverDeadlock` | a bound on `Key` implies `LockSpec => []SomebodyGoesOn`: as long as a call waits, another holds what it wants or its promise is resolved |
| `JournalsFollow` | `Spec => []JournalFollowsLifecycle` of `Saga` |
| `NothingIsOrphaned` | `Spec => []NoOrphanEffects` of `Saga` |
| `NobodyWaitsForItself` | `Spec => []WaitsForNobody` of `Saga`: no step waits for a lock of its own request unless it is on its trigger's aggregate or, with a client key, repeats its operation |
| `OutsideIsLog` | `Spec => []OutsideFollowsLog` of `PostCommit`, within `Saga` |
| `RollbacksAreWhole` (`RuntimeBatchProofs`) | `Spec => []RollbackIsWhole` |
| `RollbacksAreLocal` | `Spec => RollbackIsLocal` |
| `DeliveriesWait` | `Spec => []NoEarlyDelivery` |
| `KeysAreExecutedOnce` | `Spec => []KeysExecuteOnce` |
| `ReactionsFireOnce` (`RequestProofs`) | `Spec => []OncePerTarget` of `Cascade` |
| `ReactionsKeepWithinBudget` | `Spec => []WithinBudget`, a part of `WorkIsBounded`, without the assumption that operations are finitely many |
| `WorkKeepsWithinBounds` | `Spec => []WorkIsBounded` of `Cascade` |
| `NothingIsLeft` | `Spec => []FanOutIsComplete` |
| `OrderIsStable` | `Spec => []StableOrder` |
| `CascadeTyping` | `Spec => []TypeOK` of `Cascade` |
| `TheAnswerIsOwn` | `Spec => []AnswerIsOwn` |
| `LifetimesShared` | `ExpirySpec => LifetimesAreShared` |
| `RepliesFitBodies` | `ExpirySpec => ReplaysFitBodies` |
| `StoresFit` (`ReloadProofs`) | `Spec => []StoresFitProgram` |
| `StartsAreClean` | `Spec => CleanStart` |
| `ContractAndProgramAgree` | `Spec => []ContractFitsProgram` |
| `MonitorSound` (`FixtureLifecycleProofs`) | `Spec => MonitorIsSound`: the monitor inside the composition takes the steps of `HealthMonitor` and keeps its invariants |
| `ExcludedHaveStubs` | `Spec => []ExcludedPathsHaveStubs` |
| `LastWinsForever` | `Spec => []LastTransitionWins` |
| `RefinesDiscovery` (`ForwardingProofs`) | `Spec => DiscoversAsSpecified`: the refinement of `RouteDiscovery` |
| `EffectsFit` | `Spec => []EffectsFitAnswers` |
| `OwnedAreForwarded` | `Spec => []OwnedPathsAreForwarded` |

*RuntimeEngine.* `StoresAgree` is not inductive: nothing in it says what a
commit installs. `StoreInvariant` adds that whoever is in flight is at the head
of the barrier (`BarrierHeld`), so no second request commits between the copy
and the commit, and that the private copies of the request in flight are what
the stores become when they are installed (`StagedAgrees`), as long as its
epoch is the current one (`EpochsOrdered` makes the epochs comparable). The
arithmetic of `NextSequenceVersion` - stored version, plus pending events, plus
one - is where contiguity comes from: lemmas `NextSequenceVersionContiguous`
and `EmitEvent` of `EventSourcingProofs`. The proof has one step per action.

That a unit of work is in the log whole (`UnitsInv`) rests on a count: on each
aggregate it has staged as many events as writes have run, and the other writes
are those still to run; what a request has in the log, it has committed, and
nobody but itself and a reset touches that. `KeysInv` says who may execute under
a key (who found no record) and where the record of a committed request is: about
to be stored, stored, or lapsed. Both theorems suppose hooks that do not fail,
as the run `engine` does: after a hook has thrown, the work is in the log without a
record and its caller has an error, which is the second disagreement of section 7.
`VersionsInv` says that the target of a conditional request stays as it was read
until its commit, by the barrier.

`ResetRestores` and the refinement of `AtomicStore` suppose an administrator who
waits for an idle system, as in the run `engine_quiet_reset`: otherwise the first
disagreement of section 7 applies. `QuietInv` says that resets are then alone,
that no unit of work is of an older epoch, and how far the last reset has come
(`FreshOK`). With it a commit installs what `AtomicStore` appends: the
log of the store and one unit, numbered on from it.

*KeyedLocks.* Exclusion follows from an invariant on the queues (`LockInv`):
in the queue of every key the callers are distinct, each awaits the promise of
the one in front of it, those who left are exactly the resolved ones, and the
map has the promise of the last one or, if the queue is empty, one that is
resolved or none. So a resolved `previous` means the caller is at the head
(`ResolvedIsHead`), from which both exclusion and the refinement follow;
`JoinStep` and `LeaveStep` show that enqueueing and releasing keep it, the
conditional delete included. That no circle of calls forms (`LocksNeverDeadlock`,
the safety part of `EveryTaskServed`) is what the sorting is for: a call has only
keys before the one it asks for (`OrderInv`), so whoever has the last
key that anybody waits for does not wait itself (`LastKeyIsFree`). A last one
there is because the keys in use are finitely many, which the theorem
supposes as a bound.

*Saga.* `SagaInv` relates the loop's variables to the journal: which entry is
the last, that `completed` holds the steps before `step` while the saga does and
those before the last entry's step, without the ones that have been undone, while
it undoes. From that each new entry is one that may follow. `JournalFollowsLifecycle`
is stated by neighbours in the journal (`MayFollow`), so that an appended entry is compared with
the last one only. `EffectInv` places the effects: those of the saga at hand are
of steps to compensate, of the one that is about to complete, or settled; those
of a failed saga before it are settled. Like the property it is about requests without
client key, faults and throwing hooks; section 7 says what the others leave.
`NobodyWaitsForItself` is the other side of the violated run `saga_self_lock`: the
locks of the trigger are held until the request ends (`HeldInv`), so the plans it
leaves are the only ones that can stop there.

*PostCommit.* The projection is what the loop takes of the log (`Among`), and so
is what was delivered, from those events that are neither skipped nor waiting nor
given up. `OutsideInv` says which part of the log is not done with: until the
projections are through it ends with the fresh events, nothing of which is
projected or announced; then the outbox is what the webhook is triggered by in
its last part (`OutboxInv`). A delivery therefore adds exactly one event behind
all that were (`AmongOneMore`). All of this would fail for an event that is
in the log twice: `LogTimes` places each event of the log before the loop of
`runSagas`, by saga, step and direction, so that what a command commits is new
(`EmittedCommits`). It uses `SagaInv`: the step to undo next is the last
completed one. What `Among` takes of a sequence with an element appended
(`AmongAppend`), of two sequences (`AmongConcat`) and up to its first element
(`AmongHead`) is shown by `SequenceInduction`: a set of sequences that has the
empty one and is closed under appending has all, by a shortest
counterexample. It is stated for sets, and needs no operator parameter.

*RuntimeBatch.* That a rollback leaves nothing behind and takes nothing of
others back depends on what may be in the checkpoint. The invariant
(`BatchInv`) says who holds the barrier and how far a call is (`Phases`), whose
events may be where (`Origins`: a call that has not begun or was rolled back has
no event in the log nor in the checkpoint of another, and what the log has
beside the checkpoint is the holder's), and that log, checkpoint and unit of
work project to their states until a reset intervenes (`Projections`). For the
keys, `HeldBack` places the deferred records of a transaction and `Answers` says
that a key a lookup does not find has no executed item: the records and the log
agree about it, across the rollback that removes both.

*Cascade.* That no reaction fires twice for an aggregate follows from an
invariant about the other direction (`OnceInv`): the key of every reaction whose
event is in the unit is remembered. It holds for every program, cyclic or not, and so
does `BudgetInv`: the reactions in the unit are finitely many and those that
were counted. `AnswerInv` says that before the first answer only the first
command has run, so that the state it is answered with is that of the events
marked as its own.

Which reactions are due is what `Filtered` leaves of a list, and lemmas
`FilteredElements` and those beside it say what that is: an order-preserving
choice of places. On it rests `FanOutInv` (what is owed for an event has fired, or
an equal key has, or it stands in a call that is still open) and `OrderInv`: the calls that are open
are nested, the log is in their order, and the queue holds commands of at most
two levels, the deeper ones behind (`LevelsOK`), which is what makes dispatching
breadth first. `WorkInv` bounds the work by running totals over the queue: what
has run, and what each waiting command may come to at its depth, are together
no more than what the first command could come to. A step takes a
command off the front and puts what it dispatches behind, and both keep the totals
(`QueueFitsBegin`, `QueueFitsEnqueue`). What a command may come to is the
recursive function `RunnableTo`. That it is defined at all, and what it is,
follows by least counterexample: `LeastNat` is the well-foundedness of the natural
numbers stated without an operator parameter, and induction is then a step by
contradiction.

*Expiry.* The invariant (`ExpiryInv`) says where the entries that are promised
are: a record in its place whatever the time, since no lookup removes one, a
session and a fault in theirs with an end the base clock has not reached
(`PromisesKept`); a stored record has the fingerprint of its own body
unless somebody has found it expired (`FingerprintsFit`). Arithmetic beyond
comparison does not enter, so clocks and offsets are any integers and lifetimes any positive ones.

*Reload.* The invariant (`ReloadInv`) adds to the property who may be where. A
reload behind the barrier is at its head (`Holders`), so there is one program in
the making at most. One that validates has a checkpoint that fits the program it
would put back, and runs its own program on a state replayed from the log
(`Validating`). And the state is projected from the whole log unless an
initialization was rejected (`Settled`), which is what a new checkpoint is taken
from. A reset, which takes no barrier, may take any of its steps in between;
each of them keeps `Fits`, because what it puts into the stores is made of one
program. `FromBaseline` adds for `CleanStart` that during a reload by the watcher
the log is empty or the baseline, whoever of reload and reset initializes first:
nobody else holds the barrier. For the contract (`ContractInv`) the reloads under
way stand in one place each: among those that await a certain promise of
`initialize`, among those whose promise is resolved, or at the barrier
(`InLine`). `Ahead` orders them. Until one fails after its contract was
installed, or is called while another awaits an older promise (`overtaken`), the
contract is that of the one all others are ahead of, and the program that of the
first at the barrier once it has installed it (`Contract`, `Installed`), so that
both agree when nobody is under way. Without `overtaken` a new caller would not
be behind all others, and the invariant does not hold (section 7).

*FixtureLifecycle.* The invariant (`LifecycleInv`) says that coroutines have
names of their own (`TasksOK`; a free one is always found, by the counting
argument of `FreeIdIsFree`), that one of them applies its set at a time and what
it has done so far is there (`HolderOK`), that every excluded path is that of a
stub unless that one has emptied the stubs (`StubsOK`), and what the engine's being down means while coroutines are under
way (`LastWins`): the latest of them is the clear of that transition, or it has
run and nothing is left; every other one is superseded and can only give up.

*Forwarding.* What a fetch that is under way may write fits together
(`FetchOK`), so that the cache does, whoever writes it last (`CacheInv`);
hence a request that finds it warm forwards what the engine owns (`WarmCall`).
The effects of a keyed request are bounded by the calls that were sent: what is
committed and what is still on the wire are no more (`EffectInv`), and the
breaker's counters fit its state (`BreakerInv`).

Only model-checked:

- liveness, as fairness and ENABLED are out of the prover's reach here:
  `EveryRequestAnswered`, `EveryTaskServed`, `EveryCallAnswered`, `SagasEnd`,
  `SourcesCatchUp`, `EveryoneIsAnswered`, `MonitorConverges`, `ReloadCatchesUp`,
  `Recovers`.

Every invariant, action property and refinement that a passing run checks is a
theorem, `UnitsAreAtomic`, `KeysExecuteOnce`, `ResetRestoresBaseline` and the
refinement of `AtomicStore` under the hypotheses the table names, which are those
of their runs.


## 5. What is not modelled

- Queries, time travel reads, delays: they answer without changing
  the modelled state. Authorization, validation and guards are choices to throw.
- Contents: reducers, payloads, CEL and patches (see `EventSourcing`).
- Clocks outside `Expiry`: `Expire` of `RuntimeEngine` lets a record lapse at any
  moment.
- Fault selectors: a fault is a choice to answer without effect. The cap on live
  sessions, cookies, CSRF tokens, JWTs and scopes.
- The order of events of different aggregates in the log of `EventSourcing`;
  `Cascade` has it, within one unit of work.
- Post-commit effects have no internal steps in `RuntimeEngine` and
  `RuntimeBatch`; `Saga` and `PostCommit` have them, with one projection and one
  webhook. The three are not composed: a saga runs under the barrier, so no other
  request can see it half way; a reset can, and that composition is left to the
  plan. `Cascade` is not composed with
  `RuntimeEngine` either: its steps have no await but those of reducers, and a
  unit of work is private until it is installed.
- The readiness report and the configuration of the plugin; seeded paths and the
  fallback policy of `StatefulRequestHandler`; the window of 20 calls from which
  the closed breaker computes its failure rate (any failure may open it).
- The graceful shutdown: it closes in order and exits, and what others see of it
  is that the engine goes and that the notification may be late or lost.
- The larger part of the lines of the repository - the compilers, schemas,
  generated tables, generators, the language server, lint and conformance tools
  - is sequential translation of documents. It has no actors and no order to get
  wrong, its values are documents and strings, and its tests enumerate it better
  than a model checker would.

## 6. Plan

What is left, in this order:

1. `Saga` composed with a reset, and `Cascade` as a refinement of the list of
   writes of `RuntimeEngine`.
2. Several projections and webhooks, and their rebuilding by `initialize`.

## 7. Disagreements

The two violated runs, listed under "findings". The following were met while
modelling: the models behave so, and the properties except it.

Engine:

- A reset that overlaps a mutation, a batch or another reset does not leave the
  boot state behind when it returns (`engine.ts:785`; README.md:143-145,
  docs/dsl.md:866): `ResetRestoresBaseline` is checked for quiet resets only.
- A post-commit hook throws: the work is committed and no record is stored, so
  a retry with the same key executes again (`engine.ts:1899`; docs/dsl.md:608).
- A request in flight during a reset stores its idempotency record afterwards
  (`engine.ts:3222`); README.md:143-144 says reset clears the entries.
- The post-commit work of a batch throws after `flushBatchIdempotency`: events
  are taken back, and the keys still answer for them (`engine.ts:467`;
  README.md:342-344).
- The post-commit work of the items of a transactional batch runs one after the
  other: when that of a later item throws, the batch is rolled back after the
  effects of the earlier ones left (`engine.ts:468-482`, against the comment at
  462-465).
- A transactional batch that fails after a reset restores a checkpoint from
  before it (`engine.ts:944-962`).
- A request whose own clock finds a record expired forgets the fingerprint of
  its key, which the base clock may not have ended (`engine.ts:3250`, against
  the comments at 356-360 and `core/storage.ts:64`, and
  docs/design/main-readme-operational-feature-completeness.md:75): if it stores no
  record itself, a later request with another body is answered from the record
  instead of 409. So it is when the clock is moved back after the lookup.

Sagas:

- Steps inherit the client's key, composed with boundary and operation: a second
  step of the same operation is answered from the record of the first and
  journalled as completed (`engine.ts:2655`). So is a step that a declared fault
  answers with an error status.
- The target and payload of a compensation are evaluated outside the inner
  `try` (`engine.ts:2698-2728`): when they throw, the remaining compensations
  are not attempted, against docs/dsl.md:600.
- A step whose own post-commit work throws is committed and never compensated:
  `StepFails` does not add it to `completed`.

Projections and webhooks:

- `trigger.boundary` and `trigger.intent` are compared with the command's
  (`yamlCompiler.ts:677-680`), not with the event's (docs/dsl.md:1687): a
  reaction's event passes by the command it reacts to.
- A webhook without `retry.maxAttempts` is tried three times (`engine.ts:2551`);
  docs/dsl.md:1694 has a default of 1. Every failure is retried, a refusal with a
  400 like a timeout.
- Without a `payload` the body is `{}` (`engine.ts:2540-2545`), and not the event.
- A post-commit hook or an expression of a webhook that throws leaves committed
  events unprojected or unannounced. The former appear in the projection after
  the next reload, as do those whose projection the request skipped.

Cascades:

- `yamlParser.ts:331-354` adds every boundary's reactions to the global list and
  `yamlCompiler.ts:1028` keeps them on the boundary, and `engine.ts:2315-2318`
  joins both: a YAML reaction to an event of the boundary that declares it is
  listed twice. A creation with a generated target then fires twice, one with a
  named target is refused with 409.
- Existence is checked before the fired key: the second trigger of a creation
  with a named target abandons the unit with 409 instead of being passed over
  (docs/dsl.md:1217,1887). The budget is checked before the condition and the
  key: at exactly 1000 events a reaction that would not fire answers 508.
- The fired key is boundary, subscription, emitted type and target, and not the
  reaction and the aggregate (docs/dsl.md:1887).
- Conditions of emissions are all evaluated before the first event (against
  docs/dsl.md:353), those of dispatches and their targets on the state before the
  projection (against docs/dsl.md:1107).
- Reactions run depth first and dispatches breadth first; docs/dsl.md:1868 has a
  FIFO queue of reactions.
- The response policy is given the *last* events of the unit, as many as the
  command emitted: reactions' events among them (`engine.ts:2079-2098`).

Reload:

- `replaceProgram` awaits the promise that is current at its call
  (`engine.ts:815`): a reload that waits for a reset's is overtaken by a later
  one that finds the promise a running reload has installed meanwhile (834). The
  contract is installed before that wait (`runtime/system.ts:355`), so that in
  the end it is that of the later call and the program that of the earlier one,
  though nothing has failed. TLC finds it when `ContractFitsProgram` does not
  except `overtaken`.
- An `initialize` that rejects leaves a rejected `initializationPromise`: every
  later request and reload fails until a reset succeeds (`engine.ts:815`).
- After a failed reload the contract is the new one and the program the old one
  (`runtime/system.ts:355`).
- A reload that keeps the events and fails puts its checkpoint back over what a
  reset did meanwhile (`engine.ts:918`).
- An edit between the load and the fingerprints is not loaded before the next
  one (`configuredWatcher.ts:112-114`).

Plugin:

- `changeSignal` reads the ETag the client has now: a set can be stored under the
  ETag of another fetch, and the hot reload then sees no change
  (`FixtureLifecycleManager.kt:194-203`).
- "DOWN unregisters all stubs" (`FixtureLifecycleManager.kt:29-30`): not when a
  refresh takes the latest number after the transition and then finds the engine
  Down (118-129, 165): the clear is superseded and the refresh does nothing.
- `clearFixtures` and the hot reload remove the stubs before the recorded paths
  are replaced (`FixtureLifecycleManager.kt:250-251,297-306`), and a request reads
  those without the mutex (`StatefulRequestHandler.kt:74-76`): in between it is
  left to Specmatic as a fixture whose stub is gone. TLC finds it when
  `ExcludedPathsHaveStubs` does not except `Emptied`.
- A 304 copies the cache as it is when the answer arrives and writes the copy
  later: two fetchers can undo each other (`RoutesDiscoveryClient.kt:228-237`).
- An HTTP 400 for a malformed envelope becomes status 0 and `null`, is retried
  three times and counted by the breaker (`CqrsBackendClient.kt:55-86`).
