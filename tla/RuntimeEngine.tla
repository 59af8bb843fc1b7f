---------------------------- MODULE RuntimeEngine ----------------------------
(***************************************************************************)
(* The request path of RuntimeEngine (src/src/core/engine.ts): the FIFO    *)
(* barrier every top-level request holds, the unit of work a mutation      *)
(* stages in private copies and commits at once, post-commit hooks,        *)
(* idempotency records, If-Match, and the administrative reset, which does *)
(* not take the barrier.                                                   *)
(*                                                                         *)
(* JavaScript runs one task at a time: each action below is the code       *)
(* between two awaits at which a timer, a hook or input may let another    *)
(* task run.  The inner locks of executeInternal are not contended by the  *)
(* commands of this module (all run under the barrier); they are modelled  *)
(* in KeyedLocks and Saga.                                                 *)
(***************************************************************************)
EXTENDS EventSourcing, FiniteSets

CONSTANTS
  Key,            \* composed idempotency keys
  NoKey,          \* the request has no Idempotency-Key
  NoRecord,       \* no idempotency record
  NoVersion,      \* the request has no If-Match
  Commands,       \* the commands a client may send
  Admin,          \* callers of POST /_admin/reset
  Resolved,       \* the initialization promise when it is not pending
  MaxResets,      \* bound: resets started
  HooksMayFail,   \* post-commit and reset hooks may throw
  QuietAdmin      \* the admin resets only an idle system, and clients wait for it

Intent  == {"creation", "mutation"}
Write   == [agg : Aggregate, intent : Intent]
Command == [writes : Seq(Write) \ {<<>>}, key : Key \cup {NoKey},
            conditional : BOOLEAN, dryRun : BOOLEAN]

ASSUME CommandsAssumption == Commands \subseteq Command
ASSUME KeyAssumption      == NoKey \notin Key /\ NoRecord \notin Request
ASSUME VersionAssumption  == NoVersion \notin Nat
ASSUME AdminAssumption    == Resolved \notin Admin
ASSUME BoundAssumption    == MaxResets \in Nat
ASSUME SwitchAssumption   == HooksMayFail \in BOOLEAN /\ QuietAdmin \in BOOLEAN

VARIABLES
  pc,            \* where each request is
  cmd,           \* its command
  ifMatch,       \* its If-Match version
  barrier,       \* the queue of the __runtime_batch__ lock, holder first
  events,        \* the event store
  state,         \* the state store
  idempotency,   \* idempotency records: the request that a key answers with
  generation,    \* resetGeneration
  initPromise,   \* initializationPromise: the reset whose initialize() is pending
  admin,         \* where each reset is
  todo,          \* commands the unit of work has still to run
  txStates,      \* tx.states, the private copy of the state graph
  txEvents,      \* tx.events
  txGeneration   \* the generation the unit of work began in

\* History variables, read by properties only.
VARIABLES
  epoch,         \* counts the wholesale replacements of the stores
  txEpoch,       \* the epoch each unit of work began in
  stale,         \* a unit of work of an older epoch was committed since the last reset
  wiped,         \* requests in flight when a reset cleared the stores
  lapsed,        \* requests whose idempotency record expired or was cleared
  fresh          \* a reset was called and no request submitted since

store   == <<events, state>>
txVars  == <<todo, txStates, txEvents, txGeneration, txEpoch>>
client  == <<cmd, ifMatch>>
resetVars == <<generation, initPromise, admin>>
history == <<epoch, stale, wiped, lapsed, fresh>>
vars == <<pc, cmd, ifMatch, barrier, events, state, idempotency, generation,
          initPromise, admin, todo, txStates, txEvents, txGeneration,
          epoch, txEpoch, stale, wiped, lapsed, fresh>>

InFlight == {"entered", "staging", "postCommit"}
Final    == {"ok", "replayed", "failed"}
PC       == {"idle", "queued"} \cup InFlight \cup Final

TypeOK ==
  /\ pc \in [Request -> PC]
  /\ cmd \in [Request -> Commands]
  /\ ifMatch \in [Request -> Nat \cup {NoVersion}]
  /\ barrier \in Seq(Request)
  /\ events \in EventLog
  /\ state \in StateGraph
  /\ idempotency \in [Key -> Request \cup {NoRecord}]
  /\ generation \in Nat
  /\ initPromise \in Admin \cup {Resolved}
  /\ admin \in [Admin -> {"idle", "hooks", "init", "failed"}]
  /\ todo \in [Request -> Seq(Write)]
  /\ txStates \in [Request -> StateGraph]
  /\ txEvents \in [Request -> EventLog]
  /\ txGeneration \in [Request -> Nat]
  /\ epoch \in Nat
  /\ txEpoch \in [Request -> Nat]
  /\ stale \in BOOLEAN
  /\ wiped \in SUBSET Request
  /\ lapsed \in SUBSET Request
  /\ fresh \in BOOLEAN

\* The state after the constructor: initialize() has seeded the baseline.
Init ==
  /\ pc = [r \in Request |-> "idle"]
  /\ cmd \in [Request -> Commands]
  /\ ifMatch = [r \in Request |-> NoVersion]
  /\ barrier = <<>>
  /\ events = BaselineLog
  /\ state = Replay(BaselineLog)
  /\ idempotency = [k \in Key |-> NoRecord]
  /\ generation = 0
  /\ initPromise = Resolved
  /\ admin = [a \in Admin |-> "idle"]
  /\ todo = [r \in Request |-> <<>>]
  /\ txStates = [r \in Request |-> Nothing]
  /\ txEvents = [r \in Request |-> Nothing]
  /\ txGeneration = [r \in Request |-> 0]
  /\ epoch = 0
  /\ txEpoch = [r \in Request |-> 0]
  /\ stale = FALSE
  /\ wiped = {}
  /\ lapsed = {}
  /\ fresh = FALSE

-----------------------------------------------------------------------------
(* The barrier.                                                            *)

AdminIdle == \A a \in Admin : admin[a] \in {"idle", "failed"}

\* The client sends the request; execute() queues on the barrier.  A
\* conditional request carries the version its client last read.
Submit(r) ==
  /\ pc[r] = "idle"
  /\ QuietAdmin => AdminIdle
  /\ ifMatch' = [ifMatch EXCEPT ![r] =
       IF cmd[r].conditional
       THEN CurrentSequenceVersion(events, cmd[r].writes[1].agg)
       ELSE NoVersion]
  /\ pc' = [pc EXCEPT ![r] = "queued"]
  /\ barrier' = Append(barrier, r)
  /\ fresh' = FALSE
  /\ UNCHANGED <<cmd, store, idempotency, resetVars, txVars, epoch, stale, wiped, lapsed>>

\* acquire() resolves in FIFO order; executeInternal then awaits the
\* initialization promise before it looks at anything else.  A request that
\* awaits the promise of an older reset enters here once the newest is
\* resolved; the stores do not change in between.
Enter(r) ==
  /\ pc[r] = "queued"
  /\ barrier # <<>> /\ Head(barrier) = r
  /\ initPromise = Resolved
  /\ pc' = [pc EXCEPT ![r] = "entered"]
  /\ UNCHANGED <<client, barrier, store, idempotency, resetVars, txVars, history>>

\* A caller that answers without releasing the barrier.
AnswerHoldingBarrier(r, answer) ==
  /\ pc' = [pc EXCEPT ![r] = answer]
  /\ barrier' = barrier
  /\ todo' = [todo EXCEPT ![r] = <<>>]
  /\ txStates' = [txStates EXCEPT ![r] = Nothing]
  /\ txEvents' = [txEvents EXCEPT ![r] = Nothing]
  /\ UNCHANGED <<txGeneration, txEpoch>>

\* The result or error leaves execute(), whose finally releases the barrier;
\* the unit of work is garbage.
Answer(r, answer) ==
  /\ pc' = [pc EXCEPT ![r] = answer]
  /\ barrier' = Tail(barrier)
  /\ todo' = [todo EXCEPT ![r] = <<>>]
  /\ txStates' = [txStates EXCEPT ![r] = Nothing]
  /\ txEvents' = [txEvents EXCEPT ![r] = Nothing]
  /\ UNCHANGED <<txGeneration, txEpoch>>

-----------------------------------------------------------------------------
(* Admission of the command.                                               *)

\* A lookup that never finds a record.
NeverCached(r) == FALSE

\* cachedIdempotency: the key answers with an earlier result.
Cached(r) == cmd[r].key # NoKey /\ idempotency[cmd[r].key] # NoRecord

\* A creation needs an absent entity, a mutation a present one.
Fits(write, states) ==
  (write.intent = "creation") <=> (states[write.agg] = <<>>)

\* A precondition that lets the client be behind.
VersionNotAhead(r) ==
  ifMatch[r] # NoVersion =>
    ifMatch[r] <= CurrentSequenceVersion(events, cmd[r].writes[1].agg)

\* If-Match must name the current version of the target.
VersionMatches(r) ==
  ifMatch[r] # NoVersion =>
    ifMatch[r] = CurrentSequenceVersion(events, cmd[r].writes[1].agg)

\* The key answers: nothing is executed.
ReplayCached(r) ==
  /\ pc[r] = "entered"
  /\ Cached(r)
  /\ Answer(r, "replayed")
  /\ UNCHANGED <<client, store, idempotency, resetVars, history>>

\* executeMutation: existence and If-Match hold; copy the state graph.
BeginUnitOfWork(r) ==
  /\ pc[r] = "entered"
  /\ ~Cached(r)
  /\ Fits(cmd[r].writes[1], state)
  /\ VersionMatches(r)
  /\ pc' = [pc EXCEPT ![r] = "staging"]
  /\ todo' = [todo EXCEPT ![r] = cmd[r].writes]
  /\ txStates' = [txStates EXCEPT ![r] = state]
  /\ txEvents' = [txEvents EXCEPT ![r] = Nothing]
  /\ txGeneration' = [txGeneration EXCEPT ![r] = generation]
  /\ txEpoch' = [txEpoch EXCEPT ![r] = epoch]
  /\ UNCHANGED <<client, barrier, store, idempotency, resetVars, history>>

\* Anything throws, or a fault answers, before the commit: 401, 403, 404,
\* 409, 412, 422, a guard, a reducer, a schema, a hook, a postcondition.
Abort(r) ==
  /\ pc[r] \in {"entered", "staging"}
  /\ Answer(r, "failed")
  /\ UNCHANGED <<client, store, idempotency, resetVars, history>>

-----------------------------------------------------------------------------
(* The unit of work.                                                       *)

\* runCommands, one command of the queue: its existence check, createEvent
\* (the sequence version reads the shared log) and applyEvent.
RunCommand(r) ==
  /\ pc[r] = "staging"
  /\ todo[r] # <<>>
  /\ LET write == Head(todo[r])
         a     == write.agg
         event == [seq |-> NextSequenceVersion(events, txEvents[r], a), by |-> r]
     IN /\ Fits(write, txStates[r])
        /\ txStates' = [txStates EXCEPT ![r][a] = Append(@, r)]
        /\ txEvents' = [txEvents EXCEPT ![r][a] = Append(@, event)]
  /\ todo' = [todo EXCEPT ![r] = Tail(@)]
  /\ UNCHANGED <<pc, client, barrier, store, idempotency, resetVars,
                 txGeneration, txEpoch, history>>

\* An installation that leaves alone the entities the command did not name.
InstallTargetOnly(r) ==
  state' = [state EXCEPT ![cmd[r].writes[1].agg] = txStates[r][cmd[r].writes[1].agg]]

\* Ids of tx.states are set, ids outside it deleted: tx.states becomes the state.
InstallStates(r) == state' = txStates[r]

\* The synchronous part of executeMutation after the commit hook.
CommitStores(r) ==
  /\ InstallStates(r)
  /\ events' = AppendAll(events, txEvents[r])
  /\ stale' = (stale \/ txEpoch[r] # epoch)

\* A store call that also remembers results that committed nothing.
RecordAlways(r) ==
  idempotency' = IF cmd[r].key = NoKey THEN idempotency
                 ELSE [idempotency EXCEPT ![cmd[r].key] = r]

\* storeIdempotency, skipped without a key and for a dry run.
Record(r) ==
  idempotency' = IF cmd[r].key = NoKey \/ cmd[r].dryRun THEN idempotency
                 ELSE [idempotency EXCEPT ![cmd[r].key] = r]

\* A dry run evaluates everything and commits nothing.
FinishDryRun(r) ==
  /\ pc[r] = "staging" /\ todo[r] = <<>>
  /\ cmd[r].dryRun
  /\ Record(r)
  /\ Answer(r, "ok")
  /\ UNCHANGED <<client, store, resetVars, history>>

Commit(r) ==
  /\ pc[r] = "staging" /\ todo[r] = <<>>
  /\ ~cmd[r].dryRun
  /\ txGeneration[r] = generation
  /\ CommitStores(r)
  /\ pc' = [pc EXCEPT ![r] = "postCommit"]
  /\ UNCHANGED <<client, barrier, idempotency, resetVars, txVars, epoch, wiped, lapsed, fresh>>

\* The generation changed under the unit of work: it is committed all the
\* same, only its post-commit effects are dropped.
CommitAfterReset(r) ==
  /\ pc[r] = "staging" /\ todo[r] = <<>>
  /\ ~cmd[r].dryRun
  /\ txGeneration[r] # generation
  /\ CommitStores(r)
  /\ Record(r)
  /\ Answer(r, "ok")
  /\ UNCHANGED <<client, resetVars, epoch, wiped, lapsed, fresh>>

\* runPostCommit returned: the result is recorded under the key.
FinishPostCommit(r) ==
  /\ pc[r] = "postCommit"
  /\ Record(r)
  /\ Answer(r, "ok")
  /\ UNCHANGED <<client, store, resetVars, history>>

\* A post-commit hook or a webhook trigger throws: the client gets an error
\* for work that is committed, and no record is stored.
FailPostCommit(r) ==
  /\ HooksMayFail
  /\ pc[r] = "postCommit"
  /\ Answer(r, "failed")
  /\ UNCHANGED <<client, store, idempotency, resetVars, history>>

\* The TTL of an idempotency record passes.
Expire(k) ==
  /\ idempotency[k] # NoRecord
  /\ lapsed' = lapsed \cup {idempotency[k]}
  /\ idempotency' = [idempotency EXCEPT ![k] = NoRecord]
  /\ UNCHANGED <<pc, client, barrier, store, resetVars, txVars, epoch, stale, wiped, fresh>>

-----------------------------------------------------------------------------
(* Reset.                                                                  *)

\* reset(), up to its first await: everything is cleared, without the barrier.
ResetClear(a) ==
  /\ admin[a] = "idle"
  /\ generation < MaxResets
  /\ QuietAdmin => AdminIdle /\ barrier = <<>>
  /\ generation' = generation + 1
  /\ events' = Nothing
  /\ state' = Nothing
  /\ idempotency' = [k \in Key |-> NoRecord]
  /\ admin' = [admin EXCEPT ![a] = "hooks"]
  /\ epoch' = epoch + 1
  /\ stale' = FALSE
  /\ wiped' = wiped \cup {r \in Request : pc[r] \in InFlight}
  /\ lapsed' = lapsed \cup ({idempotency[k] : k \in Key} \ {NoRecord})
  /\ fresh' = TRUE
  /\ UNCHANGED <<pc, client, barrier, initPromise, txVars>>

\* A reset hook throws: reset() rejects before it initializes.
ResetHookFails(a) ==
  /\ HooksMayFail
  /\ admin[a] = "hooks"
  /\ admin' = [admin EXCEPT ![a] = "failed"]
  /\ UNCHANGED <<pc, client, barrier, store, idempotency, generation, initPromise, txVars, history>>

LogEmpty == events = Nothing

\* An initialization that trusts the boot-time flag and finds its work done.
SkipInitialization == UNCHANGED store

\* initialize(), up to its first await: seed the baseline into an empty log,
\* project the history into an empty state graph.
Initialize ==
  LET log == IF LogEmpty THEN BaselineLog ELSE events
  IN /\ events' = log
     /\ state' = IF state = Nothing THEN Replay(log) ELSE state

\* The hooks returned: reset() forgets the initialized flag and initializes.
ResetInitialize(a) ==
  /\ admin[a] = "hooks"
  /\ Initialize
  /\ initPromise' = a
  /\ admin' = [admin EXCEPT ![a] = "init"]
  /\ epoch' = IF UNCHANGED store THEN epoch ELSE epoch + 1
  /\ UNCHANGED <<pc, client, barrier, idempotency, generation, txVars,
                 stale, wiped, lapsed, fresh>>

\* The derived projections are rebuilt: the promise resolves, reset() returns.
ResetDone(a) ==
  /\ admin[a] = "init"
  /\ admin' = [admin EXCEPT ![a] = "idle"]
  /\ initPromise' = IF initPromise = a THEN Resolved ELSE initPromise
  /\ UNCHANGED <<pc, client, barrier, store, idempotency, generation, txVars, history>>

-----------------------------------------------------------------------------
Quiescent == AdminIdle /\ \A r \in Request : pc[r] \in {"idle"} \cup Final

\* Every request was answered and no reset is running.
Stopped == Quiescent /\ (\A r \in Request : pc[r] \in Final) /\ UNCHANGED vars

RequestStep(r) ==
  \/ Enter(r) \/ ReplayCached(r) \/ BeginUnitOfWork(r) \/ Abort(r)
  \/ RunCommand(r) \/ FinishDryRun(r) \/ Commit(r) \/ CommitAfterReset(r)
  \/ FinishPostCommit(r) \/ FailPostCommit(r)

ResetStep(a) == ResetHookFails(a) \/ ResetInitialize(a) \/ ResetDone(a)

Next ==
  \/ \E r \in Request : Submit(r) \/ RequestStep(r)
  \/ \E k \in Key : Expire(k)
  \/ \E a \in Admin : ResetClear(a) \/ ResetStep(a)
  \/ Stopped

Spec == Init /\ [][Next]_vars

\* The event loop runs every continuation that is ready; hooks and timers end.
Fairness ==
  /\ \A r \in Request : WF_vars(RequestStep(r))
  /\ \A a \in Admin : WF_vars(ResetStep(a))

FairSpec == Spec /\ Fairness

-----------------------------------------------------------------------------
(* Properties.                                                             *)

(***************************************************************************)
(* The state graph is the projection of the event log, and versions are    *)
(* contiguous per aggregate, unless a unit of work that began before the   *)
(* stores were replaced has been committed since the last reset.           *)
(***************************************************************************)
StoresAgree == ~stale => state = Replay(events) /\ Contiguous(events)

WritesOf(r, a) == {i \in 1..Len(cmd[r].writes) : cmd[r].writes[i].agg = a}

(***************************************************************************)
(* A unit of work is in the log with all its events, on all the aggregates *)
(* that it touched, or with none; and with none when its client is         *)
(* answered with an error, a replay or a dry-run result (README.md:284).   *)
(***************************************************************************)
UnitsAreAtomic ==
  \A r \in Request :
    Committed(events, r) =>
      /\ pc[r] \notin {"failed", "replayed"} /\ ~cmd[r].dryRun
      /\ \A a \in Aggregate :
           Cardinality(EventsBy(events, r, a)) = Cardinality(WritesOf(r, a))

ExecutedAtMostOnce ==
  \A r, s \in Request :
    /\ r # s
    /\ cmd[r].key # NoKey
    /\ cmd[r].key = cmd[s].key
    /\ Committed(events, r)
    /\ Committed(events, s)
    => r \in lapsed \/ s \in lapsed

RecordsAnswerFromLog ==
  \A k \in Key :
    \/ idempotency[k] = NoRecord
    \/ idempotency[k] \in wiped
    \/ Committed(events, idempotency[k])

(***************************************************************************)
(* Of the requests that carry one key, at most one has events in the log   *)
(* while the record lives (docs/dsl.md:608); and a key answers with work   *)
(* that is in the log, unless the request was in flight when a reset       *)
(* cleared it.                                                             *)
(***************************************************************************)
KeysExecuteOnce == ExecutedAtMostOnce /\ RecordsAnswerFromLog

(***************************************************************************)
(* Nobody overwrites a version that was not read: the first event of a     *)
(* conditional request directly follows the version it named.              *)
(***************************************************************************)
NoLostUpdate ==
  \A r \in Request :
    LET a == cmd[r].writes[1].agg
    IN ~stale /\ ifMatch[r] # NoVersion /\ EventsBy(events, r, a) # {}
         => ifMatch[r] + 1 \in EventsBy(events, r, a)

(***************************************************************************)
(* Once a reset has returned, and before any request is sent after it, the *)
(* stores are those of the boot (README.md:143, docs/dsl.md:866).          *)
(***************************************************************************)
ResetRestoresBaseline ==
  fresh /\ Quiescent /\ (\A a \in Admin : admin[a] # "failed")
    => events = BaselineLog /\ state = Replay(BaselineLog)

\* Every request that is sent is answered: nobody keeps the barrier.
EveryRequestAnswered ==
  \A r \in Request : pc[r] = "queued" ~> pc[r] \in Final

(***************************************************************************)
(* The inductive invariant behind StoresAgree:                             *)
(* the request at the head of the barrier is the only one in flight, and   *)
(* its private copies are what the stores become when it commits, as long  *)
(* as nobody replaced the stores since it took them.                       *)
(***************************************************************************)
BarrierHeld ==
  \A r \in Request : pc[r] \in InFlight => barrier # <<>> /\ Head(barrier) = r

EpochsOrdered == \A r \in Request : txEpoch[r] <= epoch

StagedAgrees ==
  \A r \in Request :
    pc[r] = "staging" /\ ~stale /\ txEpoch[r] = epoch =>
      /\ txStates[r] = Replay(AppendAll(events, txEvents[r]))
      /\ Contiguous(AppendAll(events, txEvents[r]))

StoreInvariant ==
  TypeOK /\ BarrierHeld /\ StoresAgree /\ EpochsOrdered /\ StagedAgrees

(***************************************************************************)
(* Refinement: with an admin that resets only an idle system, the stores   *)
(* behave like AtomicStore.                                                *)
(***************************************************************************)
Atomic == INSTANCE AtomicStore WITH log <- events, view <- state

AtomicStoreSpec == Atomic!StoreSpec
=============================================================================
