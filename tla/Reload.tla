------------------------------- MODULE Reload -------------------------------
(***************************************************************************)
(* Replacing the program of a running system: the watcher of               *)
(* configuredWatcher.ts polls the sources and reloads on a change or when  *)
(* an administrator asks, system.reload (runtime/system.ts) installs the   *)
(* contract, RuntimeEngine.replaceProgram (engine.ts) the program, either  *)
(* from a clean state or over the stored events, RuntimeEngine.reset       *)
(* starts over without waiting for anyone, and runtimeGateway.ts goes on   *)
(* matching requests, which execute behind the FIFO barrier.               *)
(*                                                                         *)
(* Sources, contracts and programs are versions; of a program there are    *)
(* the boundaries it knows and the step at which it fails.  Of the events  *)
(* of a boundary it only matters whether there are any; the state is the   *)
(* events it was projected from and the program that did it.  A request    *)
(* executes in one step (RuntimeEngine has the steps).                     *)
(***************************************************************************)
EXTENDS Integers, Sequences, FiniteSets, SequencesExt

CONSTANTS
  Version,       \* contents of the sources
  FirstVersion,  \* the system boots with
  Boundary,
  Boundaries,    \* the boundaries a version's program knows
  Fault,         \* where a version's program fails
  NoBoundary,    \* of a request that has not been sent
  Request,
  MaxEdits,      \* bound: edits of the sources
  MaxCalls       \* bound: forced reloads, calls of the SDK and resets

ASSUME VersionAssumption ==
  /\ FirstVersion \in Version
  /\ Boundaries \in [Version -> SUBSET Boundary]
  /\ Fault \in [Version -> {"none", "compile", "hook", "initialize"}]
  /\ Fault[FirstVersion] = "none"
  /\ NoBoundary \notin Boundary

ASSUME BoundsAssumption == MaxEdits \in Nat /\ MaxCalls \in Nat

VARIABLES
  files,       \* external: the version of the source files
  snapshot,    \* fingerprints: the edit that wrote the files, by modification time
  timers,      \* timers the watcher has armed
  polling,     \* pollInFlight
  reloads,     \* what each caller of system.reload is doing
  openapi,     \* system.openapi and system.validator
  sysProgram,  \* system.program
  program,     \* engine.program and engine.helpers
  log, state,  \* the stores
  initPromise, \* initializationPromise: settled, or whose initialize() it is
  waiting,     \* reloads that await a promise of initialize(), in order
  barrier,     \* the queue of the __runtime_batch__ lock, holder first
  resetting,   \* what reset() is doing
  requests,    \* the boundary each request is for
  checkpoint   \* program, events and state a reload found

\* Bounds and history.
VARIABLES
  edits, calls,
  byHand,      \* the SDK has been used
  failed,      \* a reload failed after it had installed the contract
  missed,      \* the watcher took its fingerprints from an edit it had not loaded
  overtaken    \* a reload was called while another awaited an older promise

watcher == <<snapshot, timers, polling>>
engine  == <<program, log, state, initPromise>>
bounds  == <<edits, calls, byHand>>
history == <<failed, missed, overtaken>>
vars == <<files, watcher, reloads, openapi, sysProgram, engine, waiting, barrier, resetting, requests,
          checkpoint, bounds, history>>

\* The watcher clears the stores, a caller of the SDK keeps the events.
Caller == {"watcher", "sdk"}

ASSUME RequestAssumption == Request \cap Caller = {}

\* A caller awaits the promise it found when it called, until it is resolved
\* and the caller's turn has come.
Promise == {"resolved", "reload", "reset"}

State  == [by : Version, of : SUBSET Boundary]
Stores == [program : Version, log : SUBSET Boundary, state : State]

TypeOK ==
  /\ files \in Version /\ snapshot \in 0..MaxEdits
  /\ timers \in 0..1 /\ timers + (IF polling = "no" THEN 0 ELSE 1) = 1
  /\ polling \in {"no", "comparing", "reloading"}
  /\ reloads \in [Caller -> [pc : {"idle", "loading", "compiling", "called", "queued", "hook",
                                    "initializing", "validating", "replaced"}, next : Version]]
  /\ openapi \in Version /\ sysProgram \in Version /\ program \in Version
  /\ log \in SUBSET Boundary
  /\ state \in State
  /\ initPromise \in Promise \cup {"rejected"}
  /\ waiting \in [Promise -> Seq(Caller)]
  /\ barrier \in Seq(Caller \cup Request)
  /\ resetting \in {"no", "hook", "initializing"}
  /\ requests \in [Request -> Boundary \cup {NoBoundary}]
  /\ checkpoint \in Stores

Idle == [pc |-> "idle", next |-> FirstVersion]
NoCheckpoint == [program |-> FirstVersion, log |-> {}, state |-> [by |-> FirstVersion, of |-> {}]]

\* One initialization record for each boundary.
Baseline(v) == Boundaries[v]

Init ==
  /\ files = FirstVersion /\ snapshot = 0
  /\ timers = 1
  /\ polling = "no"
  /\ reloads = [c \in Caller |-> Idle]
  /\ openapi = FirstVersion /\ sysProgram = FirstVersion /\ program = FirstVersion
  /\ log = Baseline(FirstVersion)
  /\ state = [by |-> FirstVersion, of |-> log]
  /\ initPromise = "resolved"
  /\ waiting = [p \in Promise |-> <<>>] /\ barrier = <<>>
  /\ resetting = "no"
  /\ requests = [r \in Request |-> NoBoundary]
  /\ checkpoint = NoCheckpoint
  /\ edits = 0 /\ calls = 0 /\ byHand = FALSE
  /\ failed = FALSE /\ missed = FALSE /\ overtaken = FALSE

Holds(x) == barrier # <<>> /\ Head(barrier) = x

-----------------------------------------------------------------------------
(* The watcher.                                                            *)

\* External.
Edit ==
  /\ edits < MaxEdits
  /\ edits' = edits + 1
  /\ files' \in Version
  /\ UNCHANGED <<watcher, reloads, openapi, sysProgram, engine, waiting, barrier, resetting, requests,
                 checkpoint, calls, byHand, history>>

Elsewhere == <<openapi, sysProgram, engine, waiting, barrier, resetting, requests, checkpoint, history>>

\* poll: the timer fires.
Poll ==
  /\ timers > 0
  /\ timers' = timers - 1
  /\ polling' = IF polling = "no" THEN "comparing" ELSE polling
  /\ UNCHANGED <<files, snapshot, reloads, bounds, Elsewhere>>

\* reload: a caller joins the reload under way.
Started(r) == IF r["watcher"].pc = "idle" THEN [r EXCEPT !["watcher"].pc = "loading"] ELSE r

PollEnds == polling' = "no" /\ timers' = timers + 1

\* poll, once the fingerprints are taken.
Compare ==
  /\ polling = "comparing"
  /\ IF edits = snapshot
     THEN PollEnds /\ UNCHANGED reloads
     ELSE polling' = "reloading" /\ reloads' = Started(reloads) /\ UNCHANGED timers
  /\ UNCHANGED <<files, snapshot, bounds, Elsewhere>>

EndPoll ==
  /\ polling = "reloading" /\ reloads["watcher"].pc = "idle"
  /\ PollEnds
  /\ UNCHANGED <<files, snapshot, reloads, bounds, Elsewhere>>

CallOnce == calls < MaxCalls /\ calls' = calls + 1

\* POST /_admin/force-reload.
ForceReload ==
  /\ CallOnce
  /\ reloads' = Started(reloads)
  /\ UNCHANGED <<files, watcher, edits, byHand, Elsewhere>>

LoadSources ==
  /\ reloads["watcher"].pc = "loading"
  /\ reloads' = [reloads EXCEPT !["watcher"] = [pc |-> "compiling", next |-> files]]
  /\ UNCHANGED <<files, watcher, bounds, Elsewhere>>

\* A forced reload ends the polling.
UpdatePollingStops == timers' = 0

\* updatePolling: the armed timer is replaced, unless a poll will arm one.
UpdatePolling == timers' = IF polling = "no" THEN 1 ELSE 0

\* The rest of reload: the fingerprints are taken after the sources were
\* loaded, compiled and installed.
Snapshot ==
  /\ reloads["watcher"].pc = "replaced"
  /\ snapshot' = edits
  /\ missed' = (files # reloads["watcher"].next)
  /\ UpdatePolling
  /\ reloads' = [reloads EXCEPT !["watcher"] = Idle]
  /\ UNCHANGED <<files, polling, openapi, sysProgram, engine, waiting, barrier, resetting, requests,
                 checkpoint, bounds, failed, overtaken>>

-----------------------------------------------------------------------------
(* system.reload and RuntimeEngine.replaceProgram.                         *)

\* The SDK's system.reload(next, {openapi}): any version.
CallByHand ==
  /\ CallOnce
  /\ byHand' = TRUE
  /\ reloads["sdk"].pc = "idle"
  /\ \E v \in Version : reloads' = [reloads EXCEPT !["sdk"] = [pc |-> "compiling", next |-> v]]
  /\ UNCHANGED <<files, watcher, edits, Elsewhere>>

Goes(c, pc) == reloads' = [reloads EXCEPT ![c] = IF pc = "idle" THEN Idle ELSE [@ EXCEPT !.pc = pc]]

Queues(c) == Goes(c, "queued") /\ barrier' = Append(barrier, c)

\* replaceProgram awaits the promise that is current now: it throws if that
\* was rejected, and goes on at once if it is resolved, unless others have yet
\* to go on.
Awaits(c) ==
  \/ /\ initPromise = "rejected"
     /\ Goes(c, "idle") /\ failed' = TRUE
     /\ UNCHANGED <<waiting, barrier, overtaken>>
  \/ /\ initPromise # "rejected"
     /\ IF initPromise = "resolved" /\ waiting["resolved"] = <<>>
        THEN Queues(c) /\ UNCHANGED waiting
        ELSE Goes(c, "called") /\ waiting' = [waiting EXCEPT ![initPromise] = Append(@, c)] /\ UNCHANGED barrier
     /\ overtaken' = (overtaken \/ \E p \in Promise \ {"resolved", initPromise} : waiting[p] # <<>>)
     /\ UNCHANGED failed

\* compile, compileRuntimeMetadata, lintOrThrow: nothing is changed if they
\* throw.  Then the contract is installed, before the program.
Call(c) ==
  /\ reloads[c].pc = "compiling"
  /\ \/ /\ Fault[reloads[c].next] = "compile"
        /\ Goes(c, "idle")
        /\ UNCHANGED <<openapi, waiting, barrier, failed, overtaken>>
     \/ /\ Fault[reloads[c].next] # "compile"
        /\ openapi' = reloads[c].next
        /\ Awaits(c)
  /\ UNCHANGED <<files, watcher, sysProgram, engine, resetting, requests, checkpoint, bounds, missed>>

\* A promise of initialize() is resolved: whoever awaits it goes on, in order.
\* It is not rejected any more: projections that throw are left out.
Resolves(p) == waiting' = [waiting EXCEPT !["resolved"] = @ \o waiting[p], ![p] = <<>>]

\* acquire: the next to go on.
Enters(c) ==
  /\ waiting["resolved"] # <<>> /\ Head(waiting["resolved"]) = c
  /\ waiting' = [waiting EXCEPT !["resolved"] = Tail(@)]
  /\ Queues(c)
  /\ UNCHANGED <<files, watcher, openapi, sysProgram, engine, resetting, requests, checkpoint, bounds, history>>

Cleared == log' = {} /\ state' = [state EXCEPT !.of = {}]

\* The program and the state go, the events stay.
InstallOverEvents(c) ==
  /\ program' = reloads[c].next
  /\ state' = [state EXCEPT !.of = {}]
  /\ UNCHANGED log

\* preserveEvents: false.
InstallCleared(c) == program' = reloads[c].next /\ Cleared

\* The gateway keeps the previous program.
SucceedsInEngineOnly(c) ==
  /\ Goes(c, IF c = "watcher" THEN "replaced" ELSE "idle")
  /\ barrier' = Tail(barrier)
  /\ checkpoint' = NoCheckpoint
  /\ UNCHANGED <<sysProgram, failed>>

Succeeds(c) ==
  /\ Goes(c, IF c = "watcher" THEN "replaced" ELSE "idle")
  /\ sysProgram' = reloads[c].next
  /\ checkpoint' = NoCheckpoint
  /\ barrier' = Tail(barrier)
  /\ UNCHANGED failed

\* The barrier is not released.
FailsHolding(c) ==
  /\ Goes(c, "idle")
  /\ checkpoint' = NoCheckpoint
  /\ failed' = TRUE
  /\ UNCHANGED <<barrier, sysProgram>>

Fails(c) ==
  /\ Goes(c, "idle")
  /\ checkpoint' = NoCheckpoint
  /\ barrier' = Tail(barrier)
  /\ failed' = TRUE
  /\ UNCHANGED sysProgram

Takes == checkpoint' = [program |-> program, log |-> log, state |-> state]

Rest == <<files, watcher, openapi, resetting, requests, bounds, missed, overtaken>>

Begin ==
  /\ Holds("watcher") /\ reloads["watcher"].pc = "queued"
  /\ InstallCleared("watcher")
  /\ Goes("watcher", "hook")
  /\ Takes
  /\ UNCHANGED <<Rest, sysProgram, initPromise, waiting, barrier, failed>>

\* initialize, up to its first await: a baseline unless there are events, and
\* the state unless there is one.
InitializeStores ==
  /\ log' = IF log = {} THEN Baseline(program) ELSE log
  /\ state' = IF state.of = {} /\ Fault[program] # "initialize"
              THEN [by |-> program, of |-> log' \cap Boundaries[program]]
              ELSE state

\* The reset hook, then initialize.
AfterHook ==
  /\ reloads["watcher"].pc = "hook"
  /\ \/ /\ Fault[program] = "hook"
        /\ Fails("watcher")
        /\ UNCHANGED <<log, state, initPromise>>
     \/ /\ Fault[program] = "initialize"
        /\ InitializeStores
        /\ initPromise' = "rejected"
        /\ Fails("watcher")
     \/ /\ Fault[program] = "none"
        /\ InitializeStores
        /\ initPromise' = "reload"
        /\ Goes("watcher", "initializing")
        /\ UNCHANGED <<sysProgram, barrier, checkpoint, failed>>
  /\ UNCHANGED <<Rest, program, waiting>>

\* The derived projections have been run.  The promise is another's if a
\* reset was faster.
Initialized ==
  /\ reloads["watcher"].pc = "initializing"
  /\ initPromise' = IF initPromise = "reload" THEN "resolved" ELSE initPromise
  /\ Resolves("reload")
  /\ Succeeds("watcher")
  /\ UNCHANGED <<Rest, program, log, state>>

\* The events are replayed, if their boundaries are known; a reducer may throw.
BeginPreserving ==
  /\ Holds("sdk") /\ reloads["sdk"].pc = "queued"
  /\ LET v == reloads["sdk"].next
     IN  IF log \subseteq Boundaries[v] /\ Fault[v] # "initialize"
         THEN /\ Takes
              /\ program' = v
              /\ state' = [by |-> v, of |-> log]
              /\ Goes("sdk", "validating")
              /\ UNCHANGED <<sysProgram, barrier, failed>>
         ELSE Fails("sdk") /\ UNCHANGED <<program, state>>
  /\ UNCHANGED <<Rest, log, initPromise, waiting>>

Restore ==
  /\ program' = checkpoint.program
  /\ log' = checkpoint.log
  /\ state' = checkpoint.state

\* Projections and the validation hook.
Validated ==
  /\ reloads["sdk"].pc = "validating"
  /\ \/ /\ Fault[reloads["sdk"].next] = "hook"
        /\ Restore
        /\ Fails("sdk")
        /\ UNCHANGED initPromise
     \/ /\ Fault[reloads["sdk"].next] = "none"
        /\ Succeeds("sdk")
        /\ initPromise' = "resolved"
        /\ UNCHANGED <<program, log, state>>
  /\ UNCHANGED <<Rest, waiting>>

ReloadStep(c) ==
  \/ Call(c) \/ Enters(c)
  \/ c = "watcher" /\ (LoadSources \/ Begin \/ AfterHook \/ Initialized \/ Snapshot)
  \/ c = "sdk" /\ (BeginPreserving \/ Validated)

-----------------------------------------------------------------------------
(* RuntimeEngine.reset, which does not take the barrier.                   *)

UntouchedByReset == <<files, watcher, reloads, openapi, sysProgram, program, barrier, requests,
                      checkpoint, edits, byHand, history>>

Reset ==
  /\ CallOnce
  /\ resetting = "no"
  /\ Cleared
  /\ resetting' = "hook"
  /\ UNCHANGED <<UntouchedByReset, initPromise, waiting>>

ResetAfterHook ==
  /\ resetting = "hook"
  /\ IF Fault[program] = "hook"
     THEN resetting' = "no" /\ UNCHANGED <<log, state, initPromise>>
     ELSE /\ InitializeStores
          /\ initPromise' = IF Fault[program] = "initialize" THEN "rejected" ELSE "reset"
          /\ resetting' = IF Fault[program] = "initialize" THEN "no" ELSE "initializing"
  /\ UNCHANGED <<UntouchedByReset, waiting, calls>>

ResetInitialized ==
  /\ resetting = "initializing"
  /\ initPromise' = IF initPromise = "reset" THEN "resolved" ELSE initPromise
  /\ Resolves("reset")
  /\ resetting' = "no"
  /\ UNCHANGED <<UntouchedByReset, log, state, calls>>

ResetStep == ResetAfterHook \/ ResetInitialized

-----------------------------------------------------------------------------
(* Requests.                                                               *)

UntouchedByRequests == <<files, watcher, reloads, openapi, sysProgram, program, initPromise, waiting,
                         resetting, checkpoint, bounds, history>>

\* The gateway: a route of the contract, a boundary of system.program.
Match(r) ==
  /\ requests[r] = NoBoundary
  /\ \E b \in Boundaries[openapi] \cap Boundaries[sysProgram] : requests' = [requests EXCEPT ![r] = b]
  /\ barrier' = Append(barrier, r)
  /\ UNCHANGED <<UntouchedByRequests, log, state>>

Stored(b) ==
  /\ log' = log \cup {b}
  /\ state' = [by |-> program, of |-> state.of \cup {b}]

\* The boundary that the gateway found is good enough.
ServeMatched(r) == initPromise = "resolved" /\ Stored(requests[r])

\* executeInternal: the promise, then the boundary of engine.program.
Serve(r) ==
  \/ initPromise = "resolved" /\ requests[r] \in Boundaries[program] /\ Stored(requests[r])
  \/ initPromise = "rejected" /\ UNCHANGED <<log, state>>
  \/ initPromise = "resolved" /\ requests[r] \notin Boundaries[program] /\ UNCHANGED <<log, state>>

Execute(r) ==
  /\ Holds(r)
  /\ Serve(r)
  /\ requests' = [requests EXCEPT ![r] = NoBoundary]
  /\ barrier' = Tail(barrier)
  /\ UNCHANGED UntouchedByRequests

Next ==
  \/ Edit \/ Poll \/ Compare \/ EndPoll \/ ForceReload \/ CallByHand \/ Reset \/ ResetStep
  \/ \E c \in Caller : ReloadStep(c)
  \/ \E r \in Request : Match(r) \/ Execute(r)

Spec == Init /\ [][Next]_vars

\* Timers fire, promises settle, hooks and projections return.
FairSpec ==
  /\ Spec
  /\ WF_vars(Poll) /\ WF_vars(Compare) /\ WF_vars(EndPoll)
  /\ WF_vars(ResetStep)
  /\ \A c \in Caller : WF_vars(ReloadStep(c))
  /\ \A r \in Request : WF_vars(Execute(r))

-----------------------------------------------------------------------------
(* Properties.                                                             *)

InPlace == \A c \in Caller : reloads[c].pc \notin {"hook", "initializing", "validating"}

StateBelongsToProgram ==
  InPlace /\ initPromise = "resolved"
    => state.of = log /\ (log # {} => state.by = program)

EventsHaveBoundaries == InPlace => log \subseteq Boundaries[program]

(***************************************************************************)
(* A request never observes a half-reloaded state graph (engine.ts:806):   *)
(* behind a reload, successful or rolled back, and beside a reset, the     *)
(* state is what the program projects from the stored events; and each     *)
(* event belongs to a boundary of the program, although the gateway has    *)
(* matched requests against an earlier one and reloads keep the events, so *)
(* that no later replay comes upon an event it has to leave out.           *)
(***************************************************************************)
StoresFitProgram == TypeOK /\ StateBelongsToProgram /\ EventsHaveBoundaries

(***************************************************************************)
(* A changed source graph starts from the new program's initialization     *)
(* state: no event or entity of the previous one survives                  *)
(* (configuredWatcher.ts:104), with resets during the reload, unless one   *)
(* is not over.                                                            *)
(***************************************************************************)
CleanStart ==
  [][reloads["watcher"].pc = "initializing" /\ reloads'["watcher"].pc = "replaced" /\ resetting = "no"
       => log' = Baseline(program') /\ state' = [by |-> program', of |-> log']]_vars

(***************************************************************************)
(* Between reloads that all succeeded, the contract requests are matched   *)
(* and validated against is that of the program that executes them,        *)
(* although it is installed before the waits for initialize and for the    *)
(* barrier: unless a reload was called while another awaited an older      *)
(* promise, which it may overtake (engine.ts:815).                         *)
(***************************************************************************)
ContractFitsProgram ==
  (\A c \in Caller : reloads[c].pc \in {"idle", "loading", "compiling", "replaced"}) /\ ~failed /\ ~overtaken
    => openapi = program /\ sysProgram = program

(***************************************************************************)
(* If a reload fails, the previous active runtime remains in service       *)
(* (README.md:2339).                                                       *)
(***************************************************************************)
PreviousRemains ==
  [][\A c \in Caller : reloads[c].pc \in {"hook", "initializing", "validating"} /\ reloads'[c].pc = "idle"
                         /\ failed'
       => [program |-> program', log |-> log', state |-> state'] = checkpoint]_vars

(***************************************************************************)
(* When the edits end, the program becomes that of the files, whatever was *)
(* edited, forced or reset during reloads: unless the files do not compile *)
(* or fail later, an edit fell between loading and fingerprints, the SDK   *)
(* installed another program, or initialize was rejected for good.         *)
(***************************************************************************)
SourcesCatchUp ==
  <>[](program = files \/ Fault[files] # "none" \/ missed \/ byHand \/ initPromise = "rejected")

\* Every request is answered and every caller of reload: the barrier is
\* released on every path.
EveryoneIsAnswered ==
  /\ \A r \in Request : requests[r] # NoBoundary ~> requests[r] = NoBoundary
  /\ \A c \in Caller : reloads[c].pc \in {"called", "queued"} ~> reloads[c].pc = "idle"
=============================================================================
