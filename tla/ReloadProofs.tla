---------------------------- MODULE ReloadProofs ----------------------------
(***************************************************************************)
(* Proofs about Reload for any versions, boundaries, faults and requests:  *)
(* the state is what the program projects from the stored events, and      *)
(* every event has a boundary of the program, however reloads, their       *)
(* roll-backs, resets and requests interleave; and a reload by the watcher *)
(* ends in the initialization state of its program.                        *)
(***************************************************************************)
EXTENDS Reload, SequenceTheorems, TLAPS

-----------------------------------------------------------------------------
(* Types.                                                                  *)

Pcs == {"idle", "loading", "compiling", "called", "queued", "hook",
        "initializing", "validating", "replaced"}

\* The watcher has one timer, or a poll that will arm it.
TimersOK ==
  /\ polling \in {"no", "comparing", "reloading"}
  /\ timers = IF polling = "no" THEN 1 ELSE 0
  /\ snapshot \in 0..MaxEdits /\ edits \in 0..MaxEdits

CallersOK ==
  /\ files \in Version
  /\ reloads \in [Caller -> [pc : Pcs, next : Version]]
  /\ waiting \in [Promise -> Seq(Caller)]

QueueOK ==
  /\ barrier \in Seq(Caller \cup Request)
  /\ requests \in [Request -> Boundary \cup {NoBoundary}]

StoresOK ==
  /\ openapi \in Version /\ sysProgram \in Version /\ program \in Version
  /\ log \in SUBSET Boundary
  /\ state \in State
  /\ initPromise \in {"resolved", "rejected", "reload", "reset"}
  /\ resetting \in {"no", "hook", "initializing"}
  /\ checkpoint \in Stores

Types == TimersOK /\ CallersOK /\ QueueOK /\ StoresOK

LEMMA TypesGiveTypeOK == Types => TypeOK
<1> SUFFICES ASSUME Types
             PROVE  TypeOK
  OBVIOUS
<1>1. timers \in 0..1 /\ timers + (IF polling = "no" THEN 0 ELSE 1) = 1
  BY DEF Types, TimersOK
<1>2. initPromise \in Promise \cup {"rejected"}
  BY DEF Types, StoresOK, Promise
<1> QED
  BY <1>1, <1>2, Zenon DEF Types, TimersOK, CallersOK, QueueOK, StoresOK, Pcs, TypeOK

-----------------------------------------------------------------------------
(* The stores.                                                             *)

\* What a program and its stores are to each other: the state was projected
\* by the program from all events, or from none of them.
Fits(p, l, s) ==
  /\ l \subseteq Boundaries[p]
  /\ s.of = l \/ s.of = {}
  /\ s.of # {} => s.by = p

\* Whoever replaces the program holds the barrier.
Holders ==
  /\ reloads["watcher"].pc \in {"hook", "initializing"} => Holds("watcher")
  /\ reloads["sdk"].pc = "validating" => Holds("sdk")

\* A reload that keeps the events has installed its program, and can go back.
Validating ==
  reloads["sdk"].pc = "validating" =>
    /\ program = reloads["sdk"].next /\ Fault[program] # "initialize"
    /\ state.of = log
    /\ Fits(checkpoint.program, checkpoint.log, checkpoint.state)
    /\ Fault[program] = "hook" /\ checkpoint.state.of # checkpoint.log => initPromise = "rejected"

Settled == initPromise # "rejected" => state.of = log

ReloadInv == Types /\ Fits(program, log, state) /\ Holders /\ Validating /\ Settled

LEMMA ReloadInit == Init => ReloadInv
<1> SUFFICES ASSUME Init
             PROVE  ReloadInv
  OBVIOUS
<1> USE VersionAssumption, BoundsAssumption
<1>1. TimersOK
  BY DEF Init, TimersOK
<1>2. Boundaries[FirstVersion] \in SUBSET Boundary
  OBVIOUS
<1>3. CallersOK
  BY DEF Init, CallersOK, Pcs, Idle
<1>4. QueueOK
  BY DEF Init, QueueOK
<1>5. StoresOK
  BY <1>2 DEF Init, StoresOK, State, Stores, NoCheckpoint, Baseline
<1>6. Fits(program, log, state) /\ Holders /\ Validating /\ Settled
  BY <1>2 DEF Init, Fits, Holders, Validating, Settled, Baseline, Idle, Caller
<1> QED
  BY <1>1, <1>3, <1>4, <1>5, <1>6 DEF ReloadInv, Types

-----------------------------------------------------------------------------
(* Steps that leave program and stores alone.                              *)

\* Nobody begins or ends to replace the program, and the barrier is kept.
Quiet ==
  /\ UNCHANGED <<program, log, state, initPromise, checkpoint>>
  /\ \A c \in Caller : reloads'[c].pc \in {"hook", "initializing", "validating"} => reloads'[c] = reloads[c]
  /\ \A x \in Caller : Holds(x) => Holds(x)'

LEMMA QuietStep ==
  ASSUME ReloadInv, Types', Quiet
  PROVE  ReloadInv'
<1>1. Fits(program, log, state)' /\ Settled'
  BY DEF ReloadInv, Quiet, Fits, Settled
<1>2. Holders' /\ Validating'
  BY DEF ReloadInv, Quiet, Holders, Validating, Fits, Caller
<1> QED
  BY <1>1, <1>2 DEF ReloadInv

\* Queueing behind the barrier takes it from nobody.
LEMMA AppendKeeps ==
  ASSUME QueueOK, NEW x \in Caller \cup Request, barrier' = Append(barrier, x)
  PROVE  /\ barrier' \in Seq(Caller \cup Request)
         /\ \A y \in Caller : Holds(y) => Holds(y)'
BY DEF QueueOK, Holds

\* One caller goes on.
LEMMA GoesMoves ==
  ASSUME CallersOK, NEW c \in Caller, NEW pc \in Pcs, Goes(c, pc)
  PROVE  /\ reloads' \in [Caller -> [pc : Pcs, next : Version]]
         /\ reloads'[c].pc = pc /\ (pc # "idle" => reloads'[c].next = reloads[c].next)
         /\ \A d \in Caller \ {c} : reloads'[d] = reloads[d]
<1>1. Idle \in [pc : Pcs, next : Version] /\ Idle.pc = "idle"
  BY VersionAssumption DEF Idle, Pcs
<1>2. CASE pc = "idle"
  BY <1>1, <1>2 DEF Goes, CallersOK
<1>3. CASE pc # "idle"
  BY <1>3 DEF Goes, CallersOK
<1> QED
  BY <1>2, <1>3

\* The watcher, until it calls system.reload and after it was answered.
LEMMA WatcherStep ==
  ASSUME ReloadInv, Edit \/ Poll \/ Compare \/ EndPoll \/ ForceReload \/ LoadSources \/ Snapshot \/ CallByHand
  PROVE  ReloadInv'
<1> USE DEF ReloadInv, Types
<1>1. UNCHANGED <<openapi, sysProgram, program, log, state, initPromise, checkpoint, barrier, waiting,
                  resetting, requests>>
  BY Zenon DEF Edit, Poll, Compare, EndPoll, ForceReload, LoadSources, Snapshot, CallByHand, Elsewhere, engine
<1>2. StoresOK' /\ QueueOK'
  BY <1>1, Zenon DEF StoresOK, QueueOK
<1>3. /\ files' \in Version
      /\ \/ UNCHANGED reloads
         \/ reloads' = Started(reloads)
         \/ reloads' = [reloads EXCEPT !["watcher"] = [pc |-> "compiling", next |-> files]]
         \/ reloads' = [reloads EXCEPT !["watcher"] = Idle]
         \/ \E v \in Version : reloads' = [reloads EXCEPT !["sdk"] = [pc |-> "compiling", next |-> v]]
  BY Zenon DEF CallersOK, Edit, Poll, Compare, EndPoll, ForceReload, LoadSources, Snapshot, CallByHand
<1>4. /\ reloads' \in [Caller -> [pc : Pcs, next : Version]]
      /\ \A c \in Caller : reloads'[c].pc \in {"hook", "initializing", "validating"} => reloads'[c] = reloads[c]
  <2>1. reloads \in [Caller -> [pc : Pcs, next : Version]] /\ Idle \in [pc : Pcs, next : Version] /\ Idle.pc = "idle"
    BY VersionAssumption DEF CallersOK, Idle, Pcs
  <2>2. reloads' \in [Caller -> [pc : Pcs, next : Version]]
    BY <1>3, <2>1 DEF Started, Pcs, Caller, CallersOK
  <2>3. \A c \in Caller : reloads'[c].pc \in {"hook", "initializing", "validating"} => reloads'[c] = reloads[c]
    BY <1>3, <2>1 DEF Started, Caller
  <2> QED
    BY <2>2, <2>3
<1>5. CallersOK'
  BY <1>1, <1>3, <1>4 DEF CallersOK
<1>6. TimersOK'
  <2>1. edits' \in 0..MaxEdits
    BY BoundsAssumption DEF TimersOK, Edit, Poll, Compare, EndPoll, ForceReload, LoadSources, Snapshot, CallByHand,
       bounds
  <2>2. polling' \in {"no", "comparing", "reloading"} /\ timers' = IF polling' = "no" THEN 1 ELSE 0
    BY DEF TimersOK, Edit, Poll, Compare, EndPoll, ForceReload, LoadSources, Snapshot, CallByHand,
       watcher, PollEnds, UpdatePolling
  <2>3. snapshot' \in 0..MaxEdits
    BY DEF TimersOK, Edit, Poll, Compare, EndPoll, ForceReload, LoadSources, Snapshot, CallByHand, watcher
  <2> QED
    BY <2>1, <2>2, <2>3 DEF TimersOK
<1>7. Quiet
  BY <1>1, <1>4 DEF Quiet, Holds
<1> QED
  BY <1>2, <1>5, <1>6, <1>7, QuietStep

LEMMA TimersKept ==
  ASSUME TimersOK, UNCHANGED <<polling, timers, snapshot, edits>>
  PROVE  TimersOK'
BY DEF TimersOK

\* Lines are joined at the end, left at the head, and go on together.
LEMMA WaitingTypes ==
  ASSUME CallersOK, NEW c \in Caller, NEW p \in Promise,
         \/ UNCHANGED waiting
         \/ waiting' = [waiting EXCEPT ![p] = Append(@, c)]
         \/ waiting[p] # <<>> /\ waiting' = [waiting EXCEPT ![p] = Tail(@)]
         \/ Resolves(p)
  PROVE  waiting' \in [Promise -> Seq(Caller)]
<1>1. /\ waiting \in [Promise -> Seq(Caller)] /\ waiting[p] \in Seq(Caller) /\ waiting["resolved"] \in Seq(Caller)
  BY DEF CallersOK, Promise
<1>2. Append(waiting[p], c) \in Seq(Caller) /\ waiting["resolved"] \o waiting[p] \in Seq(Caller) /\ <<>> \in Seq(Caller)
  BY <1>1
<1>3. waiting[p] # <<>> => Tail(waiting[p]) \in Seq(Caller)
  BY <1>1
<1> QED
  BY <1>1, <1>2, <1>3 DEF Resolves

\* system.reload up to the barrier.
LEMMA CallStep ==
  ASSUME ReloadInv, NEW c \in Caller, Call(c) \/ Enters(c)
  PROVE  ReloadInv'
<1> USE DEF ReloadInv, Types
<1>1. UNCHANGED <<files, polling, timers, snapshot, edits, sysProgram, program, log, state, initPromise,
                  checkpoint, resetting, requests>>
  BY Zenon DEF Call, Enters, engine, watcher, bounds
<1>2. \/ Goes(c, "idle") /\ UNCHANGED barrier
      \/ Goes(c, "queued") /\ barrier' = Append(barrier, c)
      \/ Goes(c, "called") /\ UNCHANGED barrier
  BY Zenon DEF Call, Awaits, Enters, Queues
<1>3. /\ reloads' \in [Caller -> [pc : Pcs, next : Version]]
      /\ \A d \in Caller : reloads'[d].pc \in {"hook", "initializing", "validating"} => reloads'[d] = reloads[d]
  BY <1>2, GoesMoves DEF Pcs
<1>4. QueueOK' /\ \A x \in Caller : Holds(x) => Holds(x)'
  BY <1>1, <1>2, AppendKeeps DEF QueueOK, Holds
<1>5. CallersOK'
  <2>1. \/ UNCHANGED waiting
        \/ initPromise # "rejected" /\ waiting' = [waiting EXCEPT ![initPromise] = Append(@, c)]
        \/ waiting["resolved"] # <<>> /\ waiting' = [waiting EXCEPT !["resolved"] = Tail(@)]
    BY Zenon DEF Call, Awaits, Enters
  <2>2. "resolved" \in Promise /\ (initPromise # "rejected" => initPromise \in Promise)
    BY DEF StoresOK, Promise
  <2>3. waiting' \in [Promise -> Seq(Caller)]
    BY <2>1, <2>2, WaitingTypes
  <2> QED
    BY <1>1, <1>3, <2>3 DEF CallersOK
<1>6. StoresOK'
  <2>1. openapi' \in {openapi, reloads[c].next}
    BY Zenon DEF Call, Enters
  <2> QED
    BY <1>1, <2>1 DEF StoresOK, CallersOK
<1>7. Quiet
  BY <1>1, <1>3, <1>4 DEF Quiet
<1> QED
  BY <1>1, <1>4, <1>5, <1>6, <1>7, TimersKept, QuietStep

LEMMA MatchStep ==
  ASSUME ReloadInv, NEW r \in Request, Match(r)
  PROVE  ReloadInv'
<1> USE DEF ReloadInv, Types
<1>1. /\ UNCHANGED <<files, polling, timers, snapshot, edits, openapi, sysProgram, program, log, state, initPromise,
                     checkpoint, resetting, reloads, waiting>>
      /\ barrier' = Append(barrier, r)
  BY Zenon DEF Match, UntouchedByRequests, watcher, bounds
<1>2. requests' \in [Request -> Boundary \cup {NoBoundary}]
  BY VersionAssumption DEF Match, QueueOK, StoresOK
<1>3. QueueOK' /\ \A x \in Caller : Holds(x) => Holds(x)'
  BY <1>1, <1>2, AppendKeeps DEF QueueOK
<1>4. CallersOK' /\ StoresOK'
  BY <1>1 DEF CallersOK, StoresOK
<1>5. Quiet
  BY <1>1, <1>3 DEF Quiet
<1> QED
  BY <1>1, <1>3, <1>4, <1>5, TimersKept, QuietStep

-----------------------------------------------------------------------------
(* Steps that replace program, log or state.                               *)

\* initialize makes the state that of the program, or rejects.
LEMMA InitializeFits ==
  ASSUME StoresOK, Fits(program, log, state), InitializeStores, UNCHANGED program
  PROVE  /\ log' \in SUBSET Boundary /\ state' \in State
         /\ Fits(program, log, state)'
         /\ Fault[program] # "initialize" => state'.of = log'
<1>1. Boundaries[program] \in SUBSET Boundary
  BY VersionAssumption DEF StoresOK
<1>2. log' \subseteq Boundaries[program]
  BY DEF InitializeStores, Fits, Baseline
<1>3. CASE state.of = {} /\ Fault[program] # "initialize"
  <2>1. state' = [by |-> program, of |-> log']
    <3>1. log' \cap Boundaries[program] = log'
      BY <1>2
    <3> QED
      BY <1>3, <3>1 DEF InitializeStores
  <2> QED
    BY <1>1, <1>2, <2>1 DEF StoresOK, State, Fits
<1>4. CASE ~(state.of = {} /\ Fault[program] # "initialize")
  <2>1. state' = state
    BY <1>4 DEF InitializeStores
  <2>2. state.of # {} => log' = log
    BY DEF InitializeStores, Fits
  <2> QED
    BY <1>1, <1>2, <1>4, <2>1, <2>2 DEF StoresOK, Fits
<1> QED
  BY <1>3, <1>4

\* The stores are empty: everything fits.
LEMMA ClearedFits ==
  ASSUME StoresOK, log' = {}, state' = [state EXCEPT !.of = {}]
  PROVE  log' \in SUBSET Boundary /\ state' \in State /\ Fits(program, log, state)' /\ state'.of = log'
BY DEF StoresOK, State, Fits

LEMMA ResetSteps ==
  ASSUME ReloadInv, Reset \/ ResetStep
  PROVE  ReloadInv'
<1> USE DEF ReloadInv, Types
<1>1. UNCHANGED <<files, polling, timers, snapshot, edits, reloads, openapi, sysProgram, program, barrier,
                  requests, checkpoint>>
  BY Zenon DEF Reset, ResetStep, ResetAfterHook, ResetInitialized, UntouchedByReset, watcher
<1>2. TimersOK' /\ CallersOK' /\ QueueOK' /\ Holders'
  <2>1. UNCHANGED waiting \/ Resolves("reset")
    BY Zenon DEF Reset, ResetStep, ResetAfterHook, ResetInitialized
  <2>2. "sdk" \in Caller /\ "reset" \in Promise
    BY DEF Caller, Promise
  <2>3. waiting' \in [Promise -> Seq(Caller)]
    BY <2>1, <2>2, WaitingTypes
  <2> QED
    BY <1>1, <2>3, TimersKept DEF CallersOK, QueueOK, Holders, Holds
<1>3. ASSUME log' \in SUBSET Boundary, state' \in State,
             initPromise' \in {"resolved", "rejected", "reload", "reset"},
             resetting' \in {"no", "hook", "initializing"},
             Fits(program, log, state)', Settled',
             reloads["sdk"].pc = "validating" =>
               state'.of = log' /\ (Fault[program] = "hook" => initPromise' = initPromise \/ initPromise = "reset")
      PROVE  ReloadInv'
  <2>1. StoresOK'
    BY <1>1, <1>3 DEF StoresOK
  <2>2. Validating'
    BY <1>1, <1>3 DEF Validating
  <2> QED
    BY <1>2, <1>3, <2>1, <2>2
<1>4. CASE Reset
  <2>1. /\ log' = {} /\ state' = [state EXCEPT !.of = {}]
        /\ resetting' = "hook" /\ UNCHANGED initPromise
    BY <1>4, Zenon DEF Reset, Cleared
  <2> QED
    BY <1>3, <2>1, ClearedFits DEF StoresOK, Settled
<1>5. CASE ResetAfterHook /\ Fault[program] = "hook"
  <2>1. resetting' = "no" /\ UNCHANGED <<log, state, initPromise>>
    BY <1>5 DEF ResetAfterHook
  <2> QED
    BY <1>1, <1>3, <2>1 DEF StoresOK, Settled, Validating, Fits
<1>6. CASE ResetAfterHook /\ Fault[program] # "hook"
  <2>1. /\ InitializeStores
        /\ initPromise' = IF Fault[program] = "initialize" THEN "rejected" ELSE "reset"
        /\ resetting' = IF Fault[program] = "initialize" THEN "no" ELSE "initializing"
    BY <1>6, Zenon DEF ResetAfterHook
  <2>2. /\ log' \in SUBSET Boundary /\ state' \in State /\ Fits(program, log, state)'
        /\ Fault[program] # "initialize" => state'.of = log'
    BY <1>1, <2>1, InitializeFits
  <2> QED
    BY <1>3, <1>6, <2>1, <2>2 DEF Settled, Validating
<1>7. CASE ResetInitialized
  <2>1. /\ initPromise' = IF initPromise = "reset" THEN "resolved" ELSE initPromise
        /\ resetting' = "no" /\ UNCHANGED <<log, state>>
    BY <1>7, Zenon DEF ResetInitialized
  <2> QED
    BY <1>1, <1>3, <2>1 DEF StoresOK, Settled, Validating, Fits
<1> QED
  BY <1>4, <1>5, <1>6, <1>7 DEF ResetStep

\* The watcher is not a caller of the SDK.
LEMMA OneHolder ==
  ASSUME ReloadInv
  PROVE  /\ Holds("watcher") => reloads["sdk"].pc # "validating"
         /\ Holds("sdk") => reloads["watcher"].pc \notin {"hook", "initializing"}
         /\ \A r \in Request : Holds(r) => /\ reloads["sdk"].pc # "validating"
                                          /\ reloads["watcher"].pc \notin {"hook", "initializing"}
BY RequestAssumption DEF ReloadInv, Holders, Holds, Caller

\* The holder leaves.
LEMMA TailTypes ==
  ASSUME QueueOK, barrier # <<>>, barrier' = Tail(barrier), UNCHANGED requests
  PROVE  QueueOK'
BY DEF QueueOK

\* What a step of the holder may do to the rest.
Elsewhere1 == <<files, polling, timers, snapshot, edits, openapi, resetting, requests>>

\* The holder goes on or leaves, and program and stores fit.
LEMMA HolderStep ==
  ASSUME ReloadInv, UNCHANGED Elsewhere1, UNCHANGED waiting \/ Resolves("reload"),
         NEW c \in Caller, NEW pc \in {"hook", "initializing", "validating", "replaced", "idle"},
         Holds(c), Goes(c, pc),
         barrier' = barrier \/ (pc \in {"replaced", "idle"} /\ barrier' = Tail(barrier)),
         c = "watcher" => pc # "validating",
         c = "sdk" => pc \notin {"hook", "initializing"},
         sysProgram' \in Version, program' \in Version, checkpoint' \in Stores,
         log' \in SUBSET Boundary, state' \in State,
         initPromise' \in {"resolved", "rejected", "reload", "reset"},
         Fits(program, log, state)', Settled',
         pc = "validating" => Validating'
  PROVE  ReloadInv'
<1> USE DEF ReloadInv, Types
<1>1. /\ reloads' \in [Caller -> [pc : Pcs, next : Version]]
      /\ reloads'[c].pc = pc
      /\ \A d \in Caller \ {c} : reloads'[d] = reloads[d]
  BY GoesMoves DEF Pcs
<1>2. TimersOK' /\ CallersOK'
  <2>1. waiting' \in [Promise -> Seq(Caller)]
    BY WaitingTypes DEF Promise
  <2> QED
    BY <1>1, <2>1, TimersKept DEF Elsewhere1, CallersOK
<1>3. StoresOK'
  BY DEF Elsewhere1, StoresOK
<1>4. QueueOK'
  <2>1. CASE barrier' = barrier
    BY <2>1 DEF Elsewhere1, QueueOK
  <2>2. CASE barrier' = Tail(barrier)
    BY <2>2, TailTypes DEF Elsewhere1, Holds
  <2> QED
    BY <2>1, <2>2
<1>5. \A d \in Caller \ {c} : reloads'[d].pc \notin {"hook", "initializing", "validating"}
                              \/ (d = "watcher" /\ reloads'[d].pc = "validating")
                              \/ (d = "sdk" /\ reloads'[d].pc \in {"hook", "initializing"})
  BY <1>1, OneHolder DEF Caller
<1>6. Holders'
  BY <1>1, <1>5 DEF Holders, Holds, Caller
<1>7. Validating'
  <2>1. CASE pc = "validating"
    BY <2>1
  <2>2. CASE pc # "validating"
    BY <1>1, <1>5, <2>2 DEF Validating, Caller
  <2> QED
    BY <2>1, <2>2
<1> QED
  BY <1>2, <1>3, <1>4, <1>6, <1>7

LEMMA Checkpoints ==
  ASSUME StoresOK
  PROVE  /\ NoCheckpoint \in Stores
         /\ [program |-> program, log |-> log, state |-> state] \in Stores
BY VersionAssumption DEF StoresOK, Stores, State, NoCheckpoint

\* The watcher replaces the program and clears the stores.
LEMMA BeginStep ==
  ASSUME ReloadInv, Begin
  PROVE  ReloadInv'
<1> USE DEF ReloadInv, Types
<1>1. /\ UNCHANGED <<Elsewhere1, waiting, sysProgram, initPromise, barrier>>
      /\ Holds("watcher") /\ Goes("watcher", "hook")
      /\ program' = reloads["watcher"].next
      /\ log' = {} /\ state' = [state EXCEPT !.of = {}]
      /\ checkpoint' = [program |-> program, log |-> log, state |-> state]
  BY Zenon DEF Begin, Rest, watcher, bounds, Elsewhere1, InstallCleared, Cleared, Takes
<1>2. program' \in Version /\ sysProgram' \in Version /\ checkpoint' \in Stores
      /\ initPromise' \in {"resolved", "rejected", "reload", "reset"}
  BY <1>1, Checkpoints DEF StoresOK, CallersOK, Caller
<1>3. log' \in SUBSET Boundary /\ state' \in State /\ Fits(program, log, state)' /\ Settled'
  BY <1>1, ClearedFits DEF Settled
<1>4. "watcher" \in Caller /\ "watcher" # "sdk"
  BY DEF Caller
<1> QED
  BY <1>1, <1>2, <1>3, <1>4, HolderStep

\* Its hook returns, and initialize makes the state; or something throws.
LEMMA AfterHookStep ==
  ASSUME ReloadInv, AfterHook
  PROVE  ReloadInv'
<1> USE DEF ReloadInv, Types
<1>1. /\ UNCHANGED <<Elsewhere1, waiting, program>>
      /\ reloads["watcher"].pc = "hook"
  BY Zenon DEF AfterHook, Rest, watcher, bounds, Elsewhere1
<1>2. Holds("watcher") /\ "watcher" \in Caller /\ "watcher" # "sdk"
  BY <1>1 DEF Holders, Caller
<1>3. program' \in Version /\ checkpoint \in Stores /\ NoCheckpoint \in Stores /\ sysProgram \in Version
  BY <1>1, Checkpoints DEF StoresOK
<1>4. CASE Fault[program] = "hook" /\ Fails("watcher") /\ UNCHANGED <<log, state, initPromise>>
  <2>1. /\ Goes("watcher", "idle") /\ barrier' = Tail(barrier)
        /\ checkpoint' = NoCheckpoint /\ UNCHANGED sysProgram
    BY <1>4 DEF Fails
  <2>2. /\ log' \in SUBSET Boundary /\ state' \in State /\ Fits(program, log, state)' /\ Settled'
        /\ initPromise' \in {"resolved", "rejected", "reload", "reset"}
    BY <1>1, <1>4 DEF StoresOK, Settled, Fits
  <2> QED
    BY <1>1, <1>2, <1>3, <2>1, <2>2, HolderStep
<1>5. CASE Fault[program] = "initialize" /\ InitializeStores /\ initPromise' = "rejected" /\ Fails("watcher")
  <2>1. /\ Goes("watcher", "idle") /\ barrier' = Tail(barrier)
        /\ checkpoint' = NoCheckpoint /\ UNCHANGED sysProgram
    BY <1>5 DEF Fails
  <2>2. log' \in SUBSET Boundary /\ state' \in State /\ Fits(program, log, state)' /\ Settled'
    BY <1>1, <1>5, InitializeFits DEF Settled
  <2> QED
    BY <1>1, <1>2, <1>3, <1>5, <2>1, <2>2, HolderStep
<1>6. CASE /\ Fault[program] = "none" /\ InitializeStores /\ initPromise' = "reload"
           /\ Goes("watcher", "initializing")
           /\ UNCHANGED <<sysProgram, barrier, checkpoint>>
  <2>1. log' \in SUBSET Boundary /\ state' \in State /\ Fits(program, log, state)' /\ Settled'
    BY <1>1, <1>6, InitializeFits DEF Settled
  <2> QED
    BY <1>1, <1>2, <1>3, <1>6, <2>1, HolderStep
<1> QED
  BY <1>4, <1>5, <1>6, Zenon DEF AfterHook

LEMMA InitializedStep ==
  ASSUME ReloadInv, Initialized
  PROVE  ReloadInv'
<1> USE DEF ReloadInv, Types
<1>1. /\ UNCHANGED <<Elsewhere1, program, log, state>>
      /\ reloads["watcher"].pc = "initializing"
      /\ initPromise' = IF initPromise = "reload" THEN "resolved" ELSE initPromise
      /\ Succeeds("watcher") /\ Resolves("reload")
  BY Zenon DEF Initialized, Rest, watcher, bounds, Elsewhere1
<1>2. /\ Goes("watcher", "replaced") /\ barrier' = Tail(barrier)
      /\ checkpoint' = NoCheckpoint /\ sysProgram' = reloads["watcher"].next
  BY <1>1 DEF Succeeds
<1>3. Holds("watcher") /\ "watcher" \in Caller /\ "watcher" # "sdk"
  BY <1>1 DEF Holders, Caller
<1>4. /\ program' \in Version /\ checkpoint' \in Stores /\ sysProgram' \in Version
      /\ log' \in SUBSET Boundary /\ state' \in State
      /\ initPromise' \in {"resolved", "rejected", "reload", "reset"}
  BY <1>1, <1>2, <1>3, Checkpoints DEF StoresOK, CallersOK
<1>5. Fits(program, log, state)' /\ Settled'
  BY <1>1 DEF Fits, Settled
<1> QED
  BY <1>1, <1>2, <1>3, <1>4, <1>5, HolderStep

\* A reload that keeps the events replays them, or refuses.
LEMMA PreservingStep ==
  ASSUME ReloadInv, BeginPreserving
  PROVE  ReloadInv'
<1> USE DEF ReloadInv, Types
<1> DEFINE v == reloads["sdk"].next
<1>1. /\ UNCHANGED <<Elsewhere1, waiting, log, initPromise>>
      /\ Holds("sdk")
  BY Zenon DEF BeginPreserving, Rest, watcher, bounds, Elsewhere1
<1>2. "sdk" \in Caller /\ "watcher" # "sdk" /\ v \in Version
  BY DEF CallersOK, Caller
<1>3. /\ log' \in SUBSET Boundary /\ sysProgram \in Version /\ NoCheckpoint \in Stores
      /\ initPromise' \in {"resolved", "rejected", "reload", "reset"}
  BY <1>1, Checkpoints DEF StoresOK
<1>4. CASE log \subseteq Boundaries[v] /\ Fault[v] # "initialize"
  <2>1. /\ checkpoint' = [program |-> program, log |-> log, state |-> state]
        /\ program' = v /\ state' = [by |-> v, of |-> log]
        /\ Goes("sdk", "validating") /\ UNCHANGED <<sysProgram, barrier>>
    BY <1>4 DEF BeginPreserving, Takes
  <2>2. /\ program' \in Version /\ checkpoint' \in Stores /\ state' \in State
        /\ Fits(program, log, state)' /\ Settled'
    BY <1>1, <1>2, <1>4, <2>1, Checkpoints DEF StoresOK, State, Fits, Settled
  <2>3. reloads'["sdk"].next = v
    BY <1>2, <2>1, GoesMoves DEF Pcs
  <2>4. Validating'
    BY <1>1, <1>4, <2>1, <2>3 DEF Validating, Fits, Settled
  <2> QED
    BY <1>1, <1>2, <1>3, <2>1, <2>2, <2>4, HolderStep
<1>5. CASE ~(log \subseteq Boundaries[v] /\ Fault[v] # "initialize")
  <2>1. /\ UNCHANGED <<program, state, sysProgram>> /\ checkpoint' = NoCheckpoint
        /\ Goes("sdk", "idle") /\ barrier' = Tail(barrier)
    BY <1>5 DEF BeginPreserving, Fails
  <2>2. program' \in Version /\ state' \in State /\ Fits(program, log, state)' /\ Settled'
    BY <1>1, <2>1 DEF StoresOK, Fits, Settled
  <2> QED
    BY <1>1, <1>2, <1>3, <2>1, <2>2, HolderStep
<1> QED
  BY <1>4, <1>5

\* It is validated, or the checkpoint is put back.
LEMMA ValidatedStep ==
  ASSUME ReloadInv, Validated
  PROVE  ReloadInv'
<1> USE DEF ReloadInv, Types
<1>1. UNCHANGED <<Elsewhere1, waiting>> /\ reloads["sdk"].pc = "validating"
  BY Zenon DEF Validated, Rest, watcher, bounds, Elsewhere1
<1>2. /\ "sdk" \in Caller /\ "watcher" # "sdk" /\ Holds("sdk")
      /\ reloads["sdk"].next = program /\ state.of = log
      /\ Fits(checkpoint.program, checkpoint.log, checkpoint.state)
      /\ Fault[program] = "hook" /\ checkpoint.state.of # checkpoint.log => initPromise = "rejected"
  BY <1>1 DEF Holders, Validating, Caller
<1>3. /\ sysProgram \in Version /\ program \in Version /\ NoCheckpoint \in Stores /\ checkpoint \in Stores
      /\ log \in SUBSET Boundary /\ state \in State
  BY Checkpoints DEF StoresOK
<1>4. CASE Fault[program] = "hook"
  <2>1. /\ program' = checkpoint.program /\ log' = checkpoint.log /\ state' = checkpoint.state
        /\ Goes("sdk", "idle") /\ barrier' = Tail(barrier)
        /\ checkpoint' = NoCheckpoint /\ UNCHANGED <<sysProgram, initPromise>>
    BY <1>2, <1>4 DEF Validated, Restore, Fails
  <2>2. program' \in Version /\ log' \in SUBSET Boundary /\ state' \in State
    BY <1>3, <2>1 DEF Stores
  <2>3. initPromise' \in {"resolved", "rejected", "reload", "reset"}
    BY <2>1 DEF StoresOK
  <2>4. Fits(program, log, state)' /\ Settled'
    BY <1>2, <1>4, <2>1 DEF Fits, Settled
  <2> QED
    BY <1>1, <1>2, <1>3, <2>1, <2>2, <2>3, <2>4, HolderStep
<1>5. CASE Fault[program] = "none"
  <2>1. /\ sysProgram' = program /\ Goes("sdk", "idle") /\ barrier' = Tail(barrier)
        /\ checkpoint' = NoCheckpoint /\ initPromise' = "resolved"
        /\ UNCHANGED <<program, log, state>>
    BY <1>2, <1>5 DEF Validated, Succeeds
  <2>2. Fits(program, log, state)' /\ Settled'
    BY <1>2, <2>1 DEF Fits, Settled
  <2> QED
    BY <1>1, <1>2, <1>3, <2>1, <2>2, HolderStep
<1> QED
  BY <1>2, <1>4, <1>5 DEF Validated

\* A request commits an event of a boundary that the program knows.
LEMMA ExecuteStep ==
  ASSUME ReloadInv, NEW r \in Request, Execute(r)
  PROVE  ReloadInv'
<1> USE DEF ReloadInv, Types
<1>1. /\ UNCHANGED <<files, polling, timers, snapshot, edits, reloads, openapi, sysProgram, program, initPromise,
                     waiting, resetting, checkpoint>>
      /\ requests' = [requests EXCEPT ![r] = NoBoundary] /\ barrier' = Tail(barrier)
      /\ Holds(r) /\ Serve(r)
  BY Zenon DEF Execute, UntouchedByRequests, watcher, bounds
<1>2. reloads["sdk"].pc # "validating" /\ reloads["watcher"].pc \notin {"hook", "initializing"}
  BY <1>1, OneHolder
<1>3. QueueOK'
  BY <1>1 DEF QueueOK, Holds
<1>4. CallersOK' /\ TimersOK' /\ Holders' /\ Validating'
  BY <1>1, <1>2, TimersKept DEF CallersOK, Holders, Validating
<1>5. CASE UNCHANGED <<log, state>>
  <2>1. StoresOK' /\ Fits(program, log, state)' /\ Settled'
    BY <1>1, <1>5 DEF StoresOK, Fits, Settled
  <2> QED
    BY <1>3, <1>4, <2>1
<1>6. CASE initPromise = "resolved" /\ requests[r] \in Boundaries[program] /\ Stored(requests[r])
  <2>1. /\ log' = log \cup {requests[r]}
        /\ state' = [by |-> program, of |-> log \cup {requests[r]}]
    BY <1>6 DEF Stored, Settled
  <2>2. Boundaries[program] \in SUBSET Boundary
    BY VersionAssumption DEF StoresOK
  <2>3. log' \in SUBSET Boundary /\ state' \in State
    BY <1>6, <2>1, <2>2 DEF StoresOK, State
  <2>4. Fits(program, log, state)' /\ Settled'
    BY <1>1, <1>6, <2>1 DEF Fits, Settled
  <2>5. StoresOK'
    BY <1>1, <2>3 DEF StoresOK
  <2> QED
    BY <1>3, <1>4, <2>4, <2>5
<1> QED
  BY <1>1, <1>5, <1>6, Zenon DEF Serve

-----------------------------------------------------------------------------
(* The theorem.                                                            *)

LEMMA ReloadKept ==
  ASSUME ReloadInv, [Next]_vars
  PROVE  ReloadInv'
<1>1. ASSUME NEW c \in Caller, ReloadStep(c)
      PROVE  ReloadInv'
  BY <1>1, CallStep, WatcherStep, BeginStep, AfterHookStep, InitializedStep, PreservingStep, ValidatedStep, Zenon
     DEF ReloadStep
<1>2. CASE UNCHANGED vars
  <2>1. Types' /\ Quiet
    BY <1>2, Zenon DEF vars, watcher, engine, bounds, ReloadInv, Types, TimersOK, CallersOK, QueueOK, StoresOK, Quiet, Holds
  <2> QED
    BY <2>1, QuietStep
<1> QED
  BY <1>1, <1>2, WatcherStep, ResetSteps, MatchStep, ExecuteStep, Zenon DEF Next

(***************************************************************************)
(* The state belongs to the program, and every event to one of its         *)
(* boundaries, behind every reload and beside every reset.                 *)
(***************************************************************************)
THEOREM StoresFit == Spec => []StoresFitProgram
<1>1. ReloadInv /\ [Next]_vars => ReloadInv'
  BY ReloadKept
<1>2. ReloadInv => StoresFitProgram
  <2> SUFFICES ASSUME ReloadInv
               PROVE  StoresFitProgram
    OBVIOUS
  <2>1. TypeOK
    BY TypesGiveTypeOK DEF ReloadInv
  <2>2. StateBelongsToProgram /\ EventsHaveBoundaries
    BY DEF ReloadInv, Fits, Settled, StateBelongsToProgram, EventsHaveBoundaries
  <2> QED
    BY <2>1, <2>2 DEF StoresFitProgram
<1> QED
  BY ReloadInit, <1>1, <1>2, PTL DEF Spec

-----------------------------------------------------------------------------
(* Reloads start from the initialization state of their program.           *)

\* A reset that has not come to its own initialize has left the stores empty.
FromBaseline ==
  /\ reloads["watcher"].pc = "hook" => log \in {{}, Baseline(program)}
  /\ reloads["watcher"].pc = "initializing" =>
       /\ Fault[program] = "none" /\ initPromise # "rejected"
       /\ state.by = program
       /\ log = Baseline(program) \/ (resetting = "hook" /\ log = {})

LEMMA BaselineInit == Init => FromBaseline
BY DEF Init, FromBaseline, Idle, Caller

\* initialize, when the stores are empty or somebody else has initialized them.
LEMMA InitializeBaseline ==
  ASSUME StoresOK, Fits(program, log, state), InitializeStores, Fault[program] = "none",
         log \in {{}, Baseline(program)}, UNCHANGED program
  PROVE  log' = Baseline(program') /\ state'.by = program'
<1>1. log' = Baseline(program)
  BY DEF InitializeStores
<1>2. CASE state.of = {}
  BY <1>2 DEF InitializeStores
<1>3. CASE state.of # {}
  BY <1>3 DEF InitializeStores, Fits
<1> QED
  BY <1>1, <1>2, <1>3

\* What is neither a step of the stores nor the beginning of a reload.
LEMMA BaselineUntouched ==
  ASSUME FromBaseline, UNCHANGED <<program, log, state, initPromise, resetting>>,
         reloads'["watcher"].pc \in {"hook", "initializing"} => reloads'["watcher"].pc = reloads["watcher"].pc
  PROVE  FromBaseline'
BY DEF FromBaseline, Baseline

LEMMA BaselineReset ==
  ASSUME ReloadInv, FromBaseline, Reset \/ ResetStep
  PROVE  FromBaseline'
<1>1. UNCHANGED <<reloads, program>>
  BY Zenon DEF Reset, ResetStep, ResetAfterHook, ResetInitialized, UntouchedByReset
<1>2. StoresOK /\ Fits(program, log, state)
  BY DEF ReloadInv, Types
<1>3. CASE Reset
  <2>1. log' = {} /\ state'.by = state.by /\ resetting' = "hook" /\ UNCHANGED initPromise
    BY <1>2, <1>3 DEF Reset, Cleared, StoresOK, State
  <2> QED
    BY <1>1, <2>1 DEF FromBaseline
<1>4. CASE ResetAfterHook /\ Fault[program] = "hook"
  <2>1. UNCHANGED <<log, state, initPromise>>
    BY <1>4 DEF ResetAfterHook
  <2> QED
    BY <1>1, <1>4, <2>1 DEF FromBaseline, Baseline
<1>5. CASE ResetAfterHook /\ Fault[program] # "hook"
  <2>1. /\ InitializeStores
        /\ initPromise' = IF Fault[program] = "initialize" THEN "rejected" ELSE "reset"
    BY <1>5, Zenon DEF ResetAfterHook
  <2>2. reloads["watcher"].pc = "hook" => log' = Baseline(program')
    BY <1>1, <2>1 DEF FromBaseline, InitializeStores, Baseline
  <2>3. reloads["watcher"].pc = "initializing" => log' = Baseline(program') /\ state'.by = program'
    BY <1>1, <1>2, <2>1, InitializeBaseline DEF FromBaseline
  <2> QED
    BY <1>1, <2>1, <2>2, <2>3 DEF FromBaseline
<1>6. CASE ResetInitialized
  <2>1. UNCHANGED <<log, state>> /\ initPromise' \in {"resolved", initPromise} /\ resetting # "hook"
    BY <1>6, Zenon DEF ResetInitialized
  <2> QED
    BY <1>1, <2>1 DEF FromBaseline, Baseline
<1> QED
  BY <1>3, <1>4, <1>5, <1>6 DEF ResetStep

\* The watcher's own reload.
LEMMA BaselineReload ==
  ASSUME ReloadInv, FromBaseline, Begin \/ AfterHook \/ Initialized
  PROVE  FromBaseline'
<1> USE DEF ReloadInv, Types
<1>1. "watcher" \in Caller
  BY DEF Caller
<1>2. CASE Begin
  <2>1. log' = {} /\ Goes("watcher", "hook")
    BY <1>2, Zenon DEF Begin, InstallCleared, Cleared
  <2>2. reloads'["watcher"].pc = "hook"
    BY <1>1, <2>1, GoesMoves DEF Pcs
  <2> QED
    BY <2>1, <2>2 DEF FromBaseline
<1>3. CASE AfterHook
  <2>1. reloads["watcher"].pc = "hook" /\ UNCHANGED program
    BY <1>3, Zenon DEF AfterHook
  <2>2. \/ Fails("watcher")
        \/ /\ Fault[program] = "none" /\ InitializeStores /\ initPromise' = "reload"
           /\ Goes("watcher", "initializing")
    BY <1>3, Zenon DEF AfterHook
  <2>3. CASE Fails("watcher")
    <3>1. Goes("watcher", "idle")
      BY <2>3 DEF Fails
    <3>2. reloads'["watcher"].pc = "idle"
      BY <1>1, <3>1, GoesMoves DEF Pcs
    <3> QED
      BY <3>2 DEF FromBaseline
  <2>4. CASE /\ Fault[program] = "none" /\ InitializeStores /\ initPromise' = "reload"
             /\ Goes("watcher", "initializing")
    <3>1. reloads'["watcher"].pc = "initializing"
      BY <1>1, <2>4, GoesMoves DEF Pcs
    <3>2. log' = Baseline(program') /\ state'.by = program'
      BY <2>1, <2>4, InitializeBaseline DEF FromBaseline
    <3> QED
      BY <2>1, <2>4, <3>1, <3>2 DEF FromBaseline
  <2> QED
    BY <2>2, <2>3, <2>4
<1>4. CASE Initialized
  <2>1. Goes("watcher", "replaced")
    BY <1>4, Zenon DEF Initialized, Succeeds
  <2>2. reloads'["watcher"].pc = "replaced"
    BY <1>1, <2>1, GoesMoves DEF Pcs
  <2> QED
    BY <2>2 DEF FromBaseline
<1> QED
  BY <1>2, <1>3, <1>4

\* Whoever else replaces programs or executes holds the barrier.
LEMMA BaselineOthers ==
  ASSUME ReloadInv, FromBaseline,
         \/ BeginPreserving \/ Validated
         \/ \E r \in Request : Execute(r)
  PROVE  FromBaseline'
<1> USE DEF ReloadInv, Types
<1>1. CASE \E r \in Request : Execute(r)
  <2>1. UNCHANGED reloads /\ reloads["watcher"].pc \notin {"hook", "initializing"}
    BY <1>1, OneHolder, Zenon DEF Execute, UntouchedByRequests
  <2> QED
    BY <2>1 DEF FromBaseline
<1>2. CASE BeginPreserving \/ Validated
  <2>1. reloads["watcher"].pc \notin {"hook", "initializing"}
    BY <1>2, OneHolder DEF BeginPreserving, Validated, Holders
  <2>2. \E pc \in {"idle", "validating"} : Goes("sdk", pc)
    BY <1>2, Zenon DEF BeginPreserving, Validated, Fails, Succeeds
  <2>3. reloads'["watcher"] = reloads["watcher"]
    BY <2>2, GoesMoves DEF Caller, Pcs
  <2> QED
    BY <2>1, <2>3 DEF FromBaseline
<1> QED
  BY <1>1, <1>2

LEMMA BaselineKept ==
  ASSUME ReloadInv, FromBaseline, [Next]_vars
  PROVE  FromBaseline'
<1> USE DEF ReloadInv, Types
<1>1. CASE \/ Edit \/ Poll \/ Compare \/ EndPoll \/ ForceReload \/ LoadSources \/ Snapshot \/ CallByHand
  <2>1. UNCHANGED <<program, log, state, initPromise, resetting>>
    BY <1>1, Zenon DEF Edit, Poll, Compare, EndPoll, ForceReload, LoadSources, Snapshot, CallByHand, Elsewhere, engine
  <2>2. \/ UNCHANGED reloads
        \/ reloads' = Started(reloads)
        \/ reloads' = [reloads EXCEPT !["watcher"] = [pc |-> "compiling", next |-> files]]
        \/ reloads' = [reloads EXCEPT !["watcher"] = Idle]
        \/ \E v \in Version : reloads' = [reloads EXCEPT !["sdk"] = [pc |-> "compiling", next |-> v]]
    BY <1>1, Zenon DEF Edit, Poll, Compare, EndPoll, ForceReload, LoadSources, Snapshot, CallByHand
  <2>3. reloads'["watcher"].pc \in {"hook", "initializing"} => reloads'["watcher"].pc = reloads["watcher"].pc
    BY <2>2 DEF CallersOK, Started, Idle, Caller
  <2> QED
    BY <2>1, <2>3, BaselineUntouched
<1>2. ASSUME NEW c \in Caller, Call(c) \/ Enters(c)
      PROVE  FromBaseline'
  <2>1. UNCHANGED <<program, log, state, initPromise, resetting>>
    BY <1>2, Zenon DEF Call, Enters, engine
  <2>2. \E pc \in {"idle", "queued", "called"} : Goes(c, pc)
    BY <1>2, Zenon DEF Call, Awaits, Enters, Queues
  <2>3. reloads'["watcher"].pc \in {"hook", "initializing"} => reloads'["watcher"].pc = reloads["watcher"].pc
    BY <2>2, GoesMoves DEF Pcs, Caller
  <2> QED
    BY <2>1, <2>3, BaselineUntouched
<1>3. ASSUME NEW r \in Request, Match(r)
      PROVE  FromBaseline'
  <2>1. UNCHANGED <<program, log, state, initPromise, resetting, reloads>>
    BY <1>3, Zenon DEF Match, UntouchedByRequests
  <2> QED
    BY <2>1, BaselineUntouched
<1>4. CASE UNCHANGED vars
  BY <1>4, BaselineUntouched, Zenon DEF vars, engine
<1>5. ASSUME NEW c \in Caller, ReloadStep(c)
      PROVE  FromBaseline'
  BY <1>1, <1>2, <1>5, BaselineReload, BaselineOthers, Zenon DEF ReloadStep
<1> QED
  BY <1>1, <1>3, <1>4, <1>5, BaselineReset, BaselineOthers, Zenon DEF Next

(***************************************************************************)
(* When a reload by the watcher is over, the stores are those its program  *)
(* boots with, unless a reset is on its way to make them so.               *)
(***************************************************************************)
THEOREM StartsAreClean == Spec => CleanStart
<1>1. ReloadInv /\ FromBaseline /\ [Next]_vars => ReloadInv' /\ FromBaseline'
  BY ReloadKept, BaselineKept
<1>2. ReloadInv /\ FromBaseline /\ [Next]_vars =>
        [reloads["watcher"].pc = "initializing" /\ reloads'["watcher"].pc = "replaced" /\ resetting = "no"
           => log' = Baseline(program') /\ state' = [by |-> program', of |-> log']]_vars
  <2> SUFFICES ASSUME ReloadInv, FromBaseline, [Next]_vars,
                      reloads["watcher"].pc = "initializing", reloads'["watcher"].pc = "replaced", resetting = "no"
               PROVE  log' = Baseline(program') /\ state' = [by |-> program', of |-> log']
    OBVIOUS
  <2>1. log = Baseline(program) /\ state.by = program /\ state.of = log /\ state \in State
    BY DEF FromBaseline, ReloadInv, Settled, Types, StoresOK
  <2>2. UNCHANGED <<program, log, state>>
    <3> USE DEF ReloadInv, Types
    <3>1. ASSUME NEW c \in Caller, ReloadStep(c)
          PROVE  UNCHANGED <<program, log, state>>
      <4>1. CASE c = "sdk" /\ (BeginPreserving \/ Validated)
        BY <4>1, OneHolder DEF BeginPreserving, Validated, Holders
      <4>2. CASE Call(c) \/ Enters(c)
        BY <4>2, Zenon DEF Call, Enters, engine
      <4>3. CASE c = "watcher" /\ (LoadSources \/ Begin \/ AfterHook \/ Initialized \/ Snapshot)
        BY <4>3 DEF LoadSources, Begin, AfterHook, Initialized, Snapshot, Rest, Elsewhere, engine
      <4> QED
        BY <3>1, <4>1, <4>2, <4>3, Zenon DEF ReloadStep
    <3>2. CASE Reset \/ ResetStep
      <4>1. UNCHANGED reloads
        BY <3>2, Zenon DEF Reset, ResetStep, ResetAfterHook, ResetInitialized, UntouchedByReset
      <4> QED
        BY <4>1
    <3>3. ASSUME NEW r \in Request, Match(r) \/ Execute(r)
          PROVE  UNCHANGED <<program, log, state>>
      <4>1. UNCHANGED reloads
        BY <3>3, Zenon DEF Match, Execute, UntouchedByRequests
      <4> QED
        BY <4>1
    <3>4. CASE UNCHANGED vars
      BY <3>4, Zenon DEF vars, engine
    <3>5. CASE Edit \/ Poll \/ Compare \/ EndPoll \/ ForceReload \/ CallByHand
      BY <3>5, Zenon DEF Edit, Poll, Compare, EndPoll, ForceReload, CallByHand, Elsewhere, engine
    <3> QED
      BY <3>1, <3>2, <3>3, <3>4, <3>5, Zenon DEF Next
  <2> QED
    BY <2>1, <2>2 DEF State, Baseline
<1> QED
  BY ReloadInit, BaselineInit, <1>1, <1>2, PTL DEF Spec, CleanStart
-----------------------------------------------------------------------------
(* The contract of the last reload in line: of the calls that have not     *)
(* overtaken one another.                                                  *)

Once(s, x)      == \A i, j \in 1..Len(s) : s[i] = x /\ s[j] = x => i = j
Before(s, x, y) == \E i, j \in 1..Len(s) : i < j /\ s[i] = x /\ s[j] = y

\* A caller that has installed its contract awaits initialize, then the barrier.
Inside   == {"queued", "hook", "initializing", "validating"}
InFlight == {"called"} \cup Inside

\* Of two that wait, the one ahead in a line, or the one that may go on.
Stands(c) == \E p \in Promise : Contains(waiting[p], c)
Earlier(d, c) ==
  \/ \E p \in Promise : Before(waiting[p], d, c)
  \/ Contains(waiting["resolved"], d) /\ ~Contains(waiting["resolved"], c)

Ahead(d, c) ==
  \/ reloads[c].pc = "called" /\ reloads[d].pc \in Inside
  \/ reloads[c].pc = "called" /\ reloads[d].pc = "called" /\ Earlier(d, c)
  \/ reloads[c].pc \in Inside /\ reloads[d].pc \in Inside /\ Before(barrier, d, c)

Latest(c) ==
  /\ reloads[c].pc \in InFlight
  /\ \A d \in Caller \ {c} : reloads[d].pc \in InFlight => Ahead(d, c)

\* Each caller in flight stands in one line, once, where its pc says.
LinesOK ==
  \A c \in Caller :
    /\ \A p \in Promise : Once(waiting[p], c)
    /\ \A p, q \in Promise : Contains(waiting[p], c) /\ Contains(waiting[q], c) => p = q

InLine ==
  /\ LinesOK
  /\ \A c \in Caller :
       /\ Once(barrier, c)
       /\ Stands(c) <=> reloads[c].pc = "called"
       /\ Contains(barrier, c) <=> reloads[c].pc \in Inside

\* While nothing has failed and nobody was overtaken, the contract is that of
\* the last reload in line, and the program that of the one that is installing
\* it.
Contract ==
  \/ /\ \A c \in Caller : reloads[c].pc \notin InFlight
     /\ openapi = program
  \/ \E c \in Caller : Latest(c) /\ openapi = reloads[c].next

Installed ==
  /\ InPlace => sysProgram = program
  /\ \A c \in Caller :
       reloads[c].pc \in {"hook", "initializing", "validating"} => Holds(c) /\ program = reloads[c].next

ContractInv == InLine /\ (failed \/ overtaken \/ (Contract /\ Installed))

\* The line grows at its end.
LEMMA AppendLine ==
  ASSUME NEW S, NEW s \in Seq(S), NEW x \in S, NEW y
  PROVE  /\ Contains(Append(s, x), y) <=> Contains(s, y) \/ y = x
         /\ Once(s, y) /\ (y # x \/ ~Contains(s, y)) => Once(Append(s, x), y)
         /\ Contains(s, y) => Before(Append(s, x), y, x)
         /\ \A z : Before(s, y, z) => Before(Append(s, x), y, z)
<1> DEFINE n == Len(s)
           t == Append(s, x)
<1>1. n \in Nat /\ Len(t) = n + 1 /\ t[n + 1] = x /\ \A i \in 1..n : t[i] = s[i]
  BY AppendProperties, LenProperties
<1>2. \A i \in 1..Len(t) : i \in 1..n \/ i = n + 1
  BY <1>1
<1>3. \A i \in 1..n : i \in 1..Len(t) /\ i < n + 1
  BY <1>1
<1>4. n + 1 \in 1..Len(t)
  BY <1>1
<1> HIDE DEF t
<1>5. Contains(t, y) <=> Contains(s, y) \/ y = x
  BY <1>1, <1>2, <1>3, <1>4, Zenon DEF Contains
<1>6. Once(s, y) /\ (y # x \/ ~Contains(s, y)) => Once(t, y)
  BY <1>1, <1>2 DEF Contains, Once
<1>7. Contains(s, y) => Before(t, y, x)
  BY <1>1, <1>3, <1>4, Zenon DEF Contains, Before
<1>8. \A z : Before(s, y, z) => Before(t, y, z)
  BY <1>1, <1>3, Zenon DEF Before
<1> QED
  BY <1>5, <1>6, <1>7, <1>8 DEF t

\* Its head leaves.
LEMMA TailLine ==
  ASSUME NEW S, NEW s \in Seq(S), s # <<>>, NEW y
  PROVE  /\ Once(s, y) => Once(Tail(s), y)
         /\ y # Head(s) => (Contains(Tail(s), y) <=> Contains(s, y))
         /\ y = Head(s) /\ Once(s, y) => ~Contains(Tail(s), y)
         /\ \A z : y # Head(s) /\ Before(s, y, z) => Before(Tail(s), y, z)
<1> DEFINE n == Len(s)
           t == Tail(s)
<1>1. n \in Nat \ {0} /\ Len(t) = n - 1 /\ \A i \in 1..(n - 1) : t[i] = s[i + 1]
  BY HeadTailProperties, LenProperties, EmptySeq
<1>2. Head(s) = s[1]
  OBVIOUS
<1> HIDE DEF t, n
<1>3. \A i \in 1..Len(t) : i + 1 \in 1..n /\ i + 1 # 1 /\ t[i] = s[i + 1]
  BY <1>1
<1>4. \A i \in 1..n : i = 1 \/ (i - 1 \in 1..Len(t) /\ t[i - 1] = s[i])
  BY <1>1
<1>5. \A i, j \in 1..Len(t) : i + 1 = j + 1 => i = j
  BY <1>1
<1>6. \A i, j \in 1..n : i < j => i - 1 < j - 1 /\ j # 1
  BY <1>1
<1>7. Once(s, y) => Once(t, y)
  BY <1>3, <1>5 DEF Once, n
<1>8. y # Head(s) => (Contains(t, y) <=> Contains(s, y))
  BY <1>2, <1>3, <1>4, Zenon DEF Contains, n
<1>9. y = Head(s) /\ Once(s, y) => ~Contains(t, y)
  <2>1. 1 \in 1..n
    BY <1>1
  <2> QED
    BY <1>2, <1>3, <2>1, Zenon DEF Contains, Once, n
<1>10. \A z : y # Head(s) /\ Before(s, y, z) => Before(t, y, z)
  BY <1>2, <1>4, <1>6, Zenon DEF Before, n
<1> QED
  BY <1>7, <1>8, <1>9, <1>10 DEF t

\* The queue of the barrier is such a line.
LEMMA AppendBarrier ==
  ASSUME QueueOK, NEW x \in Caller \cup Request, barrier' = Append(barrier, x)
  PROVE  \A y : /\ Contains(barrier', y) <=> Contains(barrier, y) \/ y = x
                /\ Once(barrier, y) /\ (y # x \/ ~Contains(barrier, y)) => Once(barrier', y)
                /\ Contains(barrier, y) => Before(barrier', y, x)
                /\ \A z : Before(barrier, y, z) => Before(barrier', y, z)
<1> DEFINE S == Caller \cup Request
<1>1. barrier \in Seq(S) /\ x \in S
  BY DEF QueueOK
<1> HIDE DEF S
<1> QED
  BY <1>1, AppendLine, Zenon

\* Nobody is ahead of the head.
LEMMA HeadFirst ==
  ASSUME NEW S, NEW s \in Seq(S), s # <<>>, NEW x, Once(s, Head(s))
  PROVE  Contains(s, Head(s)) /\ ~Before(s, x, Head(s))
<1>1. 1 \in 1..Len(s) /\ Head(s) = s[1]
  BY LenProperties, EmptySeq
<1>2. \A i, j \in 1..Len(s) : i < j => j # 1
  BY LenProperties
<1> QED
  BY <1>1, <1>2, Zenon DEF Once, Before, Contains

\* One line goes to the end of another.
LEMMA JoinLines ==
  ASSUME NEW S, NEW s \in Seq(S), NEW t \in Seq(S)
  PROVE  \A y : /\ Contains(s \o t, y) <=> Contains(s, y) \/ Contains(t, y)
                /\ Once(s, y) /\ Once(t, y) /\ ~(Contains(s, y) /\ Contains(t, y)) => Once(s \o t, y)
                /\ \A z : \/ Before(s, y, z) \/ Before(t, y, z)
                          \/ Contains(s, y) /\ Contains(t, z)
                          => Before(s \o t, y, z)
<1> DEFINE m == Len(s)
           n == Len(t)
           u == s \o t
<1>1. /\ m \in Nat /\ n \in Nat /\ Len(u) = m + n
      /\ \A i \in 1..(m + n) : u[i] = IF i <= m THEN s[i] ELSE t[i - m]
  BY ConcatProperties, LenProperties
<1> HIDE DEF u, m, n
<1>2. \A i \in 1..m : i \in 1..Len(u) /\ u[i] = s[i]
  BY <1>1
<1>3. \A i \in 1..n : i + m \in 1..Len(u) /\ u[i + m] = t[i]
  BY <1>1
<1>4. \A i \in 1..Len(u) : (i \in 1..m /\ u[i] = s[i]) \/ (i - m \in 1..n /\ u[i] = t[i - m])
  BY <1>1
<1>5. /\ \A i, j \in 1..n : i < j => i + m < j + m
      /\ \A i \in 1..m, j \in 1..n : i < j + m
      /\ \A i, j \in 1..Len(u) : i - m = j - m => i = j
  BY <1>1
<1>6. ASSUME NEW y
      PROVE  Contains(u, y) <=> Contains(s, y) \/ Contains(t, y)
  BY <1>2, <1>3, <1>4, Zenon DEF Contains, m, n
<1>7. ASSUME NEW y, Once(s, y), Once(t, y), ~(Contains(s, y) /\ Contains(t, y))
      PROVE  Once(u, y)
  <2> SUFFICES ASSUME NEW i \in 1..Len(u), NEW j \in 1..Len(u), u[i] = y, u[j] = y
               PROVE  i = j
    BY Zenon DEF Once
  <2>1. CASE Contains(s, y)
    <3>1. i \in 1..m /\ s[i] = y /\ j \in 1..m /\ s[j] = y
      BY <1>4, <1>7, <2>1, Zenon DEF Contains, n
    <3> QED
      BY <1>7, <3>1, Zenon DEF Once, m
  <2>2. CASE ~Contains(s, y)
    <3>1. i - m \in 1..n /\ t[i - m] = y /\ j - m \in 1..n /\ t[j - m] = y
      BY <1>4, <2>2, Zenon DEF Contains, m
    <3>2. i - m = j - m
      BY <1>7, <3>1, Zenon DEF Once, n
    <3> QED
      BY <1>5, <3>2
  <2> QED
    BY <2>1, <2>2
<1>8. ASSUME NEW y, NEW z
      PROVE  /\ Before(s, y, z) => Before(u, y, z)
             /\ Before(t, y, z) => Before(u, y, z)
             /\ Contains(s, y) /\ Contains(t, z) => Before(u, y, z)
  <2>1. Before(s, y, z) => Before(u, y, z)
    BY <1>2, Zenon DEF Before, m
  <2>2. ASSUME Before(t, y, z)
        PROVE  Before(u, y, z)
    <3>1. PICK i \in 1..n, j \in 1..n : i < j /\ t[i] = y /\ t[j] = z
      BY <2>2, Zenon DEF Before, n
    <3>2. i + m \in 1..Len(u) /\ u[i + m] = y /\ j + m \in 1..Len(u) /\ u[j + m] = z
      BY <1>3, <3>1, Zenon
    <3>3. i + m < j + m
      BY <1>5, <3>1
    <3> QED
      BY <3>2, <3>3, Zenon DEF Before
  <2>3. ASSUME Contains(s, y), Contains(t, z)
        PROVE  Before(u, y, z)
    <3>1. PICK i \in 1..m : s[i] = y
      BY <2>3, Zenon DEF Contains, m
    <3>2. PICK j \in 1..n : t[j] = z
      BY <2>3, Zenon DEF Contains, n
    <3>3. i \in 1..Len(u) /\ u[i] = y /\ j + m \in 1..Len(u) /\ u[j + m] = z
      BY <1>2, <1>3, <3>1, <3>2, Zenon
    <3>4. i < j + m
      BY <1>5
    <3> QED
      BY <3>3, <3>4, Zenon DEF Before
  <2> QED
    BY <2>1, <2>2, <2>3
<1> QED
  BY <1>6, <1>7, <1>8, Zenon DEF u

\* Those that wait stay so, and in their order.
LinesKept ==
  /\ LinesOK => LinesOK'
  /\ \A c \in Caller : Stands(c)' <=> Stands(c)
  /\ \A c, d \in Caller : Stands(c) /\ Earlier(d, c) => Earlier(d, c)'

LEMMA SameLines ==
  ASSUME UNCHANGED waiting
  PROVE  LinesKept
BY Zenon DEF LinesKept, LinesOK, Stands, Earlier

LEMMA ResolvesLines ==
  ASSUME CallersOK, LinesOK, NEW p \in {"reload", "reset"}, Resolves(p)
  PROVE  LinesKept
<1> DEFINE s == waiting["resolved"]
           t == waiting[p]
<1>1. /\ waiting \in [Promise -> Seq(Caller)] /\ s \in Seq(Caller) /\ t \in Seq(Caller)
      /\ p \in Promise /\ "resolved" \in Promise /\ p # "resolved"
  BY DEF CallersOK, Promise
<1>2. /\ waiting'["resolved"] = s \o t /\ waiting'[p] = <<>>
      /\ \A q \in Promise \ {"resolved", p} : waiting'[q] = waiting[q]
  BY <1>1 DEF Resolves
<1>3. \A y : ~Contains(<<>>, y) /\ Once(<<>>, y)
  BY DEF Contains, Once
<1>4. \A c \in Caller : /\ Once(s, c) /\ Once(t, c) /\ ~(Contains(s, c) /\ Contains(t, c))
                        /\ \A q \in Promise : Once(waiting[q], c)
                        /\ \A q, r \in Promise : Contains(waiting[q], c) /\ Contains(waiting[r], c) => q = r
  BY <1>1, Zenon DEF LinesOK
<1> DEFINE u == s \o t
<1>5. \A y : /\ Contains(u, y) <=> Contains(s, y) \/ Contains(t, y)
             /\ Once(s, y) /\ Once(t, y) /\ ~(Contains(s, y) /\ Contains(t, y)) => Once(u, y)
             /\ \A z : Before(s, y, z) \/ Before(t, y, z) \/ (Contains(s, y) /\ Contains(t, z)) => Before(u, y, z)
  BY <1>1, JoinLines, Zenon
<1>6. waiting'["resolved"] = u
  BY <1>2
<1> HIDE DEF u
<1>7. LinesOK'
  <2> SUFFICES ASSUME NEW c \in Caller
               PROVE  /\ \A q \in Promise : Once(waiting'[q], c)
                      /\ \A q, r \in Promise : Contains(waiting'[q], c) /\ Contains(waiting'[r], c) => q = r
    BY Zenon DEF LinesOK
  <2>1. \A q \in Promise : Once(waiting'[q], c)
    <3> TAKE q \in Promise
    <3>1. CASE q = "resolved"
      BY <1>4, <1>5, <1>6, <3>1, Zenon
    <3>2. CASE q = p
      BY <1>2, <1>3, <3>2, Zenon
    <3>3. CASE q \notin {"resolved", p}
      BY <1>2, <1>4, <3>3, Zenon
    <3> QED
      BY <3>1, <3>2, <3>3
  <2>2. \A q \in Promise : Contains(waiting'[q], c) =>
          IF q = "resolved" THEN Contains(s, c) \/ Contains(t, c) ELSE q # p /\ Contains(waiting[q], c)
    BY <1>2, <1>3, <1>5, <1>6, Zenon
  <2>3. ASSUME NEW q \in Promise, NEW r \in Promise, Contains(waiting'[q], c), Contains(waiting'[r], c)
        PROVE  q = r
    BY <1>1, <1>4, <2>2, <2>3, Zenon
  <2> QED
    BY <2>1, <2>3
<1>8. ASSUME NEW c \in Caller
      PROVE  Stands(c)' <=> Stands(c)
  <2>1. Stands(c) => Stands(c)'
    <3> SUFFICES ASSUME NEW q \in Promise, Contains(waiting[q], c)
                 PROVE  \E r \in Promise : Contains(waiting'[r], c)
      BY Zenon DEF Stands
    <3>1. CASE q \in {"resolved", p}
      BY <1>1, <1>5, <1>6, <3>1, Zenon
    <3>2. CASE q \notin {"resolved", p}
      BY <1>2, <3>2, Zenon
    <3> QED
      BY <3>1, <3>2
  <2>2. Stands(c)' => Stands(c)
    <3> SUFFICES ASSUME NEW q \in Promise, Contains(waiting'[q], c)
                 PROVE  \E r \in Promise : Contains(waiting[r], c)
      BY Zenon DEF Stands
    <3>1. CASE q = "resolved"
      BY <1>1, <1>5, <1>6, <3>1, Zenon
    <3>2. CASE q # "resolved"
      BY <1>2, <1>3, <3>2, Zenon
    <3> QED
      BY <3>1, <3>2
  <2> QED
    BY <2>1, <2>2
<1>9. ASSUME NEW c \in Caller, NEW d \in Caller, Stands(c), Earlier(d, c)
      PROVE  Earlier(d, c)'
  <2>1. CASE \E q \in Promise : Before(waiting[q], d, c)
    <3>1. PICK q \in Promise : Before(waiting[q], d, c)
      BY <2>1
    <3>2. CASE q \in {"resolved", p}
      <4>1. Before(waiting'["resolved"], d, c)
        BY <1>5, <1>6, <3>1, <3>2, Zenon
      <4> QED
        BY <1>1, <4>1, Zenon DEF Earlier
    <3>3. CASE q \notin {"resolved", p}
      BY <1>2, <3>1, <3>3, Zenon DEF Earlier
    <3> QED
      BY <3>2, <3>3
  <2>2. CASE Contains(s, d) /\ ~Contains(s, c)
    <3>1. CASE Contains(t, c)
      <4>1. Before(waiting'["resolved"], d, c)
        BY <1>5, <1>6, <2>2, <3>1, Zenon
      <4> QED
        BY <1>1, <4>1, Zenon DEF Earlier
    <3>2. CASE ~Contains(t, c)
      BY <1>5, <1>6, <2>2, <3>2, Zenon DEF Earlier
    <3> QED
      BY <3>1, <3>2
  <2> QED
    BY <1>9, <2>1, <2>2, Zenon DEF Earlier
<1> QED
  BY <1>7, <1>8, <1>9, Zenon DEF LinesKept

\* The stage of a caller is what the line tells of it.
SameStage(c) ==
  /\ reloads'[c].pc = "called" <=> reloads[c].pc = "called"
  /\ reloads'[c].pc \in Inside <=> reloads[c].pc \in Inside
  /\ reloads[c].pc \in InFlight => reloads'[c].next = reloads[c].next

LEMMA SameLine ==
  ASSUME UNCHANGED barrier, LinesKept, \A c \in Caller : SameStage(c), InLine
  PROVE  /\ InLine'
         /\ \A c \in Caller : Latest(c) => Latest(c)'
<1>1. InLine'
  BY Zenon DEF InLine, LinesKept, SameStage
<1>2. ASSUME NEW c \in Caller, NEW d \in Caller, Ahead(d, c)
      PROVE  Ahead(d, c)'
  <2>1. reloads[c].pc = "called" => Stands(c)
    BY Zenon DEF InLine
  <2> QED
    BY <1>2, <2>1, Zenon DEF Ahead, LinesKept, SameStage
<1>3. \A c \in Caller : Latest(c) => Latest(c)'
  BY <1>2, Zenon DEF Latest, SameStage, InFlight
<1> QED
  BY <1>1, <1>3

\* Who stays in flight and stands in an unchanged contract stays the latest.
LEMMA SameContract ==
  ASSUME Contract, UNCHANGED openapi,
         \A c \in Caller : SameStage(c) /\ (Latest(c) => Latest(c)'),
         program' = program \/ \E c \in Caller : reloads[c].pc \in Inside
  PROVE  Contract'
<1>1. CASE (\A c \in Caller : reloads[c].pc \notin InFlight) /\ openapi = program
  <2>1. program' = program
    BY <1>1 DEF InFlight
  <2> QED
    BY <1>1, <2>1, Zenon DEF Contract, SameStage, InFlight
<1>2. CASE \E c \in Caller : Latest(c) /\ openapi = reloads[c].next
  BY <1>2, Zenon DEF Contract, SameStage, Latest
<1> QED
  BY <1>1, <1>2 DEF Contract

\* The watcher away from system.reload, resets, and the SDK before it calls.
LEMMA ContractUntouched ==
  ASSUME ContractInv, LinesKept, UNCHANGED <<barrier, openapi, sysProgram, program, failed, overtaken>>,
         \A c \in Caller : \/ reloads'[c] = reloads[c]
                           \/ reloads[c].pc \notin InFlight /\ reloads'[c].pc \notin InFlight
  PROVE  ContractInv'
<1>1. \A c \in Caller : SameStage(c)
  BY Zenon DEF SameStage, InFlight
<1>2. InLine' /\ \A c \in Caller : Latest(c) => Latest(c)'
  BY <1>1, SameLine DEF ContractInv
<1>3. Installed => Installed'
  BY DEF Installed, InPlace, InFlight, Inside, Holds
<1>4. Contract => Contract'
  BY <1>1, <1>2, SameContract
<1> QED
  BY <1>2, <1>3, <1>4 DEF ContractInv

\* Requests come and go in the queue of the barrier.
LEMMA ContractRequests ==
  ASSUME ReloadInv, ContractInv, NEW r \in Request, Match(r) \/ Execute(r)
  PROVE  ContractInv'
<1>1. UNCHANGED <<reloads, waiting, openapi, sysProgram, program, failed, overtaken>>
  BY Zenon DEF Match, Execute, UntouchedByRequests, history
<1>2. barrier \in Seq(Caller \cup Request) /\ \A c \in Caller : c # r
  BY RequestAssumption DEF ReloadInv, Types, QueueOK
<1>3. \A c \in Caller : /\ Once(barrier, c) => Once(barrier', c)
                        /\ Contains(barrier', c) <=> Contains(barrier, c)
                        /\ \A d : Before(barrier, c, d) => Before(barrier', c, d)
  <2>1. CASE Match(r)
    BY <1>2, <2>1, AppendLine DEF Match
  <2>2. CASE Execute(r)
    <3>1. barrier # <<>> /\ Head(barrier) = r /\ barrier' = Tail(barrier)
      BY <2>2 DEF Execute, Holds
    <3> QED
      BY <1>2, <3>1, TailLine
  <2> QED
    BY <2>1, <2>2
<1>4. InLine'
  BY <1>1, <1>3, Zenon DEF ContractInv, InLine, LinesOK, Stands
<1>5. \A c \in Caller : SameStage(c) /\ (Latest(c) => Latest(c)')
  BY <1>1, <1>3, Zenon DEF SameStage, Latest, Ahead, Earlier
<1>6. Contract => Contract'
  BY <1>1, <1>5, SameContract
<1>7. Installed => Installed'
  <2>1. \A c \in Caller : Holds(c) => Holds(c)'
    BY <1>2, AppendKeeps DEF Match, Execute, Holds, ReloadInv, Types
  <2> QED
    BY <1>1, <2>1 DEF Installed, InPlace
<1> QED
  BY <1>1, <1>4, <1>6, <1>7 DEF ContractInv

\* The holder goes on: the line is the same, the program may be replaced.
LEMMA ContractHolder ==
  ASSUME ReloadInv, ContractInv, UNCHANGED <<waiting, barrier, openapi, sysProgram, failed, overtaken>>,
         NEW c \in Caller, NEW pc \in {"hook", "initializing", "validating"},
         reloads[c].pc \in Inside, Goes(c, pc), Holds(c),
         program' = reloads[c].next
  PROVE  ContractInv'
<1>1. /\ reloads'[c].pc = pc /\ reloads'[c].next = reloads[c].next
      /\ \A d \in Caller \ {c} : reloads'[d] = reloads[d]
  BY GoesMoves DEF ReloadInv, Types, Pcs
<1>2. \A d \in Caller : SameStage(d)
  BY <1>1 DEF SameStage, Inside
<1>3. InLine' /\ \A d \in Caller : Latest(d) => Latest(d)'
  BY <1>2, SameLines, SameLine DEF ContractInv
<1>4. Contract => Contract'
  BY <1>2, <1>3, SameContract
<1>5. Installed => Installed'
  BY <1>1 DEF Installed, InPlace, Holds
<1> QED
  BY <1>3, <1>4, <1>5 DEF ContractInv

\* A caller that waits for nothing yet goes to the end of a line.
LEMMA JoinsLine ==
  ASSUME CallersOK, LinesOK, NEW c \in Caller, ~Stands(c),
         NEW k \in Promise, waiting' = [waiting EXCEPT ![k] = Append(@, c)]
  PROVE  /\ LinesOK' /\ Stands(c)'
         /\ \A d \in Caller \ {c} : Stands(d)' <=> Stands(d)
         /\ \A d, e \in Caller : e # c /\ Earlier(d, e) => Earlier(d, e)'
         /\ \A d \in Caller \ {c} :
              Stands(d) /\ (\A p \in Promise \ {"resolved", k} : ~Contains(waiting[p], d)) => Earlier(d, c)'
<1> DEFINE s == waiting[k]
<1>1. /\ waiting \in [Promise -> Seq(Caller)] /\ s \in Seq(Caller) /\ "resolved" \in Promise
      /\ waiting'[k] = Append(s, c) /\ \A q \in Promise \ {k} : waiting'[q] = waiting[q]
  BY DEF CallersOK, Promise
<1>2. /\ \A q \in Promise : ~Contains(waiting[q], c)
      /\ \A d \in Caller : /\ \A q \in Promise : Once(waiting[q], d)
                           /\ \A q, r \in Promise : Contains(waiting[q], d) /\ Contains(waiting[r], d) => q = r
  BY Zenon DEF Stands, LinesOK
<1>3. \A d : /\ Contains(waiting'[k], d) <=> Contains(s, d) \/ d = c
             /\ Once(s, d) /\ (d # c \/ ~Contains(s, d)) => Once(waiting'[k], d)
             /\ Contains(s, d) => Before(waiting'[k], d, c)
             /\ \A e : Before(s, d, e) => Before(waiting'[k], d, e)
  <2>1. s \in Seq(Caller) /\ waiting'[k] = Append(s, c)
    BY <1>1
  <2> HIDE DEF s
  <2>2. \A d : /\ Contains(Append(s, c), d) <=> Contains(s, d) \/ d = c
               /\ Once(s, d) /\ (d # c \/ ~Contains(s, d)) => Once(Append(s, c), d)
               /\ Contains(s, d) => Before(Append(s, c), d, c)
               /\ \A e : Before(s, d, e) => Before(Append(s, c), d, e)
    BY <2>1, AppendLine, Zenon
  <2> QED
    BY <2>1, <2>2, Zenon
<1>4. \A d, q : q \in Promise => (Contains(waiting'[q], d) <=> Contains(waiting[q], d) \/ (q = k /\ d = c))
  BY <1>1, <1>3, Zenon
<1>5. LinesOK'
  <2>1. ASSUME NEW d \in Caller, NEW q \in Promise
        PROVE  Once(waiting'[q], d)
    <3>1. Once(waiting'[k], d)
      BY <1>2, <1>3, Zenon
    <3>2. q # k => waiting'[q] = waiting[q]
      BY <1>1, Zenon
    <3> QED
      BY <1>2, <3>1, <3>2, Zenon
  <2>2. ASSUME NEW d \in Caller, NEW q \in Promise, NEW r \in Promise,
               Contains(waiting'[q], d), Contains(waiting'[r], d)
        PROVE  q = r
    <3>1. CASE d = c
      <4>1. ~Contains(waiting[q], d) /\ ~Contains(waiting[r], d)
        BY <1>2, <3>1
      <4>2. q = k /\ r = k
        BY <1>4, <2>2, <4>1, Zenon
      <4> QED
        BY <4>2
    <3>2. CASE d # c
      <4>1. Contains(waiting[q], d) /\ Contains(waiting[r], d)
        BY <1>4, <2>2, <3>2, Zenon
      <4> QED
        BY <1>2, <4>1, Zenon
    <3> QED
      BY <3>1, <3>2
  <2> QED
    BY <2>1, <2>2, Zenon DEF LinesOK
<1>6. Stands(c)' /\ \A d \in Caller \ {c} : Stands(d)' <=> Stands(d)
  BY <1>4, Zenon DEF Stands
<1>7. \A d, e \in Caller : e # c /\ Earlier(d, e) => Earlier(d, e)'
  <2> SUFFICES ASSUME NEW d \in Caller, NEW e \in Caller, e # c, Earlier(d, e)
               PROVE  Earlier(d, e)'
    OBVIOUS
  <2>1. CASE \E q \in Promise : Before(waiting[q], d, e)
    <3>1. PICK q \in Promise : Before(waiting[q], d, e)
      BY <2>1
    <3>2. Before(waiting'[q], d, e)
      BY <1>1, <1>3, <3>1, Zenon
    <3> QED
      BY <3>2, Zenon DEF Earlier
  <2>2. CASE Contains(waiting["resolved"], d) /\ ~Contains(waiting["resolved"], e)
    <3>1. Contains(waiting'["resolved"], d)
      BY <1>1, <1>4, <2>2, Zenon
    <3>2. ~Contains(waiting'["resolved"], e)
      BY <1>1, <1>4, <2>2, Zenon
    <3> QED
      BY <3>1, <3>2, Zenon DEF Earlier
  <2> QED
    BY <2>1, <2>2, Zenon DEF Earlier
<1>8. ASSUME NEW d \in Caller \ {c}, Stands(d), \A p \in Promise \ {"resolved", k} : ~Contains(waiting[p], d)
      PROVE  Earlier(d, c)'
  <2>1. Contains(s, d) \/ (k # "resolved" /\ Contains(waiting["resolved"], d))
    BY <1>8, Zenon DEF Stands
  <2>2. CASE Contains(s, d)
    BY <1>3, <2>2, Zenon DEF Earlier
  <2>3. CASE k # "resolved" /\ Contains(waiting["resolved"], d)
    BY <1>1, <1>2, <1>4, <2>3, Zenon DEF Earlier
  <2> QED
    BY <2>1, <2>2, <2>3
<1> QED
  BY <1>5, <1>6, <1>7, <1>8

\* The head of the line that may go on leaves it.
LEMMA LeavesLine ==
  ASSUME CallersOK, LinesOK, NEW c \in Caller,
         waiting["resolved"] # <<>>, Head(waiting["resolved"]) = c,
         waiting' = [waiting EXCEPT !["resolved"] = Tail(@)]
  PROVE  /\ LinesOK' /\ Stands(c) /\ ~Stands(c)'
         /\ \A d \in Caller \ {c} : Stands(d)' <=> Stands(d)
         /\ \A d \in Caller : ~Earlier(d, c)
         /\ \A d, e \in Caller : d # c /\ e # c /\ Earlier(d, e) => Earlier(d, e)'
<1> DEFINE s == waiting["resolved"]
<1>1. /\ waiting \in [Promise -> Seq(Caller)] /\ s \in Seq(Caller) /\ s # <<>> /\ "resolved" \in Promise
      /\ waiting'["resolved"] = Tail(s) /\ \A q \in Promise \ {"resolved"} : waiting'[q] = waiting[q]
  BY DEF CallersOK, Promise
<1>2. \A d \in Caller : /\ \A q \in Promise : Once(waiting[q], d)
                        /\ \A q, r \in Promise : Contains(waiting[q], d) /\ Contains(waiting[r], d) => q = r
  BY Zenon DEF LinesOK
<1>3. \A d : /\ Once(s, d) => Once(Tail(s), d)
             /\ d # c => (Contains(Tail(s), d) <=> Contains(s, d))
             /\ d = c /\ Once(s, d) => ~Contains(Tail(s), d)
             /\ \A e : d # c /\ Before(s, d, e) => Before(Tail(s), d, e)
  BY <1>1, TailLine
<1>4. Contains(s, c) /\ \A d : ~Before(s, d, c)
  BY <1>1, <1>2, HeadFirst
<1>5. \A d \in Caller, q \in Promise :
        Contains(waiting'[q], d) <=> Contains(waiting[q], d) /\ ~(d = c /\ q = "resolved")
  BY <1>1, <1>2, <1>3, Zenon
<1>6. LinesOK'
  <2>1. \A d \in Caller, q \in Promise : Once(waiting'[q], d)
    BY <1>1, <1>2, <1>3, Zenon
  <2>2. \A d \in Caller : \A q, r \in Promise : Contains(waiting'[q], d) /\ Contains(waiting'[r], d) => q = r
    BY <1>2, <1>5, Zenon
  <2> QED
    BY <2>1, <2>2, Zenon DEF LinesOK
<1>7. Stands(c) /\ ~Stands(c)' /\ \A d \in Caller \ {c} : Stands(d)' <=> Stands(d)
  <2>1. Stands(c) /\ \A d \in Caller \ {c} : Stands(d)' <=> Stands(d)
    BY <1>1, <1>4, <1>5, Zenon DEF Stands
  <2>2. \A q \in Promise : ~Contains(waiting'[q], c)
    BY <1>1, <1>2, <1>4, <1>5, Zenon
  <2> QED
    BY <2>1, <2>2, Zenon DEF Stands
<1>8. ASSUME NEW d \in Caller
      PROVE  ~Earlier(d, c)
  <2>1. ASSUME NEW q \in Promise, Before(waiting[q], d, c)
        PROVE  FALSE
    <3>1. Contains(waiting[q], c)
      BY <2>1, Zenon DEF Before, Contains
    <3>2. q = "resolved"
      BY <1>1, <1>2, <1>4, <3>1, Zenon
    <3> QED
      BY <1>4, <2>1, <3>2, Zenon
  <2> QED
    BY <1>4, <2>1, Zenon DEF Earlier
<1>9. ASSUME NEW d \in Caller, NEW e \in Caller, d # c, e # c, Earlier(d, e)
      PROVE  Earlier(d, e)'
  <2>1. CASE \E q \in Promise : Before(waiting[q], d, e)
    <3>1. PICK q \in Promise : Before(waiting[q], d, e)
      BY <2>1
    <3>2. Before(waiting'[q], d, e)
      BY <1>1, <1>3, <1>9, <3>1, Zenon
    <3> QED
      BY <3>2, Zenon DEF Earlier
  <2>2. CASE Contains(waiting["resolved"], d) /\ ~Contains(waiting["resolved"], e)
    BY <1>1, <1>5, <1>9, <2>2, Zenon DEF Earlier
  <2> QED
    BY <1>9, <2>1, <2>2, Zenon DEF Earlier
<1> QED
  BY <1>6, <1>7, <1>8, <1>9

\* A caller comes last: its contract is the installed one, unless somebody
\* awaits an older promise.
LEMMA ContractAwaits ==
  ASSUME ReloadInv, ContractInv, UNCHANGED <<sysProgram, program, failed, barrier>>,
         NEW c \in Caller, reloads[c].pc \notin InFlight,
         openapi' = reloads[c].next,
         initPromise # "rejected",
         Goes(c, "called"), waiting' = [waiting EXCEPT ![initPromise] = Append(@, c)],
         overtaken' = (overtaken \/ \E p \in Promise \ {"resolved", initPromise} : waiting[p] # <<>>)
  PROVE  ContractInv'
<1> USE DEF ReloadInv, Types
<1>1. /\ reloads'[c].pc = "called"
      /\ reloads'[c].next = reloads[c].next /\ \A d \in Caller \ {c} : reloads'[d] = reloads[d]
  BY GoesMoves DEF Pcs
<1>2. InLine /\ LinesOK /\ CallersOK /\ initPromise \in Promise
  BY DEF ContractInv, InLine, StoresOK, Promise
<1>3. ~Stands(c) /\ ~Contains(barrier, c)
  BY <1>2 DEF InLine, InFlight
<1>4. /\ LinesOK' /\ Stands(c)'
      /\ \A d \in Caller \ {c} : Stands(d)' <=> Stands(d)
      /\ \A d \in Caller \ {c} :
           Stands(d) /\ (\A p \in Promise \ {"resolved", initPromise} : ~Contains(waiting[p], d)) => Earlier(d, c)'
  BY <1>2, <1>3, JoinsLine
<1>5. InLine'
  BY <1>1, <1>2, <1>3, <1>4 DEF InLine, Inside
<1>6. CASE failed \/ overtaken'
  BY <1>5, <1>6 DEF ContractInv
<1>7. CASE ~failed /\ ~overtaken'
  <2>1. Installed /\ ~overtaken /\ \A p \in Promise \ {"resolved", initPromise} : waiting[p] = <<>>
    BY <1>7 DEF ContractInv
  <2>2. \A p \in Promise \ {"resolved", initPromise}, d \in Caller : ~Contains(waiting[p], d)
    BY <2>1 DEF Contains
  <2>3. \A d \in Caller \ {c} : reloads'[d].pc = "called" => Earlier(d, c)'
    BY <1>1, <1>2, <1>4, <2>2 DEF InLine
  <2>4. Latest(c)'
    BY <1>1, <2>3 DEF Latest, Ahead, InFlight
  <2>5. Contract'
    BY <1>1, <2>4 DEF Contract
  <2>6. Installed'
    BY <1>1, <2>1 DEF Installed, InPlace, InFlight, Inside, Holds
  <2> QED
    BY <1>5, <2>5, <2>6 DEF ContractInv
<1> QED
  BY <1>6, <1>7

LEMMA ContractQueues ==
  ASSUME ReloadInv, ContractInv, UNCHANGED <<sysProgram, program, failed, waiting>>,
         NEW c \in Caller, reloads[c].pc \notin InFlight,
         openapi' = reloads[c].next,
         Queues(c), waiting["resolved"] = <<>>,
         overtaken' = (overtaken \/ \E p \in Promise \ {"resolved"} : waiting[p] # <<>>)
  PROVE  ContractInv'
<1> USE DEF ReloadInv, Types
<1>1. /\ reloads'[c].pc = "queued" /\ barrier' = Append(barrier, c)
      /\ reloads'[c].next = reloads[c].next /\ \A d \in Caller \ {c} : reloads'[d] = reloads[d]
  BY GoesMoves DEF Pcs, Queues
<1>2. InLine /\ LinesOK' /\ \A d \in Caller : Stands(d)' <=> Stands(d)
  BY SameLines DEF ContractInv, InLine, LinesKept
<1>3. ~Stands(c) /\ ~Contains(barrier, c) /\ \A d \in Caller : Once(barrier, d)
  BY <1>2 DEF InLine, InFlight
<1>4. \A d \in Caller : /\ Once(barrier', d)
                        /\ Contains(barrier', d) <=> Contains(barrier, d) \/ d = c
                        /\ Contains(barrier, d) => Before(barrier', d, c)
  BY <1>1, <1>3, AppendBarrier
<1>5. InLine'
  BY <1>1, <1>2, <1>3, <1>4 DEF InLine, Inside
<1>6. CASE failed \/ overtaken'
  BY <1>5, <1>6 DEF ContractInv
<1>7. CASE ~failed /\ ~overtaken'
  <2>1. Installed /\ \A p \in Promise : waiting[p] = <<>>
    BY <1>7 DEF ContractInv
  <2>2. \A d \in Caller : reloads[d].pc # "called"
    BY <1>2, <2>1 DEF InLine, Stands, Contains
  <2>3. Latest(c)'
    BY <1>1, <1>2, <1>4, <2>2 DEF Latest, Ahead, InFlight, Inside, InLine
  <2>4. Contract'
    BY <1>1, <2>3 DEF Contract
  <2>5. \A d \in Caller : Holds(d) => Holds(d)'
    BY <1>1, AppendKeeps
  <2>6. Installed'
    BY <1>1, <2>1, <2>5 DEF Installed, InPlace, InFlight, Inside
  <2> QED
    BY <1>5, <2>4, <2>6 DEF ContractInv
<1> QED
  BY <1>6, <1>7

\* The first that may go on goes to the end of the queue.
LEMMA ContractEnters ==
  ASSUME ReloadInv, ContractInv, UNCHANGED <<openapi, sysProgram, program, failed, overtaken>>,
         NEW c \in Caller, waiting["resolved"] # <<>>, Head(waiting["resolved"]) = c,
         waiting' = [waiting EXCEPT !["resolved"] = Tail(@)], Queues(c)
  PROVE  ContractInv'
<1> USE DEF ReloadInv, Types
<1>1. /\ reloads'[c].pc = "queued" /\ barrier' = Append(barrier, c)
      /\ reloads'[c].next = reloads[c].next /\ \A d \in Caller \ {c} : reloads'[d] = reloads[d]
  BY GoesMoves DEF Pcs, Queues
<1>2. InLine /\ LinesOK /\ CallersOK
  BY DEF ContractInv, InLine
<1>3. /\ LinesOK' /\ Stands(c) /\ ~Stands(c)'
      /\ \A d \in Caller \ {c} : Stands(d)' <=> Stands(d)
      /\ \A d \in Caller : ~Earlier(d, c)
      /\ \A d, e \in Caller : d # c /\ e # c /\ Earlier(d, e) => Earlier(d, e)'
  BY <1>2, LeavesLine
<1>4. reloads[c].pc = "called" /\ ~Contains(barrier, c) /\ \A d \in Caller : Once(barrier, d)
  BY <1>2, <1>3 DEF InLine, Inside
<1>5. \A d \in Caller : /\ Once(barrier', d)
                        /\ Contains(barrier', d) <=> Contains(barrier, d) \/ d = c
                        /\ Contains(barrier, d) => Before(barrier', d, c)
                        /\ \A e : Before(barrier, d, e) => Before(barrier', d, e)
  BY <1>1, <1>4, AppendBarrier
<1>6. InLine'
  BY <1>1, <1>2, <1>3, <1>4, <1>5 DEF InLine, Inside
<1>7. \A d \in Caller : Latest(d) => Latest(d)' /\ reloads'[d].next = reloads[d].next
  <2> SUFFICES ASSUME NEW d \in Caller, Latest(d), NEW e \in Caller \ {d}, reloads'[e].pc \in InFlight
               PROVE  Ahead(e, d)'
    BY <1>1 DEF Latest, InFlight, Inside
  <2>1. reloads[e].pc \in InFlight /\ Ahead(e, d)
    BY <1>1, <1>4 DEF Latest, InFlight
  <2>2. CASE d = c
    <3>1. reloads[e].pc \in Inside
      BY <1>3, <1>4, <2>1, <2>2 DEF Ahead, Inside
    <3> QED
      BY <1>1, <1>2, <1>5, <2>2, <3>1 DEF Ahead, InLine, Inside
  <2>3. CASE d # c /\ e = c
    BY <1>1, <1>4, <2>1, <2>3 DEF Ahead, Inside
  <2>4. CASE d # c /\ e # c
    BY <1>1, <1>3, <1>5, <2>1, <2>4 DEF Ahead
  <2> QED
    BY <2>2, <2>3, <2>4
<1>8. Contract => Contract'
  BY <1>1, <1>4, <1>7 DEF Contract, InFlight
<1>9. Installed => Installed'
  <2>1. \A d \in Caller : Holds(d) => Holds(d)'
    BY <1>1, AppendKeeps
  <2> QED
    BY <1>1, <1>4, <2>1 DEF Installed, InPlace
<1> QED
  BY <1>6, <1>8, <1>9 DEF ContractInv

\* The holder leaves: the next in line had its contract installed later.
LEMMA ContractLeaves ==
  ASSUME ReloadInv, ContractInv, LinesKept, UNCHANGED <<openapi, overtaken>>,
         NEW c \in Caller, NEW pc \in {"idle", "replaced"}, Goes(c, pc),
         Holds(c), barrier' = Tail(barrier),
         failed' \/ overtaken \/ (UNCHANGED failed /\ program' = reloads[c].next /\ sysProgram' = program')
  PROVE  ContractInv'
<1>1. /\ reloads'[c].pc = pc /\ \A d \in Caller \ {c} : reloads'[d] = reloads[d]
  BY GoesMoves DEF ReloadInv, Types, Pcs
<1>2. barrier \in Seq(Caller \cup Request) /\ barrier # <<>> /\ Head(barrier) = c
  BY DEF ReloadInv, Types, QueueOK, Holds
<1>3. InLine /\ Once(barrier, c) /\ Contains(barrier, c) /\ \A d \in Caller : ~Before(barrier, d, c)
  BY <1>2, HeadFirst DEF ContractInv, InLine
<1>4. reloads[c].pc \in Inside
  BY <1>3 DEF InLine
<1>5. /\ \A d \in Caller : Once(barrier', d)
      /\ \A d \in Caller \ {c} : Contains(barrier', d) <=> Contains(barrier, d)
      /\ ~Contains(barrier', c)
      /\ \A d, e \in Caller : d # c /\ Before(barrier, d, e) => Before(barrier', d, e)
  <2>1. \A d \in Caller : Once(barrier, d)
    BY <1>3 DEF InLine
  <2>2. /\ \A d \in Caller : Once(barrier', d)
        /\ \A d \in Caller \ {c} : Contains(barrier', d) <=> Contains(barrier, d)
    BY <1>2, <2>1, TailLine
  <2>3. ~Contains(barrier', c)
    BY <1>2, <2>1, TailLine
  <2>4. \A d, e \in Caller : d # c /\ Before(barrier, d, e) => Before(barrier', d, e)
    BY <1>2, TailLine
  <2> QED
    BY <2>2, <2>3, <2>4
<1>6. InLine' /\ \A d \in Caller : reloads[d].pc = "called" => Stands(d)
  BY <1>1, <1>3, <1>4, <1>5 DEF InLine, Inside, LinesKept
<1>7. CASE failed' \/ overtaken
  BY <1>6, <1>7 DEF ContractInv
<1>8. CASE UNCHANGED failed /\ ~failed /\ ~overtaken /\ program' = reloads[c].next /\ sysProgram' = program'
  <2>1. Contract /\ Installed
    BY <1>8 DEF ContractInv
  <2>2. PICK d \in Caller : Latest(d) /\ openapi = reloads[d].next
    BY <1>4, <2>1 DEF Contract, InFlight
  <2>3. d = c => \A e \in Caller : reloads'[e].pc \notin InFlight
    BY <1>1, <1>3, <1>4, <2>2 DEF Latest, Ahead, InFlight, Inside
  <2>4. d # c => Latest(d)'
    BY <1>1, <1>5, <1>6, <2>2 DEF Latest, Ahead, InFlight, Inside, LinesKept
  <2>5. Contract'
    <3>1. CASE d = c
      BY <1>8, <2>2, <2>3, <3>1 DEF Contract
    <3>2. CASE d # c
      BY <1>1, <2>2, <2>4, <3>2 DEF Contract
    <3> QED
      BY <3>1, <3>2
  <2>6. InPlace' /\ \A e \in Caller : reloads'[e].pc \notin {"hook", "initializing", "validating"}
    BY <1>1, <1>2, <2>1 DEF Installed, InPlace, Holds
  <2> QED
    BY <1>6, <1>8, <2>5, <2>6 DEF ContractInv, Installed
<1> QED
  BY <1>7, <1>8

\* A caller is refused before it stands in a line: something has failed.
LEMMA ContractRefused ==
  ASSUME ReloadInv, ContractInv, UNCHANGED <<barrier, waiting>>, failed',
         NEW c \in Caller, Goes(c, "idle"), reloads[c].pc = "compiling"
  PROVE  ContractInv'
<1>1. /\ reloads'[c].pc = "idle" /\ \A d \in Caller \ {c} : reloads'[d] = reloads[d]
  BY GoesMoves DEF ReloadInv, Types, Pcs
<1>2. InLine /\ LinesOK' /\ \A d \in Caller : Stands(d)' <=> Stands(d)
  BY SameLines DEF ContractInv, InLine, LinesKept
<1>3. InLine'
  BY <1>1, <1>2 DEF InLine, Inside
<1> QED
  BY <1>3 DEF ContractInv

LEMMA ContractKept ==
  ASSUME ReloadInv, ContractInv, [Next]_vars
  PROVE  ContractInv'
<1> USE DEF ReloadInv, Types
<1>1. CASE \/ Edit \/ Poll \/ Compare \/ EndPoll \/ ForceReload \/ LoadSources \/ Snapshot \/ CallByHand
  <2>1. UNCHANGED <<waiting, barrier, openapi, sysProgram, program, failed, overtaken>>
    BY <1>1, Zenon DEF Edit, Poll, Compare, EndPoll, ForceReload, LoadSources, Snapshot, CallByHand, Elsewhere, engine,
       history
  <2>2. \/ UNCHANGED reloads
        \/ reloads' = Started(reloads)
        \/ /\ reloads["watcher"].pc = "loading"
           /\ reloads' = [reloads EXCEPT !["watcher"] = [pc |-> "compiling", next |-> files]]
        \/ reloads["watcher"].pc = "replaced" /\ reloads' = [reloads EXCEPT !["watcher"] = Idle]
        \/ /\ reloads["sdk"].pc = "idle"
           /\ \E v \in Version : reloads' = [reloads EXCEPT !["sdk"] = [pc |-> "compiling", next |-> v]]
    BY <1>1, Zenon DEF Edit, Poll, Compare, EndPoll, ForceReload, LoadSources, Snapshot, CallByHand
  <2>3. \A c \in Caller : \/ reloads'[c] = reloads[c]
                          \/ reloads[c].pc \notin InFlight /\ reloads'[c].pc \notin InFlight
    BY <2>2 DEF CallersOK, Started, Idle, Caller, InFlight, Inside
  <2> QED
    BY <2>1, <2>3, SameLines, ContractUntouched
<1>2. CASE Reset \/ ResetStep \/ UNCHANGED vars
  <2>1. UNCHANGED <<reloads, barrier, openapi, sysProgram, program, failed, overtaken>>
    BY <1>2, Zenon DEF Reset, ResetStep, ResetAfterHook, ResetInitialized, UntouchedByReset, vars, engine, history
  <2>2. UNCHANGED waiting \/ Resolves("reset")
    BY <1>2, Zenon DEF Reset, ResetStep, ResetAfterHook, ResetInitialized, vars
  <2>3. LinesKept
    BY <2>2, SameLines, ResolvesLines DEF ContractInv, InLine
  <2> QED
    BY <2>1, <2>3, ContractUntouched
<1>3. ASSUME NEW c \in Caller, Call(c)
      PROVE  ContractInv'
  <2>1. reloads[c].pc = "compiling" /\ UNCHANGED <<sysProgram, program, initPromise>>
    BY <1>3, Zenon DEF Call, engine
  <2>2. reloads[c].pc \notin InFlight
    BY <2>1 DEF InFlight, Inside
  <2>3. CASE Goes(c, "idle") /\ UNCHANGED <<openapi, waiting, barrier, failed, overtaken>>
    <3>1. reloads'[c].pc = "idle" /\ \A d \in Caller \ {c} : reloads'[d] = reloads[d]
      BY <2>3, GoesMoves DEF Pcs
    <3>2. \A d \in Caller : \/ reloads'[d] = reloads[d]
                            \/ reloads[d].pc \notin InFlight /\ reloads'[d].pc \notin InFlight
      BY <2>2, <3>1 DEF InFlight, Inside
    <3> QED
      BY <2>1, <2>3, <3>2, SameLines, ContractUntouched
  <2>4. CASE openapi' = reloads[c].next /\ Awaits(c)
    <3>1. CASE Goes(c, "idle") /\ failed' = TRUE /\ UNCHANGED <<waiting, barrier>>
      BY <2>1, <2>4, <3>1, ContractRefused
    <3>2. CASE /\ initPromise = "resolved" /\ waiting["resolved"] = <<>> /\ Queues(c)
               /\ UNCHANGED <<waiting, failed>>
               /\ overtaken' = (overtaken \/ \E p \in Promise \ {"resolved", initPromise} : waiting[p] # <<>>)
      <4>1. overtaken' = (overtaken \/ \E p \in Promise \ {"resolved"} : waiting[p] # <<>>)
        BY <3>2
      <4> QED
        BY <2>1, <2>2, <2>4, <3>2, <4>1, ContractQueues
    <3>3. CASE /\ initPromise # "rejected" /\ Goes(c, "called")
               /\ waiting' = [waiting EXCEPT ![initPromise] = Append(@, c)]
               /\ UNCHANGED <<barrier, failed>>
               /\ overtaken' = (overtaken \/ \E p \in Promise \ {"resolved", initPromise} : waiting[p] # <<>>)
      BY <2>1, <2>2, <2>4, <3>3, ContractAwaits
    <3> QED
      BY <2>4, <3>1, <3>2, <3>3, Zenon DEF Awaits
  <2> QED
    BY <1>3, <2>3, <2>4, Zenon DEF Call
<1>4. ASSUME NEW c \in Caller, Enters(c)
      PROVE  ContractInv'
  <2>1. /\ waiting["resolved"] # <<>> /\ Head(waiting["resolved"]) = c
        /\ waiting' = [waiting EXCEPT !["resolved"] = Tail(@)] /\ Queues(c)
        /\ UNCHANGED <<openapi, sysProgram, program, failed, overtaken>>
    BY <1>4, Zenon DEF Enters, engine, history
  <2> QED
    BY <2>1, ContractEnters
<1>5. CASE Begin \/ AfterHook \/ Initialized
  <2> DEFINE c == "watcher"
  <2>1. c \in Caller /\ Holds(c) /\ UNCHANGED <<openapi, overtaken>> /\ reloads[c].pc \in Inside
    BY <1>5 DEF Begin, AfterHook, Initialized, Rest, Holders, Caller, Inside
  <2>2. CASE Begin
    <3>1. Goes(c, "hook") /\ program' = reloads[c].next /\ UNCHANGED <<waiting, barrier, sysProgram, failed>>
      BY <2>2, Zenon DEF Begin, InstallCleared
    <3> QED
      BY <2>1, <3>1, ContractHolder
  <2>3. CASE AfterHook
    <3>1. UNCHANGED waiting /\ LinesKept
      BY <2>3, SameLines DEF AfterHook
    <3>2. CASE Fails(c)
      BY <2>1, <3>1, <3>2, ContractLeaves DEF Fails
    <3>3. CASE Goes(c, "initializing") /\ UNCHANGED <<program, sysProgram, barrier, failed>>
      <4>1. program = reloads[c].next \/ failed \/ overtaken
        BY <2>1, <2>3 DEF AfterHook, ContractInv, Installed
      <4>2. CASE program = reloads[c].next
        BY <2>1, <3>1, <3>3, <4>2, ContractHolder
      <4>3. CASE failed \/ overtaken
        <5>1. \A d \in Caller : SameStage(d)
          BY <2>1, <3>3, GoesMoves DEF SameStage, Inside, Pcs
        <5>2. InLine'
          BY <2>1, <3>1, <3>3, <5>1, SameLine DEF ContractInv
        <5> QED
          BY <2>1, <3>3, <4>3, <5>2 DEF ContractInv
      <4> QED
        BY <4>1, <4>2, <4>3
    <3> QED
      BY <2>3, <3>2, <3>3, Zenon DEF AfterHook
  <2>4. CASE Initialized
    <3>1. /\ reloads[c].pc = "initializing" /\ Goes(c, "replaced") /\ sysProgram' = reloads[c].next
          /\ barrier' = Tail(barrier) /\ UNCHANGED <<program, failed>> /\ Resolves("reload")
      BY <2>4, Zenon DEF Initialized, Succeeds
    <3>2. LinesKept
      BY <3>1, ResolvesLines DEF ContractInv, InLine
    <3>3. CASE failed \/ overtaken
      BY <2>1, <3>1, <3>2, <3>3, ContractLeaves
    <3>4. CASE ~failed /\ ~overtaken
      <4>1. program = reloads[c].next
        BY <2>1, <3>1, <3>4 DEF ContractInv, Installed
      <4> QED
        BY <2>1, <3>1, <3>2, <4>1, ContractLeaves
    <3> QED
      BY <3>3, <3>4
  <2> QED
    BY <1>5, <2>2, <2>3, <2>4
<1>6. CASE BeginPreserving \/ Validated
  <2> DEFINE c == "sdk"
  <2>1. /\ c \in Caller /\ Holds(c) /\ UNCHANGED <<openapi, overtaken, waiting>> /\ reloads[c].pc \in Inside
        /\ LinesKept
    BY <1>6, SameLines DEF BeginPreserving, Validated, Rest, Holders, Caller, Inside
  <2>2. CASE Fails(c)
    BY <2>1, <2>2, ContractLeaves DEF Fails
  <2>3. CASE Goes(c, "validating") /\ program' = reloads[c].next /\ UNCHANGED <<sysProgram, barrier, failed>>
    BY <2>1, <2>3, ContractHolder
  <2>4. CASE Validated /\ Succeeds(c) /\ UNCHANGED program
    <3>1. /\ Goes(c, "idle") /\ sysProgram' = program' /\ program' = reloads[c].next
          /\ barrier' = Tail(barrier) /\ UNCHANGED failed
      BY <2>4 DEF Succeeds, Validated, Validating
    <3> QED
      BY <2>1, <3>1, ContractLeaves
  <2> QED
    BY <1>6, <2>2, <2>3, <2>4, Zenon DEF BeginPreserving, Validated
<1>7. ASSUME NEW c \in Caller, ReloadStep(c)
      PROVE  ContractInv'
  BY <1>1, <1>3, <1>4, <1>5, <1>6, <1>7, Zenon DEF ReloadStep
<1> QED
  BY <1>1, <1>2, <1>7, ContractRequests, Zenon DEF Next

(***************************************************************************)
(* Unless a reload has failed after it had installed its contract, or was  *)
(* called while another awaited an older promise of initialize, the        *)
(* contract is that of the program whenever no reload is under way.        *)
(***************************************************************************)
THEOREM ContractAndProgramAgree == Spec => []ContractFitsProgram
<1>1. Init => ContractInv
  BY EmptySeq DEF Init, ContractInv, InLine, LinesOK, Stands, Contract, Installed, InPlace, Idle, Caller, InFlight,
     Inside, Contains, Once
<1>2. ReloadInv /\ ContractInv /\ [Next]_vars => ReloadInv' /\ ContractInv'
  BY ReloadKept, ContractKept
<1>3. ContractInv => ContractFitsProgram
  <2> SUFFICES ASSUME ContractInv, ~failed, ~overtaken,
                      \A c \in Caller : reloads[c].pc \in {"idle", "loading", "compiling", "replaced"}
               PROVE  openapi = program /\ sysProgram = program
    BY DEF ContractFitsProgram
  <2>1. \A c \in Caller : reloads[c].pc \notin InFlight
    BY DEF InFlight, Inside
  <2>2. InPlace
    BY DEF InPlace
  <2> QED
    BY <2>1, <2>2 DEF ContractInv, Contract, Installed, Latest
<1> QED
  BY ReloadInit, <1>1, <1>2, <1>3, PTL DEF Spec
=============================================================================
