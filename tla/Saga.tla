-------------------------------- MODULE Saga --------------------------------
(***************************************************************************)
(* RuntimeEngine.runSagas (src/src/core/engine.ts): the sagas that one     *)
(* committed command triggers, their steps and their compensations, run as *)
(* secondary commands inside the request that still holds the barrier and, *)
(* outside a batch, the locks of the triggering command.                   *)
(*                                                                         *)
(* The barrier admits no other request, so the module follows one request. *)
(* Steps inherit the headers of the request: with an Idempotency-Key every *)
(* step has a key of its own, composed with its boundary and operation.    *)
(* The inherited If-Match version is one of the ways a step throws.        *)
(* Seeds, actors and payloads are abstracted away.  The post-commit work   *)
(* of the trigger precedes its sagas, that of a step the rest of its saga. *)
(***************************************************************************)
EXTENDS Integers, Sequences, FiniteSets, SequencesExt

CONSTANTS
  Aggregate,     \* lock keys of aggregates
  Operation,     \* boundary and operation of a command; also its lock key with a client key
  NoUndo,        \* a step without compensation
  Cascade,       \* the lock of programs with reactions or dispatched commands
  Plans,         \* triggering commands and the sagas they start
  Twice,         \* operations that commit two events
  Announcing,    \* operations whose events trigger the webhook
  MaxAttempts,   \* of the delivery of a webhook
  MaxSagas,      \* bound: sagas of one trigger
  MaxSteps       \* bound: steps of one saga

Action == [agg : Aggregate, op : Operation]
Step   == [do : Action, undo : Action \cup {NoUndo}]

\* What may go wrong beside a step that throws: a declared fault answers a
\* step with an error status, post-commit work of a step throws, conditions
\* and compensation targets throw, reducers of the projection throw, the
\* endpoint of the webhook refuses.
Mishap == {"fault", "hook", "expression", "reducer", "endpoint"}
Plan   == [trigger : Action, keyed : BOOLEAN, batched : BOOLEAN, sagas : Seq(Seq(Step)),
           may : SUBSET Mishap, skipped : SUBSET {"projections", "webhooks"}]

ASSUME PlansAssumption ==
  \A p \in Plans : p \in Plan /\ Len(p.sagas) <= MaxSagas
                  /\ \A s \in DOMAIN p.sagas : Len(p.sagas[s]) <= MaxSteps
ASSUME BoundsAssumption == MaxSagas \in Nat /\ MaxSteps \in Nat
ASSUME NamesAssumption ==
  /\ NoUndo \notin Action
  /\ Twice \cup Announcing \subseteq Operation /\ MaxAttempts \in Nat \ {0}
  /\ Aggregate \cap Operation = {} /\ Cascade \notin Aggregate \cup Operation

VARIABLES
  plan,
  phase,         \* where the loop of runSagas is
  saga, step,    \* the saga and the step it has reached
  completed,     \* steps of the saga to compensate if a later one throws
  journal,       \* the events of each saga instance under __saga__
  held,          \* the locks of the triggering command
  recorded,      \* operations that have a record under the request's key
  executed,      \* steps whose command was committed
  undone,        \* steps whose compensation was committed
  \* Of PostCommit:
  log, stage, fresh, outbox, attempts, rows, delivered, unprojected, unannounced

\* The cause of an event: the saga and the step, 0 and 0 for the trigger.
DomainEvent == [saga : 0..MaxSagas, step : 0..MaxSteps, undo : BOOLEAN, op : Operation, nth : 1..2]

INSTANCE PostCommit WITH Event <- DomainEvent, Announced <- {e \in DomainEvent : e.op \in Announcing}

outside == <<log, stage, fresh, outbox, attempts, rows, delivered, unprojected, unannounced>>
vars == <<plan, phase, saga, step, completed, journal, held, recorded, executed, undone, outside>>

Running   == {"trigger", "next", "do", "doLocks", "doPost", "undo", "undoLocks", "undoPost"}
StepId    == (1..MaxSagas) \X (1..MaxSteps)
EntryType == {"SagaStarted", "SagaStepCompleted", "SagaStepFailed", "SagaCompensated",
              "SagaCompensationFailed", "SagaCompleted", "SagaFailed"}
Entry     == [type : EntryType, step : 0..MaxSteps]

TypeOK ==
  /\ plan \in Plans
  /\ phase \in Running \cup {"finished", "failed"}
  /\ saga \in 1..(MaxSagas + 1)
  /\ step \in 1..(MaxSteps + 1)
  /\ completed \in Seq(1..MaxSteps)
  /\ journal \in [1..MaxSagas -> Seq(Entry)]
  /\ held \in SUBSET (Aggregate \cup Operation \cup {Cascade})
  /\ recorded \in SUBSET Operation
  /\ executed \in SUBSET StepId
  /\ undone \in SUBSET StepId

\* Its aggregate and its idempotency key.
OwnLocks(action) ==
  {action.agg} \cup (IF plan.keyed THEN {action.op} ELSE {})

PrimaryLocks(action) == OwnLocks(action) \cup {Cascade}

\* The cascade lock for every command.
EveryCommandCascades(action) == PrimaryLocks(action)

\* Secondary commands run inside the cascade lock of their owner.
SecondaryLocks(action) == OwnLocks(action)

\* What the command of an operation commits.
Emitted(s, n, isUndo, op) ==
  [i \in 1..(IF op \in Twice THEN 2 ELSE 1) |->
     [saga |-> s, step |-> n, undo |-> isUndo, op |-> op, nth |-> i]]

\* The trigger is committed.  A batch has released the locks of its items and
\* stored their records before it runs the post-commit work.
Init ==
  /\ plan \in Plans
  /\ InitOutside(Emitted(0, 0, FALSE, plan.trigger.op))
  /\ phase = "trigger"
  /\ saga = 1
  /\ step = 1
  /\ completed = <<>>
  /\ journal = [s \in 1..MaxSagas |-> <<>>]
  /\ held = IF plan.batched THEN {} ELSE PrimaryLocks(plan.trigger)
  /\ recorded = IF plan.batched /\ plan.keyed THEN {plan.trigger.op} ELSE {}
  /\ executed = {}
  /\ undone = {}

Steps   == plan.sagas[saga]
HasSaga == saga <= Len(plan.sagas)
HasStep == step <= Len(Steps)

\* appendSagaEvent.
Write(type, n) ==
  journal' = [journal EXCEPT ![saga] = Append(@, [type |-> type, step |-> n])]

-----------------------------------------------------------------------------
(* The loop over the sagas.                                                *)

StartSaga ==
  /\ phase = "next" /\ HasSaga
  /\ Write("SagaStarted", 0)
  /\ phase' = "do"
  /\ step' = 1
  /\ completed' = <<>>
  /\ UNCHANGED <<plan, saga, held, recorded, executed, undone, outside>>

\* No event triggers the saga, or its condition is false.
SkipSaga ==
  /\ phase = "next" /\ HasSaga
  /\ saga' = saga + 1
  /\ UNCHANGED <<plan, phase, step, completed, journal, held, recorded, executed, undone, outside>>

\* The condition throws: so does runPostCommit, and the request fails.
ConditionThrows ==
  /\ "expression" \in plan.may
  /\ phase = "next" /\ HasSaga
  /\ phase' = "failed"
  /\ held' = {}
  /\ UNCHANGED <<plan, saga, step, completed, journal, recorded, executed, undone, outside>>

FinishSagas ==
  /\ phase = "next" /\ ~HasSaga
  /\ phase' = "finished"
  /\ held' = {}
  /\ UNCHANGED <<plan, saga, step, completed, journal, recorded, executed, undone, outside>>

CompleteSaga ==
  /\ phase = "do" /\ ~HasStep
  /\ Write("SagaCompleted", 0)
  /\ phase' = "next"
  /\ saga' = saga + 1
  /\ UNCHANGED <<plan, step, completed, held, recorded, executed, undone, outside>>

\* Every compensation was attempted.
FailSaga ==
  /\ phase = "undo" /\ completed = <<>>
  /\ Write("SagaFailed", step)
  /\ phase' = "next"
  /\ saga' = saga + 1
  /\ UNCHANGED <<plan, step, completed, held, recorded, executed, undone, outside>>

-----------------------------------------------------------------------------
(* The secondary command of a step or of a compensation: executeUnlocked.  *)

\* The oldest completed step first.
UndoOldest == Head(completed)

\* Compensations run in reverse.
UndoNext == Last(completed)

Doing   == phase \in {"do", "doLocks", "doPost"}
Undoing == phase \in {"undo", "undoLocks", "undoPost"}
Waiting == phase \in {"doLocks", "undoLocks"}

HasCommand ==
  \/ Doing /\ HasStep
  \/ Undoing /\ completed # <<>> /\ Steps[UndoNext].undo # NoUndo

Command == IF Doing THEN Steps[step].do ELSE Steps[UndoNext].undo

\* A completed step without compensation is passed over.
SkipUndo ==
  /\ phase = "undo" /\ completed # <<>>
  /\ Steps[UndoNext].undo = NoUndo
  /\ completed' = Front(completed)
  /\ UNCHANGED <<plan, phase, saga, step, journal, held, recorded, executed, undone, outside>>

\* The arguments of a compensation are computed outside its try: a throw ends
\* the chain and the request.
UndoArgumentsThrow ==
  /\ "expression" \in plan.may
  /\ phase = "undo" /\ HasCommand
  /\ phase' = "failed"
  /\ held' = {}
  /\ UNCHANGED <<plan, saga, step, completed, journal, recorded, executed, undone, outside>>

\* A failed step that is compensated as if it had completed.
FailAsCompleted ==
  /\ Write("SagaStepFailed", step)
  /\ completed' = Append(completed, step)
  /\ phase' = "undo"
  /\ UNCHANGED step

\* The step throws: SagaStepFailed, and the completed steps are compensated.
StepFails ==
  /\ Write("SagaStepFailed", step)
  /\ phase' = "undo"
  /\ UNCHANGED <<step, completed>>

StepSucceeds ==
  /\ Write("SagaStepCompleted", step)
  /\ completed' = Append(completed, step)
  /\ step' = step + 1
  /\ phase' = "do"

\* A compensation throws: noted, and the chain continues.
CompensationFails ==
  /\ Write("SagaCompensationFailed", UndoNext)
  /\ completed' = Front(completed)
  /\ phase' = "undo"
  /\ UNCHANGED step

CompensationSucceeds ==
  /\ Write("SagaCompensated", UndoNext)
  /\ completed' = Front(completed)
  /\ phase' = "undo"
  /\ UNCHANGED step

Succeeds == IF Doing THEN StepSucceeds ELSE CompensationSucceeds
Fails    == IF Doing THEN StepFails ELSE CompensationFails

\* The command is committed.
Effect ==
  /\ executed' = IF Doing THEN executed \cup {<<saga, step>>} ELSE executed
  /\ undone' = IF Doing THEN undone ELSE undone \cup {<<saga, UndoNext>>}

\* cachedIdempotency with the inherited key.
Cached == plan.keyed /\ Command.op \in recorded

\* A result without effect: from the key, or a fault.  Any result succeeds.
CommandAnswered ==
  /\ phase \in {"do", "undo"} /\ HasCommand
  /\ Cached \/ "fault" \in plan.may
  /\ Succeeds
  /\ UNCHANGED <<plan, saga, held, recorded, executed, undone, outside>>

\* The command is admitted and queues on its locks.
CommandQueues ==
  /\ phase \in {"do", "undo"} /\ HasCommand
  /\ ~Cached
  /\ phase' = IF phase = "do" THEN "doLocks" ELSE "undoLocks"
  /\ UNCHANGED <<plan, saga, step, completed, journal, held, recorded, executed, undone, outside>>

\* acquireMany resolves once nobody else holds a lock of the command; the
\* locks are not reentrant, and the trigger keeps its own until it returns.
LocksFree == SecondaryLocks(Command) \cap held = {}

\* It throws before it commits: validation, authorization, a missing or a
\* present entity, If-Match, a guard, a reducer.
CommandThrows ==
  /\ HasCommand
  /\ phase \in {"do", "undo"} \/ (Waiting /\ LocksFree)
  /\ Fails
  /\ UNCHANGED <<plan, saga, held, recorded, executed, undone, outside>>

CommandCommits ==
  /\ Waiting /\ LocksFree
  /\ Effect
  /\ CommitEvents(IF Doing THEN Emitted(saga, step, FALSE, Command.op)
                  ELSE Emitted(saga, UndoNext, TRUE, Command.op))
  /\ phase' = IF Doing THEN "doPost" ELSE "undoPost"
  /\ UNCHANGED <<plan, saga, step, completed, journal, held, recorded>>

-----------------------------------------------------------------------------
(* The post-commit work of the trigger, of a step or of a compensation.    *)

PostCommitStep ==
  /\ \/ HookReturns \/ Deliver
     \/ "endpoint" \in plan.may /\ DeliveryFails
     \/ \E failing \in SUBSET Range(fresh) :
          ("reducer" \in plan.may \/ failing = {}) /\ Project(failing, plan.skipped)
  /\ UNCHANGED <<plan, phase, saga, step, completed, journal, held, recorded, executed, undone>>

\* The sagas of the trigger are next.
TriggerDone ==
  /\ phase = "trigger" /\ EndPostCommit
  /\ phase' = "next"
  /\ UNCHANGED <<plan, saga, step, completed, journal, held, recorded, executed, undone>>

TriggerThrows ==
  /\ "hook" \in plan.may
  /\ phase = "trigger" /\ PostCommitThrows(plan.skipped)
  /\ phase' = "failed"
  /\ held' = {}
  /\ UNCHANGED <<plan, saga, step, completed, journal, recorded, executed, undone>>

\* Then the record is stored and the command returns.
CommandDone ==
  /\ phase \in {"doPost", "undoPost"} /\ EndPostCommit
  /\ recorded' = IF plan.keyed THEN recorded \cup {Command.op} ELSE recorded
  /\ Succeeds
  /\ UNCHANGED <<plan, saga, held, executed, undone>>

\* Committed, without record, and failed.
CommandCommitsAndThrows ==
  /\ "hook" \in plan.may
  /\ phase \in {"doPost", "undoPost"} /\ PostCommitThrows(plan.skipped)
  /\ Fails
  /\ UNCHANGED <<plan, saga, held, recorded, executed, undone>>

Stopped == phase \in {"finished", "failed"} /\ UNCHANGED vars

SagaStep ==
  \/ StartSaga \/ SkipSaga \/ ConditionThrows \/ FinishSagas \/ CompleteSaga \/ FailSaga
  \/ SkipUndo \/ UndoArgumentsThrow \/ CommandAnswered \/ CommandQueues \/ CommandThrows
  \/ CommandCommits \/ PostCommitStep \/ TriggerDone \/ TriggerThrows \/ CommandDone
  \/ CommandCommitsAndThrows

Next == SagaStep \/ Stopped

Spec == Init /\ [][Next]_vars

\* The event loop runs the continuation that is ready; hooks end.
FairSpec == Spec /\ WF_vars(SagaStep)

-----------------------------------------------------------------------------
(* Properties.                                                             *)

\* The earlier steps with a compensation.
ToUndo(steps, n) == {m \in 1..(n - 1) : steps[m].undo # NoUndo}

\* The entries that may follow an entry: the next step or the end of a saga
\* that has not failed, the next compensation or the end of one that has.
MayFollow(steps, e, f) ==
  \/ /\ e.type \in {"SagaStarted", "SagaStepCompleted"}
     /\ IF e.step = Len(steps) THEN f = [type |-> "SagaCompleted", step |-> 0]
        ELSE f.type \in {"SagaStepCompleted", "SagaStepFailed"} /\ f.step = e.step + 1
  \/ /\ e.type \in {"SagaStepFailed", "SagaCompensated", "SagaCompensationFailed"}
     /\ IF ToUndo(steps, e.step) = {} THEN f.type = "SagaFailed"
        ELSE /\ f.type \in {"SagaCompensated", "SagaCompensationFailed"}
             /\ f.step \in ToUndo(steps, e.step) /\ \A m \in ToUndo(steps, e.step) : m <= f.step

Logged(s, type, n) == \E i \in 1..Len(journal[s]) : journal[s][i] = [type |-> type, step |-> n]

FollowsLifecycle(s) ==
  /\ journal[s] # <<>> => journal[s][1] = [type |-> "SagaStarted", step |-> 0]
  /\ \A i \in 2..Len(journal[s]) : MayFollow(plan.sagas[s], journal[s][i - 1], journal[s][i])
  /\ \A k \in 0..MaxSteps : Logged(s, "SagaFailed", k) => Logged(s, "SagaStepFailed", k)

Ended(s) == journal[s] # <<>> => journal[s][Len(journal[s])].type \in {"SagaCompleted", "SagaFailed"}

(***************************************************************************)
(* The journals the documentation allows (docs/dsl.md:578-598) are all     *)
(* steps in order, or the steps before the first failure and then an       *)
(* outcome of every compensation in reverse order.  The journal of every   *)
(* saga is at every moment a beginning of one of them, and the whole of it *)
(* once the loop has gone on to the next saga.                             *)
(***************************************************************************)
JournalFollowsLifecycle ==
  /\ TypeOK
  /\ \A s \in 1..Len(plan.sagas) : FollowsLifecycle(s) /\ (s < saga => Ended(s))

(***************************************************************************)
(* A failed saga leaves no effect that was neither undone nor noted as not *)
(* compensated, and undoes nothing that it did not do.  A step that a      *)
(* fault or a key answers counts as done, and one whose hooks throw as not *)
(* done: the property is about requests without them.                      *)
(***************************************************************************)
NoOrphanEffects ==
  ~plan.keyed /\ plan.may \cap {"fault", "hook"} = {} =>
  /\ undone \subseteq executed
  /\ \A s \in 1..Len(plan.sagas) : \A n \in 1..Len(plan.sagas[s]) :
       /\ s < saga
       /\ <<s, n>> \in executed
       /\ plan.sagas[s][n].undo # NoUndo
       /\ \E k \in 1..Len(plan.sagas[s]) : Logged(s, "SagaFailed", k)
       => <<s, n>> \in undone \/ Logged(s, "SagaCompensationFailed", n)

(***************************************************************************)
(* The sagas of a request come to an end: an internal command never waits  *)
(* for a lock of the request it runs for (engine.ts:737-739).              *)
(***************************************************************************)
SagasEnd == <>(phase \in {"finished", "failed"})
=============================================================================
