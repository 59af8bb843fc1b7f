-------------------------- MODULE RuntimeEngineProofs --------------------------
(***************************************************************************)
(* Proofs about RuntimeEngine for any number of aggregates, requests,      *)
(* keys and resets, in the order of the file: the types and the barrier    *)
(* (TypingStep), the stores and the private copies (StoreStep), the units  *)
(* of work in the log (UnitsStep), the idempotency keys (KeysStep), the    *)
(* versions that clients named (VersionsStep), resets of an idle system    *)
(* (QuietStep), and the refinement of AtomicStore (AtomicStep).  Each is   *)
(* an invariant that is inductive together with those before it that its   *)
(* step lemma names, with one step for every action of Next.               *)
(***************************************************************************)
EXTENDS RuntimeEngine, EventSourcingProofs, FiniteSetTheorems

USE CommandsAssumption, KeyAssumption, VersionAssumption, AdminAssumption

\* The target of a command is an aggregate.
LEMMA TargetType ==
  ASSUME TypeOK, NEW r \in Request
  PROVE  /\ cmd[r] \in Command
         /\ cmd[r].writes \in Seq(Write)
         /\ cmd[r].writes[1].agg \in Aggregate
<1>1. cmd[r] \in Command
  BY DEF TypeOK
<1>2. cmd[r].writes \in Seq(Write) /\ cmd[r].writes # <<>>
  BY <1>1 DEF Command
<1>3. Len(cmd[r].writes) \in Nat \ {0}
  BY <1>2, EmptySeq
<1>4. cmd[r].writes[1] \in Write
  BY <1>2, <1>3, ElementOfSeq
<1> QED
  BY <1>1, <1>2, <1>4 DEF Write

\* The key of a keyed command is a key.
LEMMA KeyType ==
  ASSUME TypeOK, NEW r \in Request, cmd[r].key # NoKey
  PROVE  cmd[r].key \in Key
BY TargetType DEF Command

LEMMA TypingInit == Init => TypeOK /\ BarrierHeld
<1> SUFFICES ASSUME Init
             PROVE  TypeOK /\ BarrierHeld
  OBVIOUS
<1>1. events \in EventLog /\ state \in StateGraph
  BY BaselineType, ReplayType DEF Init
<1>2. /\ txStates \in [Request -> StateGraph]
      /\ txEvents \in [Request -> EventLog]
  BY NothingType DEF Init
<1>3. barrier \in Seq(Request) /\ todo \in [Request -> Seq(Write)]
  BY DEF Init
<1>4. TypeOK
  BY <1>1, <1>2, <1>3 DEF Init, TypeOK, PC
<1>5. BarrierHeld
  BY DEF Init, BarrierHeld, InFlight
<1> QED
  BY <1>4, <1>5

(***************************************************************************)
(* An answer releases the barrier: nobody is in flight after it.           *)
(***************************************************************************)
LEMMA AnswerReleases ==
  ASSUME TypeOK, BarrierHeld, NEW r \in Request, pc[r] \in InFlight,
         NEW answer \in Final, Answer(r, answer)
  PROVE  /\ pc' \in [Request -> PC]
         /\ barrier' \in Seq(Request)
         /\ \A s \in Request : pc'[s] \notin InFlight
         /\ BarrierHeld'
<1>1. pc' = [pc EXCEPT ![r] = answer] /\ barrier' = Tail(barrier)
  BY DEF Answer
<1>2. barrier \in Seq(Request) /\ barrier # <<>> /\ Head(barrier) = r
  BY DEF TypeOK, BarrierHeld
<1>3. barrier' \in Seq(Request)
  BY <1>1, <1>2, HeadTailProperties
<1>4. pc \in [Request -> PC] /\ answer \in PC /\ answer \notin InFlight
  BY DEF TypeOK, PC, Final, InFlight
<1>5. \A s \in Request \ {r} : pc[s] \notin InFlight
  BY <1>2 DEF BarrierHeld
<1>6. pc' \in [Request -> PC] /\ \A s \in Request : pc'[s] \notin InFlight
  BY <1>1, <1>4, <1>5
<1> QED
  BY <1>3, <1>6 DEF BarrierHeld

\* The unit of work it drops leaves the private copies well typed.
LEMMA AnswerDropsUnit ==
  ASSUME TypeOK, NEW r \in Request, NEW answer, Answer(r, answer)
  PROVE  /\ todo' \in [Request -> Seq(Write)]
         /\ txStates' \in [Request -> StateGraph]
         /\ txEvents' \in [Request -> EventLog]
         /\ txGeneration' \in [Request -> Nat]
         /\ txEpoch' \in [Request -> Nat]
<1>1. <<>> \in Seq(Write)
  OBVIOUS
<1> QED
  BY <1>1, NothingType DEF TypeOK, Answer

\* Recording a result keeps the records well typed.
LEMMA RecordType ==
  ASSUME TypeOK, NEW r \in Request, Record(r)
  PROVE  idempotency' \in [Key -> Request \cup {NoRecord}]
BY KeyType DEF TypeOK, Record

\* Committing keeps the stores well typed.
LEMMA CommitStoresType ==
  ASSUME TypeOK, NEW r \in Request, CommitStores(r)
  PROVE  events' \in EventLog /\ state' \in StateGraph /\ stale' \in BOOLEAN
<1>1. txEvents[r] \in EventLog /\ txStates[r] \in StateGraph /\ events \in EventLog
  BY DEF TypeOK
<1>2. AppendAll(events, txEvents[r]) \in EventLog
  BY <1>1, AppendAllType
<1> QED
  BY <1>1, <1>2 DEF TypeOK, CommitStores, InstallStates

\* Initializing keeps the stores well typed.
LEMMA InitializeType ==
  ASSUME TypeOK, Initialize
  PROVE  events' \in EventLog /\ state' \in StateGraph
<1> DEFINE log == IF LogEmpty THEN BaselineLog ELSE events
<1>1. log \in EventLog
  BY BaselineType DEF TypeOK
<1>2. Replay(log) \in StateGraph
  BY <1>1, ReplayType
<1> QED
  BY <1>1, <1>2 DEF TypeOK, Initialize

(***************************************************************************)
(* Every step keeps the types and the exclusion of the barrier.            *)
(***************************************************************************)
LEMMA TypingStep ==
  TypeOK /\ BarrierHeld /\ [Next]_vars => TypeOK' /\ BarrierHeld'
<1> SUFFICES ASSUME TypeOK, BarrierHeld, [Next]_vars
             PROVE  TypeOK' /\ BarrierHeld'
  OBVIOUS
<1>1. ASSUME NEW r \in Request, Submit(r)
      PROVE  TypeOK' /\ BarrierHeld'
  <2>1. CurrentSequenceVersion(events, cmd[r].writes[1].agg) \in Nat
    BY TargetType, CurrentSequenceVersionType DEF TypeOK
  <2>2. ifMatch' \in [Request -> Nat \cup {NoVersion}]
    BY <1>1, <2>1 DEF TypeOK, Submit
  <2>3. barrier' \in Seq(Request) /\ barrier' # <<>>
    <3>1. barrier \in Seq(Request) /\ barrier' = Append(barrier, r)
      BY <1>1 DEF TypeOK, Submit
    <3> QED
      BY <3>1, AppendProperties
  <2>4. barrier # <<>> => Head(barrier') = Head(barrier)
    BY <1>1, HeadTailAppend DEF TypeOK, Submit
  <2>5. pc' = [pc EXCEPT ![r] = "queued"] /\ pc' \in [Request -> PC]
    BY <1>1 DEF TypeOK, Submit, PC
  <2>6. TypeOK'
    BY <1>1, <2>2, <2>3, <2>5 DEF TypeOK, Submit, store, resetVars, txVars
  <2>7. BarrierHeld'
    BY <2>3, <2>4, <2>5 DEF TypeOK, BarrierHeld, InFlight
  <2> QED
    BY <2>6, <2>7
<1>2. ASSUME NEW r \in Request, Enter(r)
      PROVE  TypeOK' /\ BarrierHeld'
  <2>1. pc' = [pc EXCEPT ![r] = "entered"] /\ pc' \in [Request -> PC]
    BY <1>2 DEF TypeOK, Enter, PC, InFlight
  <2>2. TypeOK'
    BY <1>2, <2>1 DEF TypeOK, Enter, client, store, resetVars, txVars, history
  <2>3. BarrierHeld'
    BY <1>2, <2>1 DEF TypeOK, BarrierHeld, InFlight, Enter
  <2> QED
    BY <2>2, <2>3
<1>3. ASSUME NEW r \in Request, ReplayCached(r)
      PROVE  TypeOK' /\ BarrierHeld'
  <2>1. pc[r] \in InFlight /\ Answer(r, "replayed") /\ "replayed" \in Final
    BY <1>3 DEF ReplayCached, InFlight, Final
  <2>2. pc' \in [Request -> PC] /\ barrier' \in Seq(Request) /\ BarrierHeld'
    BY <2>1, AnswerReleases
  <2> QED
    BY <1>3, <2>1, <2>2, AnswerDropsUnit
       DEF TypeOK, ReplayCached, client, store, resetVars, history
<1>4. ASSUME NEW r \in Request, BeginUnitOfWork(r)
      PROVE  TypeOK' /\ BarrierHeld'
  <2>1. pc' = [pc EXCEPT ![r] = "staging"] /\ pc' \in [Request -> PC]
    BY <1>4 DEF TypeOK, BeginUnitOfWork, PC, InFlight
  <2>2. todo' \in [Request -> Seq(Write)]
    BY <1>4, TargetType DEF TypeOK, BeginUnitOfWork
  <2>3. txStates' \in [Request -> StateGraph] /\ txEvents' \in [Request -> EventLog]
    BY <1>4, NothingType DEF TypeOK, BeginUnitOfWork
  <2>4. TypeOK'
    BY <1>4, <2>1, <2>2, <2>3
       DEF TypeOK, BeginUnitOfWork, client, store, resetVars, history
  <2>5. BarrierHeld'
    BY <1>4, <2>1 DEF TypeOK, BarrierHeld, InFlight, BeginUnitOfWork
  <2> QED
    BY <2>4, <2>5
<1>5. ASSUME NEW r \in Request, Abort(r)
      PROVE  TypeOK' /\ BarrierHeld'
  <2>1. pc[r] \in InFlight /\ Answer(r, "failed") /\ "failed" \in Final
    BY <1>5 DEF Abort, InFlight, Final
  <2>2. pc' \in [Request -> PC] /\ barrier' \in Seq(Request) /\ BarrierHeld'
    BY <2>1, AnswerReleases
  <2> QED
    BY <1>5, <2>1, <2>2, AnswerDropsUnit
       DEF TypeOK, Abort, client, store, resetVars, history
<1>6. ASSUME NEW r \in Request, RunCommand(r)
      PROVE  TypeOK' /\ BarrierHeld'
  <2> DEFINE write == Head(todo[r])
             a     == write.agg
             event == [seq |-> NextSequenceVersion(events, txEvents[r], a), by |-> r]
  <2>1. todo[r] \in Seq(Write) /\ todo[r] # <<>>
    BY <1>6 DEF TypeOK, RunCommand
  <2>2. write \in Write /\ Tail(todo[r]) \in Seq(Write)
    BY <2>1, HeadTailProperties
  <2>3. a \in Aggregate
    BY <2>2 DEF Write
  <2>4. /\ txEvents[r] \in EventLog /\ txStates[r] \in StateGraph
        /\ events \in EventLog
    BY DEF TypeOK
  <2>5. NextSequenceVersion(events, txEvents[r], a) \in Nat
    BY <2>3, <2>4, NextSequenceVersionType
  <2>6. event \in Event
    BY <2>5 DEF Event, Cause
  <2> DEFINE states == [txStates[r] EXCEPT ![a] = Append(@, r)]
             pending == [txEvents[r] EXCEPT ![a] = Append(@, event)]
  <2>7. /\ txStates' = [txStates EXCEPT ![r] = states]
        /\ txEvents' = [txEvents EXCEPT ![r] = pending]
        /\ todo' = [todo EXCEPT ![r] = Tail(@)]
    BY <1>6 DEF RunCommand
  <2> HIDE DEF event, a, write
  <2>8. states \in StateGraph
    BY <2>3, <2>4, AppendProperties DEF StateGraph, Cause
  <2>9. pending \in EventLog
    BY <2>3, <2>4, <2>6, AppendProperties DEF EventLog
  <2> HIDE DEF states, pending
  <2>10. txStates' \in [Request -> StateGraph]
    BY <2>7, <2>8 DEF TypeOK
  <2>11. txEvents' \in [Request -> EventLog]
    BY <2>7, <2>9 DEF TypeOK
  <2>12. todo' \in [Request -> Seq(Write)]
    BY <2>2, <2>7 DEF TypeOK
  <2>13. TypeOK'
    BY <1>6, <2>10, <2>11, <2>12 DEF TypeOK, RunCommand, client, store, resetVars, history
  <2>14. BarrierHeld'
    BY <1>6 DEF BarrierHeld, RunCommand
  <2> QED
    BY <2>13, <2>14
<1>7. ASSUME NEW r \in Request, FinishDryRun(r)
      PROVE  TypeOK' /\ BarrierHeld'
  <2>1. pc[r] \in InFlight /\ Answer(r, "ok") /\ "ok" \in Final
    BY <1>7 DEF FinishDryRun, InFlight, Final
  <2>2. pc' \in [Request -> PC] /\ barrier' \in Seq(Request) /\ BarrierHeld'
    BY <2>1, AnswerReleases
  <2>3. idempotency' \in [Key -> Request \cup {NoRecord}]
    BY <1>7, RecordType DEF FinishDryRun
  <2> QED
    BY <1>7, <2>1, <2>2, <2>3, AnswerDropsUnit
       DEF TypeOK, FinishDryRun, client, store, resetVars, history
<1>8. ASSUME NEW r \in Request, Commit(r)
      PROVE  TypeOK' /\ BarrierHeld'
  <2>1. pc' = [pc EXCEPT ![r] = "postCommit"] /\ pc' \in [Request -> PC]
    BY <1>8 DEF TypeOK, Commit, PC, InFlight
  <2>2. events' \in EventLog /\ state' \in StateGraph /\ stale' \in BOOLEAN
    BY <1>8, CommitStoresType DEF Commit
  <2>3. TypeOK'
    BY <1>8, <2>1, <2>2 DEF TypeOK, Commit, client, resetVars, txVars
  <2>4. BarrierHeld'
    BY <1>8, <2>1 DEF TypeOK, BarrierHeld, InFlight, Commit
  <2> QED
    BY <2>3, <2>4
<1>9. ASSUME NEW r \in Request, CommitAfterReset(r)
      PROVE  TypeOK' /\ BarrierHeld'
  <2>1. pc[r] \in InFlight /\ Answer(r, "ok") /\ "ok" \in Final
    BY <1>9 DEF CommitAfterReset, InFlight, Final
  <2>2. pc' \in [Request -> PC] /\ barrier' \in Seq(Request) /\ BarrierHeld'
    BY <2>1, AnswerReleases
  <2>3. idempotency' \in [Key -> Request \cup {NoRecord}]
    BY <1>9, RecordType DEF CommitAfterReset
  <2>4. events' \in EventLog /\ state' \in StateGraph /\ stale' \in BOOLEAN
    BY <1>9, CommitStoresType DEF CommitAfterReset
  <2> QED
    BY <1>9, <2>1, <2>2, <2>3, <2>4, AnswerDropsUnit
       DEF TypeOK, CommitAfterReset, client, resetVars
<1>10. ASSUME NEW r \in Request, FinishPostCommit(r)
       PROVE  TypeOK' /\ BarrierHeld'
  <2>1. pc[r] \in InFlight /\ Answer(r, "ok") /\ "ok" \in Final
    BY <1>10 DEF FinishPostCommit, InFlight, Final
  <2>2. pc' \in [Request -> PC] /\ barrier' \in Seq(Request) /\ BarrierHeld'
    BY <2>1, AnswerReleases
  <2>3. idempotency' \in [Key -> Request \cup {NoRecord}]
    BY <1>10, RecordType DEF FinishPostCommit
  <2> QED
    BY <1>10, <2>1, <2>2, <2>3, AnswerDropsUnit
       DEF TypeOK, FinishPostCommit, client, store, resetVars, history
<1>11. ASSUME NEW r \in Request, FailPostCommit(r)
       PROVE  TypeOK' /\ BarrierHeld'
  <2>1. pc[r] \in InFlight /\ Answer(r, "failed") /\ "failed" \in Final
    BY <1>11 DEF FailPostCommit, InFlight, Final
  <2>2. pc' \in [Request -> PC] /\ barrier' \in Seq(Request) /\ BarrierHeld'
    BY <2>1, AnswerReleases
  <2> QED
    BY <1>11, <2>1, <2>2, AnswerDropsUnit
       DEF TypeOK, FailPostCommit, client, store, resetVars, history
<1>12. ASSUME NEW k \in Key, Expire(k)
       PROVE  TypeOK' /\ BarrierHeld'
  <2>1. idempotency[k] \in Request
    BY <1>12 DEF TypeOK, Expire
  <2>2. TypeOK'
    BY <1>12, <2>1 DEF TypeOK, Expire, client, store, resetVars, txVars
  <2>3. BarrierHeld'
    BY <1>12 DEF BarrierHeld, Expire
  <2> QED
    BY <2>2, <2>3
<1>13. ASSUME NEW a \in Admin, ResetClear(a)
       PROVE  TypeOK' /\ BarrierHeld'
  <2>1. {idempotency[k] : k \in Key} \ {NoRecord} \subseteq Request
    BY DEF TypeOK
  <2>2. idempotency' \in [Key -> Request \cup {NoRecord}]
    BY <1>13 DEF ResetClear
  <2>3. admin' \in [Admin -> {"idle", "hooks", "init", "failed"}]
    BY <1>13 DEF TypeOK, ResetClear
  <2>4. lapsed' \in SUBSET Request /\ wiped' \in SUBSET Request
    BY <1>13, <2>1 DEF TypeOK, ResetClear
  <2>5. generation' \in Nat /\ epoch' \in Nat
    BY <1>13 DEF TypeOK, ResetClear
  <2>6. TypeOK'
    BY <1>13, <2>2, <2>3, <2>4, <2>5, NothingType DEF TypeOK, ResetClear, client, txVars
  <2>7. BarrierHeld'
    BY <1>13 DEF BarrierHeld, ResetClear
  <2> QED
    BY <2>6, <2>7
<1>14. ASSUME NEW a \in Admin, ResetHookFails(a)
       PROVE  TypeOK' /\ BarrierHeld'
  <2>1. TypeOK'
    BY <1>14 DEF TypeOK, ResetHookFails, client, store, txVars, history
  <2>2. BarrierHeld'
    BY <1>14 DEF BarrierHeld, ResetHookFails
  <2> QED
    BY <2>1, <2>2
<1>15. ASSUME NEW a \in Admin, ResetInitialize(a)
       PROVE  TypeOK' /\ BarrierHeld'
  <2>1. events' \in EventLog /\ state' \in StateGraph
    BY <1>15, InitializeType DEF ResetInitialize
  <2>2. epoch' \in Nat
    BY <1>15 DEF TypeOK, ResetInitialize
  <2>3. TypeOK'
    BY <1>15, <2>1, <2>2 DEF TypeOK, ResetInitialize, client, txVars
  <2>4. BarrierHeld'
    BY <1>15 DEF BarrierHeld, ResetInitialize
  <2> QED
    BY <2>3, <2>4
<1>16. ASSUME NEW a \in Admin, ResetDone(a)
       PROVE  TypeOK' /\ BarrierHeld'
  <2>1. TypeOK'
    BY <1>16 DEF TypeOK, ResetDone, client, store, txVars, history
  <2>2. BarrierHeld'
    BY <1>16 DEF BarrierHeld, ResetDone
  <2> QED
    BY <2>1, <2>2
<1>17. CASE UNCHANGED vars
  BY <1>17 DEF vars, TypeOK, BarrierHeld
<1> QED
  BY <1>1, <1>2, <1>3, <1>4, <1>5, <1>6, <1>7, <1>8, <1>9, <1>10, <1>11,
     <1>12, <1>13, <1>14, <1>15, <1>16, <1>17
     DEF Next, RequestStep, ResetStep, Stopped

(***************************************************************************)
(* TypeOK holds in every behaviour.                                        *)
(***************************************************************************)
THEOREM Typing == Spec => []TypeOK
<1>1. Spec => [](TypeOK /\ BarrierHeld)
  BY TypingInit, TypingStep, PTL DEF Spec
<1> QED
  BY <1>1, PTL

(***************************************************************************)
(* The barrier excludes: two requests are never in flight together.        *)
(***************************************************************************)
THEOREM BarrierExclusion ==
  Spec => [](\A r, s \in Request : pc[r] \in InFlight /\ pc[s] \in InFlight => r = s)
<1>1. Spec => [](TypeOK /\ BarrierHeld)
  BY TypingInit, TypingStep, PTL DEF Spec
<1>2. BarrierHeld => \A r, s \in Request : pc[r] \in InFlight /\ pc[s] \in InFlight => r = s
  BY DEF BarrierHeld
<1> QED
  BY <1>1, <1>2, PTL

StoresHold == StoresAgree /\ EpochsOrdered /\ StagedAgrees

LEMMA StoreInit == Init => StoresHold
<1> SUFFICES ASSUME Init
             PROVE  StoresHold
  OBVIOUS
<1>1. StoresAgree
  BY BaselineType DEF Init, StoresAgree
<1>2. EpochsOrdered /\ StagedAgrees
  BY DEF Init, EpochsOrdered, StagedAgrees
<1> QED
  BY <1>1, <1>2 DEF StoresHold

\* A step that leaves the stores, the epochs and the private copies alone, and
\* begins no unit of work, keeps the agreement of the stores.
LEMMA StoresUntouched ==
  ASSUME TypeOK, StoresHold,
         UNCHANGED <<events, state, stale, epoch, txEpoch>>,
         \A s \in Request :
           pc'[s] = "staging" =>
             pc[s] = "staging" /\ txStates'[s] = txStates[s] /\ txEvents'[s] = txEvents[s]
  PROVE  StoresHold'
BY DEF StoresHold, StoresAgree, EpochsOrdered, StagedAgrees

\* A step after which nobody is in flight keeps it if the stores agree.
LEMMA NobodyStages ==
  ASSUME EpochsOrdered, UNCHANGED <<epoch, txEpoch>>, StoresAgree',
         \A s \in Request : pc'[s] \notin InFlight
  PROVE  StoresHold'
BY DEF StoresHold, EpochsOrdered, StagedAgrees, InFlight

(***************************************************************************)
(* Committing a unit of work installs copies that agree, or is noted as    *)
(* stale.                                                                  *)
(***************************************************************************)
LEMMA CommitAgrees ==
  ASSUME TypeOK, StoresHold, NEW r \in Request, pc[r] = "staging", CommitStores(r)
  PROVE  StoresAgree'
<1> SUFFICES ASSUME ~stale'
             PROVE  state' = Replay(events') /\ Contiguous(events')
  BY DEF StoresAgree
<1>1. ~stale /\ txEpoch[r] = epoch
  BY DEF CommitStores, TypeOK
<1>2. /\ txStates[r] = Replay(AppendAll(events, txEvents[r]))
      /\ Contiguous(AppendAll(events, txEvents[r]))
  BY <1>1 DEF StoresHold, StagedAgrees
<1>3. state' = txStates[r] /\ events' = AppendAll(events, txEvents[r])
  BY DEF CommitStores, InstallStates
<1> QED
  BY <1>2, <1>3

(***************************************************************************)
(* Every step keeps the agreement of the stores.                           *)
(***************************************************************************)
LEMMA StoreStep ==
  TypeOK /\ BarrierHeld /\ StoresHold /\ [Next]_vars => StoresHold'
<1> SUFFICES ASSUME TypeOK, BarrierHeld, StoresHold, [Next]_vars
             PROVE  StoresHold'
  OBVIOUS
<1>0. EpochsOrdered /\ StoresAgree /\ StagedAgrees
  BY DEF StoresHold
<1>1. ASSUME NEW r \in Request, Submit(r)
      PROVE  StoresHold'
  BY <1>1, StoresUntouched DEF TypeOK, Submit, store, txVars
<1>2. ASSUME NEW r \in Request, Enter(r)
      PROVE  StoresHold'
  BY <1>2, StoresUntouched DEF TypeOK, Enter, store, txVars, history
<1>3. ASSUME NEW r \in Request, ReplayCached(r)
      PROVE  StoresHold'
  <2>1. \A s \in Request : pc'[s] \notin InFlight
    BY <1>3, AnswerReleases DEF ReplayCached, InFlight, Final
  <2> QED
    BY <1>0, <1>3, <2>1, NobodyStages
       DEF ReplayCached, Answer, store, history, StoresAgree
<1>4. ASSUME NEW r \in Request, BeginUnitOfWork(r)
      PROVE  StoresHold'
  <2>1. /\ pc' = [pc EXCEPT ![r] = "staging"]
        /\ txStates' = [txStates EXCEPT ![r] = state]
        /\ txEvents' = [txEvents EXCEPT ![r] = Nothing]
        /\ txEpoch' = [txEpoch EXCEPT ![r] = epoch]
        /\ UNCHANGED <<events, state, stale, epoch>>
    BY <1>4 DEF BeginUnitOfWork, store, history
  <2>2. StoresAgree'
    BY <1>0, <2>1 DEF StoresAgree
  <2>3. EpochsOrdered'
    BY <1>0, <2>1 DEF EpochsOrdered, TypeOK
  <2>4. ASSUME NEW s \in Request, (pc[s] = "staging" /\ ~stale /\ txEpoch[s] = epoch)'
        PROVE  (/\ txStates[s] = Replay(AppendAll(events, txEvents[s]))
                /\ Contiguous(AppendAll(events, txEvents[s])))'
    <3>1. CASE s = r
      <4>1. txStates'[s] = state /\ txEvents'[s] = Nothing /\ ~stale
        BY <2>1, <2>4, <3>1 DEF TypeOK
      <4>2. AppendAll(events, Nothing) = events
        BY AppendAllNothing DEF TypeOK
      <4>3. state = Replay(events) /\ Contiguous(events)
        BY <1>0, <4>1 DEF StoresAgree
      <4> QED
        BY <2>1, <4>1, <4>2, <4>3
    <3>2. CASE s # r
      <4>1. /\ pc[s] = "staging" /\ ~stale /\ txEpoch[s] = epoch
            /\ txStates'[s] = txStates[s] /\ txEvents'[s] = txEvents[s]
        BY <2>1, <2>4, <3>2 DEF TypeOK
      <4> QED
        BY <1>0, <2>1, <4>1 DEF StagedAgrees
    <3> QED
      BY <3>1, <3>2
  <2>5. StagedAgrees'
    BY <2>4 DEF StagedAgrees
  <2> QED
    BY <2>2, <2>3, <2>5 DEF StoresHold
<1>5. ASSUME NEW r \in Request, Abort(r)
      PROVE  StoresHold'
  <2>1. \A s \in Request : pc'[s] \notin InFlight
    BY <1>5, AnswerReleases DEF Abort, InFlight, Final
  <2> QED
    BY <1>0, <1>5, <2>1, NobodyStages DEF Abort, Answer, store, history, StoresAgree
<1>6. ASSUME NEW r \in Request, RunCommand(r)
      PROVE  StoresHold'
  <2> DEFINE a     == Head(todo[r]).agg
             event == [seq |-> NextSequenceVersion(events, txEvents[r], a), by |-> r]
  <2>1. todo[r] \in Seq(Write) /\ todo[r] # <<>>
    BY <1>6 DEF TypeOK, RunCommand
  <2>2. a \in Aggregate
    <3>1. Head(todo[r]) \in Write
      BY <2>1, HeadTailProperties
    <3> QED
      BY <3>1 DEF Write
  <2>3. /\ txEvents[r] \in EventLog /\ txStates[r] \in StateGraph
        /\ events \in EventLog
    BY DEF TypeOK
  <2>4. event \in Event /\ event.by = r
    BY <2>2, <2>3, NextSequenceVersionType DEF Event, Cause
  <2>5. /\ txStates' = [txStates EXCEPT ![r][a] = Append(@, r)]
        /\ txEvents' = [txEvents EXCEPT ![r][a] = Append(@, event)]
        /\ UNCHANGED <<pc, events, state, stale, epoch, txEpoch>>
    BY <1>6 DEF RunCommand, store, history
  <2>6. StoresAgree' /\ EpochsOrdered'
    BY <1>0, <2>5 DEF StoresAgree, EpochsOrdered
  <2>7. ASSUME NEW s \in Request, pc[s] = "staging", ~stale, txEpoch[s] = epoch
        PROVE  /\ txStates'[s] = Replay(AppendAll(events, txEvents'[s]))
               /\ Contiguous(AppendAll(events, txEvents'[s]))
    <3>1. /\ txStates[s] = Replay(AppendAll(events, txEvents[s]))
          /\ Contiguous(AppendAll(events, txEvents[s]))
          /\ Contiguous(events)
      BY <1>0, <2>7 DEF StagedAgrees, StoresAgree
    <3>2. CASE s = r
      <4> DEFINE pending == txEvents[r]
                 emitted == [pending EXCEPT ![a] = Append(@, event)]
      <4>1. event.seq = NextSequenceVersion(events, pending, a)
        OBVIOUS
      <4>2. /\ txStates'[r] = [txStates[r] EXCEPT ![a] = Append(@, r)]
            /\ txEvents'[r] = emitted
        BY <2>5 DEF TypeOK
      <4>3. /\ pending \in EventLog /\ Contiguous(AppendAll(events, pending))
            /\ txStates[r] = Replay(AppendAll(events, pending))
        BY <2>3, <3>1, <3>2
      <4> HIDE DEF event, a, pending
      <4>4. /\ Contiguous(AppendAll(events, emitted))
            /\ Replay(AppendAll(events, emitted)) =
                 [Replay(AppendAll(events, pending)) EXCEPT ![a] = Append(@, event.by)]
        BY <2>2, <2>3, <2>4, <3>1, <4>1, <4>3, EmitEvent
      <4> HIDE DEF emitted
      <4>5. txStates'[r] = [Replay(AppendAll(events, pending)) EXCEPT ![a] = Append(@, event.by)]
        BY <2>4, <4>2, <4>3
      <4>6. txStates'[r] = Replay(AppendAll(events, txEvents'[r]))
        BY <4>2, <4>4, <4>5
      <4> QED
        BY <3>2, <4>2, <4>4, <4>6
    <3>3. CASE s # r
      BY <2>5, <3>1, <3>3 DEF TypeOK
    <3> QED
      BY <3>2, <3>3
  <2>8. StagedAgrees'
    BY <2>5, <2>7 DEF StagedAgrees
  <2> QED
    BY <2>6, <2>8 DEF StoresHold
<1>7. ASSUME NEW r \in Request, FinishDryRun(r)
      PROVE  StoresHold'
  <2>1. \A s \in Request : pc'[s] \notin InFlight
    BY <1>7, AnswerReleases DEF FinishDryRun, InFlight, Final
  <2> QED
    BY <1>0, <1>7, <2>1, NobodyStages
       DEF FinishDryRun, Answer, store, history, StoresAgree
<1>8. ASSUME NEW r \in Request, Commit(r)
      PROVE  StoresHold'
  <2>1. pc[r] = "staging" /\ CommitStores(r)
    BY <1>8 DEF Commit
  <2>2. StoresAgree'
    BY <2>1, CommitAgrees
  <2>3. pc' = [pc EXCEPT ![r] = "postCommit"] /\ UNCHANGED <<epoch, txEpoch>>
    BY <1>8 DEF Commit, txVars
  <2>4. \A s \in Request \ {r} : pc[s] # "staging"
    BY <2>1 DEF BarrierHeld, InFlight
  <2>5. \A s \in Request : pc'[s] # "staging"
    BY <2>3, <2>4 DEF TypeOK
  <2> QED
    BY <1>0, <2>2, <2>3, <2>5 DEF StoresHold, EpochsOrdered, StagedAgrees
<1>9. ASSUME NEW r \in Request, CommitAfterReset(r)
      PROVE  StoresHold'
  <2>1. pc[r] = "staging" /\ CommitStores(r)
    BY <1>9 DEF CommitAfterReset
  <2>2. StoresAgree'
    BY <2>1, CommitAgrees
  <2>3. \A s \in Request : pc'[s] \notin InFlight
    BY <1>9, AnswerReleases DEF CommitAfterReset, InFlight, Final
  <2> QED
    BY <1>0, <1>9, <2>2, <2>3, NobodyStages DEF CommitAfterReset, Answer
<1>10. ASSUME NEW r \in Request, FinishPostCommit(r)
       PROVE  StoresHold'
  <2>1. \A s \in Request : pc'[s] \notin InFlight
    BY <1>10, AnswerReleases DEF FinishPostCommit, InFlight, Final
  <2> QED
    BY <1>0, <1>10, <2>1, NobodyStages
       DEF FinishPostCommit, Answer, store, history, StoresAgree
<1>11. ASSUME NEW r \in Request, FailPostCommit(r)
       PROVE  StoresHold'
  <2>1. \A s \in Request : pc'[s] \notin InFlight
    BY <1>11, AnswerReleases DEF FailPostCommit, InFlight, Final
  <2> QED
    BY <1>0, <1>11, <2>1, NobodyStages
       DEF FailPostCommit, Answer, store, history, StoresAgree
<1>12. ASSUME NEW k \in Key, Expire(k)
       PROVE  StoresHold'
  BY <1>12, StoresUntouched DEF Expire, store, txVars
<1>13. ASSUME NEW a \in Admin, ResetClear(a)
       PROVE  StoresHold'
  <2>1. /\ events' = Nothing /\ state' = Nothing /\ epoch' = epoch + 1
        /\ UNCHANGED txEpoch
    BY <1>13 DEF ResetClear, txVars
  <2>2. StoresAgree'
    BY <2>1, ReplayNothing DEF StoresAgree, Contiguous, Nothing
  <2>3. \A r \in Request : txEpoch'[r] <= epoch' /\ txEpoch'[r] # epoch'
    BY <1>0, <2>1 DEF EpochsOrdered, TypeOK
  <2> QED
    BY <2>2, <2>3 DEF StoresHold, EpochsOrdered, StagedAgrees
<1>14. ASSUME NEW a \in Admin, ResetHookFails(a)
       PROVE  StoresHold'
  BY <1>14, StoresUntouched DEF ResetHookFails, store, txVars, history
<1>15. ASSUME NEW a \in Admin, ResetInitialize(a)
       PROVE  StoresHold'
  <2>1. CASE UNCHANGED store
    BY <1>15, <2>1, StoresUntouched DEF ResetInitialize, store, txVars
  <2>2. CASE ~ UNCHANGED store
    <3>1. epoch' = epoch + 1 /\ UNCHANGED <<txEpoch, stale>>
      BY <1>15, <2>2 DEF ResetInitialize, txVars
    <3>2. \A r \in Request : txEpoch'[r] <= epoch' /\ txEpoch'[r] # epoch'
      BY <1>0, <3>1 DEF EpochsOrdered, TypeOK
    <3>3. StoresAgree'
      <4> SUFFICES ASSUME ~stale'
                   PROVE  state' = Replay(events') /\ Contiguous(events')
        BY DEF StoresAgree
      <4>1. state = Replay(events) /\ Contiguous(events)
        BY <1>0, <3>1 DEF StoresAgree
      <4>2. CASE events = Nothing
        BY <1>15, <4>1, <4>2, BaselineType, ReplayNothing
           DEF ResetInitialize, Initialize, LogEmpty
      <4>3. CASE events # Nothing
        BY <1>15, <4>1, <4>3 DEF ResetInitialize, Initialize, LogEmpty
      <4> QED
        BY <4>2, <4>3
    <3> QED
      BY <3>2, <3>3 DEF StoresHold, EpochsOrdered, StagedAgrees
  <2> QED
    BY <2>1, <2>2
<1>16. ASSUME NEW a \in Admin, ResetDone(a)
       PROVE  StoresHold'
  BY <1>16, StoresUntouched DEF ResetDone, store, txVars, history
<1>17. CASE UNCHANGED vars
  BY <1>17, StoresUntouched DEF vars
<1> QED
  BY <1>1, <1>2, <1>3, <1>4, <1>5, <1>6, <1>7, <1>8, <1>9, <1>10, <1>11,
     <1>12, <1>13, <1>14, <1>15, <1>16, <1>17
     DEF Next, RequestStep, ResetStep, Stopped

\* The inductive invariant holds in every behaviour.
LEMMA StoreInvariantHolds == Spec => []StoreInvariant
<1>1. Init => TypeOK /\ BarrierHeld /\ StoresHold
  BY TypingInit, StoreInit
<1>2. TypeOK /\ BarrierHeld /\ StoresHold /\ [Next]_vars
        => (TypeOK /\ BarrierHeld /\ StoresHold)'
  BY TypingStep, StoreStep
<1>3. TypeOK /\ BarrierHeld /\ StoresHold => StoreInvariant
  BY DEF StoresHold, StoreInvariant
<1> QED
  BY <1>1, <1>2, <1>3, PTL DEF Spec

(***************************************************************************)
(* The state graph is the projection of the event log, and the sequence    *)
(* versions of every aggregate are 1, 2, 3 ..., for every number of        *)
(* requests and resets, while no stale unit of work has been committed.    *)
(***************************************************************************)
THEOREM StoresStayInAgreement == Spec => []StoresAgree
<1>1. StoreInvariant => StoresAgree
  BY DEF StoreInvariant
<1> QED
  BY <1>1, StoreInvariantHolds, PTL

-----------------------------------------------------------------------------
(* Units of work in the log.                                               *)

\* The writes that a unit of work has run.
Done(r) == Len(cmd[r].writes) - Len(todo[r])

DoneOn(r, a) == {i \in 1..Done(r) : cmd[r].writes[i].agg = a}

\* A unit of work has an event of its request for each write that it has run,
\* and the other writes of the command still to run.
UnitOK(r) ==
  pc[r] = "staging" =>
    /\ Len(todo[r]) <= Len(cmd[r].writes)
    /\ \A i \in 1..Len(todo[r]) : todo[r][i] = cmd[r].writes[Done(r) + i]
    /\ \A a \in Aggregate : Cardinality(DoneOn(r, a)) = Len(txEvents[r][a])
    /\ OnlyBy(txEvents[r], r)

\* What is in the log is a whole unit of work of a request that committed it.
LogOK(r) ==
  Committed(events, r) =>
    /\ pc[r] \in {"postCommit", "ok"} \/ (HooksMayFail /\ pc[r] = "failed")
    /\ ~cmd[r].dryRun
    /\ \A a \in Aggregate : Cardinality(EventsBy(events, r, a)) = Cardinality(WritesOf(r, a))

UnitsInv == \A r \in Request : UnitOK(r) /\ LogOK(r)

\* Answering drops the unit of work of the request and leaves the others alone.
LEMMA AnswerLocal ==
  ASSUME TypeOK, NEW r \in Request, NEW answer, Answer(r, answer)
  PROVE  /\ pc'[r] = answer
         /\ \A s \in Request \ {r} : /\ pc'[s] = pc[s] /\ todo'[s] = todo[s]
                                     /\ txStates'[s] = txStates[s] /\ txEvents'[s] = txEvents[s]
BY DEF TypeOK, Answer

LEMMA UnitsInit == Init => UnitsInv
<1> SUFFICES ASSUME Init, NEW r \in Request
             PROVE  UnitOK(r) /\ LogOK(r)
  BY DEF UnitsInv
<1>1. pc[r] = "idle" /\ events = BaselineLog
  BY DEF Init
<1>2. ~Committed(events, r)
  BY <1>1, NoneCommitted
<1> QED
  BY <1>1, <1>2 DEF UnitOK, LogOK

\* A request whose unit of work and command stay is as good as it was.
LEMMA UnitSame ==
  ASSUME NEW s \in Request, UnitOK(s), cmd' = cmd,
         pc'[s] = "staging" => pc[s] = "staging" /\ todo'[s] = todo[s] /\ txEvents'[s] = txEvents[s]
  PROVE  UnitOK(s)'
<1> SUFFICES ASSUME pc'[s] = "staging"
             PROVE  UnitOK(s)'
  BY DEF UnitOK
<1>1. pc[s] = "staging" /\ todo'[s] = todo[s] /\ txEvents'[s] = txEvents[s]
  OBVIOUS
<1>2. Done(s)' = Done(s)
  BY <1>1 DEF Done
<1>3. \A a : DoneOn(s, a)' = DoneOn(s, a)
  BY <1>2 DEF DoneOn
<1>4. Len(todo'[s]) <= Len(cmd'[s].writes)
  BY <1>1 DEF UnitOK
<1>5. \A i \in 1..Len(todo'[s]) : todo'[s][i] = cmd'[s].writes[Done(s)' + i]
  BY <1>1, <1>2 DEF UnitOK
<1>6. (\A a \in Aggregate : Cardinality(DoneOn(s, a)') = Len(txEvents'[s][a])) /\ OnlyBy(txEvents'[s], s)
  BY <1>1, <1>3 DEF UnitOK
<1> QED
  BY <1>4, <1>5, <1>6 DEF UnitOK

LEMMA LogSame ==
  ASSUME NEW s \in Request, LogOK(s), cmd' = cmd,
         Committed(events', s) =>
           /\ Committed(events, s)
           /\ pc'[s] = pc[s] \/ pc'[s] \in {"postCommit", "ok"} \/ (HooksMayFail /\ pc'[s] = "failed"),
         \A a \in Aggregate : EventsBy(events', s, a) = EventsBy(events, s, a)
  PROVE  LogOK(s)'
<1>1. \A a : WritesOf(s, a)' = WritesOf(s, a)
  BY DEF WritesOf
<1> QED
  BY <1>1 DEF LogOK

\* A step that leaves the log alone and the units of work that go on.
LEMMA UnitsUntouched ==
  ASSUME UnitsInv, UNCHANGED <<cmd, events>>,
         \A s \in Request :
           /\ pc'[s] = "staging" => pc[s] = "staging" /\ todo'[s] = todo[s] /\ txEvents'[s] = txEvents[s]
           /\ \/ pc'[s] = pc[s] \/ pc[s] \in {"idle", "queued", "entered", "staging"}
              \/ pc'[s] = "ok" \/ (HooksMayFail /\ pc'[s] = "failed")
  PROVE  UnitsInv'
<1> SUFFICES ASSUME NEW s \in Request
             PROVE  UnitOK(s)' /\ LogOK(s)'
  BY DEF UnitsInv
<1>1. UnitOK(s) /\ LogOK(s)
  BY DEF UnitsInv
<1>2. UnitOK(s)'
  BY <1>1, UnitSame
<1>3. LogOK(s)'
  <2>1. Committed(events, s) => pc[s] \notin {"idle", "queued", "entered", "staging"}
    BY <1>1 DEF LogOK
  <2> QED
    BY <1>1, <2>1, LogSame
<1> QED
  BY <1>2, <1>3

\* The log is emptied, or the baseline put into the empty log.
LEMMA UnitsWithoutLog ==
  ASSUME UnitsInv, UNCHANGED <<pc, cmd, todo, txEvents>>, events' \in {Nothing, BaselineLog}
  PROVE  UnitsInv'
<1>1. \A s \in Request : ~Committed(events', s)
  BY NoneCommitted
<1>2. \A s \in Request : LogOK(s)'
  BY <1>1 DEF LogOK
<1>3. \A s \in Request : UnitOK(s)'
  BY UnitSame DEF UnitsInv
<1> QED
  BY <1>2, <1>3 DEF UnitsInv

\* A unit of work begins with all writes to do.
LEMMA UnitBegins ==
  ASSUME TypeOK, UnitsInv, NEW r \in Request, BeginUnitOfWork(r)
  PROVE  UnitsInv'
<1>1. /\ pc[r] = "entered" /\ pc'[r] = "staging" /\ todo'[r] = cmd[r].writes /\ txEvents'[r] = Nothing
      /\ \A s \in Request \ {r} : pc'[s] = pc[s] /\ todo'[s] = todo[s] /\ txEvents'[s] = txEvents[s]
      /\ UNCHANGED <<cmd, events>>
  BY DEF TypeOK, BeginUnitOfWork, client, store
<1>2. cmd[r].writes \in Seq(Write) /\ Len(cmd[r].writes) \in Nat
  BY TargetType, LenProperties
<1>3. Done(r)' = 0
  BY <1>1, <1>2 DEF Done
<1>4. \A a : DoneOn(r, a)' = {}
  BY <1>3 DEF DoneOn
<1>5. UnitOK(r)'
  <2>1. \A i \in 1..Len(cmd[r].writes) : 0 + i = i
    BY <1>2
  <2>2. \A i \in 1..Len(todo'[r]) : todo'[r][i] = cmd'[r].writes[Done(r)' + i]
    BY <1>1, <1>3, <2>1
  <2>3. \A a \in Aggregate : Len(txEvents'[r][a]) = 0 /\ Cardinality(DoneOn(r, a)') = 0
    <3>1. \A b \in Aggregate : Nothing[b] = <<>>
      BY DEF Nothing
    <3>2. Len(<<>>) = 0
      OBVIOUS
    <3> QED
      BY <1>1, <1>4, <3>1, <3>2, FS_EmptySet, Zenon
  <2>4. OnlyBy(txEvents'[r], r)
    BY <2>3 DEF OnlyBy
  <2> QED
    BY <1>1, <1>2, <2>2, <2>3, <2>4 DEF UnitOK
<1>6. ~Committed(events, r)
  BY <1>1 DEF UnitsInv, LogOK
<1>7. \A s \in Request \ {r} : UnitOK(s)'
  BY <1>1, UnitSame DEF UnitsInv
<1>8. \A s \in Request : LogOK(s)'
  BY <1>1, <1>6, LogSame DEF UnitsInv
<1> QED
  BY <1>5, <1>7, <1>8 DEF UnitsInv

\* One write is run: one event more on its aggregate.
LEMMA UnitGrows ==
  ASSUME TypeOK, UnitsInv, NEW r \in Request, RunCommand(r)
  PROVE  UnitsInv'
<1> DEFINE a == Head(todo[r]).agg
           event == [seq |-> NextSequenceVersion(events, txEvents[r], a), by |-> r]
           n == Len(cmd[r].writes)
<1>1. /\ pc[r] = "staging" /\ todo[r] # <<>>
      /\ todo' = [todo EXCEPT ![r] = Tail(@)]
      /\ txEvents' = [txEvents EXCEPT ![r][a] = Append(@, event)]
      /\ UNCHANGED <<pc, cmd, events>>
  BY DEF RunCommand, client, store
<1>2. todo[r] \in Seq(Write) /\ cmd[r].writes \in Seq(Write)
  BY TargetType DEF TypeOK
<1>3. /\ Len(todo[r]) \in Nat \ {0} /\ n \in Nat
      /\ Head(todo[r]) = todo[r][1]
      /\ Len(Tail(todo[r])) = Len(todo[r]) - 1
      /\ \A i \in 1..(Len(todo[r]) - 1) : Tail(todo[r])[i] = todo[r][i + 1]
  BY <1>1, <1>2, HeadTailProperties, LenProperties, EmptySeq
<1>4. /\ Len(todo[r]) <= n
      /\ \A i \in 1..Len(todo[r]) : todo[r][i] = cmd[r].writes[Done(r) + i]
      /\ \A b \in Aggregate : /\ Cardinality(DoneOn(r, b)) = Len(txEvents[r][b])
                              /\ \A i \in 1..Len(txEvents[r][b]) : txEvents[r][b][i].by = r
  BY <1>1 DEF UnitsInv, UnitOK, OnlyBy
<1> DEFINE k == Done(r)
<1>5. k \in Nat /\ k + 1 <= n
  BY <1>3, <1>4 DEF Done
<1>6. todo'[r] = Tail(todo[r]) /\ \A s \in Request \ {r} : todo'[s] = todo[s] /\ txEvents'[s] = txEvents[s]
  BY <1>1 DEF TypeOK
<1>7. Done(r)' = k + 1
  <2>1. Len(todo'[r]) = Len(todo[r]) - 1
    BY <1>3, <1>6
  <2>2. cmd' = cmd
    BY <1>1
  <2> QED
    BY <1>3, <2>1, <2>2 DEF Done
<1>8. a \in Aggregate /\ cmd[r].writes[k + 1].agg = a
  <2>1. Head(todo[r]) \in Write
    BY <1>1, <1>2, HeadTailProperties
  <2>2. todo[r][1] = cmd[r].writes[k + 1]
    BY <1>3, <1>4
  <2> QED
    BY <1>3, <2>1, <2>2 DEF Write
<1>9. \A i \in 1..Len(todo'[r]) : todo'[r][i] = cmd'[r].writes[Done(r)' + i]
  <2> SUFFICES ASSUME NEW i \in 1..Len(todo'[r])
               PROVE  todo'[r][i] = cmd'[r].writes[Done(r)' + i]
    OBVIOUS
  <2>1. i \in 1..(Len(todo[r]) - 1) /\ i + 1 \in 1..Len(todo[r])
    BY <1>3, <1>6
  <2>2. todo'[r][i] = todo[r][i + 1]
    BY <1>3, <1>6, <2>1
  <2>3. todo[r][i + 1] = cmd[r].writes[k + (i + 1)]
    BY <1>4, <2>1
  <2>4. k + (i + 1) = Done(r)' + i
    BY <1>5, <1>7, <2>1
  <2> QED
    BY <1>1, <2>2, <2>3, <2>4
<1>10. \A b \in Aggregate : DoneOn(r, b)' = IF b = a THEN DoneOn(r, b) \cup {k + 1} ELSE DoneOn(r, b)
  <2> SUFFICES ASSUME NEW b \in Aggregate
               PROVE  DoneOn(r, b)' = IF b = a THEN DoneOn(r, b) \cup {k + 1} ELSE DoneOn(r, b)
    OBVIOUS
  <2>1. DoneOn(r, b)' = {i \in 1..(k + 1) : cmd[r].writes[i].agg = b}
    BY <1>1, <1>7 DEF DoneOn
  <2>2. DoneOn(r, b) = {i \in 1..k : cmd[r].writes[i].agg = b}
    BY DEF DoneOn
  <2>3. \A i : i \in 1..(k + 1) <=> i \in 1..k \/ i = k + 1
    BY <1>5
  <2> HIDE DEF k, a
  <2> QED
    BY <1>8, <2>1, <2>2, <2>3
<1>11. \A b \in Aggregate : IsFiniteSet(DoneOn(r, b)) /\ k + 1 \notin DoneOn(r, b)
  <2>1. IsFiniteSet(1..k) /\ k + 1 \notin 1..k
    BY <1>5, FS_Interval
  <2>2. \A b \in Aggregate : DoneOn(r, b) \subseteq 1..k
    BY DEF DoneOn
  <2> HIDE DEF k
  <2>3. \A T \in SUBSET (1..k) : IsFiniteSet(T)
    BY <2>1, FS_Subset
  <2> QED
    BY <2>1, <2>2, <2>3, Zenon
<1>12. \A b \in Aggregate : /\ Cardinality(DoneOn(r, b)') = Len(txEvents'[r][b])
                            /\ \A i \in 1..Len(txEvents'[r][b]) : txEvents'[r][b][i].by = r
  <2> SUFFICES ASSUME NEW b \in Aggregate
               PROVE  /\ Cardinality(DoneOn(r, b)') = Len(txEvents'[r][b])
                      /\ \A i \in 1..Len(txEvents'[r][b]) : txEvents'[r][b][i].by = r
    OBVIOUS
  <2>1. txEvents[r] \in EventLog /\ events \in EventLog
    BY DEF TypeOK
  <2>2. event \in Event /\ event.by = r
    BY <1>8, <2>1, NextSequenceVersionType DEF Event, Cause
  <2>3. txEvents'[r] = [txEvents[r] EXCEPT ![a] = Append(@, event)]
    BY <1>1 DEF TypeOK
  <2> HIDE DEF event, k
  <2>4. CASE b = a
    <3>1. txEvents[r][a] \in Seq(Event) /\ txEvents'[r][a] = Append(txEvents[r][a], event)
      BY <1>8, <2>1, <2>3 DEF EventLog
    <3> DEFINE s == txEvents[r][a]
               t == txEvents'[r][a]
    <3>2. /\ Len(s) \in Nat /\ Len(t) = Len(s) + 1 /\ t[Len(s) + 1] = event
          /\ \A i \in 1..Len(s) : t[i] = s[i]
      <4>1. s \in Seq(Event) /\ t = Append(s, event)
        BY <3>1
      <4> HIDE DEF s, t
      <4> QED
        BY <2>2, <4>1, AppendProperties, LenProperties
    <3>3. Cardinality(DoneOn(r, b)') = Cardinality(DoneOn(r, b)) + 1
      BY <1>10, <1>11, <2>4, FS_AddElement
    <3>4. \A i \in 1..Len(t) : i \in 1..Len(s) \/ i = Len(s) + 1
      BY <3>2
    <3>5. Cardinality(DoneOn(r, a)) = Len(s) /\ \A i \in 1..Len(s) : s[i].by = r
      BY <1>4, <1>8
    <3> HIDE DEF s, t
    <3>6. Cardinality(DoneOn(r, b)') = Len(t) /\ \A i \in 1..Len(t) : t[i].by = r
      BY <2>2, <2>4, <3>2, <3>3, <3>4, <3>5
    <3> QED
      BY <2>4, <3>6 DEF t
  <2>5. CASE b # a
    <3>1. txEvents'[r][b] = txEvents[r][b]
      BY <2>1, <2>3, <2>5 DEF EventLog
    <3> QED
      BY <1>4, <1>10, <2>5, <3>1
  <2> QED
    BY <2>4, <2>5
<1>13. UnitOK(r)'
  <2>1. Len(todo'[r]) <= Len(cmd'[r].writes)
    BY <1>1, <1>3, <1>4, <1>6
  <2> QED
    BY <1>9, <1>12, <2>1 DEF UnitOK, OnlyBy
<1>14. \A s \in Request \ {r} : UnitOK(s)'
  BY <1>1, <1>6, UnitSame DEF UnitsInv
<1>15. \A s \in Request : LogOK(s)'
  BY <1>1, LogSame DEF UnitsInv
<1> QED
  BY <1>13, <1>14, <1>15 DEF UnitsInv

\* Committing appends the events of the unit of work, which are all of its request.
LEMMA UnitAppended ==
  ASSUME TypeOK, UnitsInv, NEW r \in Request, pc[r] = "staging", CommitStores(r)
  PROVE  /\ events \in EventLog /\ txEvents[r] \in EventLog
         /\ UnitOK(r) /\ ~Committed(events, r)
         /\ \A a \in Aggregate :
              /\ EventsBy(events', r, a) = (Len(events[a]) + 1)..(Len(events[a]) + Len(txEvents[r][a]))
              /\ \A s \in Request \ {r} : EventsBy(events', s, a) = EventsBy(events, s, a)
<1>1. events \in EventLog /\ txEvents[r] \in EventLog /\ events' = AppendAll(events, txEvents[r])
  BY DEF TypeOK, CommitStores
<1>2. UnitOK(r) /\ ~Committed(events, r)
  BY DEF UnitsInv, LogOK
<1>3. OnlyBy(txEvents[r], r)
  BY <1>2 DEF UnitOK
<1>4. Appended(events, txEvents[r], r, events')
  BY <1>1, <1>2, <1>3, EventsAppended
<1> QED
  BY <1>1, <1>2, <1>4, Zenon DEF Appended

\* Committing puts the whole unit of work into the log.
LEMMA UnitCommits ==
  ASSUME TypeOK, UnitsInv, NEW r \in Request, pc[r] = "staging", todo[r] = <<>>, ~cmd[r].dryRun,
         CommitStores(r), cmd' = cmd, pc'[r] \in {"postCommit", "ok"},
         \A s \in Request \ {r} : pc'[s] = pc[s] /\ todo'[s] = todo[s] /\ txEvents'[s] = txEvents[s]
  PROVE  UnitsInv'
<1>1. events \in EventLog /\ txEvents[r] \in EventLog
  BY UnitAppended
<1>2. UnitOK(r) /\ ~Committed(events, r)
  BY UnitAppended
<1>4. \A a \in Aggregate :
        /\ EventsBy(events', r, a) = (Len(events[a]) + 1)..(Len(events[a]) + Len(txEvents[r][a]))
        /\ \A s \in Request \ {r} : EventsBy(events', s, a) = EventsBy(events, s, a)
  BY UnitAppended
<1>5. \A a \in Aggregate : DoneOn(r, a) = WritesOf(r, a)
  <2>1. Len(todo[r]) = 0 /\ Len(cmd[r].writes) \in Nat
    BY TargetType, LenProperties
  <2>2. Done(r) = Len(cmd[r].writes)
    BY <2>1 DEF Done
  <2> QED
    BY <2>2 DEF DoneOn, WritesOf
<1>6. \A a \in Aggregate : Cardinality(EventsBy(events', r, a)) = Cardinality(WritesOf(r, a))
  <2> SUFFICES ASSUME NEW a \in Aggregate
               PROVE  Cardinality(EventsBy(events', r, a)) = Cardinality(WritesOf(r, a))
    OBVIOUS
  <2> DEFINE m == Len(events[a])
             n == Len(txEvents[r][a])
  <2>1. m \in Nat /\ n \in Nat
    BY <1>1, ConcatEvents
  <2>2. EventsBy(events', r, a) = (m + 1)..(m + n)
    BY <1>4
  <2>3. n = Cardinality(WritesOf(r, a))
    BY <1>2, <1>5 DEF UnitOK
  <2> HIDE DEF m, n
  <2>4. Cardinality((m + 1)..(m + n)) = n
    BY <2>1, FS_Interval
  <2> QED
    BY <2>2, <2>3, <2>4
<1>7. LogOK(r)'
  <2>1. \A a : WritesOf(r, a)' = WritesOf(r, a)
    BY DEF WritesOf
  <2> QED
    BY <1>6, <2>1 DEF LogOK
<1>8. \A s \in Request \ {r} : UnitOK(s)' /\ LogOK(s)'
  <2> SUFFICES ASSUME NEW s \in Request \ {r}
               PROVE  UnitOK(s)' /\ LogOK(s)'
    OBVIOUS
  <2>1. \A a \in Aggregate : EventsBy(events', s, a) = EventsBy(events, s, a)
    BY <1>4
  <2>2. Committed(events', s) => Committed(events, s)
    BY <2>1 DEF Committed
  <2> QED
    BY <2>1, <2>2, UnitSame, LogSame DEF UnitsInv
<1>9. UnitOK(r)'
  BY DEF UnitOK
<1> QED
  BY <1>7, <1>8, <1>9 DEF UnitsInv

\* An answer, of whatever kind, to a request that has committed nothing, or with success.
LEMMA UnitAnswered ==
  ASSUME TypeOK, UnitsInv, NEW r \in Request, NEW answer \in Final, Answer(r, answer),
         UNCHANGED <<cmd, events>>,
         pc[r] \in {"entered", "staging"} \/ answer = "ok" \/ (HooksMayFail /\ answer = "failed")
  PROVE  UnitsInv'
<1>1. pc'[r] = answer /\ answer # "staging"
  BY AnswerLocal DEF Final
<1>2. \A s \in Request \ {r} : pc'[s] = pc[s] /\ todo'[s] = todo[s] /\ txEvents'[s] = txEvents[s]
  BY AnswerLocal
<1>3. \A s \in Request :
        /\ pc'[s] = "staging" => pc[s] = "staging" /\ todo'[s] = todo[s] /\ txEvents'[s] = txEvents[s]
        /\ \/ pc'[s] = pc[s] \/ pc[s] \in {"idle", "queued", "entered", "staging"}
           \/ pc'[s] = "ok" \/ (HooksMayFail /\ pc'[s] = "failed")
  BY <1>1, <1>2
<1> QED
  BY <1>3, UnitsUntouched

(***************************************************************************)
(* Every step keeps the units of work whole.                               *)
(***************************************************************************)
LEMMA UnitsStep ==
  ASSUME TypeOK, UnitsInv, [Next]_vars
  PROVE  UnitsInv'
<1>1. ASSUME NEW r \in Request, Submit(r) \/ Enter(r)
      PROVE  UnitsInv'
  <2>1. /\ UNCHANGED <<cmd, events, todo, txEvents>>
        /\ pc[r] \in {"idle", "queued"} /\ \E p \in {"queued", "entered"} : pc' = [pc EXCEPT ![r] = p]
    BY <1>1, Zenon DEF Submit, Enter, client, store, txVars
  <2>2. \A s \in Request : /\ pc'[s] = "staging" => pc[s] = "staging"
                           /\ pc'[s] = pc[s] \/ pc[s] \in {"idle", "queued", "entered", "staging"}
    BY <2>1 DEF TypeOK
  <2> QED
    BY <2>1, <2>2, UnitsUntouched
<1>2. ASSUME NEW r \in Request, ReplayCached(r) \/ Abort(r) \/ FinishDryRun(r) \/ FinishPostCommit(r) \/ FailPostCommit(r)
      PROVE  UnitsInv'
  <2>1. /\ UNCHANGED <<cmd, events>>
        /\ \E answer \in Final :
             /\ Answer(r, answer)
             /\ pc[r] \in {"entered", "staging"} \/ answer = "ok" \/ (HooksMayFail /\ answer = "failed")
    BY <1>2 DEF ReplayCached, Abort, FinishDryRun, FinishPostCommit, FailPostCommit, client, store, Final
  <2> QED
    BY <2>1, UnitAnswered
<1>3. ASSUME NEW r \in Request, Commit(r)
      PROVE  UnitsInv'
  <2>1. pc' = [pc EXCEPT ![r] = "postCommit"] /\ CommitStores(r) /\ UNCHANGED <<cmd, todo, txEvents>>
        /\ pc[r] = "staging" /\ todo[r] = <<>> /\ ~cmd[r].dryRun
    BY <1>3, Zenon DEF Commit, client, txVars
  <2>2. pc'[r] = "postCommit" /\ \A s \in Request \ {r} : pc'[s] = pc[s]
    BY <2>1 DEF TypeOK
  <2> QED
    BY <2>1, <2>2, UnitCommits
<1>4. ASSUME NEW r \in Request, CommitAfterReset(r)
      PROVE  UnitsInv'
  <2>1. CommitStores(r) /\ UNCHANGED cmd /\ Answer(r, "ok")
        /\ pc[r] = "staging" /\ todo[r] = <<>> /\ ~cmd[r].dryRun
    BY <1>4, Zenon DEF CommitAfterReset, client
  <2> QED
    BY <2>1, AnswerLocal, UnitCommits
<1>5. ASSUME NEW a \in Admin, ResetClear(a) \/ ResetInitialize(a)
      PROVE  UnitsInv'
  <2>1. UNCHANGED <<pc, cmd, todo, txEvents>> /\ events' \in {Nothing, BaselineLog, events}
    BY <1>5, Zenon DEF ResetClear, ResetInitialize, Initialize, LogEmpty, client, txVars
  <2> QED
    BY <2>1, UnitsWithoutLog, UnitsUntouched
<1>6. CASE \/ \E a \in Admin : ResetHookFails(a) \/ ResetDone(a)
           \/ \E k \in Key : Expire(k)
           \/ UNCHANGED vars
  <2>1. UNCHANGED <<pc, cmd, events, todo, txEvents>>
    BY <1>6, Zenon DEF ResetHookFails, ResetDone, Expire, client, store, txVars, vars
  <2> QED
    BY <2>1, UnitsUntouched
<1> QED
  BY <1>1, <1>2, <1>3, <1>4, <1>5, <1>6, UnitBegins, UnitGrows, Zenon DEF Next, RequestStep, ResetStep, Stopped

LEMMA UnitsHold == Spec => [](TypeOK /\ BarrierHeld /\ UnitsInv)
<1>1. TypeOK /\ BarrierHeld /\ UnitsInv /\ [Next]_vars => (TypeOK /\ BarrierHeld /\ UnitsInv)'
  BY TypingStep, UnitsStep
<1> QED
  BY TypingInit, UnitsInit, <1>1, PTL DEF Spec

(***************************************************************************)
(* A unit of work is in the log with as many events on each aggregate as   *)
(* its command has writes there, or with none, whatever is reset           *)
(* meanwhile; with none when it is answered with a replay or a dry-run     *)
(* result, and, as long as hooks do not fail after the commit, when it is  *)
(* answered with an error.                                                 *)
(***************************************************************************)
THEOREM UnitsAreWhole ==
  ASSUME HooksMayFail = FALSE
  PROVE  Spec => []UnitsAreAtomic
<1>1. UnitsInv => UnitsAreAtomic
  BY DEF UnitsInv, LogOK, UnitsAreAtomic
<1> QED
  BY <1>1, UnitsHold, PTL

-----------------------------------------------------------------------------
(* Idempotency keys.                                                       *)

\* Whoever executes under a key found no record, and what is in the log under a
\* key is recorded, about to be, or has lapsed.
KeyOK(r) ==
  /\ pc[r] \in {"staging", "postCommit"} /\ cmd[r].key # NoKey => idempotency[cmd[r].key] = NoRecord
  /\ pc[r] = "postCommit" => Committed(events, r) \/ r \in wiped
  /\ Committed(events, r) /\ cmd[r].key # NoKey =>
       \/ pc[r] = "postCommit" \/ idempotency[cmd[r].key] = r \/ r \in lapsed
       \/ HooksMayFail /\ pc[r] = "failed"

KeysInv == RecordsAnswerFromLog /\ \A r \in Request : KeyOK(r)

LEMMA KeysInit == Init => KeysInv
<1> SUFFICES ASSUME Init
             PROVE  KeysInv
  OBVIOUS
<1>1. \A r \in Request : pc[r] = "idle" /\ ~Committed(events, r)
  BY NoneCommitted DEF Init
<1>2. \A k \in Key : idempotency[k] = NoRecord
  BY DEF Init
<1> QED
  BY <1>1, <1>2 DEF KeysInv, KeyOK, RecordsAnswerFromLog

\* A step that leaves the log and the records alone, and starts no execution.
LEMMA KeysUntouched ==
  ASSUME KeysInv, UNCHANGED <<cmd, events, idempotency, wiped, lapsed>>,
         \A s \in Request :
           /\ pc'[s] \in {"staging", "postCommit"} => pc'[s] = pc[s]
           /\ pc[s] = "postCommit" => pc'[s] = "postCommit" \/ (HooksMayFail /\ pc'[s] = "failed")
           /\ pc[s] = "failed" => pc'[s] = "failed"
  PROVE  KeysInv'
BY DEF KeysInv, KeyOK, RecordsAnswerFromLog

\* The target of a unit of work that is done has an event of its request.
LEMMA TargetAppended ==
  ASSUME TypeOK, UnitsInv, NEW r \in Request, pc[r] = "staging", todo[r] = <<>>
  PROVE  Len(txEvents[r][cmd[r].writes[1].agg]) \in Nat \ {0}
<1> DEFINE a == cmd[r].writes[1].agg
           n == Len(cmd[r].writes)
           S == DoneOn(r, a)
<1>1. cmd[r] \in Command /\ a \in Aggregate
  BY TargetType
<1>2. cmd[r].writes \in Seq(Write) /\ cmd[r].writes # <<>>
  BY <1>1 DEF Command
<1>3. n \in Nat \ {0}
  BY <1>2, EmptySeq
<1>4. Done(r) = n
  BY <1>3 DEF Done
<1>5. 1 \in S /\ S \subseteq 1..n
  BY <1>3, <1>4 DEF DoneOn
<1>6. IsFiniteSet(S)
  <2>1. IsFiniteSet(1..n)
    BY <1>3, FS_Interval
  <2> QED
    BY <1>5, <2>1, FS_Subset
<1>7. Cardinality(S) \in Nat \ {0}
  <2>1. S # {}
    BY <1>5
  <2> HIDE DEF S
  <2> QED
    BY <1>6, <2>1, FS_CardinalityType, FS_EmptySet
<1>8. Cardinality(S) = Len(txEvents[r][a])
  BY <1>1 DEF UnitsInv, UnitOK
<1> QED
  BY <1>7, <1>8

\* After its commit a request is in the log; the others are as they were.
LEMMA CommittedNow ==
  ASSUME TypeOK, UnitsInv, NEW r \in Request, pc[r] = "staging", todo[r] = <<>>, CommitStores(r)
  PROVE  /\ Committed(events', r)
         /\ \A s \in Request \ {r} : Committed(events', s) <=> Committed(events, s)
<1> DEFINE a == cmd[r].writes[1].agg
           m == Len(events[a])
           n == Len(txEvents[r][a])
<1>1. n \in Nat \ {0} /\ a \in Aggregate
  BY TargetAppended, TargetType
<1>2. m \in Nat
  BY <1>1, UnitAppended, ConcatEvents
<1>3. EventsBy(events', r, a) = (m + 1)..(m + n)
  BY <1>1, UnitAppended
<1>4. EventsBy(events', r, a) # {}
  <2> HIDE DEF m, n
  <2>1. m + 1 \in (m + 1)..(m + n)
    BY <1>1, <1>2
  <2> QED
    BY <1>3, <2>1
<1>5. \A s \in Request \ {r} : \A b \in Aggregate : EventsBy(events', s, b) = EventsBy(events, s, b)
  BY UnitAppended
<1> QED
  BY <1>1, <1>4, <1>5, Zenon DEF Committed

\* What recording the result of a request does to the records.
LEMMA RecordedNow ==
  ASSUME TypeOK, NEW r \in Request, Record(r), ~cmd[r].dryRun
  PROVE  /\ \A k \in Key : k # cmd[r].key => idempotency'[k] = idempotency[k]
         /\ cmd[r].key # NoKey => idempotency'[cmd[r].key] = r
         /\ cmd[r].key = NoKey => idempotency' = idempotency
BY KeyType DEF TypeOK, Record

\* A request that is in the log, or was when a reset cleared it, is recorded.
LEMMA KeysRecorded ==
  ASSUME TypeOK, KeysInv, NEW r \in Request, Record(r), ~cmd[r].dryRun,
         pc[r] \in {"staging", "postCommit"}, UNCHANGED <<cmd, wiped, lapsed>>,
         \A s \in Request : pc'[s] \notin InFlight,
         \A s \in Request \ {r} :
           /\ pc[s] # "postCommit" /\ (pc'[s] = pc[s])
           /\ Committed(events', s) <=> Committed(events, s),
         Committed(events', r) \/ r \in wiped
  PROVE  KeysInv'
<1>1. /\ \A k \in Key : k # cmd[r].key => idempotency'[k] = idempotency[k]
      /\ cmd[r].key # NoKey => idempotency'[cmd[r].key] = r
      /\ cmd[r].key = NoKey => idempotency' = idempotency
  BY RecordedNow
<1>2. RecordsAnswerFromLog'
  <2> SUFFICES ASSUME NEW k \in Key, idempotency'[k] # NoRecord, idempotency'[k] \notin wiped'
               PROVE  Committed(events', idempotency'[k])
    BY DEF RecordsAnswerFromLog
  <2>1. CASE idempotency'[k] = r
    BY <2>1
  <2>2. CASE idempotency'[k] # r
    <3>1. idempotency'[k] = idempotency[k]
      BY <1>1, <2>2
    <3>2. idempotency[k] \in Request \ {r}
      BY <2>2, <3>1 DEF TypeOK
    <3>3. Committed(events, idempotency[k])
      BY <3>1 DEF KeysInv, RecordsAnswerFromLog
    <3> QED
      BY <3>1, <3>2, <3>3
  <2> QED
    BY <2>1, <2>2
<1>3. KeyOK(r)'
  BY <1>1 DEF KeyOK, InFlight
<1>4. ASSUME NEW s \in Request \ {r}
      PROVE  KeyOK(s)'
  <2>1. KeyOK(s) /\ KeyOK(r)
    BY DEF KeysInv
  <2>2. cmd[s].key # NoKey => cmd[s].key \in Key
    BY KeyType
  <2>3. cmd[s].key # NoKey /\ idempotency[cmd[s].key] = s => idempotency'[cmd[s].key] = s
    <3>1. s # NoRecord
      OBVIOUS
    <3> QED
      BY <1>1, <2>1, <2>2, <3>1 DEF KeyOK
  <2> QED
    BY <2>1, <2>3 DEF KeyOK, InFlight
<1> QED
  BY <1>2, <1>3, <1>4 DEF KeysInv

(***************************************************************************)
(* Every step keeps the keys in order.                                     *)
(***************************************************************************)
LEMMA KeysStep ==
  ASSUME TypeOK, BarrierHeld, UnitsInv, KeysInv, [Next]_vars
  PROVE  KeysInv'
<1>1. ASSUME NEW r \in Request, Submit(r) \/ Enter(r)
      PROVE  KeysInv'
  <2>1. /\ UNCHANGED <<cmd, events, idempotency, wiped, lapsed>>
        /\ pc[r] \in {"idle", "queued"} /\ \E p \in {"queued", "entered"} : pc' = [pc EXCEPT ![r] = p]
    BY <1>1, Zenon DEF Submit, Enter, client, store, history
  <2>2. \A s \in Request : /\ pc'[s] \in {"staging", "postCommit"} => pc'[s] = pc[s]
                           /\ pc[s] \in {"postCommit", "failed"} => pc'[s] = pc[s]
    BY <2>1 DEF TypeOK
  <2> QED
    BY <2>1, <2>2, KeysUntouched
<1>2. ASSUME NEW r \in Request, ReplayCached(r) \/ Abort(r) \/ FailPostCommit(r)
      PROVE  KeysInv'
  <2>1. /\ UNCHANGED <<cmd, events, idempotency, wiped, lapsed>>
        /\ \E answer \in {"replayed", "failed"} : Answer(r, answer)
        /\ pc[r] # "failed"
        /\ pc[r] = "postCommit" => HooksMayFail /\ Answer(r, "failed")
    BY <1>2, Zenon DEF ReplayCached, Abort, FailPostCommit, client, store, history
  <2>2. /\ pc'[r] \in {"replayed", "failed"}
        /\ pc[r] = "postCommit" => HooksMayFail /\ pc'[r] = "failed"
        /\ \A s \in Request \ {r} : pc'[s] = pc[s]
    BY <2>1, AnswerLocal
  <2> QED
    BY <2>1, <2>2, KeysUntouched
<1>3. ASSUME NEW r \in Request, FinishDryRun(r)
      PROVE  KeysInv'
  <2>1. UNCHANGED <<cmd, events, idempotency, wiped, lapsed>> /\ Answer(r, "ok") /\ pc[r] = "staging"
    BY <1>3, Zenon DEF FinishDryRun, Record, client, store, history
  <2>2. pc'[r] = "ok" /\ \A s \in Request \ {r} : pc'[s] = pc[s]
    BY <2>1, AnswerLocal
  <2> QED
    BY <2>1, <2>2, KeysUntouched
<1>4. ASSUME NEW r \in Request, BeginUnitOfWork(r)
      PROVE  KeysInv'
  <2>1. /\ pc' = [pc EXCEPT ![r] = "staging"] /\ pc[r] = "entered" /\ ~Cached(r)
        /\ UNCHANGED <<cmd, events, idempotency, wiped, lapsed>>
    BY <1>4, Zenon DEF BeginUnitOfWork, client, store, history
  <2>2. pc'[r] = "staging" /\ \A s \in Request \ {r} : pc'[s] = pc[s]
    BY <2>1 DEF TypeOK
  <2>3. ~Committed(events, r)
    BY <2>1 DEF UnitsInv, LogOK
  <2>4. KeyOK(r)'
    BY <2>1, <2>2, <2>3 DEF KeyOK, Cached
  <2>5. \A s \in Request \ {r} : KeyOK(s)'
    BY <2>1, <2>2 DEF KeysInv, KeyOK
  <2> QED
    BY <2>1, <2>4, <2>5 DEF KeysInv, RecordsAnswerFromLog
<1>5. ASSUME NEW r \in Request, RunCommand(r)
      PROVE  KeysInv'
  <2>1. UNCHANGED <<cmd, events, idempotency, wiped, lapsed, pc>>
    BY <1>5, Zenon DEF RunCommand, client, store, history
  <2> QED
    BY <2>1, KeysUntouched
<1>6. ASSUME NEW r \in Request, Commit(r)
      PROVE  KeysInv'
  <2>1. /\ pc' = [pc EXCEPT ![r] = "postCommit"] /\ pc[r] = "staging" /\ todo[r] = <<>> /\ CommitStores(r)
        /\ UNCHANGED <<cmd, idempotency, wiped, lapsed>>
    BY <1>6, Zenon DEF Commit, client
  <2>2. pc'[r] = "postCommit" /\ \A s \in Request \ {r} : pc'[s] = pc[s]
    BY <2>1 DEF TypeOK
  <2>3. Committed(events', r) /\ \A s \in Request \ {r} : Committed(events', s) <=> Committed(events, s)
    BY <2>1, CommittedNow
  <2>4. KeyOK(r)'
    BY <2>1, <2>2, <2>3 DEF KeysInv, KeyOK
  <2>5. \A s \in Request \ {r} : KeyOK(s)'
    BY <2>1, <2>2, <2>3 DEF KeysInv, KeyOK
  <2>6. RecordsAnswerFromLog'
    <3>1. \A k \in Key : idempotency[k] \in Request \cup {NoRecord}
      BY DEF TypeOK
    <3> QED
      BY <2>1, <2>3, <3>1 DEF KeysInv, RecordsAnswerFromLog
  <2> QED
    BY <2>4, <2>5, <2>6 DEF KeysInv
<1>7. ASSUME NEW r \in Request, CommitAfterReset(r) \/ FinishPostCommit(r)
      PROVE  KeysInv'
  <2>1. /\ pc[r] \in {"staging", "postCommit"} /\ Answer(r, "ok") /\ Record(r)
        /\ UNCHANGED <<cmd, wiped, lapsed>>
        /\ \/ pc[r] = "staging" /\ todo[r] = <<>> /\ ~cmd[r].dryRun /\ CommitStores(r)
           \/ pc[r] = "postCommit" /\ events' = events
    BY <1>7, Zenon DEF CommitAfterReset, FinishPostCommit, client, store, history
  <2>2. \A s \in Request : pc'[s] \notin InFlight
    BY <2>1, AnswerReleases DEF InFlight, Final
  <2>3. \A s \in Request \ {r} : pc[s] \notin InFlight /\ pc'[s] = pc[s]
    <3>1. pc[r] \in InFlight
      BY <2>1 DEF InFlight
    <3> QED
      BY <2>1, <3>1, AnswerLocal DEF BarrierHeld
  <2>4. CASE pc[r] = "staging"
    <3>1. todo[r] = <<>> /\ ~cmd[r].dryRun /\ CommitStores(r)
      BY <2>1, <2>4
    <3>2. Committed(events', r) /\ \A s \in Request \ {r} : Committed(events', s) <=> Committed(events, s)
      BY <2>4, <3>1, CommittedNow
    <3> QED
      BY <2>1, <2>2, <2>3, <3>1, <3>2, KeysRecorded DEF InFlight
  <2>5. CASE pc[r] = "postCommit"
    <3>1. events' = events /\ (Committed(events, r) \/ r \in wiped)
      BY <2>1, <2>5 DEF KeysInv, KeyOK
    <3>2. CASE ~cmd[r].dryRun
      BY <2>1, <2>2, <2>3, <2>5, <3>1, <3>2, KeysRecorded DEF InFlight
    <3>3. CASE cmd[r].dryRun
      <4>1. ~Committed(events, r) /\ idempotency' = idempotency
        BY <2>1, <3>3 DEF UnitsInv, LogOK, Record
      <4>2. \A s \in Request : KeyOK(s)'
        BY <2>1, <2>2, <2>3, <3>1, <4>1 DEF KeysInv, KeyOK, InFlight
      <4> QED
        BY <2>1, <3>1, <4>1, <4>2 DEF KeysInv, RecordsAnswerFromLog
    <3> QED
      BY <3>2, <3>3
  <2> QED
    BY <2>1, <2>4, <2>5
<1>8. ASSUME NEW k \in Key, Expire(k)
      PROVE  KeysInv'
  <2>1. /\ idempotency' = [idempotency EXCEPT ![k] = NoRecord]
        /\ lapsed' = lapsed \cup {idempotency[k]}
        /\ UNCHANGED <<pc, cmd, events, wiped>>
    BY <1>8, Zenon DEF Expire, client, store
  <2>2. \A s \in Request : cmd[s].key # NoKey => cmd[s].key \in Key
    BY KeyType
  <2>3. \A j \in Key : idempotency'[j] = NoRecord \/ idempotency'[j] = idempotency[j]
    BY <2>1 DEF TypeOK
  <2>4. \A j \in Key : idempotency'[j] = idempotency[j] \/ idempotency[j] \in lapsed'
    BY <2>1 DEF TypeOK
  <2>5. ASSUME NEW s \in Request PROVE KeyOK(s)'
    <3>1. KeyOK(s)
      BY DEF KeysInv
    <3>2. lapsed \subseteq lapsed'
      BY <2>1
    <3> QED
      BY <2>1, <2>2, <2>3, <2>4, <3>1, <3>2 DEF KeyOK
  <2>6. RecordsAnswerFromLog'
    BY <2>1, <2>3 DEF KeysInv, RecordsAnswerFromLog
  <2> QED
    BY <2>5, <2>6 DEF KeysInv
<1>9. ASSUME NEW a \in Admin, ResetClear(a)
      PROVE  KeysInv'
  <2>1. /\ events' = Nothing /\ idempotency' = [k \in Key |-> NoRecord]
        /\ wiped' = wiped \cup {r \in Request : pc[r] \in InFlight}
        /\ UNCHANGED <<pc, cmd>>
    BY <1>9, Zenon DEF ResetClear, client
  <2>2. \A s \in Request : ~Committed(events', s)
    BY <2>1, NoneCommitted
  <2>3. \A s \in Request : cmd[s].key # NoKey => cmd[s].key \in Key
    BY KeyType
  <2>4. \A s \in Request : pc[s] = "postCommit" => s \in wiped'
    BY <2>1 DEF InFlight
  <2>5. \A k \in Key : idempotency'[k] = NoRecord
    BY <2>1
  <2>6. \A s \in Request : KeyOK(s)'
    BY <2>1, <2>2, <2>3, <2>4, <2>5 DEF KeyOK
  <2> QED
    BY <2>5, <2>6 DEF KeysInv, RecordsAnswerFromLog
<1>10. ASSUME NEW a \in Admin, ResetInitialize(a)
       PROVE  KeysInv'
  <2>1. UNCHANGED <<pc, cmd, idempotency, wiped, lapsed>>
        /\ events' = IF events = Nothing THEN BaselineLog ELSE events
    BY <1>10, Zenon DEF ResetInitialize, Initialize, LogEmpty, client
  <2>2. \A s \in Request : Committed(events', s) <=> Committed(events, s)
    BY <2>1, NoneCommitted
  <2>3. \A k \in Key : idempotency[k] \in Request \cup {NoRecord}
    BY DEF TypeOK
  <2>4. \A s \in Request : KeyOK(s)'
    BY <2>1, <2>2 DEF KeysInv, KeyOK
  <2>5. RecordsAnswerFromLog'
    BY <2>1, <2>2, <2>3 DEF KeysInv, RecordsAnswerFromLog
  <2> QED
    BY <2>4, <2>5 DEF KeysInv
<1>11. CASE (\E a \in Admin : ResetHookFails(a) \/ ResetDone(a)) \/ UNCHANGED vars
  <2>1. UNCHANGED <<pc, cmd, events, idempotency, wiped, lapsed>>
    BY <1>11, Zenon DEF ResetHookFails, ResetDone, client, store, history, vars
  <2> QED
    BY <2>1, KeysUntouched
<1> QED
  BY <1>1, <1>2, <1>3, <1>4, <1>5, <1>6, <1>7, <1>8, <1>9, <1>10, <1>11, Zenon
     DEF Next, RequestStep, ResetStep, Stopped

(***************************************************************************)
(* While its record lives, a key has at most one of its requests in the    *)
(* log, and it answers with work that is in the log unless a reset cleared *)
(* the stores under that request; whatever expires or is reset meanwhile,  *)
(* as long as hooks do not fail between the commit and the record.         *)
(***************************************************************************)
THEOREM KeysAnswerOnce ==
  ASSUME HooksMayFail = FALSE
  PROVE  Spec => []KeysExecuteOnce
<1>1. TypeOK /\ BarrierHeld /\ UnitsInv /\ KeysInv /\ [Next]_vars
        => (TypeOK /\ BarrierHeld /\ UnitsInv /\ KeysInv)'
  BY TypingStep, UnitsStep, KeysStep
<1>2. TypeOK /\ BarrierHeld /\ KeysInv => KeysExecuteOnce
  <2> SUFFICES ASSUME TypeOK, BarrierHeld, KeysInv,
                      NEW r \in Request, NEW s \in Request, r # s,
                      cmd[r].key # NoKey, cmd[r].key = cmd[s].key,
                      Committed(events, r), Committed(events, s), r \notin lapsed, s \notin lapsed
               PROVE  FALSE
    BY DEF KeysExecuteOnce, ExecutedAtMostOnce, KeysInv
  <2>1. /\ pc[r] = "postCommit" \/ idempotency[cmd[r].key] = r
        /\ pc[s] = "postCommit" \/ idempotency[cmd[r].key] = s
        /\ pc[r] = "postCommit" \/ pc[s] = "postCommit" => idempotency[cmd[r].key] = NoRecord
    BY DEF KeysInv, KeyOK
  <2>2. ~(pc[r] = "postCommit" /\ pc[s] = "postCommit")
    BY DEF BarrierHeld, InFlight
  <2> QED
    BY <2>1, <2>2
<1> QED
  BY TypingInit, UnitsInit, KeysInit, <1>1, <1>2, PTL DEF Spec

-----------------------------------------------------------------------------
(* If-Match.                                                               *)

\* The first write's aggregate of a conditional request.
Target(r) == cmd[r].writes[1].agg

\* While a conditional request runs, its target is as its client read it; once
\* it is in the log, its first event follows what was read.
VersionOK(r) ==
  /\ pc[r] = "staging" /\ ~stale /\ txEpoch[r] = epoch /\ ifMatch[r] # NoVersion
       => ifMatch[r] = Len(events[Target(r)])
  /\ ~stale /\ ifMatch[r] # NoVersion /\ EventsBy(events, r, Target(r)) # {}
       => ifMatch[r] + 1 \in EventsBy(events, r, Target(r))

VersionsInv == \A r \in Request : VersionOK(r)

LEMMA VersionsInit == Init => VersionsInv
BY DEF Init, VersionsInv, VersionOK

\* A step that leaves the log, the epochs and the versions alone, and starts no
\* unit of work.
LEMMA VersionsUntouched ==
  ASSUME VersionsInv, UNCHANGED <<cmd, events, ifMatch, stale, epoch, txEpoch>>,
         \A s \in Request : pc'[s] = "staging" => pc[s] = "staging"
  PROVE  VersionsInv'
BY DEF VersionsInv, VersionOK, Target

\* The stores are replaced: nothing in flight is of the new epoch, and no
\* request is in the log.
LEMMA VersionsReplaced ==
  ASSUME TypeOK, EpochsOrdered, UNCHANGED <<cmd, txEpoch>>, epoch' = epoch + 1,
         \A s \in Request : ~Committed(events', s)
  PROVE  VersionsInv'
<1>1. \A s \in Request : txEpoch'[s] # epoch'
  BY DEF TypeOK, EpochsOrdered
<1>2. \A s \in Request : EventsBy(events', s, Target(s)') = {}
  BY TargetType DEF Target, Committed
<1>3. \A s \in Request : VersionOK(s)'
  BY <1>1, <1>2 DEF VersionOK
<1> QED
  BY <1>3 DEF VersionsInv

(***************************************************************************)
(* Every step keeps the versions in order.                                 *)
(***************************************************************************)
LEMMA VersionsStep ==
  ASSUME TypeOK, BarrierHeld, UnitsInv, StoresHold, VersionsInv, [Next]_vars
  PROVE  VersionsInv'
<1>1. ASSUME NEW r \in Request, Submit(r)
      PROVE  VersionsInv'
  <2>1. /\ pc[r] = "idle" /\ pc' = [pc EXCEPT ![r] = "queued"]
        /\ \A s \in Request \ {r} : ifMatch'[s] = ifMatch[s]
        /\ UNCHANGED <<cmd, events, stale, epoch, txEpoch>>
    BY <1>1 DEF TypeOK, Submit, store, txVars
  <2>2. pc'[r] = "queued" /\ \A s \in Request \ {r} : pc'[s] = pc[s]
    BY <2>1 DEF TypeOK
  <2>3. ~Committed(events, r) /\ Target(r) \in Aggregate
    BY <2>1, TargetType DEF UnitsInv, LogOK, Target
  <2>4. VersionOK(r)'
    BY <2>1, <2>2, <2>3 DEF VersionOK, Target, Committed
  <2>5. \A s \in Request \ {r} : VersionOK(s)'
    BY <2>1, <2>2 DEF VersionsInv, VersionOK, Target
  <2> QED
    BY <2>4, <2>5 DEF VersionsInv
<1>2. ASSUME NEW r \in Request,
             ReplayCached(r) \/ Abort(r) \/ FinishDryRun(r) \/ FinishPostCommit(r) \/ FailPostCommit(r)
      PROVE  VersionsInv'
  <2>1. UNCHANGED <<cmd, events, ifMatch, stale, epoch, txEpoch>>
    BY <1>2, Zenon DEF ReplayCached, Abort, FinishDryRun, FinishPostCommit, FailPostCommit,
                       Answer, client, store, history
  <2>2. \E answer \in {"replayed", "failed", "ok"} : Answer(r, answer)
    BY <1>2, Zenon DEF ReplayCached, Abort, FinishDryRun, FinishPostCommit, FailPostCommit
  <2>3. \A s \in Request : pc'[s] = "staging" => pc[s] = "staging"
    BY <2>2, AnswerLocal
  <2> QED
    BY <2>1, <2>3, VersionsUntouched
<1>3. ASSUME NEW r \in Request, Enter(r) \/ RunCommand(r)
      PROVE  VersionsInv'
  <2>1. /\ UNCHANGED <<cmd, events, ifMatch, stale, epoch, txEpoch>>
        /\ pc' = pc \/ pc' = [pc EXCEPT ![r] = "entered"]
    BY <1>3, Zenon DEF Enter, RunCommand, client, store, txVars, history
  <2>2. \A s \in Request : pc'[s] = "staging" => pc[s] = "staging"
    BY <2>1 DEF TypeOK
  <2> QED
    BY <2>1, <2>2, VersionsUntouched
<1>4. ASSUME NEW r \in Request, BeginUnitOfWork(r)
      PROVE  VersionsInv'
  <2>1. /\ pc' = [pc EXCEPT ![r] = "staging"] /\ txEpoch' = [txEpoch EXCEPT ![r] = epoch]
        /\ UNCHANGED <<cmd, events, ifMatch, stale, epoch>>
        /\ VersionMatches(r)
    BY <1>4, Zenon DEF BeginUnitOfWork, client, store, history
  <2>2. \A s \in Request \ {r} : pc'[s] = pc[s] /\ txEpoch'[s] = txEpoch[s]
    BY <2>1 DEF TypeOK
  <2>3. ~stale /\ ifMatch[r] # NoVersion => ifMatch[r] = Len(events[Target(r)])
    <3>1. events \in EventLog /\ Target(r) \in Aggregate
      BY TargetType DEF TypeOK, Target
    <3>2. ~stale => Contiguous(events)
      BY DEF StoresHold, StoresAgree
    <3> QED
      BY <2>1, <3>1, <3>2, CurrentSequenceVersionContiguous DEF VersionMatches, Target
  <2>4. VersionOK(r)'
    BY <2>1, <2>3 DEF VersionsInv, VersionOK, Target
  <2>5. \A s \in Request \ {r} : VersionOK(s)'
    BY <2>1, <2>2 DEF VersionsInv, VersionOK, Target
  <2> QED
    BY <2>4, <2>5 DEF VersionsInv
<1>5. ASSUME NEW r \in Request, Commit(r) \/ CommitAfterReset(r)
      PROVE  VersionsInv'
  <2>1. /\ pc[r] = "staging" /\ todo[r] = <<>> /\ CommitStores(r)
        /\ UNCHANGED <<cmd, ifMatch, epoch, txEpoch>>
        /\ pc' = [pc EXCEPT ![r] = "postCommit"] \/ pc' = [pc EXCEPT ![r] = "ok"]
    BY <1>5, Zenon DEF Commit, CommitAfterReset, Answer, client, txVars
  <2>2. \A s \in Request : pc'[s] # "staging"
    <3>1. \A s \in Request \ {r} : pc[s] # "staging"
      BY <2>1 DEF BarrierHeld, InFlight
    <3> QED
      BY <2>1, <3>1 DEF TypeOK
  <2>3. ~stale' => ~stale /\ txEpoch[r] = epoch
    BY <2>1 DEF CommitStores, TypeOK
  <2>4. \A s \in Request : Target(s)' = Target(s) /\ Target(s) \in Aggregate
    BY <2>1, TargetType DEF Target
  <2>5. ~stale' /\ ifMatch[r] # NoVersion => ifMatch[r] + 1 \in EventsBy(events', r, Target(r))
    <3> SUFFICES ASSUME ~stale', ifMatch[r] # NoVersion
                 PROVE  ifMatch[r] + 1 \in EventsBy(events', r, Target(r))
      OBVIOUS
    <3> DEFINE m == Len(events[Target(r)])
               n == Len(txEvents[r][Target(r)])
    <3>1. ifMatch[r] = m
      BY <2>1, <2>3 DEF VersionsInv, VersionOK
    <3>2. n \in Nat \ {0}
      BY <2>1, TargetAppended DEF Target
    <3>3. m \in Nat
      BY <2>1, <2>4, UnitAppended, ConcatEvents
    <3>4. EventsBy(events', r, Target(r)) = (m + 1)..(m + n)
      BY <2>1, <2>4, UnitAppended
    <3> HIDE DEF m, n
    <3>5. m + 1 \in (m + 1)..(m + n)
      BY <3>2, <3>3
    <3> QED
      BY <3>1, <3>4, <3>5
  <2>6. VersionOK(r)'
    BY <2>1, <2>2, <2>4, <2>5 DEF VersionOK
  <2>7. \A s \in Request \ {r} : EventsBy(events', s, Target(s)) = EventsBy(events, s, Target(s))
    BY <2>1, <2>4, UnitAppended
  <2>8. \A s \in Request \ {r} : VersionOK(s)'
    BY <2>1, <2>2, <2>3, <2>4, <2>7 DEF VersionsInv, VersionOK
  <2> QED
    BY <2>6, <2>8 DEF VersionsInv
<1>6. ASSUME NEW a \in Admin, ResetClear(a)
      PROVE  VersionsInv'
  <2>1. events' = Nothing /\ epoch' = epoch + 1 /\ UNCHANGED <<cmd, txEpoch>>
    BY <1>6, Zenon DEF ResetClear, client, txVars
  <2> QED
    BY <2>1, NoneCommitted, VersionsReplaced DEF StoresHold
<1>7. ASSUME NEW a \in Admin, ResetInitialize(a)
      PROVE  VersionsInv'
  <2>1. /\ UNCHANGED <<pc, cmd, ifMatch, stale, txEpoch>>
        /\ events' = IF events = Nothing THEN BaselineLog ELSE events
        /\ epoch' = epoch \/ epoch' = epoch + 1
        /\ epoch' = epoch => events' = events
    BY <1>7 DEF TypeOK, ResetInitialize, Initialize, LogEmpty, client, store, txVars
  <2>2. CASE epoch' = epoch
    BY <2>1, <2>2, VersionsUntouched
  <2>3. CASE epoch' = epoch + 1 /\ events = Nothing
    BY <2>1, <2>3, NoneCommitted, VersionsReplaced DEF StoresHold
  <2>4. CASE epoch' = epoch + 1 /\ events # Nothing
    <3>1. events' = events /\ \A s \in Request : txEpoch'[s] # epoch'
      BY <2>1, <2>4 DEF StoresHold, EpochsOrdered, TypeOK
    <3> QED
      BY <2>1, <3>1 DEF VersionsInv, VersionOK, Target
  <2> QED
    BY <2>1, <2>2, <2>3, <2>4
<1>8. CASE \/ \E a \in Admin : ResetHookFails(a) \/ ResetDone(a)
           \/ \E k \in Key : Expire(k)
           \/ UNCHANGED vars
  <2>1. UNCHANGED <<pc, cmd, events, ifMatch, stale, epoch, txEpoch>>
    BY <1>8, Zenon DEF ResetHookFails, ResetDone, Expire, client, store, txVars, history, vars
  <2> QED
    BY <2>1, VersionsUntouched
<1> QED
  BY <1>1, <1>2, <1>3, <1>4, <1>5, <1>6, <1>7, <1>8, Zenon DEF Next, RequestStep, ResetStep, Stopped

\* The invariants of the stores, the units of work and the versions together.
LEMMA VersionsHold == Spec => [](TypeOK /\ BarrierHeld /\ StoresHold /\ UnitsInv /\ VersionsInv)
<1>1. TypeOK /\ BarrierHeld /\ StoresHold /\ UnitsInv /\ VersionsInv /\ [Next]_vars
        => (TypeOK /\ BarrierHeld /\ StoresHold /\ UnitsInv /\ VersionsInv)'
  BY TypingStep, StoreStep, UnitsStep, VersionsStep
<1> QED
  BY TypingInit, StoreInit, UnitsInit, VersionsInit, <1>1, PTL DEF Spec

(***************************************************************************)
(* Nobody overwrites a version that was not read: the first event of a     *)
(* conditional request directly follows the version that it named, for any *)
(* number of requests and resets, while no stale unit of work has been     *)
(* committed.                                                              *)
(***************************************************************************)
THEOREM VersionsAreRead == Spec => []NoLostUpdate
<1>1. VersionsInv => NoLostUpdate
  BY DEF VersionsInv, VersionOK, NoLostUpdate, Target
<1> QED
  BY <1>1, VersionsHold, PTL

-----------------------------------------------------------------------------
(* Resets of an idle system.                                               *)

Busy(a) == admin[a] \in {"hooks", "init"}

\* One reset runs at a time, and nobody holds or awaits the barrier meanwhile.
ResetsAlone ==
  /\ \A a, b \in Admin : Busy(a) /\ Busy(b) => a = b
  /\ \A a \in Admin : Busy(a) => barrier = <<>>

\* How far the last reset has come, while no request was sent after it.
FreshOK ==
  fresh =>
    /\ barrier = <<>>
    /\ \/ \E a \in Admin : admin[a] = "failed"
       \/ \E a \in Admin : admin[a] = "hooks" /\ events = Nothing /\ state = Nothing
       \/ events = BaselineLog /\ state = Replay(BaselineLog)

\* No unit of work is of an older epoch.
EpochsCurrent == ~stale /\ \A r \in Request : pc[r] = "staging" => txEpoch[r] = epoch

QuietInv == ResetsAlone /\ FreshOK /\ EpochsCurrent

LEMMA QuietInit == Init => QuietInv
BY DEF Init, QuietInv, ResetsAlone, FreshOK, EpochsCurrent, Busy

\* A step of a request that holds the barrier: no reset runs, none is the last
\* thing that happened.
LEMMA QuietHolder ==
  ASSUME QuietInv, BarrierHeld, NEW r \in Request, pc[r] \in InFlight,
         UNCHANGED <<admin, fresh, epoch>>, stale' = FALSE,
         \A s \in Request : pc'[s] = "staging" => txEpoch'[s] = epoch'
  PROVE  QuietInv'
<1>1. barrier # <<>>
  BY DEF BarrierHeld
<1>2. ~fresh /\ \A a \in Admin : ~Busy(a)
  BY <1>1 DEF QuietInv, ResetsAlone, FreshOK
<1> QED
  BY <1>2 DEF QuietInv, ResetsAlone, FreshOK, EpochsCurrent, Busy

\* A unit of work that is committed is of the current epoch.
LEMMA QuietCommit ==
  ASSUME TypeOK, QuietInv, NEW r \in Request, pc[r] = "staging", CommitStores(r)
  PROVE  stale' = FALSE
BY DEF QuietInv, EpochsCurrent, CommitStores

(***************************************************************************)
(* Every step keeps the resets apart from the requests, if the admin waits *)
(* for an idle system and the clients for the admin.                       *)
(***************************************************************************)
LEMMA QuietStep ==
  ASSUME QuietAdmin = TRUE, TypeOK, BarrierHeld, StoresHold, QuietInv, [Next]_vars
  PROVE  QuietInv'
<1>1. ASSUME NEW r \in Request, Submit(r)
      PROVE  QuietInv'
  <2>1. /\ pc' = [pc EXCEPT ![r] = "queued"] /\ AdminIdle /\ fresh' = FALSE
        /\ UNCHANGED <<admin, epoch, txEpoch, stale>>
    BY <1>1, Zenon DEF Submit, resetVars, txVars
  <2>2. \A s \in Request : pc'[s] = "staging" => pc[s] = "staging"
    BY <2>1 DEF TypeOK
  <2>3. \A a \in Admin : ~Busy(a)
    BY <2>1 DEF AdminIdle, Busy
  <2> QED
    BY <2>1, <2>2, <2>3 DEF QuietInv, ResetsAlone, FreshOK, EpochsCurrent, Busy
<1>2. ASSUME NEW r \in Request, Enter(r)
      PROVE  QuietInv'
  <2>1. /\ pc' = [pc EXCEPT ![r] = "entered"]
        /\ UNCHANGED <<barrier, events, state, admin, epoch, txEpoch, stale, fresh>>
    BY <1>2, Zenon DEF Enter, store, resetVars, txVars, history
  <2>2. \A s \in Request : pc'[s] = "staging" => pc[s] = "staging"
    BY <2>1 DEF TypeOK
  <2> QED
    BY <2>1, <2>2 DEF QuietInv, ResetsAlone, FreshOK, EpochsCurrent, Busy
<1>3. ASSUME NEW r \in Request,
             ReplayCached(r) \/ Abort(r) \/ FinishDryRun(r) \/ FinishPostCommit(r) \/ FailPostCommit(r)
      PROVE  QuietInv'
  <2>1. UNCHANGED <<admin, fresh, epoch, stale, txEpoch>>
    BY <1>3, Zenon DEF ReplayCached, Abort, FinishDryRun, FinishPostCommit, FailPostCommit,
                       Answer, resetVars, history
  <2>2. pc[r] \in InFlight /\ \E answer \in {"replayed", "failed", "ok"} : Answer(r, answer)
    BY <1>3 DEF ReplayCached, Abort, FinishDryRun, FinishPostCommit, FailPostCommit, InFlight
  <2>3. \A s \in Request : pc'[s] = "staging" => pc[s] = "staging"
    BY <2>2, AnswerLocal
  <2>4. stale' = FALSE /\ \A s \in Request : pc'[s] = "staging" => txEpoch'[s] = epoch'
    BY <2>1, <2>3 DEF QuietInv, EpochsCurrent, TypeOK
  <2> QED
    BY <2>1, <2>2, <2>4, QuietHolder
<1>4. ASSUME NEW r \in Request, BeginUnitOfWork(r)
      PROVE  QuietInv'
  <2>1. /\ pc[r] \in InFlight
        /\ pc' = [pc EXCEPT ![r] = "staging"] /\ txEpoch' = [txEpoch EXCEPT ![r] = epoch]
        /\ UNCHANGED <<admin, fresh, epoch, stale>>
    BY <1>4 DEF BeginUnitOfWork, resetVars, history, InFlight
  <2>2. stale' = FALSE /\ \A s \in Request : pc'[s] = "staging" => txEpoch'[s] = epoch'
    BY <2>1 DEF QuietInv, EpochsCurrent, TypeOK
  <2> QED
    BY <2>1, <2>2, QuietHolder
<1>5. ASSUME NEW r \in Request, RunCommand(r)
      PROVE  QuietInv'
  <2>1. pc[r] \in InFlight /\ UNCHANGED <<pc, admin, fresh, epoch, stale, txEpoch>>
    BY <1>5 DEF RunCommand, resetVars, history, InFlight
  <2>2. stale' = FALSE /\ \A s \in Request : pc'[s] = "staging" => txEpoch'[s] = epoch'
    BY <2>1 DEF QuietInv, EpochsCurrent
  <2> QED
    BY <2>1, <2>2, QuietHolder
<1>6. ASSUME NEW r \in Request, Commit(r) \/ CommitAfterReset(r)
      PROVE  QuietInv'
  <2>1. /\ pc[r] = "staging" /\ CommitStores(r)
        /\ UNCHANGED <<admin, fresh, epoch, txEpoch>>
        /\ pc' = [pc EXCEPT ![r] = "postCommit"] \/ pc' = [pc EXCEPT ![r] = "ok"]
    BY <1>6, Zenon DEF Commit, CommitAfterReset, Answer, resetVars, txVars
  <2>2. \A s \in Request : pc'[s] = "staging" => pc[s] = "staging"
    BY <2>1 DEF TypeOK
  <2>3. stale' = FALSE
    BY <2>1, QuietCommit
  <2>4. \A s \in Request : pc'[s] = "staging" => txEpoch'[s] = epoch'
    BY <2>1, <2>2 DEF QuietInv, EpochsCurrent
  <2> QED
    BY <2>1, <2>3, <2>4, QuietHolder DEF InFlight
<1>7. ASSUME NEW k \in Key, Expire(k)
      PROVE  QuietInv'
  <2>1. UNCHANGED <<pc, barrier, events, state, admin, epoch, txEpoch, stale, fresh>>
    BY <1>7, Zenon DEF Expire, store, resetVars, txVars
  <2> QED
    BY <2>1 DEF QuietInv, ResetsAlone, FreshOK, EpochsCurrent, Busy
<1>8. ASSUME NEW a \in Admin, ResetClear(a)
      PROVE  QuietInv'
  <2>1. /\ AdminIdle /\ barrier = <<>> /\ events' = Nothing /\ state' = Nothing
        /\ admin' = [admin EXCEPT ![a] = "hooks"] /\ stale' = FALSE
        /\ UNCHANGED <<pc, barrier>>
    BY <1>8, Zenon DEF ResetClear
  <2>2. admin'[a] = "hooks" /\ \A b \in Admin \ {a} : admin'[b] \in {"idle", "failed"}
    BY <2>1 DEF AdminIdle, TypeOK
  <2>3. \A s \in Request : pc'[s] # "staging"
    BY <2>1 DEF BarrierHeld, InFlight
  <2> QED
    BY <2>1, <2>2, <2>3 DEF QuietInv, ResetsAlone, FreshOK, EpochsCurrent, Busy
<1>9. ASSUME NEW a \in Admin, ResetInitialize(a)
      PROVE  QuietInv'
  <2>1. /\ admin[a] = "hooks" /\ admin' = [admin EXCEPT ![a] = "init"] /\ Initialize
        /\ UNCHANGED <<pc, barrier, stale, fresh>>
    BY <1>9, Zenon DEF ResetInitialize
  <2>2. barrier = <<>> /\ \A b \in Admin \ {a} : ~Busy(b)
    BY <2>1 DEF QuietInv, ResetsAlone, Busy
  <2>3. admin'[a] = "init" /\ \A b \in Admin \ {a} : admin'[b] = admin[b]
    BY <2>1 DEF TypeOK
  <2>4. \A s \in Request : pc'[s] # "staging"
    BY <2>1, <2>2 DEF BarrierHeld, InFlight
  <2>5. ResetsAlone'
    BY <2>1, <2>2, <2>3 DEF ResetsAlone, Busy
  <2>6. FreshOK'
    <3> SUFFICES ASSUME fresh
                 PROVE  FreshOK'
      BY <2>1 DEF FreshOK
    <3>1. CASE \E b \in Admin : admin[b] = "failed"
      <4>1. \E b \in Admin : admin'[b] = "failed"
        BY <2>1, <2>3, <3>1
      <4> QED
        BY <2>1, <2>2, <4>1 DEF FreshOK
    <3>2. CASE \E b \in Admin : admin[b] = "hooks" /\ events = Nothing /\ state = Nothing
      BY <2>1, <2>2, <3>2 DEF FreshOK, Initialize, LogEmpty
    <3>3. CASE events = BaselineLog /\ state = Replay(BaselineLog)
      BY <2>1, <2>2, <3>3 DEF FreshOK, Initialize, LogEmpty
    <3> QED
      BY <3>1, <3>2, <3>3 DEF QuietInv, FreshOK
  <2>7. EpochsCurrent'
    BY <2>1, <2>4 DEF QuietInv, EpochsCurrent
  <2> QED
    BY <2>5, <2>6, <2>7 DEF QuietInv
<1>10. ASSUME NEW a \in Admin, ResetHookFails(a) \/ ResetDone(a)
       PROVE  QuietInv'
  <2>1. /\ \/ admin[a] = "hooks" /\ admin' = [admin EXCEPT ![a] = "failed"]
           \/ admin[a] = "init" /\ admin' = [admin EXCEPT ![a] = "idle"]
        /\ UNCHANGED <<pc, barrier, events, state, epoch, txEpoch, stale, fresh>>
    BY <1>10, Zenon DEF ResetHookFails, ResetDone, store, txVars, history
  <2>2. /\ Busy(a) /\ \A b \in Admin \ {a} : admin'[b] = admin[b] /\ ~Busy(b)
        /\ admin'[a] = (IF admin[a] = "hooks" THEN "failed" ELSE "idle")
    BY <2>1 DEF TypeOK, QuietInv, ResetsAlone, Busy
  <2>3. ResetsAlone'
    BY <2>2 DEF ResetsAlone, Busy
  <2>4. FreshOK'
    <3> SUFFICES ASSUME fresh
                 PROVE  FreshOK'
      BY <2>1 DEF FreshOK
    <3>1. CASE \E b \in Admin : admin[b] = "failed"
      <4>1. \E b \in Admin : admin'[b] = "failed"
        BY <2>1, <2>2, <3>1
      <4> QED
        BY <2>1, <4>1 DEF QuietInv, FreshOK
    <3>2. CASE \E b \in Admin : admin[b] = "hooks" /\ events = Nothing /\ state = Nothing
      <4>1. admin'[a] = "failed"
        BY <2>2, <3>2 DEF Busy
      <4> QED
        BY <2>1, <4>1 DEF QuietInv, FreshOK
    <3>3. CASE events = BaselineLog /\ state = Replay(BaselineLog)
      BY <2>1, <3>3 DEF QuietInv, FreshOK
    <3> QED
      BY <3>1, <3>2, <3>3 DEF QuietInv, FreshOK
  <2>5. EpochsCurrent'
    BY <2>1 DEF QuietInv, EpochsCurrent
  <2> QED
    BY <2>3, <2>4, <2>5 DEF QuietInv
<1>11. CASE UNCHANGED vars
  BY <1>11 DEF vars, QuietInv, ResetsAlone, FreshOK, EpochsCurrent, Busy
<1> QED
  BY <1>1, <1>2, <1>3, <1>4, <1>5, <1>6, <1>7, <1>8, <1>9, <1>10, <1>11, Zenon
     DEF Next, RequestStep, ResetStep, Stopped

\* The invariants of the stores, the units of work and the resets together.
LEMMA QuietHolds ==
  ASSUME QuietAdmin = TRUE
  PROVE  Spec => [](TypeOK /\ BarrierHeld /\ StoresHold /\ UnitsInv /\ QuietInv)
<1>1. TypeOK /\ BarrierHeld /\ StoresHold /\ UnitsInv /\ QuietInv /\ [Next]_vars
        => (TypeOK /\ BarrierHeld /\ StoresHold /\ UnitsInv /\ QuietInv)'
  BY TypingStep, StoreStep, UnitsStep, QuietStep
<1> QED
  BY TypingInit, StoreInit, UnitsInit, QuietInit, <1>1, PTL DEF Spec

(***************************************************************************)
(* Once a reset has returned, and before any request is sent after it, the *)
(* stores are those of the boot: for any number of resets, hooks that fail *)
(* included, by an admin that waits until the system is idle.              *)
(***************************************************************************)
THEOREM ResetRestores ==
  ASSUME QuietAdmin = TRUE
  PROVE  Spec => []ResetRestoresBaseline
<1>1. QuietInv => ResetRestoresBaseline
  BY DEF QuietInv, FreshOK, ResetRestoresBaseline, Quiescent, AdminIdle
<1> QED
  BY <1>1, QuietHolds, PTL

-----------------------------------------------------------------------------
(* The stores implement AtomicStore.                                       *)

\* The abstract store reads the log as this module does.
LEMMA AtomicSame ==
  /\ Atomic!Nothing = Nothing /\ Atomic!EventLog = EventLog /\ Atomic!BaselineLog = BaselineLog
  /\ \A log : Atomic!Replay(log) = Replay(log)
  /\ \A log, r : Atomic!Committed(log, r) <=> Committed(log, r)
<1>1. Atomic!Nothing = Nothing
  BY DEF Atomic!Nothing, Nothing
<1>2. Atomic!EventLog = EventLog
  BY DEF Atomic!EventLog, Atomic!Event, Atomic!Cause, EventLog, Event, Cause
<1>3. Atomic!BaselineLog = BaselineLog
  BY DEF Atomic!BaselineLog, BaselineLog
<1>4. \A log : Atomic!Replay(log) = Replay(log)
  BY DEF Atomic!Replay, Replay
<1>5. \A log, r : Atomic!Committed(log, r) <=> Committed(log, r)
  BY DEF Atomic!Committed, Committed, Atomic!EventsBy, EventsBy
<1> QED
  BY <1>1, <1>2, <1>3, <1>4, <1>5

\* A committed unit of work is one step of the abstract store.
LEMMA CommitIsUnit ==
  ASSUME TypeOK, TypeOK', StoresHold, StoresHold', UnitsInv, QuietInv, QuietInv',
         NEW r \in Request, pc[r] = "staging", CommitStores(r)
  PROVE  Atomic!CommitUnit(r)
<1>1. events \in EventLog /\ txEvents[r] \in EventLog /\ UnitOK(r) /\ ~Committed(events, r)
  BY UnitAppended
<1>2. events' = AppendAll(events, txEvents[r]) /\ events' \in EventLog
  BY DEF TypeOK, CommitStores
<1>3. state' = Replay(events') /\ Contiguous(events')
  BY DEF StoresHold, StoresAgree, QuietInv, EpochsCurrent
<1>4. ASSUME NEW a \in Aggregate
      PROVE  /\ Len(events'[a]) >= Len(events[a])
             /\ \A i \in 1..Len(events'[a]) :
                  events'[a][i] = IF i <= Len(events[a]) THEN events[a][i] ELSE [seq |-> i, by |-> r]
  <2> DEFINE m == Len(events[a])
             n == Len(txEvents[r][a])
             t == events[a] \o txEvents[r][a]
  <2>1. m \in Nat /\ n \in Nat
    BY <1>1, ConcatEvents
  <2>2. Len(t) = m + n /\ \A i \in 1..(m + n) : t[i] = IF i <= m THEN events[a][i] ELSE txEvents[r][a][i - m]
    BY <1>1, ConcatEvents, Zenon
  <2>3. events'[a] = t
    BY <1>2 DEF AppendAll
  <2>4. \A i \in 1..Len(t) : t[i] \in Event /\ t[i].seq = i
    <3>1. t \in Seq(Event)
      BY <1>2, <2>3 DEF EventLog
    <3>2. \A i \in 1..Len(t) : t[i].seq = i
      BY <1>3, <2>3, Zenon DEF Contiguous
    <3> HIDE DEF t
    <3> QED
      BY <3>1, <3>2, ElementOfSeq
  <2>5. \A i \in 1..n : txEvents[r][a][i].by = r
    BY <1>1 DEF UnitOK, OnlyBy
  <2> HIDE DEF m, n, t
  <2>6. \A i \in 1..(m + n) : ~(i <= m) => t[i].by = r
    <3>1. \A i \in 1..(m + n) : ~(i <= m) => i - m \in 1..n
      BY <2>1
    <3> QED
      BY <2>2, <2>5, <3>1
  <2>7. \A e \in Event : e = [seq |-> e.seq, by |-> e.by]
    BY DEF Event
  <2>8. \A i \in 1..(m + n) : t[i] = IF i <= m THEN events[a][i] ELSE [seq |-> i, by |-> r]
    BY <2>2, <2>4, <2>6, <2>7
  <2>9. Len(t) >= m
    BY <2>1, <2>2
  <2> QED
    BY <2>2, <2>3, <2>8, <2>9 DEF m
<1> QED
  BY <1>1, <1>2, <1>3, <1>4, AtomicSame DEF Atomic!CommitUnit

(***************************************************************************)
(* Every step is a step of the abstract store or leaves the stores alone.  *)
(***************************************************************************)
LEMMA AtomicStep ==
  ASSUME TypeOK, TypeOK', StoresHold, StoresHold', UnitsInv, QuietInv, QuietInv', [Next]_vars
  PROVE  [Atomic!StoreNext]_(Atomic!storeVars)
<1>1. ASSUME NEW r \in Request, Commit(r) \/ CommitAfterReset(r)
      PROVE  Atomic!StoreNext
  <2>1. pc[r] = "staging" /\ CommitStores(r)
    BY <1>1 DEF Commit, CommitAfterReset
  <2> QED
    BY <2>1, CommitIsUnit DEF Atomic!StoreNext
<1>2. ASSUME NEW a \in Admin, ResetClear(a)
      PROVE  Atomic!StoreNext
  BY <1>2, AtomicSame DEF ResetClear, Atomic!StoreNext, Atomic!Wipe
<1>3. ASSUME NEW a \in Admin, ResetInitialize(a)
      PROVE  [Atomic!StoreNext]_(Atomic!storeVars)
  <2>1. Initialize /\ state = Replay(events)
    BY <1>3 DEF ResetInitialize, StoresHold, StoresAgree, QuietInv, EpochsCurrent
  <2>2. CASE events = Nothing
    BY <2>1, <2>2, ReplayNothing, AtomicSame DEF Initialize, LogEmpty, Atomic!StoreNext, Atomic!Seed
  <2>3. CASE events # Nothing
    BY <2>1, <2>3 DEF Initialize, LogEmpty, Atomic!storeVars
  <2> QED
    BY <2>2, <2>3
<1>4. CASE \/ \E r \in Request :
                \/ Submit(r) \/ Enter(r) \/ ReplayCached(r) \/ BeginUnitOfWork(r) \/ Abort(r)
                \/ RunCommand(r) \/ FinishDryRun(r) \/ FinishPostCommit(r) \/ FailPostCommit(r)
           \/ \E k \in Key : Expire(k)
           \/ \E a \in Admin : ResetHookFails(a) \/ ResetDone(a)
           \/ UNCHANGED vars
  <2>1. UNCHANGED <<events, state>>
    BY <1>4, Zenon DEF Submit, Enter, ReplayCached, BeginUnitOfWork, Abort, RunCommand, FinishDryRun,
                       FinishPostCommit, FailPostCommit, Expire, ResetHookFails, ResetDone, store, vars
  <2> QED
    BY <2>1 DEF Atomic!storeVars
<1> QED
  BY <1>1, <1>2, <1>3, <1>4, Zenon DEF Next, RequestStep, ResetStep, Stopped

(***************************************************************************)
(* The request path implements the abstract store: units of work take      *)
(* effect one at a time, each with all its events numbered without gaps,   *)
(* and the state graph is the projection of the log at every moment, if    *)
(* the admin resets only an idle system and the clients wait for it.       *)
(***************************************************************************)
THEOREM StoresAreAtomic ==
  ASSUME QuietAdmin = TRUE
  PROVE  Spec => AtomicStoreSpec
<1>1. Init => Atomic!StoreInit
  BY AtomicSame DEF Init, Atomic!StoreInit
<1> QED
  BY <1>1, AtomicStep, QuietHolds, PTL DEF Spec, AtomicStoreSpec, Atomic!StoreSpec
=============================================================================
