------------------------- MODULE RuntimeBatchProofs -------------------------
(***************************************************************************)
(* Proofs about RuntimeBatch for any calls, plans, aggregates, keys and    *)
(* number of resets: a failed transaction leaves nothing in the log, a     *)
(* rollback takes back nothing else, no effect of a transaction is         *)
(* delivered before its last item, and a key executes one item.            *)
(* BatchInv is inductive; its parts are who holds the barrier (Phases),    *)
(* whose events the log and the checkpoint may hold (Origins) and what     *)
(* they project to (Projections).  For the keys, HeldBack and Answers say  *)
(* what a lookup finds in the records and the log.                         *)
(***************************************************************************)
EXTENDS RuntimeBatch, EventSourcingProofs

USE ItemAssumption, PlansAssumption, NamesAssumption, SeededAssumption, BaselineAssumption

-----------------------------------------------------------------------------
(* The invariant.                                                          *)

\* Whoever holds the barrier is at its head, whoever waits is in its queue.
BarrierHeld ==
  \A c \in Call :
    /\ pc[c] \in Holding => Head(barrier) = c
    /\ pc[c] = "queued" \/ pc[c] \in Holding => \E i \in 1..Len(barrier) : barrier[i] = c

\* No call has done more items than it has.
ItemsBounded == \A c \in Call : index[c] <= Len(plan[c].items)

\* The phases of a call agree with the items it has done and the active batch.
PhaseOK(c) ==
  /\ pc[c] \in {"working", "itemPost"} => HasItem(c)
  /\ pc[c] = "postCommit" => ~HasItem(c)
  /\ pc[c] \in {"items", "working", "itemPost"} /\ Transactional(c) => active = c
  /\ pc[c] = "itemPost" => ~Transactional(c)
  /\ pc[c] \in Holding => \A i \in 1..Len(postCommits) : postCommits[i][1] = c

Phases == BarrierHeld /\ (\A c \in Call : PhaseOK(c)) /\ NoEarlyDelivery

\* No event of the call c.
Without(log, c) == \A r \in Request : r[1] = c => ~Committed(log, r)

\* The calls that have no event: they have not begun, or were rolled back.
Eventless(c) ==
  pc[c] \in {"idle", "queued", "rejected"} \/ (Transactional(c) /\ pc[c] = "failed")

\* Beside what the checkpoint has, the log has events of the holder only.
OriginsOK(c) ==
  pc[c] \in Holding =>
    /\ Without(checkpoint.events, c)
    /\ \A d \in Call : Eventless(d) => Without(checkpoint.events, d)
    /\ \A r \in Request : Committed(events, r) => Committed(checkpoint.events, r) \/ r[1] = c

\* The unit of work has events of its item only.
UnitOK(c) ==
  pc[c] = "working" =>
    \A a \in Aggregate : \A i \in 1..Len(tx.pending[a]) : tx.pending[a][i].by = ItemId(c)

Origins ==
  /\ \A d \in Call : Eventless(d) => Without(events, d)
  /\ \A c \in Call : OriginsOK(c) /\ UnitOK(c)

\* While nobody resets, log, checkpoint and unit of work project to their states.
Projected(log, graph) == graph = Replay(log) /\ Contiguous(log)

Projections ==
  /\ resetting => generation # 0
  /\ generation = 0 =>
       /\ Projected(events, state)
       /\ \A c \in Call :
            /\ pc[c] \in Holding => Projected(checkpoint.events, checkpoint.state)
            /\ pc[c] = "working" => Projected(AppendAll(events, tx.pending), tx.states)

BatchInv == TypeOK /\ ItemsBounded /\ Phases /\ Origins /\ Projections

-----------------------------------------------------------------------------
(* Facts about plans and logs.                                             *)

LEMMA PlanType ==
  ASSUME TypeOK, NEW c \in Call
  PROVE  /\ plan[c] \in Plan
         /\ plan[c].items \in Seq(Item)
         /\ Len(plan[c].items) \in 0..MaxItems
<1>1. plan[c] \in Plan /\ Len(plan[c].items) <= MaxItems
  BY DEF TypeOK
<1>2. plan[c].items \in Seq(Item)
  BY <1>1 DEF Plan
<1> QED
  BY <1>1, <1>2, LenProperties

LEMMA ItemType ==
  ASSUME TypeOK, NEW c \in Call, HasItem(c)
  PROVE  /\ index[c] + 1 \in 1..MaxItems
         /\ ItemId(c) \in Request
         /\ ItemId(c)[1] = c
         /\ Current(c) \in Item
<1>1. index[c] \in Nat /\ Len(plan[c].items) \in 0..MaxItems /\ plan[c].items \in Seq(Item)
  BY PlanType DEF TypeOK
<1>2. index[c] + 1 \in 1..Len(plan[c].items)
  BY <1>1 DEF HasItem
<1>3. Current(c) \in Item
  BY <1>1, <1>2, ElementOfSeq DEF Current
<1> QED
  BY <1>1, <1>2, <1>3 DEF ItemId

-----------------------------------------------------------------------------
(* Types.                                                                  *)

Pcs == {"idle", "queued"} \cup Holding \cup Final

\* Recording a result keeps the records well typed.
LEMMA RecordType ==
  ASSUME TypeOK, NEW c \in Call, HasItem(c), Record(c)
  PROVE  idempotency' \in Records /\ pendingKeys' \in Records
<1> DEFINE k == Current(c).key
           id == ItemId(c)
<1>1. id \in Request /\ k \in Key \cup {NoKey}
  BY ItemType DEF Item
<1>2. idempotency \in Records /\ pendingKeys \in Records
  BY DEF TypeOK
<1>3. \/ UNCHANGED <<idempotency, pendingKeys>>
      \/ k \in Key /\ pendingKeys' = [pendingKeys EXCEPT ![k] = id] /\ UNCHANGED idempotency
      \/ k \in Key /\ idempotency' = [idempotency EXCEPT ![k] = id] /\ UNCHANGED pendingKeys
  BY <1>1 DEF Record
<1> HIDE DEF k, id
<1> QED
  BY <1>1, <1>2, <1>3 DEF Records

\* Committing keeps the stores well typed.
LEMMA CommitItemType ==
  ASSUME TypeOK, CommitItem
  PROVE  events' \in EventLog /\ state' \in StateGraph
<1>1. tx.pending \in EventLog /\ tx.states \in StateGraph /\ events \in EventLog
  BY DEF TypeOK, Unit
<1> QED
  BY <1>1, AppendAllType DEF CommitItem

LEMMA NoUnitType == NoUnit \in Unit
BY NothingType DEF NoUnit, Unit

\* The next item.
LEMMA IndexType ==
  ASSUME TypeOK, NEW c \in Call, HasItem(c), index' = [index EXCEPT ![c] = @ + 1]
  PROVE  index' \in [Call -> 0..MaxItems]
BY ItemType DEF TypeOK

\* The event of an item.
LEMMA BeginType ==
  ASSUME TypeOK, NEW c \in Call, ItemBegin(c)
  PROVE  /\ Current(c).agg \in Aggregate
         /\ [seq |-> NextSequenceVersion(events, Nothing, Current(c).agg), by |-> ItemId(c)]
              \in Event
         /\ tx'.states \in StateGraph
         /\ tx'.pending \in EventLog
         /\ tx'.generation = generation
         /\ tx' \in Unit
<1> DEFINE a == Current(c).agg
           event == [seq |-> NextSequenceVersion(events, Nothing, a), by |-> ItemId(c)]
           states == [state EXCEPT ![a] = Append(@, ItemId(c))]
           pending == [Nothing EXCEPT ![a] = <<event>>]
<1>1. ItemId(c) \in Request /\ a \in Aggregate
  BY ItemType DEF ItemBegin, Item
<1>2. event \in Event
  BY <1>1, NothingType, NextSequenceVersionType DEF TypeOK, Event, Cause
<1>3. tx' = [states |-> states, pending |-> pending, generation |-> generation]
  BY DEF ItemBegin
<1> HIDE DEF event, a
<1>4. states \in StateGraph
  BY <1>1, AppendProperties DEF TypeOK, StateGraph, Cause
<1>5. pending \in EventLog
  BY <1>1, <1>2, NothingType DEF EventLog
<1> HIDE DEF states, pending
<1>6. generation \in Nat
  BY DEF TypeOK
<1>7. tx' \in Unit /\ tx'.states \in StateGraph /\ tx'.pending \in EventLog
        /\ tx'.generation = generation
  BY <1>3, <1>4, <1>5, <1>6 DEF Unit
<1> QED
  BY <1>1, <1>2, <1>7 DEF event, a

\* Leaving keeps the types.
LEMMA LeaveType ==
  ASSUME TypeOK, NEW c \in Call, NEW answer \in Final, Leave(c, answer), barrier # <<>>
  PROVE  /\ pc' \in [Call -> Pcs]
         /\ barrier' \in Seq(Call)
         /\ active' \in Call \cup {NoBatch}
<1>1. barrier \in Seq(Call)
  BY DEF TypeOK
<1> QED
  BY <1>1, HeadTailProperties DEF TypeOK, Leave, Pcs

\* A call that fails keeps the types.
LEMMA FailType ==
  ASSUME TypeOK, NEW c \in Call, Fail(c), barrier # <<>>
  PROVE  TypeOK'
<1>1. Leave(c, "failed") /\ "failed" \in Final
  BY DEF Fail, Final
<1>2. /\ pc' \in [Call -> Pcs]
      /\ barrier' \in Seq(Call)
      /\ active' \in Call \cup {NoBatch}
  BY <1>1, LeaveType
<1>3. events' \in EventLog /\ state' \in StateGraph
  <2>1. CASE Transactional(c)
    BY <2>1 DEF Fail, Restore, TypeOK
  <2>2. CASE ~Transactional(c)
    BY <2>2 DEF Fail, store, TypeOK
  <2> QED
    BY <2>1, <2>2
<1>4. tx' \in Unit
  BY NoUnitType DEF Fail
<1> QED
  BY <1>2, <1>3, <1>4 DEF TypeOK, Fail, reset, Pcs

LEMMA ReleaseType ==
  ASSUME TypeOK, BarrierHeld, NEW c \in Call, pc[c] \in Holding
  PROVE  barrier # <<>>
<1>1. \E i \in 1..Len(barrier) : barrier[i] = c
  BY DEF BarrierHeld
<1> QED
  BY <1>1, EmptySeq DEF TypeOK

LEMMA TypingInit == Init => TypeOK
<1> SUFFICES ASSUME Init
             PROVE  TypeOK
  OBVIOUS
<1>1. events \in EventLog /\ state \in StateGraph
  BY BaselineType, ReplayType DEF Init
<1>2. checkpoint \in [events : EventLog, state : StateGraph]
  BY NothingType DEF Init
<1>3. tx \in Unit
  BY NoUnitType DEF Init
<1>4. barrier \in Seq(Call) /\ postCommits \in Seq(Request)
  BY DEF Init
<1>5. idempotency \in Records /\ pendingKeys \in Records
  BY DEF Init, NoKeys, Records
<1>6. pc \in [Call -> Pcs] /\ plan \in [Call -> Plans]
  BY DEF Init, Pcs
<1>7. index \in [Call -> 0..MaxItems] /\ generation \in 0..MaxResets
  BY BoundsAssumption DEF Init
<1> QED
  BY <1>1, <1>2, <1>3, <1>4, <1>5, <1>6, <1>7 DEF Init, TypeOK, Pcs

(***************************************************************************)
(* Every step keeps the types.                                             *)
(***************************************************************************)
LEMMA TypingStep ==
  ASSUME TypeOK, Phases, [Next]_vars
  PROVE  TypeOK'
<1>1. BarrierHeld /\ \A c \in Call : PhaseOK(c)
  BY DEF Phases
<1>2. ASSUME NEW c \in Call, RejectNested(c)
      PROVE  TypeOK'
  BY <1>2 DEF TypeOK, RejectNested, store, batch, reset, Holding, Final
<1>3. ASSUME NEW c \in Call, Submit(c)
      PROVE  TypeOK'
  <2>1. barrier' \in Seq(Call)
    BY <1>3, AppendProperties DEF TypeOK, Submit
  <2> QED
    BY <1>3, <2>1 DEF TypeOK, Submit, store, batch, reset
<1>4. ASSUME NEW c \in Call, Start(c)
      PROVE  TypeOK'
  <2>1. pc' \in [Call -> Pcs]
    BY <1>4 DEF TypeOK, Start, Pcs, Holding
  <2>2. checkpoint' \in [events : EventLog, state : StateGraph]
    BY <1>4 DEF TypeOK, Start
  <2>3. postCommits' \in Seq(Request) /\ pendingKeys' \in Records
    BY <1>4 DEF Start, NoKeys, Records
  <2> QED
    BY <1>4, <2>1, <2>2, <2>3 DEF TypeOK, Start, store, reset, Pcs
<1>5. ASSUME NEW c \in Call, ItemAnswered(c)
      PROVE  TypeOK'
  <2>1. index' \in [Call -> 0..MaxItems]
    BY <1>5, IndexType DEF ItemAnswered
  <2> QED
    BY <1>5, <2>1 DEF TypeOK, ItemAnswered, store, batch, reset
<1>6. ASSUME NEW c \in Call, ItemBegin(c)
      PROVE  TypeOK'
  <2>1. tx' \in Unit
    BY <1>6, BeginType
  <2>2. pc' \in [Call -> Pcs]
    BY <1>6 DEF TypeOK, ItemBegin, Pcs, Holding
  <2> QED
    BY <1>6, <2>1, <2>2 DEF TypeOK, ItemBegin, store, reset, Pcs
<1>7. ASSUME NEW c \in Call, ItemThrows(c)
      PROVE  TypeOK'
  BY <1>1, <1>7, FailType, ReleaseType DEF ItemThrows, Holding
<1>8. ASSUME NEW c \in Call, CommitDeferred(c)
      PROVE  TypeOK'
  <2>1. HasItem(c)
    BY <1>1, <1>8 DEF CommitDeferred, PhaseOK
  <2>2. pc' \in [Call -> Pcs]
    BY <1>8 DEF TypeOK, CommitDeferred, Pcs, Holding
  <2>3. idempotency' \in Records /\ pendingKeys' \in Records
    BY <1>8, <2>1, RecordType DEF CommitDeferred
  <2>4. index' \in [Call -> 0..MaxItems]
    BY <1>8, <2>1, IndexType DEF CommitDeferred
  <2>5. postCommits' \in Seq(Request)
    BY <1>8, <2>1, ItemType, AppendProperties DEF TypeOK, CommitDeferred
  <2>6. events' \in EventLog /\ state' \in StateGraph
    BY <1>8, CommitItemType DEF CommitDeferred
  <2>7. tx' \in Unit
    BY <1>8, NoUnitType DEF CommitDeferred
  <2> QED
    BY <1>8, <2>2, <2>3, <2>4, <2>5, <2>6, <2>7 DEF TypeOK, CommitDeferred, reset, Pcs
<1>9. ASSUME NEW c \in Call, CommitItemNow(c)
      PROVE  TypeOK'
  <2>1. pc' \in [Call -> Pcs]
    BY <1>9 DEF TypeOK, CommitItemNow, Pcs, Holding
  <2>2. events' \in EventLog /\ state' \in StateGraph
    BY <1>9, CommitItemType DEF CommitItemNow
  <2>3. tx' \in Unit
    BY <1>9, NoUnitType DEF CommitItemNow
  <2> QED
    BY <1>9, <2>1, <2>2, <2>3 DEF TypeOK, CommitItemNow, reset, Pcs
<1>10. ASSUME NEW c \in Call, CommitItemAfterReset(c)
       PROVE  TypeOK'
  <2>1. HasItem(c)
    BY <1>1, <1>10 DEF CommitItemAfterReset, PhaseOK
  <2>2. pc' \in [Call -> Pcs]
    BY <1>10 DEF TypeOK, CommitItemAfterReset, Pcs, Holding
  <2>3. idempotency' \in Records /\ pendingKeys' \in Records
    BY <1>10, <2>1, RecordType DEF CommitItemAfterReset
  <2>4. index' \in [Call -> 0..MaxItems]
    BY <1>10, <2>1, IndexType DEF CommitItemAfterReset
  <2>5. events' \in EventLog /\ state' \in StateGraph
    BY <1>10, CommitItemType DEF CommitItemAfterReset
  <2>6. tx' \in Unit
    BY <1>10, NoUnitType DEF CommitItemAfterReset
  <2> QED
    BY <1>10, <2>2, <2>3, <2>4, <2>5, <2>6 DEF TypeOK, CommitItemAfterReset, reset, Pcs
<1>11. ASSUME NEW c \in Call, ItemPostCommit(c)
       PROVE  TypeOK'
  <2>1. HasItem(c)
    BY <1>1, <1>11 DEF ItemPostCommit, PhaseOK
  <2>2. pc' \in [Call -> Pcs]
    BY <1>11 DEF TypeOK, ItemPostCommit, Pcs, Holding
  <2>3. idempotency' \in Records /\ pendingKeys' \in Records
    BY <1>11, <2>1, RecordType DEF ItemPostCommit
  <2>4. index' \in [Call -> 0..MaxItems]
    BY <1>11, <2>1, IndexType DEF ItemPostCommit
  <2>5. delivered' \in SUBSET Request
    BY <1>11, <2>1, ItemType DEF TypeOK, ItemPostCommit
  <2> QED
    BY <1>11, <2>2, <2>3, <2>4, <2>5 DEF TypeOK, ItemPostCommit, store, reset, Pcs
<1>12. ASSUME NEW c \in Call, ItemPostCommitThrows(c)
       PROVE  TypeOK'
  BY <1>1, <1>12, FailType, ReleaseType DEF ItemPostCommitThrows, Holding
<1>13. ASSUME NEW c \in Call, CloseItems(c)
       PROVE  TypeOK'
  <2>1. pc' \in [Call -> Pcs]
    BY <1>13 DEF TypeOK, CloseItems, Pcs, Holding
  <2>2. idempotency' \in Records /\ pendingKeys' \in Records
    BY <1>13 DEF TypeOK, CloseItems, Flush, NoKeys, Records
  <2> QED
    BY <1>13, <2>1, <2>2 DEF TypeOK, CloseItems, store, reset, Pcs
<1>14. ASSUME NEW c \in Call, PostCommit(c)
       PROVE  TypeOK'
  <2>1. postCommits' \in Seq(Request) /\ Head(postCommits) \in Request
    BY <1>14, HeadTailProperties DEF TypeOK, PostCommit
  <2>2. delivered' \in SUBSET Request
    BY <1>14, <2>1 DEF TypeOK, PostCommit
  <2> QED
    BY <1>14, <2>1, <2>2 DEF TypeOK, PostCommit, store, reset
<1>15. ASSUME NEW c \in Call, PostCommitThrows(c)
       PROVE  TypeOK'
  BY <1>1, <1>15, FailType, ReleaseType DEF PostCommitThrows, Holding
<1>16. ASSUME NEW c \in Call, Finish(c)
       PROVE  TypeOK'
  <2>1. barrier # <<>> /\ Leave(c, "ok") /\ "ok" \in Final
    BY <1>1, <1>16, ReleaseType DEF Finish, Final, Holding
  <2> QED
    BY <1>16, <2>1, LeaveType DEF TypeOK, Finish, store, reset, Pcs
<1>17. ASSUME ResetClear
       PROVE  TypeOK'
  <2>1. generation' \in 0..MaxResets
    BY <1>17, BoundsAssumption DEF TypeOK, ResetClear
  <2>2. idempotency' \in Records
    BY <1>17 DEF ResetClear, NoKeys, Records
  <2> QED
    BY <1>17, <2>1, <2>2, NothingType DEF TypeOK, ResetClear, batch
<1>18. ASSUME ResetInitialize
       PROVE  TypeOK'
  <2> DEFINE log == IF events = Nothing THEN BaselineLog ELSE events
  <2>1. log \in EventLog
    BY BaselineType DEF TypeOK
  <2>2. Replay(log) \in StateGraph
    BY <2>1, ReplayType
  <2>3. events' = log /\ state' = IF state = Nothing THEN Replay(log) ELSE state
    BY <1>18 DEF ResetInitialize
  <2> HIDE DEF log
  <2> QED
    BY <1>18, <2>1, <2>2, <2>3 DEF TypeOK, ResetInitialize, batch
<1>19. CASE UNCHANGED vars
  BY <1>19 DEF TypeOK, vars
<1> QED
  BY <1>2, <1>3, <1>4, <1>5, <1>6, <1>7, <1>8, <1>9, <1>10, <1>11, <1>12, <1>13, <1>14,
     <1>15, <1>16, <1>17, <1>18, <1>19, Zenon DEF Next, CallStep, Stopped

-----------------------------------------------------------------------------
(* The barrier, the phases and what is delivered.                          *)

\* One call holds the barrier.
LEMMA OneHolder ==
  ASSUME BarrierHeld, NEW c \in Call, NEW d \in Call \ {c}, Head(barrier) = c
  PROVE  pc[d] \notin Holding
BY DEF BarrierHeld

\* A call that does not hold the barrier has no obligations.
LEMMA OutsidePhase ==
  ASSUME NEW d \in Call, pc'[d] \notin Holding
  PROVE  PhaseOK(d)'
BY DEF PhaseOK, Holding

\* A step behind the barrier changes nothing for the others.
LEMMA HoldPhases ==
  ASSUME TypeOK, Phases, NEW c \in Call, pc[c] \in Holding, NEW x \in Holding,
         pc' = [pc EXCEPT ![c] = x], UNCHANGED barrier
  PROVE  /\ BarrierHeld'
         /\ pc'[c] = x
         /\ \A d \in Call \ {c} : PhaseOK(d)'
<1>1. pc \in [Call -> Pcs] /\ BarrierHeld
  BY DEF TypeOK, Pcs, Phases
<1>2. pc'[c] = x /\ \A d \in Call \ {c} : pc'[d] = pc[d]
  BY <1>1
<1>3. Head(barrier) = c
  BY <1>1 DEF BarrierHeld
<1>4. \A d \in Call \ {c} : PhaseOK(d)'
  BY <1>1, <1>2, <1>3, OneHolder, OutsidePhase
<1>5. BarrierHeld'
  BY <1>1, <1>2 DEF BarrierHeld
<1> QED
  BY <1>2, <1>4, <1>5

\* A step that finishes an item that is not of a transaction, or delivers nothing.
LEMMA IndexDelivery ==
  ASSUME TypeOK, NoEarlyDelivery, NEW c \in Call, HasItem(c),
         index' = [index EXCEPT ![c] = @ + 1], UNCHANGED plan,
         \A r \in delivered' : r \in delivered \/ ~Transactional(r[1])
  PROVE  NoEarlyDelivery'
<1> SUFFICES ASSUME NEW r \in delivered', Transactional(r[1])
             PROVE  index'[r[1]] = Len(plan[r[1]].items)
  BY DEF NoEarlyDelivery, Transactional
<1>1. r \in delivered /\ r \in Request /\ r[1] \in Call
  BY DEF TypeOK
<1>2. index[r[1]] = Len(plan[r[1]].items)
  BY <1>1 DEF NoEarlyDelivery
<1>3. index[c] # Len(plan[c].items)
  BY PlanType DEF HasItem, TypeOK
<1> QED
  BY <1>1, <1>2, <1>3 DEF TypeOK

LEMMA SameDelivery ==
  ASSUME NoEarlyDelivery, UNCHANGED <<plan, index, delivered>>
  PROVE  NoEarlyDelivery'
BY DEF NoEarlyDelivery, Transactional

\* Whoever leaves passes the barrier on.
LEMMA LeavePhases ==
  ASSUME TypeOK, Phases, NEW c \in Call, pc[c] \in Holding, NEW answer \in Final,
         Leave(c, answer), UNCHANGED <<plan, index, delivered>>
  PROVE  Phases' /\ \A d \in Call : pc'[d] \notin Holding
<1>1. pc \in [Call -> Pcs] /\ barrier \in Seq(Call) /\ BarrierHeld
  BY DEF TypeOK, Pcs, Phases
<1>2. pc'[c] = answer /\ \A d \in Call \ {c} : pc'[d] = pc[d]
  BY <1>1 DEF Leave
<1>3. Head(barrier) = c /\ barrier' = Tail(barrier) /\ barrier # <<>>
  BY <1>1, ReleaseType DEF BarrierHeld, Leave
<1>4. answer \notin Holding /\ answer # "queued"
  BY DEF Final, Holding
<1>5. \A d \in Call : pc'[d] \notin Holding
  BY <1>1, <1>2, <1>3, <1>4, OneHolder
<1>6. \A d \in Call : PhaseOK(d)'
  BY <1>5, OutsidePhase
<1>7. BarrierHeld'
  <2> SUFFICES ASSUME NEW d \in Call, pc'[d] = "queued"
               PROVE  \E i \in 1..Len(barrier') : barrier'[i] = d
    BY <1>5 DEF BarrierHeld
  <2>1. d # c /\ pc[d] = "queued"
    BY <1>2, <1>4
  <2>2. PICK i \in 1..Len(barrier) : barrier[i] = d
    BY <1>1, <2>1 DEF BarrierHeld
  <2>3. barrier[1] = c /\ Len(barrier) \in Nat
    BY <1>1, <1>3, LenProperties
  <2>4. i - 1 \in 1..(Len(barrier) - 1)
    BY <2>1, <2>2, <2>3
  <2>5. Len(barrier') = Len(barrier) - 1 /\ barrier'[i - 1] = barrier[i]
    BY <1>1, <1>3, <2>3, <2>4, HeadTailProperties
  <2> QED
    BY <2>2, <2>4, <2>5
<1> QED
  BY <1>5, <1>6, <1>7, SameDelivery DEF Phases

LEMMA BoundedStep ==
  ASSUME TypeOK, ItemsBounded, Phases, [Next]_vars
  PROVE  ItemsBounded'
<1>1. UNCHANGED plan
  BY Zenon DEF Next, CallStep, Stopped, RejectNested, Submit, Start, ItemAnswered, ItemBegin,
     ItemThrows, CommitDeferred, CommitItemNow, CommitItemAfterReset, ItemPostCommit,
     ItemPostCommitThrows, CloseItems, PostCommit, PostCommitThrows, Finish, Fail,
     ResetClear, ResetInitialize, vars
<1>2. CASE UNCHANGED index
  BY <1>1, <1>2 DEF ItemsBounded
<1>3. ASSUME NEW c \in Call, HasItem(c), index' = [index EXCEPT ![c] = @ + 1]
      PROVE  ItemsBounded'
  <2>1. index[c] + 1 <= Len(plan[c].items)
    BY <1>3, PlanType DEF HasItem, TypeOK
  <2> QED
    BY <1>1, <1>3, <2>1 DEF ItemsBounded, TypeOK
<1>4. \/ UNCHANGED index
      \/ \E c \in Call : HasItem(c) /\ index' = [index EXCEPT ![c] = @ + 1]
  <2>1. \A c \in Call : pc[c] \in {"working", "itemPost"} => HasItem(c)
    BY DEF Phases, PhaseOK
  <2>2. ASSUME NEW c \in Call, RejectNested(c) \/ Submit(c) \/ CallStep(c)
        PROVE  UNCHANGED index \/ (HasItem(c) /\ index' = [index EXCEPT ![c] = @ + 1])
    <3>1. ItemAnswered(c) \/ CommitDeferred(c) \/ CommitItemAfterReset(c) \/ ItemPostCommit(c)
            => HasItem(c) /\ index' = [index EXCEPT ![c] = @ + 1]
      BY <2>1, Zenon DEF ItemAnswered, CommitDeferred, CommitItemAfterReset, ItemPostCommit
    <3>2. ItemBegin(c) \/ ItemThrows(c) \/ CommitItemNow(c) \/ ItemPostCommitThrows(c)
            => UNCHANGED index
      BY DEF ItemBegin, ItemThrows, CommitItemNow, ItemPostCommitThrows, Fail
    <3>3. Start(c) \/ CloseItems(c) \/ PostCommit(c) \/ PostCommitThrows(c) \/ Finish(c)
            => UNCHANGED index
      BY DEF Start, CloseItems, PostCommit, PostCommitThrows, Finish, Fail
    <3>4. RejectNested(c) \/ Submit(c) => UNCHANGED index
      BY DEF RejectNested, Submit
    <3> QED
      BY <2>2, <3>1, <3>2, <3>3, <3>4, Zenon DEF CallStep
  <2> QED
    BY <2>2, Zenon DEF Next, Stopped, ResetClear, ResetInitialize, vars
<1> QED
  BY <1>2, <1>3, <1>4

LEMMA PhasesInit == Init => Phases
<1> SUFFICES ASSUME Init
             PROVE  Phases
  OBVIOUS
<1>1. BarrierHeld
  BY DEF Init, BarrierHeld, Holding
<1>2. \A c \in Call : PhaseOK(c)
  BY DEF Init, PhaseOK, Holding
<1> QED
  BY <1>1, <1>2 DEF Init, Phases, NoEarlyDelivery

\* A failing call, whatever it restores.
LEMMA FailPhases ==
  ASSUME TypeOK, Phases, NEW c \in Call, pc[c] \in Holding, Fail(c)
  PROVE  Phases' /\ \A d \in Call : pc'[d] \notin Holding
BY LeavePhases DEF Fail, Final

(***************************************************************************)
(* Every step keeps the barrier, the phases and what was delivered when.   *)
(***************************************************************************)
LEMMA PhasesStep ==
  ASSUME TypeOK, ItemsBounded, Phases, [Next]_vars
  PROVE  Phases'
<1> USE DEF Holding
<1>1. /\ BarrierHeld /\ NoEarlyDelivery
      /\ \A c \in Call : PhaseOK(c)
      /\ pc \in [Call -> Pcs] /\ index \in [Call -> 0..MaxItems] /\ barrier \in Seq(Call)
  BY DEF Phases, TypeOK, Pcs
<1>2. ASSUME NEW c \in Call, RejectNested(c)
      PROVE  Phases'
  <2>1. pc'[c] = "rejected" /\ \A d \in Call \ {c} : pc'[d] = pc[d]
    BY <1>1, <1>2 DEF RejectNested
  <2>2. BarrierHeld'
    BY <1>1, <1>2, <2>1 DEF BarrierHeld, RejectNested
  <2>3. \A d \in Call : PhaseOK(d)'
    BY <1>1, <1>2, <2>1
       DEF PhaseOK, RejectNested, batch, HasItem, Transactional
  <2> QED
    BY <1>1, <1>2, <2>2, <2>3, SameDelivery DEF RejectNested, Phases
<1>3. ASSUME NEW c \in Call, Submit(c)
      PROVE  Phases'
  <2>1. pc'[c] = "queued" /\ \A d \in Call \ {c} : pc'[d] = pc[d]
    BY <1>1, <1>3 DEF Submit
  <2>2. barrier' = Append(barrier, c)
    BY <1>3 DEF Submit
  <2>3. /\ Len(barrier) \in Nat
        /\ Len(barrier') = Len(barrier) + 1
        /\ barrier'[Len(barrier) + 1] = c
        /\ \A i \in 1..Len(barrier) : barrier'[i] = barrier[i]
    BY <1>1, <2>2, AppendProperties, LenProperties
  <2>4. ASSUME NEW d \in Call
        PROVE  /\ pc'[d] \in Holding => Head(barrier') = d
               /\ pc'[d] = "queued" \/ pc'[d] \in Holding =>
                    \E i \in 1..Len(barrier') : barrier'[i] = d
    <3>1. CASE d = c
      BY <2>1, <2>3, <3>1
    <3>2. CASE d # c
      <4>1. pc'[d] = pc[d]
        BY <2>1, <3>2
      <4>2. pc[d] = "queued" \/ pc[d] \in Holding => \E i \in 1..Len(barrier) : barrier[i] = d
        BY <1>1 DEF BarrierHeld
      <4>3. \A i \in 1..Len(barrier) : i \in 1..Len(barrier')
        BY <2>3
      <4>4. pc[d] \in Holding => Head(barrier) = d /\ barrier # <<>>
        BY <1>1, ReleaseType DEF BarrierHeld
      <4>5. barrier # <<>> => Head(barrier') = Head(barrier)
        BY <1>1, <2>2, HeadTailAppend
      <4> QED
        BY <2>3, <4>1, <4>2, <4>3, <4>4, <4>5
    <3> QED
      BY <3>1, <3>2
  <2>5. BarrierHeld'
    BY <2>4 DEF BarrierHeld
  <2>6. \A d \in Call : PhaseOK(d)'
    BY <1>1, <1>3, <2>1 DEF PhaseOK, Submit, batch, HasItem, Transactional
  <2> QED
    BY <1>1, <1>3, <2>5, <2>6, SameDelivery DEF Submit, Phases
<1>4. ASSUME NEW c \in Call, Start(c)
      PROVE  Phases'
  <2>1. pc'[c] = "items" /\ \A d \in Call \ {c} : pc'[d] = pc[d]
    BY <1>1, <1>4 DEF Start
  <2>2. Head(barrier) = c /\ pc[c] = "queued" /\ UNCHANGED <<barrier, plan, index, delivered>>
    BY <1>4 DEF Start, Granted
  <2>3. BarrierHeld'
    BY <1>1, <2>1, <2>2 DEF BarrierHeld
  <2>4. \A d \in Call \ {c} : PhaseOK(d)'
    BY <1>1, <2>1, <2>2, OneHolder, OutsidePhase
  <2>5. PhaseOK(c)'
    <3>1. postCommits' = <<>> /\ Len(<<>>) = 0
      BY <1>4 DEF Start
    <3>2. Transactional(c)' => active' = c
      BY <1>4 DEF Start, Transactional
    <3> QED
      BY <2>1, <3>1, <3>2 DEF PhaseOK
  <2> QED
    BY <1>1, <2>2, <2>3, <2>4, <2>5, SameDelivery DEF Phases
<1>5. ASSUME NEW c \in Call, ItemAnswered(c)
      PROVE  Phases'
  <2>1. pc' = pc /\ barrier' = barrier /\ pc[c] = "items" /\ HasItem(c)
    BY <1>5 DEF ItemAnswered
  <2>2. BarrierHeld'
    BY <1>1, <2>1 DEF BarrierHeld
  <2>3. \A d \in Call \ {c} : PhaseOK(d)'
    BY <1>1, <2>1, OneHolder, OutsidePhase DEF BarrierHeld
  <2>4. PhaseOK(c)'
    BY <1>1, <1>5, <2>1 DEF PhaseOK, ItemAnswered, batch, Transactional
  <2>5. NoEarlyDelivery'
    BY <1>1, <1>5, <2>1, IndexDelivery DEF ItemAnswered
  <2> QED
    BY <2>2, <2>3, <2>4, <2>5 DEF Phases
<1>6. ASSUME NEW c \in Call, ItemBegin(c)
      PROVE  Phases'
  <2>1. /\ pc[c] = "items" /\ pc' = [pc EXCEPT ![c] = "working"] /\ HasItem(c)
        /\ UNCHANGED <<plan, index, barrier, active, postCommits, delivered>>
    BY <1>6 DEF ItemBegin
  <2>2. BarrierHeld' /\ pc'[c] = "working" /\ \A d \in Call \ {c} : PhaseOK(d)'
    BY <2>1, HoldPhases
  <2>3. Transactional(c)' = Transactional(c) /\ HasItem(c)'
    BY <2>1 DEF Transactional, HasItem
  <2>4. PhaseOK(c)'
    <3>1. HasItem(c)' /\ active' = active /\ postCommits' = postCommits
      BY <2>1, <2>3
    <3>2. Transactional(c)' => active' = c
      BY <1>1, <2>1, <2>3, Zenon DEF PhaseOK
    <3>3. \A i \in 1..Len(postCommits) : postCommits[i][1] = c
      BY <1>1, <2>1 DEF PhaseOK, Holding
    <3> QED
      BY <2>2, <3>1, <3>2, <3>3 DEF PhaseOK
  <2> QED
    BY <1>1, <2>1, <2>2, <2>4, SameDelivery DEF Phases
<1>7. ASSUME NEW c \in Call, ItemThrows(c)
      PROVE  Phases'
  BY <1>7, FailPhases DEF ItemThrows
<1>8. ASSUME NEW c \in Call, CommitDeferred(c)
      PROVE  Phases'
  <2>1. /\ pc[c] = "working" /\ pc' = [pc EXCEPT ![c] = "items"] /\ HasItem(c)
        /\ UNCHANGED <<plan, barrier, active, delivered>>
        /\ index' = [index EXCEPT ![c] = @ + 1]
    BY <1>1, <1>8 DEF CommitDeferred, PhaseOK
  <2>2. BarrierHeld' /\ pc'[c] = "items" /\ \A d \in Call \ {c} : PhaseOK(d)'
    BY <2>1, HoldPhases
  <2>3. NoEarlyDelivery'
    BY <1>1, <2>1, IndexDelivery
  <2>4. \A i \in 1..Len(postCommits) : postCommits[i][1] = c
    BY <1>1, <2>1 DEF PhaseOK
  <2>5. \A i \in 1..Len(postCommits') : postCommits'[i][1] = c
    <3>1. CASE postCommits' = postCommits
      BY <2>4, <3>1
    <3>2. CASE postCommits' = Append(postCommits, ItemId(c))
      <4>1. postCommits \in Seq(Request) /\ ItemId(c) \in Request /\ ItemId(c)[1] = c
        BY <2>1, ItemType DEF TypeOK
      <4>2. Len(postCommits) \in Nat /\ Len(postCommits') = Len(postCommits) + 1
        BY <3>2, <4>1, AppendProperties, LenProperties
      <4>3. /\ \A i \in 1..Len(postCommits) : postCommits'[i] = postCommits[i]
            /\ postCommits'[Len(postCommits) + 1] = ItemId(c)
        BY <3>2, <4>1, AppendProperties
      <4>4. \A i \in 1..Len(postCommits') : i \in 1..Len(postCommits) \/ i = Len(postCommits) + 1
        BY <4>2
      <4> QED
        BY <2>4, <4>1, <4>3, <4>4
    <3> QED
      BY <1>8, <3>1, <3>2 DEF CommitDeferred
  <2>6. PhaseOK(c)'
    BY <1>1, <2>1, <2>2, <2>5 DEF PhaseOK, Transactional
  <2> QED
    BY <2>2, <2>3, <2>6 DEF Phases
<1>9. ASSUME NEW c \in Call, CommitItemNow(c)
      PROVE  Phases'
  <2>1. /\ pc[c] = "working" /\ pc' = [pc EXCEPT ![c] = "itemPost"] /\ HasItem(c)
        /\ UNCHANGED <<plan, index, barrier, active, postCommits, delivered>>
        /\ active # c
    BY <1>1, <1>9 DEF CommitItemNow, PhaseOK, Deferred
  <2>2. BarrierHeld' /\ pc'[c] = "itemPost" /\ \A d \in Call \ {c} : PhaseOK(d)'
    BY <2>1, HoldPhases
  <2>3. PhaseOK(c)'
    BY <1>1, <2>1, <2>2 DEF PhaseOK, Transactional, HasItem
  <2> QED
    BY <1>1, <2>1, <2>2, <2>3, SameDelivery DEF Phases
<1>10. ASSUME NEW c \in Call, CommitItemAfterReset(c)
       PROVE  Phases'
  <2>1. /\ pc[c] = "working" /\ pc' = [pc EXCEPT ![c] = "items"] /\ HasItem(c)
        /\ UNCHANGED <<plan, barrier, active, postCommits, delivered>>
        /\ index' = [index EXCEPT ![c] = @ + 1]
    BY <1>1, <1>10 DEF CommitItemAfterReset, PhaseOK
  <2>2. BarrierHeld' /\ pc'[c] = "items" /\ \A d \in Call \ {c} : PhaseOK(d)'
    BY <2>1, HoldPhases
  <2>3. NoEarlyDelivery'
    BY <1>1, <2>1, IndexDelivery
  <2>4. PhaseOK(c)'
    BY <1>1, <2>1, <2>2 DEF PhaseOK, Transactional
  <2> QED
    BY <2>2, <2>3, <2>4 DEF Phases
<1>11. ASSUME NEW c \in Call, ItemPostCommit(c)
       PROVE  Phases'
  <2>1. /\ pc[c] = "itemPost" /\ pc' = [pc EXCEPT ![c] = "items"] /\ HasItem(c)
        /\ UNCHANGED <<plan, barrier, active, postCommits>>
        /\ index' = [index EXCEPT ![c] = @ + 1]
        /\ ~Transactional(c)
        /\ delivered' = delivered \cup {ItemId(c)}
    BY <1>1, <1>11 DEF ItemPostCommit, PhaseOK
  <2>2. BarrierHeld' /\ pc'[c] = "items" /\ \A d \in Call \ {c} : PhaseOK(d)'
    BY <2>1, HoldPhases
  <2>3. NoEarlyDelivery'
    <3>1. \A r \in delivered' : r \in delivered \/ ~Transactional(r[1])
      BY <1>1, <2>1, ItemType
    <3> QED
      BY <1>1, <2>1, <3>1, IndexDelivery
  <2>4. PhaseOK(c)'
    BY <1>1, <2>1, <2>2 DEF PhaseOK, Transactional
  <2> QED
    BY <2>2, <2>3, <2>4 DEF Phases
<1>12. ASSUME NEW c \in Call, ItemPostCommitThrows(c)
       PROVE  Phases'
  BY <1>12, FailPhases DEF ItemPostCommitThrows
<1>13. ASSUME NEW c \in Call, CloseItems(c)
       PROVE  Phases'
  <2>1. /\ pc[c] = "items" /\ pc' = [pc EXCEPT ![c] = "postCommit"] /\ ~HasItem(c)
        /\ UNCHANGED <<plan, index, barrier, postCommits, delivered>>
    BY <1>13 DEF CloseItems
  <2>2. BarrierHeld' /\ pc'[c] = "postCommit" /\ \A d \in Call \ {c} : PhaseOK(d)'
    BY <2>1, HoldPhases
  <2>3. PhaseOK(c)'
    BY <1>1, <2>1, <2>2 DEF PhaseOK, Transactional, HasItem
  <2> QED
    BY <1>1, <2>1, <2>2, <2>3, SameDelivery DEF Phases
<1>14. ASSUME NEW c \in Call, PostCommit(c)
       PROVE  Phases'
  <2>1. /\ pc[c] = "postCommit" /\ ~HasItem(c) /\ postCommits # <<>>
        /\ UNCHANGED <<pc, plan, index, barrier, active>>
        /\ delivered' = delivered \cup {Head(postCommits)}
        /\ postCommits' = Tail(postCommits)
    BY <1>1, <1>14 DEF PostCommit, PhaseOK
  <2>2. BarrierHeld' /\ \A d \in Call \ {c} : PhaseOK(d)'
    BY <1>1, <2>1, OneHolder, OutsidePhase DEF BarrierHeld
  <2>3. /\ Len(postCommits) \in Nat \ {0} /\ Head(postCommits) = postCommits[1]
        /\ Len(postCommits') = Len(postCommits) - 1
        /\ \A i \in 1..(Len(postCommits) - 1) : postCommits'[i] = postCommits[i + 1]
    BY <2>1, HeadTailProperties, EmptySeq, LenProperties DEF TypeOK
  <2>4. \A i \in 1..Len(postCommits) : postCommits[i][1] = c
    BY <1>1, <2>1 DEF PhaseOK
  <2>5. Head(postCommits)[1] = c /\ \A i \in 1..Len(postCommits') : postCommits'[i][1] = c
    BY <2>3, <2>4
  <2>6. PhaseOK(c)'
    BY <1>1, <2>1, <2>5 DEF PhaseOK, Transactional, HasItem
  <2>7. index[c] = Len(plan[c].items)
    <3>1. index[c] <= Len(plan[c].items)
      BY DEF ItemsBounded
    <3> QED
      BY <1>1, <2>1, <3>1, PlanType DEF HasItem
  <2>8. NoEarlyDelivery'
    BY <1>1, <2>1, <2>5, <2>7 DEF NoEarlyDelivery, Transactional
  <2> QED
    BY <2>2, <2>6, <2>8 DEF Phases
<1>15. ASSUME NEW c \in Call, PostCommitThrows(c)
       PROVE  Phases'
  BY <1>15, FailPhases DEF PostCommitThrows
<1>16. ASSUME NEW c \in Call, Finish(c)
       PROVE  Phases'
  BY <1>16, LeavePhases DEF Finish, Final
<1>17. ASSUME ResetClear \/ ResetInitialize \/ UNCHANGED vars
       PROVE  Phases'
  <2>1. UNCHANGED <<pc, plan, index, barrier, active, postCommits, delivered>>
    BY <1>17 DEF ResetClear, ResetInitialize, vars, batch
  <2>2. BarrierHeld'
    BY <1>1, <2>1 DEF BarrierHeld
  <2>3. \A d \in Call : PhaseOK(d)'
    BY <1>1, <2>1 DEF PhaseOK, HasItem, Transactional
  <2> QED
    BY <1>1, <2>1, <2>2, <2>3, SameDelivery DEF Phases
<1> QED
  BY <1>2, <1>3, <1>4, <1>5, <1>6, <1>7, <1>8, <1>9, <1>10, <1>11, <1>12, <1>13, <1>14,
     <1>15, <1>16, <1>17, Zenon DEF Next, CallStep, Stopped

-----------------------------------------------------------------------------
(* Whose events there are.                                                 *)

\* A step behind the barrier that leaves log and checkpoint alone.
LEMMA QuietOrigins ==
  ASSUME TypeOK, Phases, Origins, NEW c \in Call, pc[c] \in Holding, NEW x \in Holding,
         pc' = [pc EXCEPT ![c] = x], UNCHANGED <<barrier, plan, events, checkpoint>>
  PROVE  /\ pc'[c] = x
         /\ x # "working" => Origins'
         /\ UnitOK(c)' => Origins'
<1>1. pc'[c] = x /\ \A d \in Call \ {c} : pc'[d] = pc[d] /\ pc[d] \notin Holding
  BY OneHolder DEF TypeOK, Phases, BarrierHeld
<1>2. \A d \in Call : Eventless(d)' => Eventless(d)
  BY <1>1 DEF Eventless, Transactional, Holding
<1>3. \A d \in Call : Eventless(d)' => Without(events', d)
  BY <1>2 DEF Origins
<1>4. OriginsOK(c)'
  BY <1>2 DEF Origins, OriginsOK
<1>5. \A d \in Call \ {c} : OriginsOK(d)' /\ UnitOK(d)'
  BY <1>1 DEF OriginsOK, UnitOK, Holding
<1>6. x # "working" => UnitOK(c)'
  BY <1>1 DEF UnitOK
<1> QED
  BY <1>1, <1>3, <1>4, <1>5, <1>6 DEF Origins

\* What an item commits is its own.
LEMMA CommitOrigins ==
  ASSUME TypeOK, Phases, Origins, NEW c \in Call, pc[c] = "working", CommitItem,
         NEW x \in Holding \ {"working"}, pc' = [pc EXCEPT ![c] = x],
         UNCHANGED <<barrier, plan, checkpoint>>
  PROVE  Origins'
<1>1. pc'[c] = x /\ \A d \in Call \ {c} : pc'[d] = pc[d] /\ pc[d] \notin Holding
  BY OneHolder DEF TypeOK, Phases, BarrierHeld, Holding
<1>2. \A d \in Call : Eventless(d)' => Eventless(d) /\ d # c
  BY <1>1 DEF Eventless, Transactional, Holding
<1>3. ASSUME NEW r \in Request, Committed(events', r)
      PROVE  Committed(events, r) \/ r[1] = c
  <2>1. events \in EventLog /\ tx.pending \in EventLog /\ events' = AppendAll(events, tx.pending)
    BY DEF TypeOK, Unit, CommitItem
  <2>2. \/ Committed(events, r)
        \/ \E a \in Aggregate : \E i \in 1..Len(tx.pending[a]) : tx.pending[a][i].by = r
    BY <1>3, <2>1, CommittedAppend
  <2>3. UnitOK(c) /\ ItemId(c)[1] = c
    BY DEF Origins, ItemId
  <2> QED
    BY <2>2, <2>3 DEF UnitOK
<1>4. \A d \in Call : Eventless(d)' => Without(events', d)
  BY <1>2, <1>3 DEF Origins, Without
<1>5. OriginsOK(c)'
  BY <1>2, <1>3 DEF Origins, OriginsOK, Holding
<1>6. \A d \in Call \ {c} : OriginsOK(d)' /\ UnitOK(d)'
  BY <1>1 DEF OriginsOK, UnitOK, Holding
<1>7. UnitOK(c)'
  BY <1>1 DEF UnitOK
<1> QED
  BY <1>4, <1>5, <1>6, <1>7 DEF Origins

\* What a failing transaction restores has none of its events.
LEMMA FailOrigins ==
  ASSUME TypeOK, Phases, Origins, NEW c \in Call, pc[c] \in Holding, Fail(c)
  PROVE  Origins'
<1>1. \A d \in Call : pc'[d] \notin Holding
  BY FailPhases
<1>2. pc'[c] = "failed" /\ (\A d \in Call \ {c} : pc'[d] = pc[d]) /\ UNCHANGED plan
  BY DEF Fail, Leave, TypeOK
<1>3. \A d \in Call : OriginsOK(d)' /\ UnitOK(d)'
  BY <1>1 DEF OriginsOK, UnitOK, Holding
<1>4. \A d \in Call : Eventless(d)' => (IF d = c THEN Transactional(c) ELSE Eventless(d))
  BY <1>2 DEF Eventless, Transactional
<1>5. CASE Transactional(c)
  <2>1. events' = checkpoint.events
    BY <1>5 DEF Fail, Restore
  <2>2. OriginsOK(c)
    BY DEF Origins
  <2> QED
    BY <1>3, <1>4, <2>1, <2>2 DEF Origins, OriginsOK
<1>6. CASE ~Transactional(c)
  <2>1. events' = events
    BY <1>6 DEF Fail, store
  <2> QED
    BY <1>3, <1>4, <1>6, <2>1 DEF Origins
<1> QED
  BY <1>5, <1>6

\* The unit of work of an item has one event, of that item.
LEMMA BeginOrigin ==
  ASSUME TypeOK, NEW c \in Call, ItemBegin(c)
  PROVE  UnitOK(c)'
<1> DEFINE a == Current(c).agg
           event == [seq |-> NextSequenceVersion(events, Nothing, a), by |-> ItemId(c)]
<1>1. a \in Aggregate
  BY BeginType
<1>2. tx'.pending = [Nothing EXCEPT ![a] = <<event>>] /\ ItemId(c)' = ItemId(c)
  BY DEF ItemBegin, ItemId
<1>3. event.by = ItemId(c)
  OBVIOUS
<1> HIDE DEF event, a
<1>4. \A b \in Aggregate : tx'.pending[b] = IF b = a THEN <<event>> ELSE <<>>
  BY <1>1, <1>2 DEF Nothing
<1> QED
  BY <1>2, <1>3, <1>4 DEF UnitOK

LEMMA OriginsInit == Init => Origins
<1> SUFFICES ASSUME Init
             PROVE  Origins
  OBVIOUS
<1>1. \A c \in Call : OriginsOK(c) /\ UnitOK(c)
  BY DEF Init, OriginsOK, UnitOK, Holding
<1>2. \A c \in Call : Without(events, c)
  BY NoneCommitted DEF Init, Without
<1> QED
  BY <1>1, <1>2 DEF Origins

(***************************************************************************)
(* Every step keeps whose events are in the log and in the checkpoint.     *)
(***************************************************************************)
LEMMA OriginsStep ==
  ASSUME TypeOK, Phases, Origins, [Next]_vars
  PROVE  Origins'
<1>1. pc \in [Call -> Pcs] /\ BarrierHeld
  BY DEF TypeOK, Pcs, Phases
<1>2. ASSUME NEW c \in Call, RejectNested(c) \/ Submit(c)
      PROVE  Origins'
  <2>1. /\ pc[c] = "idle" /\ pc'[c] \in {"rejected", "queued"}
        /\ \A d \in Call \ {c} : pc'[d] = pc[d]
    BY <1>1, <1>2 DEF RejectNested, Submit
  <2>2. UNCHANGED <<plan, index, events, checkpoint, tx>>
    BY <1>2 DEF RejectNested, Submit, store, batch
  <2>3. \A d \in Call : Eventless(d)' => Eventless(d)
    BY <2>1, <2>2 DEF Eventless, Transactional
  <2>4. \A d \in Call : OriginsOK(d)' /\ UnitOK(d)'
    <3> SUFFICES ASSUME NEW d \in Call
                 PROVE  OriginsOK(d)' /\ UnitOK(d)'
      OBVIOUS
    <3>1. pc'[d] \in Holding => pc'[d] = pc[d]
      BY <2>1 DEF Holding
    <3>2. OriginsOK(d) /\ UnitOK(d)
      BY DEF Origins
    <3>3. OriginsOK(d)'
      BY <2>2, <2>3, <3>1, <3>2 DEF OriginsOK
    <3>4. UnitOK(d)'
      BY <2>2, <3>1, <3>2 DEF UnitOK, Holding, ItemId
    <3> QED
      BY <3>3, <3>4
  <2> QED
    BY <2>2, <2>3, <2>4 DEF Origins
<1>3. ASSUME NEW c \in Call, Start(c)
      PROVE  Origins'
  <2>1. /\ pc[c] = "queued" /\ Head(barrier) = c /\ pc'[c] = "items"
        /\ \A d \in Call \ {c} : pc'[d] = pc[d]
    BY <1>1, <1>3 DEF Start, Granted
  <2>2. UNCHANGED <<plan, events>> /\ checkpoint'.events = events
    BY <1>3 DEF Start, store
  <2>3. \A d \in Call : Eventless(d)' => Eventless(d)
    BY <2>1, <2>2 DEF Eventless, Transactional
  <2>4. Without(events, c)
    BY <2>1 DEF Origins, Eventless
  <2>5. OriginsOK(c)' /\ UnitOK(c)'
    BY <2>1, <2>2, <2>3, <2>4 DEF Origins, OriginsOK, UnitOK
  <2>6. \A d \in Call \ {c} : OriginsOK(d)' /\ UnitOK(d)'
    BY <1>1, <2>1, OneHolder DEF OriginsOK, UnitOK, Holding
  <2> QED
    BY <2>2, <2>3, <2>5, <2>6 DEF Origins
<1>4. ASSUME NEW c \in Call, ItemAnswered(c)
      PROVE  Origins'
  <2>1. pc[c] = "items" /\ pc' = [pc EXCEPT ![c] = "items"]
    BY <1>1, <1>4 DEF ItemAnswered
  <2> QED
    BY <1>4, <2>1, QuietOrigins DEF ItemAnswered, store, batch, Holding
<1>5. ASSUME NEW c \in Call, ItemBegin(c)
      PROVE  Origins'
  <2>1. UnitOK(c)'
    BY <1>5, BeginOrigin
  <2> QED
    BY <1>5, <2>1, QuietOrigins DEF ItemBegin, store, Holding
<1>6. ASSUME NEW c \in Call, CommitDeferred(c) \/ CommitItemNow(c) \/ CommitItemAfterReset(c)
      PROVE  Origins'
  <2>1. /\ pc[c] = "working" /\ CommitItem
        /\ UNCHANGED <<barrier, plan, checkpoint>>
        /\ \E x \in Holding \ {"working"} : pc' = [pc EXCEPT ![c] = x]
    BY <1>6 DEF CommitDeferred, CommitItemNow, CommitItemAfterReset, Holding
  <2> QED
    BY <2>1, CommitOrigins
<1>7. ASSUME NEW c \in Call, ItemPostCommit(c) \/ CloseItems(c)
      PROVE  Origins'
  <2>1. /\ pc[c] \in Holding
        /\ UNCHANGED <<barrier, plan, events, checkpoint>>
        /\ \E x \in Holding \ {"working"} : pc' = [pc EXCEPT ![c] = x]
    BY <1>7 DEF ItemPostCommit, CloseItems, store, Holding
  <2> QED
    BY <2>1, QuietOrigins
<1>8. ASSUME NEW c \in Call, PostCommit(c)
      PROVE  Origins'
  <2>1. pc[c] = "postCommit" /\ pc' = [pc EXCEPT ![c] = "postCommit"]
    BY <1>1, <1>8 DEF PostCommit
  <2> QED
    BY <1>8, <2>1, QuietOrigins DEF PostCommit, store, Holding
<1>9. ASSUME NEW c \in Call, ItemThrows(c) \/ ItemPostCommitThrows(c) \/ PostCommitThrows(c)
      PROVE  Origins'
  BY <1>9, FailOrigins DEF ItemThrows, ItemPostCommitThrows, PostCommitThrows, Holding
<1>10. ASSUME NEW c \in Call, Finish(c)
       PROVE  Origins'
  <2>1. pc[c] = "postCommit" /\ Leave(c, "ok") /\ UNCHANGED <<plan, index, events, delivered>>
    BY <1>10 DEF Finish, store
  <2>2. pc'[c] = "ok" /\ \A d \in Call \ {c} : pc'[d] = pc[d]
    BY <1>1, <2>1 DEF Leave
  <2>3. \A d \in Call : pc'[d] \notin Holding
    BY <2>1, LeavePhases DEF Final, Holding
  <2>4. \A d \in Call : OriginsOK(d)' /\ UnitOK(d)'
    BY <2>3 DEF OriginsOK, UnitOK, Holding
  <2>5. \A d \in Call : Eventless(d)' => Eventless(d)
    BY <2>1, <2>2 DEF Eventless, Transactional
  <2> QED
    BY <2>1, <2>4, <2>5 DEF Origins
<1>11. ASSUME ResetClear \/ ResetInitialize \/ UNCHANGED vars
       PROVE  Origins'
  <2>1. UNCHANGED <<pc, plan, index, checkpoint, tx>>
    BY <1>11 DEF ResetClear, ResetInitialize, vars, batch
  <2>2. events' \in {events, Nothing, BaselineLog}
    BY <1>11 DEF ResetClear, ResetInitialize, vars
  <2>3. \A r \in Request : Committed(events', r) => Committed(events, r)
    BY <2>2, NoneCommitted
  <2>4. \A d \in Call : Eventless(d)' = Eventless(d)
    BY <2>1 DEF Eventless, Transactional
  <2>5. \A d \in Call : OriginsOK(d)' /\ UnitOK(d)'
    BY <2>1, <2>3, <2>4 DEF Origins, OriginsOK, UnitOK, ItemId
  <2> QED
    BY <2>3, <2>4, <2>5 DEF Origins, Without
<1> QED
  BY <1>2, <1>3, <1>4, <1>5, <1>6, <1>7, <1>8, <1>9, <1>10, <1>11, Zenon
     DEF Next, CallStep, Stopped

-----------------------------------------------------------------------------
(* What log, checkpoint and unit of work project to.                       *)

\* A step behind the barrier that leaves stores and checkpoint alone.
LEMMA QuietProjections ==
  ASSUME TypeOK, Phases, Projections, NEW c \in Call, pc[c] \in Holding, NEW x \in Holding,
         pc' = [pc EXCEPT ![c] = x],
         UNCHANGED <<barrier, store, checkpoint, reset>>
  PROVE  /\ x # "working" => Projections'
         /\ (generation = 0 => Projected(AppendAll(events, tx'.pending), tx'.states))
              => Projections'
<1>1. pc'[c] = x /\ \A d \in Call \ {c} : pc'[d] = pc[d] /\ pc[d] \notin Holding
  BY OneHolder DEF TypeOK, Phases, BarrierHeld
<1>2. UNCHANGED <<events, state, checkpoint, generation, resetting>>
  BY DEF store, reset
<1>3. \A d \in Call \ {c} : pc'[d] \notin Holding /\ pc'[d] # "working"
  BY <1>1 DEF Holding
<1> QED
  BY <1>1, <1>2, <1>3 DEF Projections, Projected

\* A commit installs what the unit of work projects to.
LEMMA CommitProjections ==
  ASSUME TypeOK, Phases, Projections, NEW c \in Call, pc[c] = "working", CommitItem,
         NEW x \in Holding \ {"working"}, pc' = [pc EXCEPT ![c] = x],
         UNCHANGED <<barrier, checkpoint, reset>>
  PROVE  Projections'
<1>1. pc'[c] = x /\ \A d \in Call \ {c} : pc'[d] = pc[d] /\ pc[d] \notin Holding
  BY OneHolder DEF TypeOK, Phases, BarrierHeld, Holding
<1>2. UNCHANGED <<checkpoint, generation, resetting>>
  BY DEF reset
<1>3. \A d \in Call : pc'[d] # "working" /\ (pc'[d] \in Holding => pc[d] \in Holding)
  BY <1>1 DEF Holding
<1>4. generation = 0 => Projected(events, state)'
  BY DEF CommitItem, Projections, Projected
<1> QED
  BY <1>2, <1>3, <1>4 DEF Projections, Projected

\* Nobody is behind the barrier after a failure; a checkpoint projects to its state.
LEMMA FailProjections ==
  ASSUME TypeOK, Phases, Projections, NEW c \in Call, pc[c] \in Holding, Fail(c)
  PROVE  Projections'
<1>1. \A d \in Call : pc'[d] \notin Holding /\ pc'[d] # "working"
  BY FailPhases DEF Holding
<1>2. UNCHANGED <<generation, resetting>>
  BY DEF Fail, reset
<1>3. generation = 0 => Projected(events, state)'
  <2>1. CASE Transactional(c)
    BY <2>1 DEF Fail, Restore, Projections, Projected
  <2>2. CASE ~Transactional(c)
    BY <2>2 DEF Fail, store, Projections, Projected
  <2> QED
    BY <2>1, <2>2
<1> QED
  BY <1>1, <1>2, <1>3 DEF Projections

\* The event of an item has the next version, and its reducer the next state.
LEMMA BeginProjects ==
  ASSUME TypeOK, Projections, NEW c \in Call, ItemBegin(c), generation = 0
  PROVE  Projected(AppendAll(events, tx'.pending), tx'.states)
<1> DEFINE a == Current(c).agg
           event == [seq |-> NextSequenceVersion(events, Nothing, a), by |-> ItemId(c)]
<1>1. a \in Aggregate /\ event \in Event
  BY BeginType
<1>2. /\ tx'.pending = [Nothing EXCEPT ![a] = <<event>>]
      /\ tx'.states = [state EXCEPT ![a] = Append(@, ItemId(c))]
  BY DEF ItemBegin
<1>3. event.seq = NextSequenceVersion(events, Nothing, a) /\ event.by = ItemId(c)
  OBVIOUS
<1>4. state = Replay(events) /\ Contiguous(events) /\ events \in EventLog
  BY DEF Projections, Projected, TypeOK
<1>5. Nothing \in EventLog /\ AppendAll(events, Nothing) = events
  BY <1>4, NothingType, AppendAllNothing
<1> HIDE DEF a, event
<1> DEFINE emitted == [Nothing EXCEPT ![a] = Append(@, event)]
<1>6. emitted = [Nothing EXCEPT ![a] = <<event>>]
  <2>1. Nothing[a] = <<>> /\ Append(<<>>, event) = <<event>>
    BY <1>1 DEF Nothing
  <2> QED
    BY <2>1
<1> HIDE DEF emitted
<1>7. /\ Contiguous(AppendAll(events, emitted))
      /\ Replay(AppendAll(events, emitted)) = [Replay(events) EXCEPT ![a] = Append(@, event.by)]
  BY <1>1, <1>3, <1>4, <1>5, EmitEvent DEF emitted
<1> QED
  BY <1>2, <1>3, <1>4, <1>6, <1>7 DEF Projected

LEMMA ProjectionsInit == Init => Projections
<1> SUFFICES ASSUME Init
             PROVE  Projections
  OBVIOUS
<1>1. Projected(events, state)
  BY BaselineType DEF Init, Projected
<1> QED
  BY <1>1 DEF Init, Projections, Holding

(***************************************************************************)
(* Every step keeps the projections, as long as nobody resets.             *)
(***************************************************************************)
LEMMA ProjectionsStep ==
  ASSUME TypeOK, Phases, Projections, [Next]_vars
  PROVE  Projections'
<1>1. pc \in [Call -> Pcs] /\ BarrierHeld /\ generation \in Nat
  BY DEF TypeOK, Pcs, Phases
<1>2. ASSUME NEW c \in Call, RejectNested(c) \/ Submit(c)
      PROVE  Projections'
  <2>1. \A d \in Call : pc'[d] \in Holding => pc'[d] = pc[d]
    BY <1>1, <1>2 DEF RejectNested, Submit, Holding
  <2>2. UNCHANGED <<events, state, checkpoint, tx, generation, resetting>>
    BY <1>2 DEF RejectNested, Submit, store, batch, reset
  <2>3. \A d \in Call : pc'[d] = "working" => pc[d] = "working"
    BY <2>1 DEF Holding
  <2> QED
    BY <2>1, <2>2, <2>3 DEF Projections, Projected
<1>3. ASSUME NEW c \in Call, Start(c)
      PROVE  Projections'
  <2>1. /\ Head(barrier) = c /\ pc'[c] = "items"
        /\ \A d \in Call \ {c} : pc'[d] = pc[d]
    BY <1>1, <1>3 DEF Start, Granted
  <2>2. /\ UNCHANGED <<events, state, generation, resetting>>
        /\ checkpoint'.events = events /\ checkpoint'.state = state
    BY <1>3 DEF Start, store, reset
  <2>3. \A d \in Call : pc'[d] # "working"
    BY <1>1, <2>1, OneHolder DEF Holding
  <2> QED
    BY <2>2, <2>3 DEF Projections, Projected
<1>4. ASSUME NEW c \in Call, ItemAnswered(c)
      PROVE  Projections'
  <2>1. pc[c] = "items" /\ pc' = [pc EXCEPT ![c] = "items"]
    BY <1>1, <1>4 DEF ItemAnswered
  <2> QED
    BY <1>4, <2>1, QuietProjections DEF ItemAnswered, batch, Holding
<1>5. ASSUME NEW c \in Call, ItemBegin(c)
      PROVE  Projections'
  <2>1. generation = 0 => Projected(AppendAll(events, tx'.pending), tx'.states)
    BY <1>5, BeginProjects
  <2> QED
    BY <1>5, <2>1, QuietProjections DEF ItemBegin, Holding
<1>6. ASSUME NEW c \in Call, CommitDeferred(c) \/ CommitItemNow(c) \/ CommitItemAfterReset(c)
      PROVE  Projections'
  <2>1. /\ pc[c] = "working" /\ CommitItem
        /\ UNCHANGED <<barrier, checkpoint, reset>>
        /\ \E x \in Holding \ {"working"} : pc' = [pc EXCEPT ![c] = x]
    BY <1>6 DEF CommitDeferred, CommitItemNow, CommitItemAfterReset, Holding
  <2> QED
    BY <2>1, CommitProjections
<1>7. ASSUME NEW c \in Call, ItemPostCommit(c) \/ CloseItems(c)
      PROVE  Projections'
  <2>1. /\ pc[c] \in Holding
        /\ UNCHANGED <<barrier, store, checkpoint, reset>>
        /\ \E x \in Holding \ {"working"} : pc' = [pc EXCEPT ![c] = x]
    BY <1>7 DEF ItemPostCommit, CloseItems, Holding
  <2> QED
    BY <2>1, QuietProjections
<1>8. ASSUME NEW c \in Call, PostCommit(c)
      PROVE  Projections'
  <2>1. pc[c] = "postCommit" /\ pc' = [pc EXCEPT ![c] = "postCommit"]
    BY <1>1, <1>8 DEF PostCommit
  <2> QED
    BY <1>8, <2>1, QuietProjections DEF PostCommit, Holding
<1>9. ASSUME NEW c \in Call, ItemThrows(c) \/ ItemPostCommitThrows(c) \/ PostCommitThrows(c)
      PROVE  Projections'
  BY <1>9, FailProjections DEF ItemThrows, ItemPostCommitThrows, PostCommitThrows, Holding
<1>10. ASSUME NEW c \in Call, Finish(c)
       PROVE  Projections'
  <2>1. /\ pc[c] \in Holding /\ Leave(c, "ok")
        /\ UNCHANGED <<plan, index, events, state, generation, resetting, delivered>>
    BY <1>10 DEF Finish, store, reset, Holding
  <2>2. \A d \in Call : pc'[d] \notin Holding /\ pc'[d] # "working"
    BY <2>1, LeavePhases DEF Final, Holding
  <2> QED
    BY <2>1, <2>2 DEF Projections, Projected
<1>11. ASSUME ResetClear \/ ResetInitialize
       PROVE  Projections'
  <2>1. generation' # 0
    BY <1>1, <1>11 DEF ResetClear, ResetInitialize, Projections
  <2> QED
    BY <2>1 DEF Projections
<1>12. CASE UNCHANGED vars
  BY <1>12 DEF Projections, Projected, vars
<1> QED
  BY <1>2, <1>3, <1>4, <1>5, <1>6, <1>7, <1>8, <1>9, <1>10, <1>11, <1>12, Zenon
     DEF Next, CallStep, Stopped

-----------------------------------------------------------------------------
(* The theorems.                                                           *)

LEMMA BatchInvariant == Spec => []BatchInv
<1>1. Init => BatchInv
  <2>1. Init => ItemsBounded
    <3> SUFFICES ASSUME Init, NEW c \in Call
                 PROVE  index[c] <= Len(plan[c].items)
      BY DEF ItemsBounded
    <3>1. index[c] = 0 /\ Len(plan[c].items) \in 0..MaxItems
      BY TypingInit, PlanType DEF Init
    <3> QED
      BY <3>1
  <2> QED
    BY <2>1, TypingInit, PhasesInit, OriginsInit, ProjectionsInit DEF BatchInv
<1>2. BatchInv /\ [Next]_vars => BatchInv'
  BY TypingStep, BoundedStep, PhasesStep, OriginsStep, ProjectionsStep DEF BatchInv
<1> QED
  BY <1>1, <1>2, PTL DEF Spec

(***************************************************************************)
(* Nothing of a failed transaction is in the log, and the state is the     *)
(* projection of the log through commits and rollbacks.                    *)
(***************************************************************************)
THEOREM RollbacksAreWhole == Spec => []RollbackIsWhole
<1>1. BatchInv => RollbackIsWhole
  <2> SUFFICES ASSUME BatchInv
               PROVE  RollbackIsWhole
    OBVIOUS
  <2>1. AllOrNothing
    <3>1. \A r \in Request : r[1] \in Call
      OBVIOUS
    <3> QED
      BY <3>1 DEF BatchInv, Origins, AllOrNothing, Eventless, Without
  <2>2. StateMatchesLog
    BY DEF BatchInv, Projections, Projected, StateMatchesLog
  <2> QED
    BY <2>1, <2>2 DEF BatchInv, RollbackIsWhole
<1> QED
  BY BatchInvariant, <1>1, PTL

(***************************************************************************)
(* No effect of a transaction is delivered before all its items are done.  *)
(***************************************************************************)
THEOREM DeliveriesWait == Spec => []NoEarlyDelivery
<1>1. BatchInv => NoEarlyDelivery
  BY DEF BatchInv, Phases
<1> QED
  BY BatchInvariant, <1>1, PTL

\* What a failing transaction takes back is its own.
LEMMA FailTakesOwn ==
  ASSUME BatchInv, NEW c \in Call, pc[c] \in Holding, Fail(c), NEW r \in Request,
         Committed(events, r), ~Committed(events', r)
  PROVE  r[1] = c /\ Transactional(c) /\ pc'[c] = "failed"
<1>1. Transactional(c)
  BY DEF Fail, store
<1>2. events' = checkpoint.events
  BY <1>1 DEF Fail, Restore
<1>3. r[1] = c
  BY <1>2 DEF BatchInv, Origins, OriginsOK
<1>4. pc'[c] = "failed"
  BY DEF BatchInv, TypeOK, Fail, Leave
<1> QED
  BY <1>1, <1>3, <1>4

\* What an action may take out of the log.
TakesBackOwn ==
  \A r \in Request :
    Committed(events, r) /\ ~Committed(events', r) /\ generation' = generation
      => Transactional(r[1]) /\ pc[r[1]] # "failed" /\ pc'[r[1]] = "failed"

LEMMA LocalStep ==
  ASSUME BatchInv, [Next]_vars
  PROVE  TakesBackOwn
<1> SUFFICES ASSUME NEW r \in Request,
                    Committed(events, r), ~Committed(events', r), generation' = generation
             PROVE  Transactional(r[1]) /\ pc[r[1]] # "failed" /\ pc'[r[1]] = "failed"
  BY DEF TakesBackOwn
<1>1. events' # events
  OBVIOUS
<1>2. ASSUME NEW c \in Call,
             ItemThrows(c) \/ ItemPostCommitThrows(c) \/ PostCommitThrows(c)
      PROVE  Transactional(r[1]) /\ pc[r[1]] # "failed" /\ pc'[r[1]] = "failed"
  <2>1. pc[c] \in Holding /\ pc[c] # "failed" /\ Fail(c)
    BY <1>2 DEF ItemThrows, ItemPostCommitThrows, PostCommitThrows, Holding
  <2>2. r[1] = c /\ Transactional(c) /\ pc'[c] = "failed"
    BY <2>1, FailTakesOwn
  <2> QED
    BY <2>1, <2>2
<1>3. ASSUME NEW c \in Call, CommitDeferred(c) \/ CommitItemNow(c) \/ CommitItemAfterReset(c)
      PROVE  FALSE
  <2>1. events \in EventLog /\ tx.pending \in EventLog /\ events' = AppendAll(events, tx.pending)
    BY <1>3 DEF BatchInv, TypeOK, Unit, CommitItem, CommitDeferred, CommitItemNow,
                CommitItemAfterReset
  <2> QED
    BY <2>1, CommittedStays
<1>4. ASSUME NEW c \in Call, RejectNested(c) \/ Submit(c) \/ Start(c) \/ ItemAnswered(c)
                               \/ ItemBegin(c)
      PROVE  FALSE
  BY <1>1, <1>4 DEF RejectNested, Submit, Start, ItemAnswered, ItemBegin, store
<1>5. ASSUME NEW c \in Call, ItemPostCommit(c) \/ CloseItems(c) \/ PostCommit(c) \/ Finish(c)
      PROVE  FALSE
  BY <1>1, <1>5 DEF ItemPostCommit, CloseItems, PostCommit, Finish, store
<1>6. ~ResetClear
  BY DEF ResetClear, BatchInv, TypeOK
<1>7. ~ResetInitialize
  BY <1>1, NoneCommitted DEF ResetInitialize
<1>8. ~UNCHANGED vars
  BY <1>1 DEF vars
<1> QED
  BY <1>2, <1>3, <1>4, <1>5, <1>6, <1>7, <1>8, Zenon DEF Next, CallStep, Stopped

(***************************************************************************)
(* But for a reset, only the rollback of its own batch takes an event out  *)
(* of the log.                                                             *)
(***************************************************************************)
THEOREM RollbacksAreLocal == Spec => RollbackIsLocal
<1>1. BatchInv /\ [Next]_vars => TakesBackOwn
  BY LocalStep
<1> QED
  BY BatchInvariant, <1>1, PTL DEF Spec, RollbackIsLocal, TakesBackOwn

-----------------------------------------------------------------------------
(* Keys and records.                                                       *)

KeyIn(p, r) == p[r[1]].items[r[2]].key

(***************************************************************************)
(* The records answer for a log: they name what is in it, and whatever is  *)
(* in it with a key, but for X, is named by the record of its key.         *)
(***************************************************************************)
Fits(p, log, records, X) ==
  /\ \A r \in Request : Committed(log, r) => r[2] <= Len(p[r[1]].items)
  /\ \A k \in Key : records[k] # NoRecord => Committed(log, records[k])
  /\ \A r \in Request \ X :
       Committed(log, r) /\ KeyIn(p, r) \in Key => records[KeyIn(p, r)] = r
  /\ \A r, s \in Request :
       Committed(log, r) /\ Committed(log, s) /\ KeyIn(p, r) = KeyIn(p, s)
         => r = s \/ KeyIn(p, r) \notin Key

\* The records that a lookup sees.
Effective == [k \in Key |-> Lookup(k)]

\* The item that is committed and not recorded yet.
Unrecorded == {ItemId(c) : c \in {d \in Call : pc[d] = "itemPost"}}

\* Records are held back while a transaction is active, and its items commit something.
HeldBack ==
  /\ active # NoBatch =>
       active \in Call /\ pc[active] \in {"items", "working"} /\ Transactional(active)
  /\ \A c \in Call : pc[c] \in Holding /\ active = NoBatch => pendingKeys = NoKeys
  /\ \A c \in Call : pc[c] = "working" =>
       /\ tx.generation <= generation
       /\ \E a \in Aggregate : \E i \in 1..Len(tx.pending[a]) : tx.pending[a][i].by = ItemId(c)

\* No item was executed with the key of the one that is being executed.
FreshKey(c) ==
  pc[c] = "working" /\ Current(c).key # NoKey =>
    \A r \in Request : Committed(events, r) => KeyIn(plan, r) # Current(c).key

AnswersFit ==
  /\ Fits(plan, events, Effective, Unrecorded)
  /\ active # NoBatch =>
       /\ Fits(plan, checkpoint.events, idempotency, {})
       /\ \A r \in Request : Committed(checkpoint.events, r) => Committed(events, r)
  /\ \A c \in Call : FreshKey(c)

Answers ==
  generation = 0 =>
    /\ \A c \in Call : pc[c] = "itemPost" => Committed(events, ItemId(c))
    /\ ~HookThrew => AnswersFit

\* A transaction that is active is the one that holds the barrier.
LEMMA ActiveHolds ==
  ASSUME Phases, HeldBack, NEW c \in Call, Head(barrier) = c, active # NoBatch
  PROVE  active = c
BY OneHolder DEF Phases, HeldBack, Holding

LEMMA HeldBackInit == Init => HeldBack
BY DEF Init, HeldBack, Holding

\* The event of an item is in its unit of work.
LEMMA BeginHasEvent ==
  ASSUME TypeOK, NEW c \in Call, ItemBegin(c)
  PROVE  \E a \in Aggregate : \E i \in 1..Len(tx'.pending[a]) : tx'.pending[a][i].by = ItemId(c)'
<1> DEFINE a == Current(c).agg
           event == [seq |-> NextSequenceVersion(events, Nothing, a), by |-> ItemId(c)]
<1>1. a \in Aggregate
  BY BeginType
<1>2. tx'.pending = [Nothing EXCEPT ![a] = <<event>>] /\ ItemId(c)' = ItemId(c)
  BY DEF ItemBegin, ItemId
<1>3. event.by = ItemId(c)
  OBVIOUS
<1> HIDE DEF event, a
<1>4. tx'.pending[a] = <<event>>
  BY <1>1, <1>2 DEF Nothing
<1>5. 1 \in 1..Len(tx'.pending[a]) /\ tx'.pending[a][1] = event
  BY <1>4
<1> QED
  BY <1>1, <1>2, <1>3, <1>5

\* A record that is held back leaves the store alone, and the other way round.
LEMMA RecordPlace ==
  ASSUME NEW c \in Call, Record(c)
  PROVE  /\ active = NoBatch => UNCHANGED pendingKeys
         /\ active # NoBatch => UNCHANGED idempotency
BY DEF Record

(***************************************************************************)
(* Every step keeps what is held back.                                     *)
(***************************************************************************)
LEMMA HeldBackStep ==
  ASSUME TypeOK, Phases, HeldBack, [Next]_vars
  PROVE  HeldBack'
<1>1. pc \in [Call -> Pcs] /\ BarrierHeld /\ NoBatch \notin Call
  BY DEF TypeOK, Pcs, Phases
<1>2. ASSUME NEW c \in Call, RejectNested(c) \/ Submit(c)
      PROVE  HeldBack'
  <2>1. /\ pc[c] = "idle" /\ pc'[c] \in {"rejected", "queued"}
        /\ \A d \in Call \ {c} : pc'[d] = pc[d]
    BY <1>1, <1>2 DEF RejectNested, Submit
  <2>2. UNCHANGED <<plan, index, active, pendingKeys, tx, generation>>
    BY <1>2 DEF RejectNested, Submit, batch, reset
  <2>3. \A d \in Call : pc'[d] \in Holding \/ pc[d] \in Holding => pc'[d] = pc[d]
    BY <2>1 DEF Holding
  <2> QED
    BY <2>2, <2>3 DEF HeldBack, Holding, Transactional, ItemId
<1>3. ASSUME NEW c \in Call, Start(c)
      PROVE  HeldBack'
  <2>1. /\ pc'[c] = "items" /\ \A d \in Call \ {c} : pc'[d] = pc[d] /\ pc[d] \notin Holding
    BY <1>1, <1>3, OneHolder DEF Start, Granted
  <2>2. /\ active' = IF Transactional(c) THEN c ELSE NoBatch
        /\ pendingKeys' = NoKeys /\ UNCHANGED plan
    BY <1>3 DEF Start
  <2>3. \A d \in Call : pc'[d] # "working"
    BY <2>1 DEF Holding
  <2> QED
    BY <2>1, <2>2, <2>3 DEF HeldBack, Transactional, NoKeys
<1>4. ASSUME NEW c \in Call, pc[c] \in Holding, ItemAnswered(c) \/ PostCommit(c)
      PROVE  HeldBack'
  <2>1. UNCHANGED <<pc, plan, active, pendingKeys, tx, generation>>
    BY <1>4 DEF ItemAnswered, PostCommit, batch, reset
  <2>2. pc[c] # "working" /\ \A d \in Call \ {c} : pc[d] # "working"
    BY <1>1, <1>4, OneHolder DEF ItemAnswered, PostCommit, BarrierHeld, Holding
  <2> QED
    BY <2>1, <2>2 DEF HeldBack, Transactional, NoKeys
<1>5. ASSUME NEW c \in Call, ItemBegin(c)
      PROVE  HeldBack'
  <2>1. /\ pc[c] = "items" /\ pc'[c] = "working"
        /\ \A d \in Call \ {c} : pc'[d] = pc[d] /\ pc[d] \notin Holding
    BY <1>1, <1>5, OneHolder DEF ItemBegin, BarrierHeld, Holding
  <2>2. UNCHANGED <<plan, active, pendingKeys, generation>> /\ tx'.generation = generation
    BY <1>5, BeginType DEF ItemBegin, reset
  <2>3. generation \in Int
    BY DEF TypeOK
  <2>4. tx'.generation <= generation'
    BY <2>2, <2>3
  <2>5. \E a \in Aggregate : \E i \in 1..Len(tx'.pending[a]) : tx'.pending[a][i].by = ItemId(c)'
    BY <1>5, BeginHasEvent
  <2>6. \A d \in Call : pc'[d] = "working" => d = c
    BY <2>1 DEF Holding
  <2>7. active # NoBatch => active \in Call /\ pc'[active] \in {"items", "working"} /\ Transactional(active)
    BY <2>1 DEF HeldBack, Holding
  <2>8. active = NoBatch => pendingKeys = NoKeys
    BY <2>1 DEF HeldBack, Holding
  <2> QED
    BY <2>2, <2>4, <2>5, <2>6, <2>7, <2>8 DEF HeldBack, Transactional, NoKeys
<1>6. ASSUME NEW c \in Call,
             CommitDeferred(c) \/ CommitItemNow(c) \/ CommitItemAfterReset(c) \/ ItemPostCommit(c)
      PROVE  HeldBack'
  <2>1. /\ pc[c] \in Holding /\ pc'[c] \in {"items", "itemPost"}
        /\ \A d \in Call \ {c} : pc'[d] = pc[d] /\ pc[d] \notin Holding
    BY <1>1, <1>6, OneHolder
       DEF CommitDeferred, CommitItemNow, CommitItemAfterReset, ItemPostCommit, BarrierHeld, Holding
  <2>2. UNCHANGED <<plan, active>>
    BY <1>6 DEF CommitDeferred, CommitItemNow, CommitItemAfterReset, ItemPostCommit
  <2>3. active = NoBatch => UNCHANGED pendingKeys
    BY <1>6, RecordPlace DEF CommitDeferred, CommitItemNow, CommitItemAfterReset, ItemPostCommit
  <2>4. active = c => pc'[c] = "items"
    BY <1>1, <1>6 DEF CommitDeferred, CommitItemNow, CommitItemAfterReset, ItemPostCommit, Deferred
  <2>5. active # NoBatch => active \in Call /\ pc'[active] \in {"items", "working"} /\ Transactional(active)
    BY <2>1, <2>4 DEF HeldBack
  <2>6. active = NoBatch => pendingKeys = NoKeys
    BY <2>1 DEF HeldBack
  <2>7. \A d \in Call : pc'[d] # "working"
    BY <2>1 DEF Holding
  <2> QED
    BY <2>2, <2>3, <2>5, <2>6, <2>7 DEF HeldBack, Transactional, NoKeys
<1>7. ASSUME NEW c \in Call, CloseItems(c)
      PROVE  HeldBack'
  <2>1. pc'[c] = "postCommit" /\ \A d \in Call \ {c} : pc'[d] = pc[d] /\ pc[d] \notin Holding
    BY <1>1, <1>7, OneHolder DEF CloseItems, BarrierHeld, Holding
  <2>2. active' = NoBatch /\ pendingKeys' = NoKeys
    BY <1>7 DEF CloseItems
  <2>3. \A d \in Call : pc'[d] # "working"
    BY <2>1 DEF Holding
  <2> QED
    BY <2>2, <2>3 DEF HeldBack, NoKeys
<1>8. ASSUME NEW c \in Call,
             ItemThrows(c) \/ ItemPostCommitThrows(c) \/ PostCommitThrows(c) \/ Finish(c)
      PROVE  HeldBack'
  <2>1. pc[c] \in Holding /\ active' = NoBatch
    BY <1>8 DEF ItemThrows, ItemPostCommitThrows, PostCommitThrows, Finish, Fail, Leave, Holding
  <2>2. Fail(c) \/ (Leave(c, "ok") /\ UNCHANGED <<plan, index, delivered>>)
    BY <1>8 DEF ItemThrows, ItemPostCommitThrows, PostCommitThrows, Finish
  <2>3. \A d \in Call : pc'[d] \notin Holding /\ pc'[d] # "working"
    BY <2>1, <2>2, FailPhases, LeavePhases DEF Final, Holding
  <2> QED
    BY <2>1, <2>3 DEF HeldBack
<1>9. ASSUME ResetClear \/ ResetInitialize \/ UNCHANGED vars
      PROVE  HeldBack'
  <2>1. UNCHANGED <<pc, plan, index, active, pendingKeys, tx>>
    BY <1>9 DEF ResetClear, ResetInitialize, vars, batch
  <2>2. generation' \in Int /\ generation <= generation' /\ tx.generation \in Int /\ generation \in Int
    BY <1>9 DEF ResetClear, ResetInitialize, vars, TypeOK, Unit
  <2>3. tx.generation <= generation => tx.generation <= generation'
    BY <2>2
  <2> QED
    BY <2>1, <2>3 DEF HeldBack, Transactional, ItemId, NoKeys
<1>10. \A c \in Call : ItemAnswered(c) \/ PostCommit(c) => pc[c] \in Holding
  BY DEF ItemAnswered, PostCommit, Holding
<1> QED
  BY <1>2, <1>3, <1>4, <1>5, <1>6, <1>7, <1>8, <1>9, <1>10, Zenon DEF Next, CallStep, Stopped

\* Post-commit work that threw is not forgotten.
LEMMA HookStays ==
  ASSUME BatchInv, [Next]_vars, generation' = generation, HookThrew
  PROVE  HookThrew'
<1>1. PICK c \in Call : pc[c] = "failed" /\ (~HasItem(c) \/ Committed(events, ItemId(c)))
  BY DEF HookThrew
<1>2. TakesBackOwn /\ TypeOK
  BY LocalStep DEF BatchInv
<1>3. ASSUME NEW d \in Call, RejectNested(d) \/ Submit(d) \/ CallStep(d)
      PROVE  pc'[c] = pc[c] /\ index'[c] = index[c] /\ UNCHANGED plan
  <2>1. pc[d] \in {"idle", "queued"} \cup Holding
    BY <1>3 DEF CallStep, RejectNested, Submit, Start, Granted, ItemAnswered, ItemBegin,
       ItemThrows, CommitDeferred, CommitItemNow, CommitItemAfterReset, ItemPostCommit,
       ItemPostCommitThrows, CloseItems, PostCommit, PostCommitThrows, Finish, Holding
  <2>2. d # c
    BY <1>1, <2>1 DEF Holding
  <2>3. RejectNested(d) \/ Submit(d) \/ Start(d) \/ ItemAnswered(d) \/ ItemBegin(d)
          => pc'[c] = pc[c] /\ index'[c] = index[c] /\ UNCHANGED plan
    BY <1>2, <2>2 DEF RejectNested, Submit, Start, ItemAnswered, ItemBegin, TypeOK
  <2>4. CommitDeferred(d) \/ CommitItemNow(d) \/ CommitItemAfterReset(d) \/ ItemPostCommit(d)
          => pc'[c] = pc[c] /\ index'[c] = index[c] /\ UNCHANGED plan
    BY <1>2, <2>2
       DEF CommitDeferred, CommitItemNow, CommitItemAfterReset, ItemPostCommit, TypeOK
  <2>5. CloseItems(d) \/ PostCommit(d) \/ Finish(d)
          => pc'[c] = pc[c] /\ index'[c] = index[c] /\ UNCHANGED plan
    BY <1>2, <2>2 DEF CloseItems, PostCommit, Finish, Leave, TypeOK
  <2>6. ItemThrows(d) \/ ItemPostCommitThrows(d) \/ PostCommitThrows(d)
          => pc'[c] = pc[c] /\ index'[c] = index[c] /\ UNCHANGED plan
    BY <1>2, <2>2
       DEF ItemThrows, ItemPostCommitThrows, PostCommitThrows, Fail, Leave, TypeOK
  <2> QED
    BY <1>3, <2>3, <2>4, <2>5, <2>6, Zenon DEF CallStep
<1>4. ResetClear \/ ResetInitialize \/ UNCHANGED vars
        => pc'[c] = pc[c] /\ index'[c] = index[c] /\ UNCHANGED plan
  BY DEF ResetClear, ResetInitialize, vars
<1>5. pc'[c] = pc[c] /\ index'[c] = index[c] /\ UNCHANGED plan
  BY <1>3, <1>4, Zenon DEF Next, Stopped
<1>6. CASE ~HasItem(c)
  BY <1>1, <1>5, <1>6 DEF HookThrew, HasItem
<1>7. CASE HasItem(c)
  <2>1. ItemId(c) \in Request /\ ItemId(c)[1] = c /\ ItemId(c)' = ItemId(c)
    BY <1>2, <1>5, <1>7, ItemType DEF ItemId
  <2>2. Committed(events', ItemId(c))
    BY <1>1, <1>2, <1>7, <2>1 DEF TakesBackOwn
  <2> QED
    BY <1>1, <1>5, <2>1, <2>2 DEF HookThrew
<1> QED
  BY <1>6, <1>7

\* One more item, with a key that no other has or without one.
LEMMA FitsCommit ==
  ASSUME NEW p, NEW log, NEW after, NEW records, NEW id \in Request,
         Fits(p, log, records, {}),
         id[2] <= Len(p[id[1]].items),
         \A r \in Request : Committed(after, r) <=> Committed(log, r) \/ r = id,
         \A k \in Key : records[k] \in Request \cup {NoRecord},
         KeyIn(p, id) \in Key => \A r \in Request : Committed(log, r) => KeyIn(p, r) # KeyIn(p, id)
  PROVE  Fits(p, after, records, {id})
<1>1. \A r \in Request : Committed(after, r) => r[2] <= Len(p[r[1]].items)
  BY DEF Fits
<1>2. \A k \in Key : records[k] # NoRecord => Committed(after, records[k])
  BY DEF Fits
<1>3. \A r \in Request \ {id} :
        Committed(after, r) /\ KeyIn(p, r) \in Key => records[KeyIn(p, r)] = r
  BY DEF Fits
<1>4. \A r, s \in Request :
        Committed(after, r) /\ Committed(after, s) /\ KeyIn(p, r) = KeyIn(p, s)
          => r = s \/ KeyIn(p, r) \notin Key
  BY DEF Fits
<1> QED
  BY <1>1, <1>2, <1>3, <1>4, Zenon DEF Fits

\* Its record.
LEMMA FitsRecord ==
  ASSUME NEW p, NEW log, NEW before, NEW after, NEW id \in Request,
         Fits(p, log, before, {id}), Committed(log, id),
         \A k \in Key : after[k] = IF k = KeyIn(p, id) THEN id ELSE before[k]
  PROVE  Fits(p, log, after, {})
<1>1. \A k \in Key : after[k] # NoRecord => Committed(log, after[k])
  BY DEF Fits
<1>2. ASSUME NEW r \in Request, Committed(log, r), KeyIn(p, r) \in Key
      PROVE  after[KeyIn(p, r)] = r
  <2>1. CASE r = id
    BY <1>2, <2>1
  <2>2. CASE r # id
    <3>1. KeyIn(p, r) # KeyIn(p, id)
      BY <1>2, <2>2, Zenon DEF Fits
    <3>2. before[KeyIn(p, r)] = r
      BY <1>2, <2>2, Zenon DEF Fits
    <3> QED
      BY <1>2, <3>1, <3>2
  <2> QED
    BY <2>1, <2>2
<1> QED
  BY <1>1, <1>2 DEF Fits

\* What a lookup sees after a record is stored or held back.
LEMMA EffectiveRecord ==
  ASSUME TypeOK, NEW c \in Call, HasItem(c), Record(c), UNCHANGED active
  PROVE  \A k \in Key : Effective'[k] = IF k = KeyIn(plan, ItemId(c)) THEN ItemId(c) ELSE Effective[k]
<1> SUFFICES ASSUME NEW k \in Key
             PROVE  Lookup(k)' = IF k = KeyIn(plan, ItemId(c)) THEN ItemId(c) ELSE Lookup(k)
  BY DEF Effective
<1> DEFINE key == Current(c).key
           id == ItemId(c)
<1>1. id \in Request /\ id # NoRecord /\ key \in Key \cup {NoKey} /\ KeyIn(plan, id) = key
  BY ItemType DEF Item, KeyIn, ItemId, Current
<1>2. idempotency \in Records /\ pendingKeys \in Records
  BY DEF TypeOK
<1>3. \/ key = NoKey /\ UNCHANGED <<idempotency, pendingKeys>>
      \/ /\ key \in Key /\ active # NoBatch
         /\ pendingKeys' = [pendingKeys EXCEPT ![key] = id] /\ UNCHANGED idempotency
      \/ /\ key \in Key /\ active = NoBatch
         /\ idempotency' = [idempotency EXCEPT ![key] = id] /\ UNCHANGED pendingKeys
  BY <1>1 DEF Record
<1>4. Lookup(k)' = IF active # NoBatch /\ pendingKeys'[k] # NoRecord THEN pendingKeys'[k]
                   ELSE idempotency'[k]
  BY DEF Lookup
<1> HIDE DEF key, id
<1> QED
  BY <1>1, <1>2, <1>3, <1>4 DEF Records, Lookup, key, id

LEMMA EffectiveType ==
  ASSUME TypeOK
  PROVE  /\ \A k \in Key : Effective[k] \in Request \cup {NoRecord}
         /\ active = NoBatch => Effective = idempotency
<1>1. idempotency \in Records /\ pendingKeys \in Records
  BY DEF TypeOK
<1> QED
  BY <1>1 DEF Effective, Lookup, Records

\* The same in the next state.
LEMMA EffectiveNext ==
  ASSUME TypeOK', active' = NoBatch
  PROVE  Effective' = idempotency'
<1>1. idempotency' \in Records
  BY DEF TypeOK
<1> QED
  BY <1>1 DEF Effective, Lookup, Records

LEMMA GenerationStep ==
  ASSUME TypeOK, [Next]_vars, generation' = 0
  PROVE  generation' = generation /\ ~ResetClear
<1>1. ~ResetClear
  BY DEF ResetClear, TypeOK
<1>2. ASSUME NEW c \in Call, RejectNested(c) \/ Submit(c) \/ CallStep(c)
      PROVE  generation' = generation
  <2>1. RejectNested(c) \/ Submit(c) \/ Start(c) \/ ItemAnswered(c) \/ ItemBegin(c)
          => generation' = generation
    BY DEF RejectNested, Submit, Start, ItemAnswered, ItemBegin, reset
  <2>2. CommitDeferred(c) \/ CommitItemNow(c) \/ CommitItemAfterReset(c) \/ ItemPostCommit(c)
          => generation' = generation
    BY DEF CommitDeferred, CommitItemNow, CommitItemAfterReset, ItemPostCommit, reset
  <2>3. CloseItems(c) \/ PostCommit(c) \/ Finish(c) => generation' = generation
    BY DEF CloseItems, PostCommit, Finish, reset
  <2>4. ItemThrows(c) \/ ItemPostCommitThrows(c) \/ PostCommitThrows(c)
          => generation' = generation
    BY DEF ItemThrows, ItemPostCommitThrows, PostCommitThrows, Fail, reset
  <2> QED
    BY <1>2, <2>1, <2>2, <2>3, <2>4, Zenon DEF CallStep
<1>3. ResetInitialize \/ UNCHANGED vars => generation' = generation
  BY DEF ResetInitialize, vars
<1> QED
  BY <1>1, <1>2, <1>3, Zenon DEF Next, Stopped

LEMMA AnswersInit == Init => Answers
<1> SUFFICES ASSUME Init
             PROVE  Answers
  OBVIOUS
<1>1. TypeOK /\ Effective = idempotency
  BY TypingInit, EffectiveType DEF Init
<1>2. \A r \in Request : ~Committed(events, r)
  BY NoneCommitted DEF Init
<1>3. \A k \in Key : idempotency[k] = NoRecord
  BY DEF Init, NoKeys
<1>4. \A X : Fits(plan, events, idempotency, X)
  BY <1>2, <1>3 DEF Fits
<1>5. \A c \in Call : pc[c] = "idle"
  BY DEF Init
<1> QED
  BY <1>1, <1>4, <1>5 DEF Init, Answers, AnswersFit, FreshKey

(***************************************************************************)
(* Every step keeps the records and the log together.                      *)
(***************************************************************************)
LEMMA AnswersStep ==
  ASSUME BatchInv, HeldBack, Answers, [Next]_vars
  PROVE  Answers'
<1> DEFINE Kept == /\ \A d \in Call : pc'[d] = "itemPost" => Committed(events', ItemId(d)')
                   /\ ~HookThrew' => AnswersFit'
<1> SUFFICES ASSUME generation' = 0
             PROVE  Kept
  BY DEF Answers
<1>1. /\ TypeOK /\ Phases /\ BarrierHeld /\ TypeOK'
      /\ pc \in [Call -> Pcs] /\ NoBatch \notin Call /\ NoRecord \notin Request
  BY TypingStep DEF BatchInv, Phases, TypeOK, Pcs
<1>2. generation' = generation /\ generation = 0 /\ ~ResetClear
  BY <1>1, GenerationStep
<1>3. /\ \A d \in Call : pc[d] = "itemPost" => Committed(events, ItemId(d))
      /\ ~HookThrew' => AnswersFit
  BY <1>2, HookStays DEF Answers
<1>4. ASSUME NEW c \in Call, RejectNested(c) \/ Submit(c)
      PROVE  Kept
  <2>1. /\ pc[c] = "idle" /\ pc'[c] \in {"rejected", "queued"}
        /\ \A d \in Call \ {c} : pc'[d] = pc[d]
    BY <1>1, <1>4 DEF RejectNested, Submit
  <2>2. UNCHANGED <<plan, index, events, idempotency, active, pendingKeys, checkpoint>>
    BY <1>4 DEF RejectNested, Submit, store, batch
  <2>3. \A d \in Call : /\ (pc'[d] = "itemPost") = (pc[d] = "itemPost")
                        /\ (pc'[d] = "working") = (pc[d] = "working")
                        /\ ItemId(d)' = ItemId(d)
    BY <2>1, <2>2 DEF ItemId
  <2>4. Effective' = Effective /\ Unrecorded' = Unrecorded
    BY <2>2, <2>3 DEF Effective, Lookup, Unrecorded
  <2>5. \A d \in Call : FreshKey(d)' = FreshKey(d)
    BY <2>2, <2>3 DEF FreshKey, Current
  <2> QED
    BY <1>3, <2>2, <2>3, <2>4, <2>5 DEF AnswersFit
<1>5. ASSUME NEW c \in Call, Start(c)
      PROVE  Kept
  <2>1. /\ pc[c] = "queued" /\ pc'[c] = "items" /\ Head(barrier) = c
        /\ \A d \in Call \ {c} : pc'[d] = pc[d] /\ pc[d] \notin Holding
    BY <1>1, <1>5, OneHolder DEF Start, Granted
  <2>2. active = NoBatch
    BY <1>1, <2>1, ActiveHolds DEF HeldBack
  <2>3. /\ UNCHANGED <<plan, events, idempotency>> /\ pendingKeys' = NoKeys
        /\ checkpoint'.events = events
    BY <1>5 DEF Start, store
  <2>4. \A d \in Call : /\ pc'[d] # "itemPost" /\ pc'[d] # "working"
                        /\ pc[d] # "itemPost"
    BY <2>1 DEF Holding
  <2>5. Effective = idempotency
    BY <1>1, <2>2, EffectiveType
  <2>6. Effective' = idempotency
    <3>1. idempotency \in Records
      BY <1>1 DEF TypeOK
    <3>2. \A k \in Key : NoKeys[k] = NoRecord
      BY DEF NoKeys
    <3> QED
      BY <2>3, <3>1, <3>2 DEF Effective, Lookup, Records
  <2>7. Unrecorded = {} /\ Unrecorded' = {}
    BY <2>4 DEF Unrecorded
  <2>8. \A d \in Call : FreshKey(d)'
    BY <2>4 DEF FreshKey
  <2> QED
    BY <1>3, <2>3, <2>4, <2>5, <2>6, <2>7, <2>8 DEF AnswersFit
<1>6. ASSUME NEW c \in Call, ItemAnswered(c)
      PROVE  Kept
  <2>1. /\ pc[c] = "items" /\ \A d \in Call \ {c} : pc[d] \notin Holding
    BY <1>1, <1>6, OneHolder DEF ItemAnswered, BarrierHeld, Holding
  <2>2. UNCHANGED <<pc, plan, events, idempotency, active, pendingKeys, checkpoint>>
    BY <1>6 DEF ItemAnswered, store, batch
  <2>3. \A d \in Call : pc[d] # "itemPost" /\ pc[d] # "working"
    BY <2>1 DEF Holding
  <2>4. Effective' = Effective /\ Unrecorded = {} /\ Unrecorded' = {}
    BY <2>2, <2>3 DEF Effective, Lookup, Unrecorded
  <2>5. \A d \in Call : FreshKey(d)'
    BY <2>2, <2>3 DEF FreshKey
  <2> QED
    BY <1>3, <2>2, <2>3, <2>4, <2>5 DEF AnswersFit
<1>7. ASSUME NEW c \in Call, ItemBegin(c)
      PROVE  Kept
  <2>1. /\ pc[c] = "items" /\ pc'[c] = "working" /\ HasItem(c) /\ ~Cached(c)
        /\ \A d \in Call \ {c} : pc'[d] = pc[d] /\ pc[d] \notin Holding
    BY <1>1, <1>7, OneHolder DEF ItemBegin, BarrierHeld, Holding
  <2>2. UNCHANGED <<plan, index, events, idempotency, active, pendingKeys, checkpoint>>
    BY <1>7 DEF ItemBegin, store
  <2>3. \A d \in Call : /\ pc[d] # "itemPost" /\ pc'[d] # "itemPost"
                        /\ pc'[d] = "working" => d = c
    BY <2>1 DEF Holding
  <2>4. Effective' = Effective /\ Unrecorded = {} /\ Unrecorded' = {}
    BY <2>2, <2>3 DEF Effective, Lookup, Unrecorded
  <2>5. ASSUME ~HookThrew'
        PROVE  FreshKey(c)'
    <3> SUFFICES ASSUME Current(c).key # NoKey, NEW r \in Request, Committed(events, r),
                        KeyIn(plan, r) = Current(c).key
                 PROVE  FALSE
      BY <2>2 DEF FreshKey, Current
    <3>1. Current(c).key \in Key
      BY <1>1, <2>1, ItemType DEF Item
    <3>2. Fits(plan, events, Effective, {})
      BY <1>3, <2>4, <2>5 DEF AnswersFit
    <3>3. Effective[Current(c).key] = r
      BY <3>1, <3>2 DEF Fits
    <3>4. Effective[Current(c).key] = NoRecord
      BY <2>1, <3>1 DEF Effective, Cached
    <3> QED
      BY <1>1, <3>3, <3>4
  <2>6. \A d \in Call \ {c} : FreshKey(d)'
    BY <2>3 DEF FreshKey
  <2> QED
    BY <1>3, <2>2, <2>3, <2>4, <2>5, <2>6 DEF AnswersFit
<1>8. ASSUME NEW c \in Call, pc[c] = "working", CommitItem, UNCHANGED plan
      PROVE  /\ HasItem(c) /\ ItemId(c) \in Request
             /\ \A r \in Request : Committed(events', r) <=> Committed(events, r) \/ r = ItemId(c)
             /\ Unrecorded = {}
             /\ ~HookThrew' => Fits(plan, events', Effective, {ItemId(c)})
  <2>1. HasItem(c)
    BY <1>1, <1>8 DEF Phases, PhaseOK
  <2>2. ItemId(c) \in Request /\ KeyIn(plan, ItemId(c)) = Current(c).key
    BY <1>1, <2>1, ItemType DEF KeyIn, ItemId, Current
  <2>3. events \in EventLog /\ tx.pending \in EventLog /\ events' = AppendAll(events, tx.pending)
    BY <1>1, <1>8 DEF TypeOK, Unit, CommitItem
  <2>4. ASSUME NEW r \in Request
        PROVE  Committed(events', r) <=> Committed(events, r) \/ r = ItemId(c)
    <3>1. Committed(events, r) => Committed(events', r)
      BY <2>3, CommittedStays
    <3>2. UnitOK(c)
      BY DEF BatchInv, Origins
    <3>3. Committed(events', r) => Committed(events, r) \/ r = ItemId(c)
      BY <1>8, <2>3, <3>2, CommittedAppend DEF UnitOK
    <3>4. Committed(events', ItemId(c))
      <4>0. PICK a \in Aggregate :
              \E i \in 1..Len(tx.pending[a]) : tx.pending[a][i].by = ItemId(c)
        BY <1>8 DEF HeldBack
      <4>1. PICK i \in 1..Len(tx.pending[a]) : tx.pending[a][i].by = ItemId(c)
        BY <4>0
      <4> QED
        BY <2>3, <4>1, PendingCommitted
    <3> QED
      BY <3>1, <3>3, <3>4
  <2>5. Unrecorded = {}
    <3>1. \A d \in Call \ {c} : pc[d] \notin Holding
      BY <1>1, <1>8, OneHolder DEF BarrierHeld, Holding
    <3> QED
      BY <1>8, <3>1 DEF Unrecorded, Holding
  <2>6. ASSUME ~HookThrew'
        PROVE  Fits(plan, events', Effective, {ItemId(c)})
    <3>1. Fits(plan, events, Effective, {}) /\ FreshKey(c)
      BY <1>3, <2>5, <2>6 DEF AnswersFit
    <3>2. ItemId(c)[2] <= Len(plan[ItemId(c)[1]].items)
      <4>1. index[c] \in Int /\ Len(plan[c].items) \in Int
        BY <1>1, PlanType DEF TypeOK
      <4> QED
        BY <2>1, <4>1 DEF HasItem, ItemId
    <3>3. KeyIn(plan, ItemId(c)) \in Key =>
            \A r \in Request : Committed(events, r) => KeyIn(plan, r) # KeyIn(plan, ItemId(c))
      BY <1>8, <2>2, <3>1 DEF FreshKey
    <3>4. \A k \in Key : Effective[k] \in Request \cup {NoRecord}
      BY <1>1, EffectiveType
    <3> QED
      BY <2>2, <2>4, <3>1, <3>2, <3>3, <3>4, FitsCommit
  <2> QED
    BY <2>1, <2>2, <2>4, <2>5, <2>6
<1>9. ASSUME NEW c \in Call, CommitDeferred(c)
      PROVE  Kept
  <2>1. /\ pc[c] = "working" /\ pc'[c] = "items" /\ CommitItem /\ Record(c) /\ active = c
        /\ \A d \in Call \ {c} : pc'[d] = pc[d] /\ pc[d] \notin Holding
        /\ UNCHANGED <<plan, active, checkpoint>>
    BY <1>1, <1>9, OneHolder DEF CommitDeferred, Deferred, BarrierHeld, Holding
  <2>2. /\ HasItem(c) /\ ItemId(c) \in Request
        /\ Committed(events', ItemId(c))
        /\ \A r \in Request : Committed(events, r) => Committed(events', r)
        /\ ~HookThrew' => Fits(plan, events', Effective, {ItemId(c)})
    BY <1>8, <2>1
  <2>3. \A d \in Call : pc'[d] # "itemPost" /\ pc'[d] # "working"
    BY <2>1 DEF Holding
  <2>4. Unrecorded' = {} /\ \A d \in Call : FreshKey(d)'
    BY <2>3 DEF Unrecorded, FreshKey
  <2>5. \A k \in Key : Effective'[k] = IF k = KeyIn(plan, ItemId(c)) THEN ItemId(c) ELSE Effective[k]
    BY <1>1, <2>1, <2>2, EffectiveRecord
  <2>6. UNCHANGED idempotency
    BY <1>1, <2>1, RecordPlace
  <2>7. ~HookThrew' => Fits(plan, events', Effective', {})
    BY <2>2, <2>5, FitsRecord
  <2> QED
    BY <1>3, <2>1, <2>2, <2>3, <2>4, <2>6, <2>7 DEF AnswersFit
<1>10. ASSUME NEW c \in Call, CommitItemNow(c)
       PROVE  Kept
  <2>1. /\ pc[c] = "working" /\ pc'[c] = "itemPost" /\ CommitItem
        /\ \A d \in Call \ {c} : pc'[d] = pc[d] /\ pc[d] \notin Holding
        /\ UNCHANGED <<plan, index, active, checkpoint, idempotency, pendingKeys>>
    BY <1>1, <1>10, OneHolder DEF CommitItemNow, BarrierHeld, Holding
  <2>2. /\ HasItem(c) /\ ItemId(c) \in Request
        /\ Committed(events', ItemId(c))
        /\ \A r \in Request : Committed(events, r) => Committed(events', r)
        /\ ~HookThrew' => Fits(plan, events', Effective, {ItemId(c)})
    BY <1>8, <2>1
  <2>3. \A d \in Call : (pc'[d] = "itemPost" => d = c) /\ pc'[d] # "working"
    BY <2>1 DEF Holding
  <2>4. ItemId(c)' = ItemId(c)
    BY <2>1 DEF ItemId
  <2>5. Unrecorded' = {ItemId(c)} /\ \A d \in Call : FreshKey(d)'
    BY <2>1, <2>3, <2>4 DEF Unrecorded, FreshKey
  <2>6. Effective' = Effective
    BY <2>1 DEF Effective, Lookup
  <2> QED
    BY <1>3, <2>1, <2>2, <2>3, <2>4, <2>5, <2>6 DEF AnswersFit
<1>11. ASSUME NEW c \in Call, CommitItemAfterReset(c)
       PROVE  Kept
  <2>1. pc[c] = "working" /\ tx.generation # 0
    BY <1>2, <1>11 DEF CommitItemAfterReset
  <2>2. tx.generation <= 0 /\ tx.generation \in Nat
    BY <1>1, <1>2, <2>1 DEF HeldBack, TypeOK, Unit
  <2> QED
    BY <2>1, <2>2
<1>12. ASSUME NEW c \in Call, ItemPostCommit(c)
       PROVE  Kept
  <2>1. /\ pc[c] = "itemPost" /\ pc'[c] = "items" /\ Record(c) /\ HasItem(c)
        /\ \A d \in Call \ {c} : pc'[d] = pc[d] /\ pc[d] \notin Holding
        /\ UNCHANGED <<plan, active, checkpoint, events>>
    BY <1>1, <1>12, OneHolder DEF ItemPostCommit, BarrierHeld, Holding, store, Phases, PhaseOK
  <2>2. active = NoBatch
    <3>1. Head(barrier) = c
      BY <1>1, <2>1 DEF BarrierHeld, Holding
    <3> QED
      BY <1>1, <2>1, <3>1, ActiveHolds DEF HeldBack
  <2>3. ItemId(c) \in Request /\ Committed(events, ItemId(c))
    BY <1>1, <1>3, <2>1, ItemType
  <2>4. \A d \in Call : pc'[d] # "itemPost" /\ pc'[d] # "working" /\ (pc[d] = "itemPost" => d = c)
    BY <2>1 DEF Holding
  <2>5. Unrecorded' = {} /\ Unrecorded = {ItemId(c)} /\ \A d \in Call : FreshKey(d)'
    BY <2>1, <2>4 DEF Unrecorded, FreshKey
  <2>6. \A k \in Key : Effective'[k] = IF k = KeyIn(plan, ItemId(c)) THEN ItemId(c) ELSE Effective[k]
    BY <1>1, <2>1, EffectiveRecord
  <2>7. ~HookThrew' => Fits(plan, events, Effective', {})
    BY <1>3, <2>3, <2>5, <2>6, FitsRecord DEF AnswersFit
  <2> QED
    BY <2>1, <2>2, <2>4, <2>5, <2>7 DEF AnswersFit
<1>13. ASSUME NEW c \in Call, CloseItems(c)
       PROVE  Kept
  <2>1. /\ pc[c] = "items" /\ pc'[c] = "postCommit" /\ Flush
        /\ \A d \in Call \ {c} : pc'[d] = pc[d] /\ pc[d] \notin Holding
        /\ UNCHANGED <<plan, events>> /\ active' = NoBatch
    BY <1>1, <1>13, OneHolder DEF CloseItems, BarrierHeld, Holding, store
  <2>2. \A d \in Call : /\ pc'[d] # "itemPost" /\ pc'[d] # "working"
                        /\ pc[d] # "itemPost"
    BY <2>1 DEF Holding
  <2>3. Unrecorded' = {} /\ Unrecorded = {} /\ \A d \in Call : FreshKey(d)'
    BY <2>2 DEF Unrecorded, FreshKey
  <2>4. active = NoBatch => \A k \in Key : pendingKeys[k] = NoRecord
    BY <2>1 DEF HeldBack, Holding, NoKeys
  <2>5. Effective' = Effective
    <3>1. Effective' = idempotency'
      BY <1>1, <2>1, EffectiveNext
    <3>2. idempotency' = [k \in Key |-> IF pendingKeys[k] = NoRecord THEN idempotency[k]
                                        ELSE pendingKeys[k]]
      BY <2>1 DEF Flush
    <3>3. \A k \in Key : Lookup(k) = IF pendingKeys[k] = NoRecord THEN idempotency[k]
                                     ELSE pendingKeys[k]
      BY <2>4 DEF Lookup
    <3> QED
      BY <3>1, <3>2, <3>3 DEF Effective
  <2> QED
    BY <1>3, <2>1, <2>2, <2>3, <2>5 DEF AnswersFit
<1>14. ASSUME NEW c \in Call, PostCommit(c)
       PROVE  Kept
  <2>1. UNCHANGED <<pc, plan, index, events, idempotency, active, pendingKeys, checkpoint>>
    BY <1>14 DEF PostCommit, store
  <2>2. Effective' = Effective /\ Unrecorded' = Unrecorded
    BY <2>1 DEF Effective, Lookup, Unrecorded, ItemId
  <2>3. \A d \in Call : FreshKey(d)' = FreshKey(d) /\ ItemId(d)' = ItemId(d)
    BY <2>1 DEF FreshKey, Current, ItemId
  <2> QED
    BY <1>3, <2>1, <2>2, <2>3 DEF AnswersFit
<1>15. ASSUME NEW c \in Call,
              ItemThrows(c) \/ ItemPostCommitThrows(c) \/ PostCommitThrows(c)
       PROVE  Kept
  <2>1. pc[c] \in Holding /\ Fail(c)
    BY <1>15 DEF ItemThrows, ItemPostCommitThrows, PostCommitThrows, Holding
  <2>2. /\ pc'[c] = "failed" /\ active' = NoBatch
        /\ UNCHANGED <<plan, index, idempotency>>
    BY <1>1, <2>1 DEF Fail, Leave
  <2>3. Effective' = idempotency
    BY <1>1, <2>2, EffectiveNext
  <2>4. \A d \in Call : pc'[d] \notin Holding /\ pc'[d] # "itemPost" /\ pc'[d] # "working"
    BY <1>1, <2>1, FailPhases DEF Holding
  <2>5. Unrecorded' = {} /\ \A d \in Call : FreshKey(d)'
    BY <2>4 DEF Unrecorded, FreshKey
  <2>6. \A d \in Call \ {c} : pc[d] \notin Holding
    BY <1>1, <2>1, OneHolder DEF BarrierHeld
  <2>7. ASSUME ~HookThrew'
        PROVE  Fits(plan, events', idempotency, {})
    <3>1. HasItem(c) /\ ~Committed(events', ItemId(c))
      BY <2>2, <2>7 DEF HookThrew, HasItem, ItemId
    <3>2. pc[c] # "postCommit"
      BY <1>1, <3>1 DEF Phases, PhaseOK
    <3>3. AnswersFit
      BY <1>3, <2>7
    <3>4. CASE Transactional(c)
      <4>1. active = c /\ events' = checkpoint.events
        BY <1>1, <2>1, <3>2, <3>4 DEF Phases, PhaseOK, Holding, Fail, Restore
      <4> QED
        BY <1>1, <3>3, <4>1 DEF AnswersFit
    <3>5. CASE ~Transactional(c)
      <4>1. events' = events
        BY <2>1, <3>5 DEF Fail, store
      <4>2. active = NoBatch
        <5>1. Head(barrier) = c
          BY <1>1, <2>1 DEF BarrierHeld
        <5> QED
          BY <1>1, <3>5, <5>1, ActiveHolds DEF HeldBack
      <4>3. pc[c] # "itemPost"
        BY <1>3, <3>1, <4>1
      <4>4. Unrecorded = {}
        BY <2>6, <4>3 DEF Unrecorded, Holding
      <4>5. Effective = idempotency
        BY <1>1, <4>2, EffectiveType
      <4> QED
        BY <3>3, <4>1, <4>4, <4>5 DEF AnswersFit
    <3> QED
      BY <3>4, <3>5
  <2> QED
    BY <2>2, <2>3, <2>4, <2>5, <2>7 DEF AnswersFit
<1>16. ASSUME NEW c \in Call, Finish(c)
       PROVE  Kept
  <2>1. /\ pc[c] = "postCommit" /\ Leave(c, "ok") /\ active' = NoBatch
        /\ UNCHANGED <<plan, index, events, idempotency, delivered>>
    BY <1>16 DEF Finish, Leave, store
  <2>2. \A d \in Call : pc'[d] \notin Holding /\ pc'[d] # "itemPost" /\ pc'[d] # "working"
    BY <1>1, <2>1, LeavePhases DEF Final, Holding
  <2>3. Head(barrier) = c /\ \A d \in Call : pc[d] # "itemPost"
    BY <1>1, <2>1, OneHolder DEF BarrierHeld, Holding
  <2>4. active = NoBatch
    BY <1>1, <2>1, <2>3, ActiveHolds DEF HeldBack
  <2>5. Effective = idempotency /\ Effective' = idempotency
    BY <1>1, <2>1, <2>4, EffectiveType, EffectiveNext
  <2>6. Unrecorded = {} /\ Unrecorded' = {} /\ \A d \in Call : FreshKey(d)'
    BY <2>2, <2>3 DEF Unrecorded, FreshKey
  <2> QED
    BY <1>3, <2>1, <2>2, <2>5, <2>6 DEF AnswersFit
<1>17. ~ResetInitialize
  BY <1>2 DEF ResetInitialize, BatchInv, Projections
<1>18. CASE UNCHANGED vars
  <2>1. UNCHANGED <<pc, plan, index, events, idempotency, active, pendingKeys, checkpoint>>
    BY <1>18 DEF vars
  <2>2. Effective' = Effective /\ Unrecorded' = Unrecorded
    BY <2>1 DEF Effective, Lookup, Unrecorded, ItemId
  <2>3. \A d \in Call : FreshKey(d)' = FreshKey(d) /\ ItemId(d)' = ItemId(d)
    BY <2>1 DEF FreshKey, Current, ItemId
  <2> QED
    BY <1>3, <2>1, <2>2, <2>3 DEF AnswersFit
<1> HIDE DEF Kept
<1> QED
  BY <1>2, <1>4, <1>5, <1>6, <1>7, <1>9, <1>10, <1>11, <1>12, <1>13, <1>14, <1>15, <1>16,
     <1>17, <1>18, Zenon DEF Next, CallStep, Stopped

(***************************************************************************)
(* A key executes one item, and a stored key answers for work that is in   *)
(* the log, unless post-commit work threw or somebody reset.               *)
(***************************************************************************)
THEOREM KeysAreExecutedOnce == Spec => []KeysExecuteOnce
<1>1. Init => HeldBack /\ Answers
  BY HeldBackInit, AnswersInit
<1>2. BatchInv /\ HeldBack /\ Answers /\ [Next]_vars => HeldBack' /\ Answers'
  BY HeldBackStep, AnswersStep DEF BatchInv
<1>3. BatchInv /\ HeldBack /\ Answers => KeysExecuteOnce
  <2> SUFFICES ASSUME BatchInv, HeldBack, Answers, generation = 0, ~HookThrew
               PROVE  OncePerKey /\ KeysAnswerForSurvivors
    BY DEF KeysExecuteOnce
  <2>1. Fits(plan, events, Effective, Unrecorded) /\ TypeOK
    BY DEF Answers, AnswersFit, BatchInv
  <2>2. OncePerKey
    <3> SUFFICES ASSUME NEW r \in Request, NEW t \in Request, r # t,
                        Committed(events, r), Committed(events, t),
                        KeyIn(plan, r) = KeyIn(plan, t)
                 PROVE  KeyIn(plan, r) = NoKey
      BY DEF OncePerKey, KeyIn
    <3>1. KeyIn(plan, r) \notin Key
      BY <2>1, Zenon DEF Fits
    <3>2. KeyIn(plan, r) \in Key \cup {NoKey}
      <4>1. r[1] \in Call /\ r[2] \in 1..MaxItems /\ r[2] <= Len(plan[r[1]].items)
        BY <2>1 DEF Fits
      <4>2. plan[r[1]].items \in Seq(Item) /\ Len(plan[r[1]].items) \in 0..MaxItems
        BY <2>1, <4>1, PlanType
      <4>3. r[2] \in 1..Len(plan[r[1]].items)
        BY <4>1, <4>2
      <4>4. plan[r[1]].items[r[2]] \in Item
        BY <4>2, <4>3, ElementOfSeq
      <4> QED
        BY <4>4 DEF KeyIn, Item
    <3> QED
      BY <3>1, <3>2
  <2>3. KeysAnswerForSurvivors
    <3> SUFFICES ASSUME NEW k \in Key, idempotency[k] # NoRecord
                 PROVE  Committed(events, idempotency[k])
      BY DEF KeysAnswerForSurvivors
    <3>1. CASE active = NoBatch
      BY <2>1, <3>1, EffectiveType DEF Fits
    <3>2. CASE active # NoBatch
      <4>1. /\ Fits(plan, checkpoint.events, idempotency, {})
            /\ \A r \in Request : Committed(checkpoint.events, r) => Committed(events, r)
        BY <3>2 DEF Answers, AnswersFit
      <4>2. idempotency[k] \in Request
        BY <2>1 DEF TypeOK, Records
      <4> QED
        BY <4>1, <4>2 DEF Fits
    <3> QED
      BY <3>1, <3>2
  <2> QED
    BY <2>2, <2>3
<1> QED
  BY <1>1, <1>2, <1>3, BatchInvariant, PTL DEF Spec
=============================================================================
