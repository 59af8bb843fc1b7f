----------------------------- MODULE RuntimeBatch -----------------------------
(***************************************************************************)
(* RuntimeEngine.executeBatch (src/src/core/engine.ts) beside ordinary     *)
(* execute() calls and an administrative reset: the barrier, the           *)
(* checkpoint of a transactional batch, the idempotency records and        *)
(* post-commit work it defers, and the rollback.                           *)
(*                                                                         *)
(* A call is a plan of items, each a mutation of one aggregate.  The inside*)
(* of a unit of work is modelled in RuntimeEngine; here it begins (private *)
(* copies are taken and the event is made) and commits.  delivered is the  *)
(* outside world: the items whose post-commit effects (webhooks, derived   *)
(* projections, sagas) have happened.  restore() puts back the store and   *)
(* the projections only, so it never takes a delivery back.                *)
(***************************************************************************)
EXTENDS EventSourcing, FiniteSets

CONSTANTS
  Call,           \* callers of execute() and executeBatch()
  MaxItems,       \* bound: items of one batch
  Key,            \* composed idempotency keys
  NoKey,          \* the item has no Idempotency-Key
  NoRecord,       \* no idempotency record
  NoBatch,        \* activeBatch === undefined
  Plans,          \* the calls a client may make
  MaxResets       \* bound: resets

Kind == {"single", "bulk", "transactional"}
Item == [agg : Aggregate, key : Key \cup {NoKey}]
Plan == [kind : Kind, items : Seq(Item) \ {<<>>}]

\* Item i of call c causes events as the request <<c, i>>.
ASSUME ItemAssumption  == MaxItems \in Nat /\ Request = Call \X (1..MaxItems)
ASSUME PlansAssumption == Plans \subseteq {p \in Plan : Len(p.items) <= MaxItems}
ASSUME NamesAssumption == NoKey \notin Key /\ NoRecord \notin Request /\ NoBatch \notin Call
ASSUME BoundsAssumption == MaxResets \in Nat

VARIABLES
  pc, plan, index,   \* where each call is, what it sends, the items it has done
  barrier,           \* the queue of the __runtime_batch__ lock, holder first
  events, state,     \* the event store and the state store
  idempotency,       \* idempotency records
  active,            \* activeBatch
  pendingKeys,       \* batch.idempotency of the call that holds the barrier
  postCommits,       \* batch.postCommits of the call that holds the barrier
  checkpoint,        \* the snapshot taken when the batch started
  tx,                \* the unit of work of the current item
  generation,        \* resetGeneration
  resetting,         \* reset() awaits its hooks
  delivered          \* items whose post-commit effects have happened

store == <<events, state>>
batch == <<active, pendingKeys, postCommits, checkpoint, tx>>
reset == <<generation, resetting>>
vars  == <<pc, plan, index, barrier, events, state, idempotency, active, pendingKeys,
           postCommits, checkpoint, tx, generation, resetting, delivered>>

Holding == {"items", "working", "itemPost", "postCommit"}
Final   == {"ok", "failed", "rejected"}

NoKeys  == [k \in Key |-> NoRecord]
Records == [Key -> Request \cup {NoRecord}]
Unit    == [states : StateGraph, pending : EventLog, generation : Nat]
NoUnit  == [states |-> Nothing, pending |-> Nothing, generation |-> 0]

TypeOK ==
  /\ pc \in [Call -> {"idle", "queued"} \cup Holding \cup Final]
  /\ plan \in [Call -> Plans]
  /\ index \in [Call -> 0..MaxItems]
  /\ barrier \in Seq(Call)
  /\ events \in EventLog
  /\ state \in StateGraph
  /\ idempotency \in Records
  /\ active \in Call \cup {NoBatch}
  /\ pendingKeys \in Records
  /\ postCommits \in Seq(Request)
  /\ checkpoint \in [events : EventLog, state : StateGraph]
  /\ tx \in Unit
  /\ generation \in 0..MaxResets
  /\ resetting \in BOOLEAN
  /\ delivered \in SUBSET Request

Init ==
  /\ pc = [c \in Call |-> "idle"]
  /\ plan \in [Call -> Plans]
  /\ index = [c \in Call |-> 0]
  /\ barrier = <<>>
  /\ events = BaselineLog
  /\ state = Replay(BaselineLog)
  /\ idempotency = NoKeys
  /\ active = NoBatch
  /\ pendingKeys = NoKeys
  /\ postCommits = <<>>
  /\ checkpoint = [events |-> Nothing, state |-> Nothing]
  /\ tx = NoUnit
  /\ generation = 0
  /\ resetting = FALSE
  /\ delivered = {}

Transactional(c) == plan[c].kind = "transactional"
HasItem(c)       == index[c] < Len(plan[c].items)
Current(c)       == plan[c].items[index[c] + 1]

\* The request that the current item is, the cause of its events.
ItemId(c) == <<c, index[c] + 1>>

-----------------------------------------------------------------------------
(* Entering and leaving.                                                   *)

\* executeBatch() throws at once while a transactional batch is active.
RejectNested(c) ==
  /\ pc[c] = "idle"
  /\ plan[c].kind # "single" /\ active # NoBatch
  /\ pc' = [pc EXCEPT ![c] = "rejected"]
  /\ UNCHANGED <<plan, index, barrier, store, idempotency, batch, reset, delivered>>

Submit(c) ==
  /\ pc[c] = "idle"
  /\ plan[c].kind = "single" \/ active = NoBatch
  /\ pc' = [pc EXCEPT ![c] = "queued"]
  /\ barrier' = Append(barrier, c)
  /\ UNCHANGED <<plan, index, store, idempotency, batch, reset, delivered>>

\* A barrier that lets everybody through.
GrantedAtOnce(c) == pc[c] = "queued"

\* acquire('__runtime_batch__') resolves in FIFO order.
Granted(c) == pc[c] = "queued" /\ Head(barrier) = c

\* The call holds the barrier; a transactional batch takes its checkpoint.
Start(c) ==
  /\ Granted(c)
  /\ pc' = [pc EXCEPT ![c] = "items"]
  /\ active' = IF Transactional(c) THEN c ELSE NoBatch
  /\ pendingKeys' = NoKeys
  /\ postCommits' = <<>>
  /\ checkpoint' = [events |-> events, state |-> state]
  /\ UNCHANGED <<plan, index, barrier, store, idempotency, tx, reset, delivered>>

\* An answer that keeps the barrier.
LeaveHolding(c, answer) ==
  /\ pc' = [pc EXCEPT ![c] = answer]
  /\ active' = NoBatch
  /\ UNCHANGED barrier

\* The finally block: no active batch, the barrier released.
Leave(c, answer) ==
  /\ pc' = [pc EXCEPT ![c] = answer]
  /\ active' = NoBatch
  /\ barrier' = Tail(barrier)

\* A restore that forgets the event store.
RestoreStateOnly == state' = checkpoint.state /\ UNCHANGED events

\* restore(): clear both stores and fill them from the checkpoint.
Restore == events' = checkpoint.events /\ state' = checkpoint.state

\* Something throws: a transactional batch is rolled back.
Fail(c) ==
  /\ Leave(c, "failed")
  /\ IF Transactional(c) THEN Restore ELSE UNCHANGED store
  /\ tx' = NoUnit
  /\ UNCHANGED <<plan, index, idempotency, pendingKeys, postCommits, checkpoint,
                 reset, delivered>>

-----------------------------------------------------------------------------
(* The items.                                                              *)

\* A lookup that overlooks the records the active batch holds back.
LookupStoreOnly(k) == idempotency[k]

\* cachedIdempotency: the records of the active batch come first.
Lookup(k) ==
  IF active # NoBatch /\ pendingKeys[k] # NoRecord THEN pendingKeys[k] ELSE idempotency[k]

Cached(c) == Current(c).key # NoKey /\ Lookup(Current(c).key) # NoRecord

\* storeIdempotency: held back by an active batch, else stored.
Record(c) ==
  LET k == Current(c).key
  IN IF k = NoKey THEN UNCHANGED <<idempotency, pendingKeys>>
     ELSE IF active # NoBatch
     THEN pendingKeys' = [pendingKeys EXCEPT ![k] = ItemId(c)] /\ UNCHANGED idempotency
     ELSE idempotency' = [idempotency EXCEPT ![k] = ItemId(c)] /\ UNCHANGED pendingKeys

\* The item is answered without effect: from its key, or by a fault, which
\* is a result with an error status and not an exception.
ItemAnswered(c) ==
  /\ pc[c] = "items" /\ HasItem(c)
  /\ index' = [index EXCEPT ![c] = @ + 1]
  /\ UNCHANGED <<pc, plan, barrier, store, idempotency, batch, reset, delivered>>

\* The target exists: copy the state graph, make the event.
ItemBegin(c) ==
  /\ pc[c] = "items" /\ HasItem(c) /\ ~Cached(c)
  /\ LET a     == Current(c).agg
         event == [seq |-> NextSequenceVersion(events, Nothing, a), by |-> ItemId(c)]
     IN /\ state[a] # <<>>
        /\ tx' = [states     |-> [state EXCEPT ![a] = Append(@, ItemId(c))],
                  pending    |-> [Nothing EXCEPT ![a] = <<event>>],
                  generation |-> generation]
  /\ pc' = [pc EXCEPT ![c] = "working"]
  /\ UNCHANGED <<plan, index, barrier, store, idempotency, active, pendingKeys,
                 postCommits, checkpoint, reset, delivered>>

\* A missing target, a guard, a reducer, a hook or a schema throws.
ItemThrows(c) == pc[c] \in {"items", "working"} /\ HasItem(c) /\ Fail(c)

CommitItem == state' = tx.states /\ events' = AppendAll(events, tx.pending)

\* A commit that runs the effects of a batch item at once.
NeverDeferred(c) == FALSE

\* The active batch keeps the post-commit work for its end.
Deferred(c) == active = c

CommitDeferred(c) ==
  /\ pc[c] = "working" /\ Deferred(c)
  /\ CommitItem
  /\ postCommits' = IF tx.generation = generation THEN Append(postCommits, ItemId(c))
                    ELSE postCommits
  /\ Record(c)
  /\ pc' = [pc EXCEPT ![c] = "items"]
  /\ index' = [index EXCEPT ![c] = @ + 1]
  /\ tx' = NoUnit
  /\ UNCHANGED <<plan, barrier, active, checkpoint, reset, delivered>>

\* Outside a transactional batch the post-commit work follows at once.
CommitItemNow(c) ==
  /\ pc[c] = "working" /\ ~Deferred(c) /\ tx.generation = generation
  /\ CommitItem
  /\ pc' = [pc EXCEPT ![c] = "itemPost"]
  /\ tx' = NoUnit
  /\ UNCHANGED <<plan, index, barrier, idempotency, active, pendingKeys, postCommits,
                 checkpoint, reset, delivered>>

\* After a reset the item is committed without its post-commit work.
CommitItemAfterReset(c) ==
  /\ pc[c] = "working" /\ ~Deferred(c) /\ tx.generation # generation
  /\ CommitItem
  /\ Record(c)
  /\ pc' = [pc EXCEPT ![c] = "items"]
  /\ index' = [index EXCEPT ![c] = @ + 1]
  /\ tx' = NoUnit
  /\ UNCHANGED <<plan, barrier, active, postCommits, checkpoint, reset, delivered>>

ItemPostCommit(c) ==
  /\ pc[c] = "itemPost"
  /\ delivered' = delivered \cup {ItemId(c)}
  /\ Record(c)
  /\ pc' = [pc EXCEPT ![c] = "items"]
  /\ index' = [index EXCEPT ![c] = @ + 1]
  /\ UNCHANGED <<plan, barrier, store, active, postCommits, checkpoint, tx, reset>>

ItemPostCommitThrows(c) == pc[c] = "itemPost" /\ Fail(c)

-----------------------------------------------------------------------------
(* The end of a batch.                                                     *)

\* flushBatchIdempotency: the records held back go to the store.
Flush ==
  idempotency' = [k \in Key |-> IF pendingKeys[k] = NoRecord THEN idempotency[k]
                                ELSE pendingKeys[k]]

\* Every item has a result: the batch is no longer active, its keys are stored.
CloseItems(c) ==
  /\ pc[c] = "items" /\ ~HasItem(c)
  /\ pc' = [pc EXCEPT ![c] = "postCommit"]
  /\ active' = NoBatch
  /\ Flush
  /\ pendingKeys' = NoKeys
  /\ UNCHANGED <<plan, index, barrier, store, postCommits, checkpoint, tx, reset, delivered>>

PostCommit(c) ==
  /\ pc[c] = "postCommit" /\ postCommits # <<>>
  /\ delivered' = delivered \cup {Head(postCommits)}
  /\ postCommits' = Tail(postCommits)
  /\ UNCHANGED <<pc, plan, index, barrier, store, idempotency, active, pendingKeys,
                 checkpoint, tx, reset>>

PostCommitThrows(c) ==
  /\ pc[c] = "postCommit" /\ postCommits # <<>>
  /\ Fail(c)

Finish(c) ==
  /\ pc[c] = "postCommit" /\ postCommits = <<>>
  /\ Leave(c, "ok")
  /\ UNCHANGED <<plan, index, store, idempotency, pendingKeys, postCommits, checkpoint,
                 tx, reset, delivered>>

-----------------------------------------------------------------------------
(* Reset, as in RuntimeEngine, by one administrator.                       *)

ResetClear ==
  /\ ~resetting /\ generation < MaxResets
  /\ generation' = generation + 1
  /\ resetting' = TRUE
  /\ events' = Nothing /\ state' = Nothing
  /\ idempotency' = NoKeys
  /\ UNCHANGED <<pc, plan, index, barrier, batch, delivered>>

ResetInitialize ==
  LET log == IF events = Nothing THEN BaselineLog ELSE events
  IN /\ resetting
     /\ resetting' = FALSE
     /\ events' = log
     /\ state' = IF state = Nothing THEN Replay(log) ELSE state
     /\ UNCHANGED <<pc, plan, index, barrier, idempotency, batch, generation, delivered>>

Stopped == (\A c \in Call : pc[c] \in Final) /\ ~resetting /\ UNCHANGED vars

CallStep(c) ==
  \/ Start(c) \/ ItemAnswered(c) \/ ItemBegin(c) \/ ItemThrows(c)
  \/ CommitDeferred(c) \/ CommitItemNow(c) \/ CommitItemAfterReset(c)
  \/ ItemPostCommit(c) \/ ItemPostCommitThrows(c)
  \/ CloseItems(c) \/ PostCommit(c) \/ PostCommitThrows(c) \/ Finish(c)

Next ==
  \/ \E c \in Call : RejectNested(c) \/ Submit(c) \/ CallStep(c)
  \/ ResetClear \/ ResetInitialize
  \/ Stopped

Spec == Init /\ [][Next]_vars

\* Hooks, webhooks and timers end, so the event loop runs every continuation.
FairSpec == Spec /\ \A c \in Call : WF_vars(CallStep(c))

-----------------------------------------------------------------------------
(* Properties.                                                             *)

StateMatchesLog == generation = 0 => state = Replay(events) /\ Contiguous(events)

AllOrNothing ==
  \A r \in Request :
    Transactional(r[1]) /\ pc[r[1]] = "failed" => ~Committed(events, r)

(***************************************************************************)
(* A transactional batch that failed, on whichever item or hook, has no    *)
(* event in the log, whatever a reset did meanwhile (engine.ts:424-426);   *)
(* and as long as nobody resets, the state graph stays the projection of   *)
(* the log through commits and rollbacks.  (RuntimeEngine says what holds  *)
(* of a unit of work that a reset overtakes.)                              *)
(***************************************************************************)
RollbackIsWhole == TypeOK /\ AllOrNothing /\ StateMatchesLog

(***************************************************************************)
(* A rollback takes back the work of its own batch and of nobody else: but *)
(* for a reset, nothing else takes an event out of the log.                *)
(***************************************************************************)
RollbackIsLocal ==
  [][\A r \in Request :
       Committed(events, r) /\ ~Committed(events', r) /\ generation' = generation
         => Transactional(r[1]) /\ pc[r[1]] # "failed" /\ pc'[r[1]] = "failed"]_vars

(***************************************************************************)
(* No effect of a transactional batch leaves the runtime before every item *)
(* has succeeded (engine.ts:463-466).                                      *)
(***************************************************************************)
NoEarlyDelivery ==
  \A r \in delivered : Transactional(r[1]) => index[r[1]] = Len(plan[r[1]].items)

\* The post-commit work of a call threw: its items were all done, or the one
\* it failed on is committed.
HookThrew == \E c \in Call : pc[c] = "failed" /\ (~HasItem(c) \/ Committed(events, ItemId(c)))

\* A stored key answers for work that is in the log.
KeysAnswerForSurvivors ==
  \A k \in Key : idempotency[k] = NoRecord \/ Committed(events, idempotency[k])

\* Of all items that carry a key, in one batch or in several calls, one is executed.
OncePerKey ==
  \A r, s \in Request :
    /\ r # s
    /\ Committed(events, r) /\ Committed(events, s)
    /\ plan[r[1]].items[r[2]].key = plan[s[1]].items[s[2]].key
    => plan[r[1]].items[r[2]].key = NoKey

(***************************************************************************)
(* A key executes one item (docs/dsl.md:608) and answers only for work     *)
(* that has survived: a later item that fails takes back the records of    *)
(* the earlier ones (README.md:342-344).  Post-commit work that throws     *)
(* does neither, and a reset may overtake: both are excepted.              *)
(***************************************************************************)
KeysExecuteOnce ==
  generation = 0 /\ ~HookThrew => OncePerKey /\ KeysAnswerForSurvivors

\* Every call that queued is answered.
EveryCallAnswered == \A c \in Call : pc[c] = "queued" ~> pc[c] \in Final
=============================================================================
