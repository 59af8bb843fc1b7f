------------------------------ MODULE KeyedLocks ------------------------------
(***************************************************************************)
(* RuntimeEngine.acquire and acquireMany (src/src/core/engine.ts): locks   *)
(* made of promises.  For every key the map locks keeps the promise that   *)
(* resolves when the last caller has released; a caller takes that promise *)
(* as its predecessor, puts its own in the map and awaits the predecessor. *)
(* A caller that is still the last one when it releases removes the entry. *)
(*                                                                         *)
(* The promise of a caller is named by the caller and the key.  chained    *)
(* resolves when the predecessor has and the slot was released; a slot is  *)
(* released only by a caller that has awaited its predecessor, so chained  *)
(* is resolved exactly when the slot is in released.                       *)
(***************************************************************************)
EXTENDS Integers, Sequences, FiniteSets

CONSTANTS
  Task,     \* calls of acquireMany, or of acquire with one key
  Key,      \* lock keys, numbered in their sort order
  Wants,    \* the keys each task asks for
  NoSlot    \* no entry in the map: Promise.resolve()

Slot == Task \X Key

ASSUME WantsAssumption == Key \subseteq Int /\ Wants \in [Task -> (SUBSET Key) \ {{}}]
ASSUME SlotAssumption  == NoSlot \notin Slot

VARIABLES
  pc,         \* idle, waiting, holding or done
  got,        \* the keys whose acquire has returned
  asked,      \* the key of the pending acquire
  previous,   \* the promise it awaits
  locks,      \* this.locks: the promise of the last caller of every key
  released,   \* resolved promises
  queue       \* history: callers that have not released, oldest first

lockVars == <<pc, got, asked, previous, locks, released, queue>>

LockTypeOK ==
  /\ pc \in [Task -> {"idle", "waiting", "holding", "done"}]
  /\ got \in [Task -> SUBSET Key]
  /\ asked \in [Task -> Key \cup {NoSlot}]
  /\ previous \in [Task -> Slot \cup {NoSlot}]
  /\ locks \in [Key -> Slot \cup {NoSlot}]
  /\ released \in SUBSET Slot
  /\ queue \in [Key -> Seq(Task)]

LockInit ==
  /\ pc = [t \in Task |-> "idle"]
  /\ got = [t \in Task |-> {}]
  /\ asked = [t \in Task |-> NoSlot]
  /\ previous = [t \in Task |-> NoSlot]
  /\ locks = [k \in Key |-> NoSlot]
  /\ released = {}
  /\ queue = [k \in Key |-> <<>>]

\* The keys as the caller happens to list them.
AnyRemaining(keys, k) == k \in keys

\* [...new Set(keys)].sort(): every key once, the least of the rest next.
IsNext(keys, k) == k \in keys /\ \A j \in keys : k <= j

\* The synchronous part of acquire.
Enqueue(t, k) ==
  /\ asked' = [asked EXCEPT ![t] = k]
  /\ previous' = [previous EXCEPT ![t] = locks[k]]
  /\ locks' = [locks EXCEPT ![k] = <<t, k>>]
  /\ queue' = [queue EXCEPT ![k] = Append(@, t)]

Call(t) ==
  /\ pc[t] = "idle"
  /\ \E k \in Key : IsNext(Wants[t], k) /\ Enqueue(t, k)
  /\ pc' = [pc EXCEPT ![t] = "waiting"]
  /\ UNCHANGED <<got, released>>

\* await previous returns.
Resolved(t) == previous[t] = NoSlot \/ previous[t] \in released

\* The loop of acquireMany goes on to the next key, or returns.
Resume(t) ==
  /\ pc[t] = "waiting" /\ Resolved(t)
  /\ got' = [got EXCEPT ![t] = @ \cup {asked[t]}]
  /\ \/ /\ Wants[t] = got'[t]
        /\ pc' = [pc EXCEPT ![t] = "holding"]
        /\ UNCHANGED <<asked, previous, locks, queue>>
     \/ /\ \E k \in Key : IsNext(Wants[t] \ got'[t], k) /\ Enqueue(t, k)
        /\ UNCHANGED pc
  /\ UNCHANGED released

\* An entry that is removed though somebody has queued behind it.
ForgetAlways(t) == [k \in Key |-> IF k \in got[t] THEN NoSlot ELSE locks[k]]

\* if (this.locks.get(key) === chained) this.locks.delete(key)
ForgetIfLast(t) == [k \in Key |-> IF k \in got[t] /\ locks[k] = <<t, k>> THEN NoSlot ELSE locks[k]]

\* All releases run in one synchronous loop.
Release(t) ==
  /\ pc[t] = "holding"
  /\ pc' = [pc EXCEPT ![t] = "done"]
  /\ released' = released \cup {<<t, k>> : k \in got[t]}
  /\ locks' = ForgetIfLast(t)
  /\ got' = [got EXCEPT ![t] = {}]
  /\ queue' = [k \in Key |-> IF k \in got[t] THEN Tail(queue[k]) ELSE queue[k]]
  /\ UNCHANGED <<asked, previous>>

TaskStep(t) == Resume(t) \/ Release(t)

LocksStopped == (\A t \in Task : pc[t] = "done") /\ UNCHANGED lockVars

LockNext == (\E t \in Task : Call(t) \/ TaskStep(t)) \/ LocksStopped

LockSpec == LockInit /\ [][LockNext]_lockVars

\* A resolved promise runs its continuation; the work under a lock ends.
FairLockSpec == LockSpec /\ \A t \in Task : WF_lockVars(TaskStep(t))

-----------------------------------------------------------------------------
(* Properties.                                                             *)

(***************************************************************************)
(* No two tasks hold the same key, though the map forgets a key whenever   *)
(* its last caller releases.                                               *)
(***************************************************************************)
MutualExclusion == \A t, u \in Task : t # u => got[t] \cap got[u] = {}

Fifo == INSTANCE FifoLocks

(***************************************************************************)
(* The map and the promises implement one FIFO queue for every key.        *)
(***************************************************************************)
FifoLocksSpec == Fifo!Spec

(***************************************************************************)
(* Tasks that hold some locks and wait for others never wait for each      *)
(* other: everybody who calls comes to hold all its locks and leaves.      *)
(***************************************************************************)
EveryTaskServed == \A t \in Task : pc[t] = "waiting" ~> pc[t] = "done"
=============================================================================
