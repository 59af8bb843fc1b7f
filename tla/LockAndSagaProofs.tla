-------------------------- MODULE LockAndSagaProofs --------------------------
(***************************************************************************)
(* Proofs about what commands and their sagas take locks with, and about   *)
(* the sagas.  First, mutual exclusion of the promise locks, that they are *)
(* FIFO queues, and that no circle of calls waits for each other.  Then,   *)
(* for any saga definitions, that the journals follow the documented       *)
(* lifecycle and that a failed saga leaves no effect unaccounted for: the  *)
(* completed steps are those up to the next one to undo, and the last      *)
(* entry of the journal tells where the saga stands.  That projections and *)
(* webhooks follow the log: what a command commits is new to it, and what  *)
(* is not yet projected or announced is its last part.  And which sagas    *)
(* wait for their own request.                                             *)
(***************************************************************************)
EXTENDS KeyedLocks, Saga, SequenceTheorems, NaturalsInduction, WellFoundedInduction, TLAPS

(***************************************************************************)
(* The locks.                                                              *)
(***************************************************************************)

\* Where a task stands decides what it holds and asks for.
PhaseInv ==
  \A t \in Task :
    /\ pc[t] \in {"idle", "done"} => got[t] = {}
    /\ pc[t] = "holding" => got[t] = Wants[t]
    /\ pc[t] = "waiting" => asked[t] \in Wants[t] \ got[t] /\ got[t] \subseteq Wants[t]

\* A promise is resolved only by a task that is done.
ReleasedInv == \A t \in Task, k \in Key : <<t, k>> \in released => pc[t] = "done"

\* Task t waits for key k.
Pending(t, k) == pc[t] = "waiting" /\ asked[t] = k

\* The queue of a key: nobody twice, the last one in the map, only callers
\* that hold or await the key.
QueueInv(k) ==
  /\ locks[k] = IF queue[k] = <<>> THEN NoSlot ELSE <<queue[k][Len(queue[k])], k>>
  /\ \A i, j \in 1..Len(queue[k]) : queue[k][i] = queue[k][j] => i = j
  /\ \A i \in 1..Len(queue[k]) : k \in got[queue[k][i]] \/ Pending(queue[k][i], k)

\* Holders are at the head; who waits awaits the one before.
PlaceInv(k) ==
  \A t \in Task :
    /\ k \in got[t] => queue[k] # <<>> /\ queue[k][1] = t
    /\ Pending(t, k) =>
         \E i \in 1..Len(queue[k]) :
           /\ queue[k][i] = t
           /\ i = 1 => Resolved(t)
           /\ i # 1 => previous[t] = <<queue[k][i - 1], k>>

LockInv ==
  /\ LockTypeOK
  /\ PhaseInv
  /\ ReleasedInv
  /\ \A k \in Key : QueueInv(k) /\ PlaceInv(k)

-----------------------------------------------------------------------------

(***************************************************************************)
(* Every variable of the lock map keeps its type.                          *)
(***************************************************************************)
LEMMA TypeStep == LockInv /\ [LockNext]_lockVars => LockTypeOK'
<1> SUFFICES ASSUME LockInv, [LockNext]_lockVars PROVE LockTypeOK'
  OBVIOUS
<1> USE DEF LockInv
<1>1. ASSUME NEW t \in Task, NEW k \in Key, Enqueue(t, k)
      PROVE /\ asked' \in [Task -> Key \cup {NoSlot}]
            /\ previous' \in [Task -> Slot \cup {NoSlot}]
            /\ locks' \in [Key -> Slot \cup {NoSlot}]
            /\ queue' \in [Key -> Seq(Task)]
  BY <1>1 DEF Enqueue, LockTypeOK, Slot
<1>2. ASSUME NEW t \in Task, Call(t) PROVE LockTypeOK'
  BY <1>1, <1>2 DEF Call, LockTypeOK
<1>3. ASSUME NEW t \in Task, Resume(t) PROVE LockTypeOK'
  <2>1. asked[t] \in Key
    BY <1>3, WantsAssumption DEF Resume, PhaseInv
  <2>2. got' \in [Task -> SUBSET Key] /\ released' \in SUBSET Slot
    BY <1>3, <2>1 DEF Resume, LockTypeOK
  <2>3. CASE Wants[t] = got'[t] /\ pc' = [pc EXCEPT ![t] = "holding"]
             /\ UNCHANGED <<asked, previous, locks, queue>>
    BY <2>2, <2>3 DEF LockTypeOK
  <2>4. CASE UNCHANGED pc /\ \E k \in Key : IsNext(Wants[t] \ got'[t], k) /\ Enqueue(t, k)
    BY <1>1, <2>2, <2>4 DEF LockTypeOK
  <2> QED
    BY <1>3, <2>3, <2>4 DEF Resume
<1>4. ASSUME NEW t \in Task, Release(t) PROVE LockTypeOK'
  <2>1. \A k \in Key : k \in got[t] => Tail(queue[k]) \in Seq(Task)
    <3> TAKE k \in Key
    <3>1. queue[k] \in Seq(Task)
      BY DEF LockTypeOK
    <3>2. k \in got[t] => queue[k] # <<>>
      BY DEF PlaceInv
    <3> QED
      BY <3>1, <3>2
  <2>2. queue' \in [Key -> Seq(Task)]
    BY <1>4, <2>1 DEF Release, LockTypeOK
  <2>3. released' \in SUBSET Slot /\ locks' \in [Key -> Slot \cup {NoSlot}]
    BY <1>4 DEF Release, ForgetIfLast, LockTypeOK, Slot
  <2> QED
    BY <1>4, <2>2, <2>3 DEF Release, LockTypeOK
<1>5. CASE UNCHANGED lockVars
  BY <1>5 DEF lockVars, LockTypeOK
<1> QED
  BY <1>2, <1>3, <1>4, <1>5 DEF LockNext, TaskStep, LocksStopped

\* Where tasks stand.
LEMMA PhaseStep == LockInv /\ [LockNext]_lockVars => PhaseInv'
<1> SUFFICES ASSUME LockInv, [LockNext]_lockVars PROVE PhaseInv'
  OBVIOUS
<1> USE DEF LockInv
<1>1. ASSUME NEW t \in Task, Call(t) PROVE PhaseInv'
  BY <1>1, WantsAssumption DEF Call, Enqueue, IsNext, PhaseInv, LockTypeOK
<1>2. ASSUME NEW t \in Task, Resume(t) PROVE PhaseInv'
  <2>1. asked[t] \in Wants[t] \ got[t] /\ got'[t] = got[t] \cup {asked[t]}
    BY <1>2 DEF Resume, PhaseInv, LockTypeOK
  <2>2. \A u \in Task : u # t => got'[u] = got[u] /\ pc'[u] = pc[u] /\ asked'[u] = asked[u]
    BY <1>2 DEF Resume, Enqueue, LockTypeOK
  <2>3. CASE Wants[t] = got'[t] /\ pc' = [pc EXCEPT ![t] = "holding"]
             /\ UNCHANGED <<asked, previous, locks, queue>>
    BY <2>1, <2>2, <2>3 DEF PhaseInv, LockTypeOK
  <2>4. CASE UNCHANGED pc /\ \E k \in Key : IsNext(Wants[t] \ got'[t], k) /\ Enqueue(t, k)
    <3>1. asked'[t] \in Wants[t] \ got'[t] /\ got'[t] \subseteq Wants[t] /\ pc'[t] = "waiting"
      BY <1>2, <2>1, <2>4 DEF IsNext, Enqueue, LockTypeOK, PhaseInv, Resume
    <3> QED
      BY <2>2, <3>1 DEF PhaseInv
  <2> QED
    BY <1>2, <2>3, <2>4 DEF Resume
<1>3. ASSUME NEW t \in Task, Release(t) PROVE PhaseInv'
  BY <1>3 DEF Release, PhaseInv, LockTypeOK
<1>4. CASE UNCHANGED lockVars
  BY <1>4 DEF lockVars, PhaseInv
<1> QED
  BY <1>1, <1>2, <1>3, <1>4 DEF LockNext, TaskStep, LocksStopped

\* Only a task that leaves resolves its promises.
LEMMA ReleasedStep == LockInv /\ [LockNext]_lockVars => ReleasedInv'
<1> SUFFICES ASSUME LockInv, [LockNext]_lockVars PROVE ReleasedInv'
  OBVIOUS
<1> USE DEF LockInv
<1>1. ASSUME NEW t \in Task, Call(t) PROVE ReleasedInv'
  BY <1>1 DEF Call, ReleasedInv, LockTypeOK
<1>2. ASSUME NEW t \in Task, Resume(t) PROVE ReleasedInv'
  BY <1>2 DEF Resume, ReleasedInv, LockTypeOK
<1>3. ASSUME NEW t \in Task, Release(t) PROVE ReleasedInv'
  BY <1>3 DEF Release, ReleasedInv, LockTypeOK
<1>4. CASE UNCHANGED lockVars
  BY <1>4 DEF lockVars, ReleasedInv
<1> QED
  BY <1>1, <1>2, <1>3, <1>4 DEF LockNext, TaskStep, LocksStopped

-----------------------------------------------------------------------------
(* The queues.                                                             *)

\* Joining at the end.
LEMMA Joined ==
  ASSUME NEW S \in Seq(Task), NEW t \in Task
  PROVE  /\ Append(S, t) # <<>>
         /\ Len(Append(S, t)) = Len(S) + 1
         /\ Append(S, t)[Len(S) + 1] = t
         /\ \A i \in 1..Len(S) : Append(S, t)[i] = S[i]
OBVIOUS

\* Leaving at the head.
LEMMA Left ==
  ASSUME NEW S \in Seq(Task), S # <<>>
  PROVE  /\ Tail(S) \in Seq(Task)
         /\ Len(S) \in Nat \ {0}
         /\ Len(Tail(S)) = Len(S) - 1
         /\ \A i \in 1..(Len(S) - 1) : Tail(S)[i] = S[i + 1]
         /\ Tail(S) = <<>> <=> Len(S) = 1
<1>1. Len(S) \in Nat \ {0} /\ Tail(S) \in Seq(Task) /\ Len(Tail(S)) = Len(S) - 1
  OBVIOUS
<1>2. \A i \in 1..(Len(S) - 1) : Tail(S)[i] = S[i + 1]
  OBVIOUS
<1>3. \A s \in Seq(Task) : s = <<>> <=> Len(s) = 0
  OBVIOUS
<1> QED
  BY <1>1, <1>2, <1>3

\* Whoever awaits nothing any more is at the head.
LEMMA ResolvedIsHead ==
  ASSUME LockInv, NEW t \in Task, pc[t] = "waiting", Resolved(t)
  PROVE  queue[asked[t]] # <<>> /\ queue[asked[t]][1] = t
<1> USE DEF LockInv
<1> DEFINE k == asked[t]
           S == queue[k]
<1>1. k \in Key
  BY WantsAssumption DEF PhaseInv
<1>2. S \in Seq(Task)
  BY <1>1 DEF LockTypeOK
<1>3. PICK i \in 1..Len(S) : /\ S[i] = t
                             /\ i # 1 => previous[t] = <<S[i - 1], k>>
  BY <1>1 DEF PlaceInv, Pending
<1>4. ASSUME i # 1 PROVE FALSE
  <2>1. i - 1 \in 1..Len(S) /\ S[i - 1] \in Task
    BY <1>2, <1>4
  <2>2. <<S[i - 1], k>> \in Slot
    BY <1>1, <2>1 DEF Slot
  <2>3. <<S[i - 1], k>> \in released
    BY <1>3, <1>4, <2>2, SlotAssumption DEF Resolved
  <2>4. pc[S[i - 1]] = "done"
    BY <1>1, <2>1, <2>3 DEF ReleasedInv
  <2>5. k \in got[S[i - 1]] \/ Pending(S[i - 1], k)
    BY <1>1, <2>1 DEF QueueInv
  <2> QED
    BY <2>1, <2>4, <2>5 DEF PhaseInv, Pending
<1> QED
  BY <1>2, <1>3, <1>4

\* A task takes its place in the queue of a key; what it asked for before it
\* now has, and whatever it has it is at the head of.
LEMMA JoinStep ==
  ASSUME LockInv, NEW t \in Task, NEW k \in Key, Enqueue(t, k),
         pc'[t] = "waiting", k \notin got'[t], released' = released,
         \A u \in Task : u # t => pc'[u] = pc[u] /\ got'[u] = got[u],
         \A j \in Key : j \in got[t] \/ Pending(t, j) => j \in got'[t],
         \A j \in Key : j \in got'[t] => queue[j] # <<>> /\ queue[j][1] = t
  PROVE  \A j \in Key : QueueInv(j)' /\ PlaceInv(j)'
<1> USE DEF LockInv
<1>1. /\ asked'[t] = k
      /\ previous'[t] = locks[k]
      /\ locks'[k] = <<t, k>>
      /\ queue'[k] = Append(queue[k], t)
      /\ \A u \in Task : u # t => asked'[u] = asked[u] /\ previous'[u] = previous[u]
      /\ \A j \in Key : j # k => locks'[j] = locks[j] /\ queue'[j] = queue[j]
  BY DEF Enqueue, LockTypeOK
<1>2. \A u \in Task : u # t => /\ Resolved(u) => Resolved(u)'
                               /\ \A j \in Key : Pending(u, j)' <=> Pending(u, j)
  BY <1>1 DEF Resolved, Pending
<1>3. \A j \in Key : Pending(t, j)' <=> j = k
  BY <1>1 DEF Pending
<1>4. ASSUME NEW j \in Key, j # k PROVE QueueInv(j)' /\ PlaceInv(j)'
  <2>0. PICK S \in Seq(Task) : S = queue[j]
    BY DEF LockTypeOK
  <2>1. queue'[j] = S /\ locks'[j] = locks[j]
    BY <1>1, <1>4, <2>0
  <2>2. \A i \in 1..Len(S) : j \in got'[S[i]] \/ Pending(S[i], j)'
    <3> TAKE i \in 1..Len(S)
    <3>1. S[i] \in Task
      OBVIOUS
    <3>2. j \in got[S[i]] \/ Pending(S[i], j)
      BY <2>0 DEF QueueInv
    <3>3. CASE S[i] = t
      BY <3>2, <3>3
    <3>4. CASE S[i] # t
      BY <1>2, <3>1, <3>2, <3>4
    <3> QED
      BY <3>3, <3>4
  <2>3. QueueInv(j)'
    BY <2>0, <2>1, <2>2 DEF QueueInv
  <2>4. ASSUME NEW u \in Task PROVE j \in got'[u] => S # <<>> /\ S[1] = u
    BY <2>0 DEF PlaceInv
  <2>5. ASSUME NEW u \in Task, Pending(u, j)'
        PROVE  \E i \in 1..Len(S) : /\ S[i] = u
                                    /\ i = 1 => Resolved(u)'
                                    /\ i # 1 => previous'[u] = <<S[i - 1], j>>
    <3>1. u # t
      BY <1>3, <1>4, <2>5
    <3>2. Pending(u, j) /\ previous'[u] = previous[u]
      BY <1>1, <1>2, <2>5, <3>1
    <3>3. PICK i \in 1..Len(S) : /\ S[i] = u
                                 /\ i = 1 => Resolved(u)
                                 /\ i # 1 => previous[u] = <<S[i - 1], j>>
      BY <2>0, <3>2 DEF PlaceInv
    <3> QED
      BY <1>2, <3>1, <3>2, <3>3
  <2> QED
    BY <2>1, <2>3, <2>4, <2>5 DEF PlaceInv
<1>5. QueueInv(k)' /\ PlaceInv(k)'
  <2>0. PICK S \in Seq(Task) : S = queue[k]
    BY DEF LockTypeOK
  <2>1. PICK T \in Seq(Task) : T = queue'[k]
    <3>1. Append(S, t) \in Seq(Task)
      OBVIOUS
    <3> QED
      BY <1>1, <2>0, <3>1
  <2>2. /\ T # <<>> /\ Len(T) = Len(S) + 1 /\ T[Len(S) + 1] = t
        /\ \A i \in 1..Len(S) : T[i] = S[i]
    BY <1>1, <2>0, <2>1, Joined
  <2>3. \A i \in 1..Len(S) : S[i] \in Task /\ S[i] # t /\ (k \in got[S[i]] \/ Pending(S[i], k))
    <3> TAKE i \in 1..Len(S)
    <3>1. S[i] \in Task
      OBVIOUS
    <3>2. k \in got[S[i]] \/ Pending(S[i], k)
      BY <2>0 DEF QueueInv
    <3> QED
      BY <3>1, <3>2
  <2>4. \A i, j \in 1..Len(S) : S[i] = S[j] => i = j
    BY <2>0 DEF QueueInv
  <2>5. locks[k] = IF S = <<>> THEN NoSlot ELSE <<S[Len(S)], k>>
    BY <2>0 DEF QueueInv
  <2>6. Len(S) \in Nat /\ (S = <<>> <=> Len(S) = 0)
    OBVIOUS
  <2>7. \A i \in 1..Len(T) : i \in 1..Len(S) \/ i = Len(S) + 1
    BY <2>2, <2>6
  <2>8. \A i, j \in 1..Len(T) : T[i] = T[j] => i = j
    BY <2>2, <2>3, <2>4, <2>7
  <2>9. \A i \in 1..Len(T) : k \in got'[T[i]] \/ Pending(T[i], k)'
    <3> TAKE i \in 1..Len(T)
    <3>1. CASE i = Len(S) + 1
      BY <1>3, <2>2, <3>1
    <3>2. CASE i \in 1..Len(S)
      <4>1. T[i] = S[i] /\ S[i] \in Task /\ S[i] # t /\ (k \in got[S[i]] \/ Pending(S[i], k))
        BY <2>2, <2>3, <3>2
      <4> QED
        BY <1>2, <4>1
    <3> QED
      BY <2>7, <3>1, <3>2
  <2>10. QueueInv(k)'
    <3>1. locks'[k] = <<T[Len(T)], k>>
      BY <1>1, <2>2
    <3> QED
      BY <2>1, <2>2, <2>8, <2>9, <3>1 DEF QueueInv
  <2>11. ASSUME NEW u \in Task, k \in got'[u] PROVE T # <<>> /\ T[1] = u
    <3>1. u # t /\ k \in got[u]
      BY <2>11
    <3>2. S # <<>> /\ S[1] = u
      BY <2>0, <3>1 DEF PlaceInv
    <3>3. 1 \in 1..Len(S)
      BY <2>6, <3>2
    <3> QED
      BY <2>2, <3>2, <3>3
  <2>12. ASSUME NEW u \in Task, Pending(u, k)'
         PROVE  \E i \in 1..Len(T) : /\ T[i] = u
                                     /\ i = 1 => Resolved(u)'
                                     /\ i # 1 => previous'[u] = <<T[i - 1], k>>
    <3>1. CASE u = t
      <4> DEFINE i == Len(S) + 1
      <4>1. i \in 1..Len(T) /\ T[i] = t
        BY <2>2, <2>6
      <4>2. i = 1 => Resolved(t)'
        BY <1>1, <2>5, <2>6 DEF Resolved
      <4>3. i # 1 => previous'[t] = <<T[i - 1], k>>
        <5> SUFFICES ASSUME i # 1 PROVE previous'[t] = <<T[i - 1], k>>
          OBVIOUS
        <5>1. S # <<>> /\ i - 1 = Len(S) /\ Len(S) \in 1..Len(S)
          BY <2>6
        <5>2. T[Len(S)] = S[Len(S)]
          BY <2>2, <5>1
        <5> QED
          BY <1>1, <2>5, <5>1, <5>2
      <4> QED
        BY <3>1, <4>1, <4>2, <4>3
    <3>2. CASE u # t
      <4>1. Pending(u, k) /\ previous'[u] = previous[u]
        BY <1>1, <1>2, <2>12, <3>2
      <4>2. PICK i \in 1..Len(S) : /\ S[i] = u
                                   /\ i = 1 => Resolved(u)
                                   /\ i # 1 => previous[u] = <<S[i - 1], k>>
        BY <2>0, <4>1 DEF PlaceInv
      <4>3. i \in 1..Len(T) /\ T[i] = u /\ (i = 1 => Resolved(u)')
        BY <1>2, <2>2, <2>6, <3>2, <4>2
      <4>4. i # 1 => T[i - 1] = S[i - 1]
        BY <2>2, <2>6
      <4> QED
        BY <4>1, <4>2, <4>3, <4>4
    <3> QED
      BY <3>1, <3>2
  <2> QED
    BY <2>1, <2>10, <2>11, <2>12 DEF PlaceInv
<1> QED
  BY <1>4, <1>5

\* The head leaves the queues of all its keys.
LEMMA LeaveStep ==
  ASSUME LockInv, NEW t \in Task, Release(t)
  PROVE  \A k \in Key : QueueInv(k)' /\ PlaceInv(k)'
<1> USE DEF LockInv
<1>1. /\ pc'[t] = "done" /\ got'[t] = {} /\ asked' = asked /\ previous' = previous
      /\ \A u \in Task : u # t => pc'[u] = pc[u] /\ got'[u] = got[u]
      /\ \A k \in Key : /\ locks'[k] = IF k \in got[t] /\ locks[k] = <<t, k>> THEN NoSlot
                                       ELSE locks[k]
                        /\ queue'[k] = IF k \in got[t] THEN Tail(queue[k]) ELSE queue[k]
                        /\ k \in got[t] => <<t, k>> \in released'
      /\ released \subseteq released'
  BY DEF Release, ForgetIfLast, LockTypeOK
<1>2. \A u \in Task : /\ Resolved(u) => Resolved(u)'
                      /\ \A k \in Key : Pending(u, k)' <=> u # t /\ Pending(u, k)
  BY <1>1 DEF Resolved, Pending
<1>3. \A k \in Key : ~Pending(t, k)
  BY DEF Pending, Release
<1> SUFFICES ASSUME NEW k \in Key PROVE QueueInv(k)' /\ PlaceInv(k)'
  OBVIOUS
<1>4. PICK S \in Seq(Task) : S = queue[k]
  BY DEF LockTypeOK
<1>5. /\ locks[k] = IF S = <<>> THEN NoSlot ELSE <<S[Len(S)], k>>
      /\ \A i, j \in 1..Len(S) : S[i] = S[j] => i = j
  BY <1>4 DEF QueueInv
<1>6. \A i \in 1..Len(S) : S[i] \in Task /\ (k \in got[S[i]] \/ Pending(S[i], k))
  <2> TAKE i \in 1..Len(S)
  <2>1. S[i] \in Task
    OBVIOUS
  <2>2. k \in got[S[i]] \/ Pending(S[i], k)
    BY <1>4 DEF QueueInv
  <2> QED
    BY <2>1, <2>2
<1>7. \A u \in Task : k \in got[u] => S # <<>> /\ S[1] = u
  BY <1>4 DEF PlaceInv
<1>8. \A u \in Task : Pending(u, k) => \E i \in 1..Len(S) :
                                         /\ S[i] = u
                                         /\ i = 1 => Resolved(u)
                                         /\ i # 1 => previous[u] = <<S[i - 1], k>>
  BY <1>4 DEF PlaceInv
<1>9. CASE k \notin got[t]
  <2>1. queue'[k] = S /\ locks'[k] = locks[k]
    BY <1>1, <1>4, <1>9
  <2>2. \A i \in 1..Len(S) : S[i] # t
    BY <1>3, <1>6, <1>9
  <2>3. \A i \in 1..Len(S) : k \in got'[S[i]] \/ Pending(S[i], k)'
    BY <1>1, <1>2, <1>6, <2>2
  <2>4. QueueInv(k)'
    BY <1>5, <2>1, <2>3 DEF QueueInv
  <2>5. PlaceInv(k)'
    BY <1>1, <1>2, <1>7, <1>8, <2>1 DEF PlaceInv
  <2> QED
    BY <2>4, <2>5
<1>10. CASE k \in got[t]
  <2>1. S # <<>> /\ S[1] = t
    BY <1>7, <1>10
  <2>2. PICK T \in Seq(Task) : T = Tail(S)
    BY <2>1, Left
  <2>3. /\ Len(S) \in Nat \ {0} /\ Len(T) = Len(S) - 1
        /\ \A i \in 1..(Len(S) - 1) : T[i] = S[i + 1]
        /\ T = <<>> <=> Len(S) = 1
    BY <2>1, <2>2, Left
  <2>4. queue'[k] = T
    BY <1>1, <1>4, <1>10, <2>2
  <2>5. \A i \in 1..Len(T) : /\ i + 1 \in 1..Len(S) /\ i \in 1..Len(S) /\ T[i] = S[i + 1]
                             /\ T[i] # t /\ T[i] \in Task
                             /\ k \notin got[T[i]] /\ Pending(T[i], k)
    <3> TAKE i \in 1..Len(T)
    <3>1. i + 1 \in 1..Len(S) /\ 1 \in 1..Len(S) /\ i \in 1..Len(S) /\ T[i] = S[i + 1]
      BY <2>3
    <3>2. S[i + 1] # S[1]
      BY <1>5, <3>1
    <3> QED
      BY <1>6, <1>7, <2>1, <3>1, <3>2
  <2>6. locks'[k] = IF T = <<>> THEN NoSlot ELSE <<T[Len(T)], k>>
    <3>1. CASE Len(S) = 1
      <4>1. locks[k] = <<t, k>>
        BY <1>5, <2>1, <3>1
      <4> QED
        BY <1>1, <1>10, <2>3, <3>1, <4>1
    <3>2. CASE Len(S) # 1
      <4>1. T # <<>> /\ Len(T) \in 1..Len(T) /\ T[Len(T)] = S[Len(S)] /\ T[Len(T)] # t
        BY <2>3, <2>5, <3>2
      <4>2. locks[k] = <<T[Len(T)], k>>
        BY <1>5, <2>1, <4>1
      <4>3. <<T[Len(T)], k>> # <<t, k>>
        BY <4>1
      <4>4. locks'[k] = locks[k]
        BY <1>1, <4>2, <4>3
      <4> QED
        BY <4>1, <4>2, <4>4
    <3> QED
      BY <3>1, <3>2
  <2>7. \A i, j \in 1..Len(T) : T[i] = T[j] => i = j
    BY <1>5, <2>3, <2>5
  <2>8. QueueInv(k)'
    <3>1. \A i \in 1..Len(T) : Pending(T[i], k)'
      BY <1>2, <2>5
    <3> QED
      BY <2>4, <2>6, <2>7, <3>1 DEF QueueInv
  <2>9. ASSUME NEW u \in Task PROVE k \notin got'[u]
    BY <1>1, <1>7, <1>10
  <2>10. ASSUME NEW u \in Task, Pending(u, k)'
         PROVE  \E i \in 1..Len(T) : /\ T[i] = u
                                     /\ i = 1 => Resolved(u)'
                                     /\ i # 1 => previous'[u] = <<T[i - 1], k>>
    <3>1. u # t /\ Pending(u, k)
      BY <1>2, <2>10
    <3>2. PICK i \in 1..Len(S) : /\ S[i] = u
                                 /\ i # 1 => previous[u] = <<S[i - 1], k>>
      BY <1>8, <3>1
    <3>3. i # 1 /\ i - 1 \in 1..Len(T) /\ T[i - 1] = u
      BY <2>1, <2>3, <3>1, <3>2
    <3>4. i - 1 = 1 => Resolved(u)'
      <4>1. i - 1 = 1 => previous'[u] = <<t, k>>
        BY <1>1, <2>1, <3>2, <3>3
      <4> QED
        BY <1>1, <1>10, <4>1 DEF Resolved
    <3>5. i - 1 # 1 => previous'[u] = <<T[i - 2], k>>
      <4>1. i - 1 # 1 => T[i - 2] = S[i - 1]
        BY <2>3, <3>3
      <4> QED
        BY <1>1, <3>2, <3>3, <4>1
    <3> QED
      BY <3>3, <3>4, <3>5
  <2> QED
    BY <2>4, <2>8, <2>9, <2>10 DEF PlaceInv
<1> QED
  BY <1>9, <1>10

-----------------------------------------------------------------------------
(* The invariant and its consequences.                                     *)

LEMMA LockInvInit == LockInit => LockInv
<1> SUFFICES ASSUME LockInit PROVE LockInv
  OBVIOUS
<1>1. LockTypeOK
  BY DEF LockInit, LockTypeOK, Slot
<1>2. PhaseInv /\ ReleasedInv
  BY DEF LockInit, PhaseInv, ReleasedInv
<1>3. ASSUME NEW k \in Key PROVE QueueInv(k) /\ PlaceInv(k)
  <2>1. queue[k] = <<>> /\ locks[k] = NoSlot /\ Len(queue[k]) = 0
    BY DEF LockInit
  <2>2. QueueInv(k)
    BY <2>1 DEF QueueInv
  <2>3. PlaceInv(k)
    BY DEF LockInit, PlaceInv, Pending
  <2> QED
    BY <2>2, <2>3
<1> QED
  BY <1>1, <1>2, <1>3 DEF LockInv

\* Every step keeps the queues.
LEMMA QueuesStep == LockInv /\ [LockNext]_lockVars => \A k \in Key : QueueInv(k)' /\ PlaceInv(k)'
<1> SUFFICES ASSUME LockInv, [LockNext]_lockVars PROVE \A k \in Key : QueueInv(k)' /\ PlaceInv(k)'
  OBVIOUS
<1> USE DEF LockInv
<1>1. ASSUME NEW t \in Task, Call(t) PROVE \A k \in Key : QueueInv(k)' /\ PlaceInv(k)'
  <2>1. PICK k \in Key : IsNext(Wants[t], k) /\ Enqueue(t, k)
    BY <1>1 DEF Call
  <2>2. /\ pc'[t] = "waiting" /\ got' = got /\ released' = released /\ got[t] = {}
        /\ \A u \in Task : u # t => pc'[u] = pc[u]
        /\ \A j \in Key : ~Pending(t, j)
    BY <1>1 DEF Call, PhaseInv, Pending, LockTypeOK
  <2> QED
    BY <2>1, <2>2, JoinStep
<1>2. ASSUME NEW t \in Task, Resume(t) PROVE \A k \in Key : QueueInv(k)' /\ PlaceInv(k)'
  <2>1. pc[t] = "waiting" /\ Resolved(t) /\ released' = released
    BY <1>2 DEF Resume
  <2>2. asked[t] \in Key /\ queue[asked[t]] # <<>> /\ queue[asked[t]][1] = t
    BY <2>1, ResolvedIsHead, WantsAssumption DEF PhaseInv
  <2>3. /\ got'[t] = got[t] \cup {asked[t]}
        /\ \A u \in Task : u # t => got'[u] = got[u]
    BY <1>2, <2>2 DEF Resume, LockTypeOK
  <2>4. \A j \in Key : j \in got'[t] => queue[j] # <<>> /\ queue[j][1] = t
    BY <2>2, <2>3 DEF PlaceInv
  <2>5. \A j \in Key : j \in got[t] \/ Pending(t, j) => j \in got'[t]
    BY <2>3 DEF Pending
  <2>6. CASE Wants[t] = got'[t] /\ pc' = [pc EXCEPT ![t] = "holding"]
             /\ UNCHANGED <<asked, previous, locks, queue>>
    <3>1. \A u \in Task : u # t => pc'[u] = pc[u]
      BY <2>6 DEF LockTypeOK
    <3>2. \A j \in Key : ~Pending(t, j)'
      BY <2>6 DEF Pending, LockTypeOK
    <3>3. \A u \in Task : /\ Resolved(u) => Resolved(u)'
                          /\ \A j \in Key : Pending(u, j)' <=> u # t /\ Pending(u, j)
      BY <2>1, <2>6, <3>1, <3>2 DEF Resolved, Pending
    <3> SUFFICES ASSUME NEW k \in Key PROVE QueueInv(k)' /\ PlaceInv(k)'
      OBVIOUS
    <3>4. PICK S \in Seq(Task) : S = queue[k]
      BY DEF LockTypeOK
    <3>5. queue'[k] = S /\ locks'[k] = locks[k] /\ previous' = previous
      BY <2>6, <3>4
    <3>6. \A i \in 1..Len(S) : k \in got'[S[i]] \/ Pending(S[i], k)'
      <4> TAKE i \in 1..Len(S)
      <4>1. S[i] \in Task
        OBVIOUS
      <4>2. k \in got[S[i]] \/ Pending(S[i], k)
        BY <3>4 DEF QueueInv
      <4> QED
        BY <2>3, <2>5, <3>3, <4>1, <4>2
    <3>7. QueueInv(k)'
      BY <3>4, <3>5, <3>6 DEF QueueInv
    <3>8. PlaceInv(k)'
      BY <2>3, <2>4, <3>3, <3>4, <3>5 DEF PlaceInv
    <3> QED
      BY <3>7, <3>8
  <2>7. CASE UNCHANGED pc /\ \E k \in Key : IsNext(Wants[t] \ got'[t], k) /\ Enqueue(t, k)
    <3>1. PICK k \in Key : IsNext(Wants[t] \ got'[t], k) /\ Enqueue(t, k)
      BY <2>7
    <3>2. k \notin got'[t]
      BY <3>1 DEF IsNext
    <3> QED
      BY <2>1, <2>3, <2>4, <2>5, <2>7, <3>1, <3>2, JoinStep
  <2> QED
    BY <1>2, <2>6, <2>7 DEF Resume
<1>3. ASSUME NEW t \in Task, Release(t) PROVE \A k \in Key : QueueInv(k)' /\ PlaceInv(k)'
  BY <1>3, LeaveStep
<1>4. CASE UNCHANGED lockVars
  BY <1>4 DEF lockVars, QueueInv, PlaceInv, Pending, Resolved
<1> QED
  BY <1>1, <1>2, <1>3, <1>4 DEF LockNext, TaskStep, LocksStopped

\* The inductive invariant of the lock map.
THEOREM LockInvariant == LockSpec => []LockInv
<1>1. LockInv /\ [LockNext]_lockVars => LockInv'
  BY TypeStep, PhaseStep, ReleasedStep, QueuesStep DEF LockInv
<1> QED
  BY <1>1, LockInvInit, PTL DEF LockSpec

(***************************************************************************)
(* Every variable of acquire and acquireMany keeps its type.               *)
(***************************************************************************)
THEOREM LockTyping == LockSpec => []LockTypeOK
<1>1. LockInv => LockTypeOK
  BY DEF LockInv
<1> QED
  BY <1>1, LockInvariant, PTL

(***************************************************************************)
(* No two callers hold the same key at the same time, for any number of    *)
(* callers and keys (engine.ts acquire, acquireMany).                      *)
(***************************************************************************)
THEOREM LocksExclude == LockSpec => []MutualExclusion
<1>1. LockInv => MutualExclusion
  <2> SUFFICES ASSUME LockInv, NEW t \in Task, NEW u \in Task, t # u,
                      NEW k \in got[t] \cap got[u]
               PROVE  FALSE
    BY DEF MutualExclusion
  <2>1. k \in Key
    BY DEF LockInv, LockTypeOK
  <2> QED
    BY <2>1 DEF LockInv, PlaceInv
<1> QED
  BY <1>1, LockInvariant, PTL

(***************************************************************************)
(* The promises implement the FIFO locks: nobody overtakes.                *)
(***************************************************************************)
THEOREM LocksAreFifo == LockSpec => FifoLocksSpec
<1>1. LockInit => Fifo!Init
  BY DEF LockInit, Fifo!Init
<1>2. LockInv /\ [LockNext]_lockVars => [Fifo!Next]_(Fifo!vars)
  <2> SUFFICES ASSUME LockInv, [LockNext]_lockVars PROVE [Fifo!Next]_(Fifo!vars)
    OBVIOUS
  <2> USE DEF LockInv
  <2>1. ASSUME NEW t \in Task, Call(t) PROVE Fifo!Call(t)
    BY <2>1, WantsAssumption DEF Call, Fifo!Call, Fifo!Join, Enqueue, IsNext
  <2>2. ASSUME NEW t \in Task, Resume(t) PROVE Fifo!Enter(t, asked[t])
    <3>1. queue[asked[t]] # <<>> /\ queue[asked[t]][1] = t
      BY <2>2, ResolvedIsHead DEF Resume
    <3>2. Head(queue[asked[t]]) = t
      BY <3>1
    <3>3. asked[t] \in Wants[t] \ got[t]
      BY <2>2 DEF Resume, PhaseInv
    <3> QED
      BY <2>2, <3>1, <3>2, <3>3, WantsAssumption
      DEF Resume, Fifo!Enter, Fifo!Join, Enqueue, IsNext
  <2>3. ASSUME NEW t \in Task, Resume(t) PROVE asked[t] \in Key
    BY <2>3, WantsAssumption DEF Resume, PhaseInv
  <2>4. ASSUME NEW t \in Task, Release(t) PROVE Fifo!Release(t)
    BY <2>4 DEF Release, Fifo!Release
  <2>5. CASE UNCHANGED lockVars
    BY <2>5 DEF lockVars, Fifo!vars
  <2> QED
    BY <2>1, <2>2, <2>3, <2>4, <2>5 DEF LockNext, TaskStep, LocksStopped, Fifo!Next
<1> QED
  BY <1>1, <1>2, LockInvariant, PTL DEF LockSpec, FifoLocksSpec, Fifo!Spec

-----------------------------------------------------------------------------
(* Nobody waits for ever: the part of it that is a safety property.        *)

\* A set of numbers that is not empty has a least one: induction is the absence of a least counterexample.
LEMMA LeastNat ==
  ASSUME NEW T \in SUBSET Nat, T # {}
  PROVE  \E n \in T : \A m \in T : n <= m
<1>1. PICK x \in T : \A y \in T : ~(<<y, x>> \in OpToRel(<, Nat))
  BY WFMin, NatLessThanWellFounded, Zenon
<1>2. \A y \in T : ~(y < x)
  BY <1>1, Zenon DEF OpToRel
<1> QED
  BY <1>2

\* Keys are asked for in their order: those it has are before, those it still wants are not.
OrderInv ==
  \A t \in Task : pc[t] = "waiting" =>
    /\ \A j \in got[t] : j < asked[t]
    /\ \A j \in Wants[t] \ got[t] : asked[t] <= j

\* If somebody waits, the work of somebody under its locks is under way, or
\* the promise somebody awaits is resolved.
SomebodyGoesOn ==
  (\E t \in Task : pc[t] = "waiting") =>
    \E u \in Task : pc[u] = "holding" \/ (pc[u] = "waiting" /\ Resolved(u))

\* The next key asked for is the least of the rest.
LEMMA OrderStep == LockInv /\ OrderInv /\ [LockNext]_lockVars => OrderInv'
<1> SUFFICES ASSUME LockInv, OrderInv, [LockNext]_lockVars
             PROVE  OrderInv'
  OBVIOUS
<1>0. /\ LockTypeOK /\ PhaseInv /\ Key \subseteq Int
      /\ \A t \in Task : Wants[t] \subseteq Key /\ got[t] \subseteq Key
  BY WantsAssumption DEF LockInv, LockTypeOK
<1>1. ASSUME NEW t \in Task, Call(t)
      PROVE  OrderInv'
  <2>1. PICK k \in Key : IsNext(Wants[t], k) /\ Enqueue(t, k)
    BY <1>1 DEF Call
  <2>2. got' = got /\ pc' = [pc EXCEPT ![t] = "waiting"] /\ asked' = [asked EXCEPT ![t] = k] /\ got[t] = {}
    BY <1>0, <1>1, <2>1 DEF Call, Enqueue, PhaseInv
  <2>3. asked'[t] = k /\ \A u \in Task : u # t => asked'[u] = asked[u] /\ pc'[u] = pc[u]
    BY <1>0, <2>2 DEF LockTypeOK
  <2> QED
    BY <2>1, <2>2, <2>3 DEF OrderInv, IsNext
<1>2. ASSUME NEW t \in Task, Resume(t)
      PROVE  OrderInv'
  <2>1. pc[t] = "waiting" /\ got' = [got EXCEPT ![t] = @ \cup {asked[t]}] /\ asked[t] \in Wants[t]
    BY <1>0, <1>2 DEF Resume, PhaseInv
  <2>2. got'[t] = got[t] \cup {asked[t]} /\ \A u \in Task : u # t => got'[u] = got[u]
    BY <1>0, <2>1 DEF LockTypeOK
  <2>3. CASE pc' = [pc EXCEPT ![t] = "holding"] /\ UNCHANGED asked
    <3>1. pc'[t] = "holding" /\ \A u \in Task : u # t => pc'[u] = pc[u]
      BY <1>0, <2>3 DEF LockTypeOK
    <3> QED
      BY <2>2, <2>3, <3>1 DEF OrderInv
  <2>4. CASE UNCHANGED pc /\ \E k \in Key : IsNext(Wants[t] \ got'[t], k) /\ Enqueue(t, k)
    <3>1. PICK k \in Key : IsNext(Wants[t] \ got'[t], k) /\ asked' = [asked EXCEPT ![t] = k]
      BY <2>4 DEF Enqueue
    <3>2. asked'[t] = k /\ \A u \in Task : u # t => asked'[u] = asked[u]
      BY <1>0, <3>1 DEF LockTypeOK
    <3>3. k \in Wants[t] \ got'[t] /\ \A j \in Wants[t] \ got'[t] : k <= j
      BY <3>1 DEF IsNext
    <3>4. /\ \A j \in got[t] : j < asked[t]
          /\ \A j \in Wants[t] \ got[t] : asked[t] <= j
      BY <2>1 DEF OrderInv
    <3>5. asked[t] <= k /\ asked[t] # k /\ asked[t] \in Int /\ k \in Int
      BY <1>0, <2>1, <2>2, <3>3, <3>4
    <3>6. \A j \in got'[t] : j < k
      <4> TAKE j \in got'[t]
      <4>1. CASE j \in got[t]
        <5>1. j \in Int /\ j < asked[t]
          BY <1>0, <3>4, <4>1
        <5> QED
          BY <3>5, <5>1
      <4>2. CASE j = asked[t]
        BY <3>5, <4>2
      <4> QED
        BY <2>2, <4>1, <4>2
    <3> QED
      BY <2>2, <2>4, <3>2, <3>3, <3>6 DEF OrderInv
  <2> QED
    BY <1>2, <2>3, <2>4 DEF Resume
<1>3. ASSUME NEW t \in Task, Release(t)
      PROVE  OrderInv'
  <2>1. pc' = [pc EXCEPT ![t] = "done"] /\ got' = [got EXCEPT ![t] = {}] /\ UNCHANGED asked
    BY <1>3 DEF Release
  <2>2. pc'[t] = "done" /\ \A u \in Task : u # t => pc'[u] = pc[u] /\ got'[u] = got[u]
    BY <1>0, <2>1 DEF LockTypeOK
  <2> QED
    BY <2>1, <2>2 DEF OrderInv
<1>4. CASE UNCHANGED lockVars
  BY <1>4 DEF OrderInv, lockVars
<1> QED
  BY <1>1, <1>2, <1>3, <1>4 DEF LockNext, TaskStep, LocksStopped

\* Who is first of those that wait for a key awaits nothing, or somebody has the key.
LEMMA HeadOfQueue ==
  ASSUME LockInv, NEW t \in Task, pc[t] = "waiting"
  PROVE  \E u \in Task : (pc[u] = "waiting" /\ Resolved(u)) \/ asked[t] \in got[u]
<1> DEFINE k == asked[t]
<1>1. k \in Key /\ Pending(t, k)
  BY WantsAssumption DEF LockInv, PhaseInv, Pending
<1>2. queue[k] \in Seq(Task) /\ QueueInv(k) /\ PlaceInv(k)
  BY <1>1 DEF LockInv, LockTypeOK
<1>3. PICK i \in 1..Len(queue[k]) : queue[k][i] = t
  BY <1>1, <1>2 DEF PlaceInv
<1>4. 1 \in 1..Len(queue[k]) /\ queue[k][1] \in Task
  BY <1>2, <1>3
<1> DEFINE u == queue[k][1]
<1>5. CASE k \in got[u]
  BY <1>4, <1>5
<1>6. CASE Pending(u, k)
  <2>1. PICK l \in 1..Len(queue[k]) : queue[k][l] = u /\ (l = 1 => Resolved(u))
    BY <1>2, <1>4, <1>6 DEF PlaceInv
  <2>2. l = 1
    BY <1>2, <1>4, <2>1 DEF QueueInv
  <2> QED
    BY <1>4, <1>6, <2>1, <2>2 DEF Pending
<1> QED
  BY <1>2, <1>4, <1>5, <1>6 DEF QueueInv

\* The holder of the last key anybody waits for does not wait itself.
LEMMA LastKeyIsFree ==
  ASSUME LockInv, OrderInv, NEW top \in Int, \A k \in Key : k <= top
  PROVE  SomebodyGoesOn
<1> SUFFICES ASSUME NEW s \in Task, pc[s] = "waiting"
             PROVE  \E u \in Task : pc[u] = "holding" \/ (pc[u] = "waiting" /\ Resolved(u))
  BY DEF SomebodyGoesOn
<1>1. pc \in [Task -> {"idle", "waiting", "holding", "done"}]
  BY DEF LockInv, LockTypeOK
<1>2. \A t \in Task : pc[t] = "waiting" => asked[t] \in Int /\ asked[t] <= top
  <2> SUFFICES ASSUME NEW t \in Task, pc[t] = "waiting"
               PROVE  asked[t] \in Int /\ asked[t] <= top
    OBVIOUS
  <2>1. asked[t] \in Key /\ Key \subseteq Int
    BY WantsAssumption DEF LockInv, PhaseInv
  <2> QED
    BY <2>1
<1> DEFINE D == {d \in Nat : \E t \in Task : pc[t] = "waiting" /\ d = top - asked[t]}
<1>3. \A t \in Task : pc[t] = "waiting" => top - asked[t] \in D
  BY <1>2
<1>4. PICK d \in D : \A e \in D : d <= e
  <2>1. D \in SUBSET Nat /\ D # {}
    BY <1>3
  <2> HIDE DEF D
  <2> QED
    BY <2>1, LeastNat
<1>5. PICK t \in Task : pc[t] = "waiting" /\ d = top - asked[t]
  BY <1>4
<1>6. \A u \in Task : pc[u] = "waiting" => asked[u] <= asked[t]
  <2> SUFFICES ASSUME NEW u \in Task, pc[u] = "waiting"
               PROVE  asked[u] <= asked[t]
    OBVIOUS
  <2>1. top - asked[t] <= top - asked[u]
    BY <1>3, <1>4, <1>5
  <2>2. asked[u] \in Int /\ asked[t] \in Int
    BY <1>2, <1>5
  <2> QED
    BY <2>1, <2>2
<1>7. PICK u \in Task : (pc[u] = "waiting" /\ Resolved(u)) \/ asked[t] \in got[u]
  BY <1>5, HeadOfQueue
<1>8. CASE asked[t] \in got[u] /\ pc[u] # "holding"
  <2>1. pc[u] = "waiting"
    BY <1>1, <1>8 DEF LockInv, PhaseInv
  <2>2. asked[t] < asked[u]
    BY <1>8, <2>1 DEF OrderInv
  <2>3. asked[u] <= asked[t] /\ asked[u] \in Int /\ asked[t] \in Int
    BY <1>2, <1>5, <1>6, <2>1
  <2> QED
    BY <2>2, <2>3
<1> QED
  BY <1>7, <1>8

(***************************************************************************)
(* Calls that hold some locks and wait for others never form a circle: as  *)
(* long as one waits, one goes on, because acquireMany sorts its keys      *)
(* (engine.ts, acquireMany), for any number of calls on finitely many      *)
(* keys, which their order bounds.                                         *)
(***************************************************************************)
THEOREM LocksNeverDeadlock ==
  ASSUME NEW top \in Int, \A k \in Key : k <= top
  PROVE  LockSpec => []SomebodyGoesOn
<1>1. LockInit => OrderInv
  BY DEF LockInit, OrderInv
<1>2. LockInv /\ OrderInv => SomebodyGoesOn
  BY LastKeyIsFree
<1> QED
  BY <1>1, <1>2, OrderStep, LockInvariant, PTL DEF LockSpec

-----------------------------------------------------------------------------
(***************************************************************************)
(* The sagas.                                                              *)
(***************************************************************************)

LastEntry == Last(journal[saga])

\* A saga runs: it has completed its first steps.
RunningInv ==
  Doing \/ Undoing =>
    /\ HasSaga
    /\ journal[saga] # <<>>
    /\ \A i \in 1..Len(completed) : completed[i] = i

\* It has completed the steps before the next one.
DoingInv ==
  Doing =>
    /\ step <= Len(Steps) + 1 /\ Len(completed) = step - 1
    /\ phase # "do" => step <= Len(Steps)
    /\ LastEntry.type \in {"SagaStarted", "SagaStepCompleted"} /\ LastEntry.step = step - 1

\* Those before its last entry it has undone or could not undo.
UndoingInv ==
  Undoing =>
    /\ step <= Len(Steps)
    /\ phase # "undo" => HasCommand
    /\ LastEntry.type \in {"SagaStepFailed", "SagaCompensated", "SagaCompensationFailed"}
    /\ Len(completed) < LastEntry.step /\ LastEntry.step <= step
    /\ ToUndo(Steps, LastEntry.step) \subseteq 1..Len(completed)
    /\ Logged(saga, "SagaStepFailed", step)

\* Nothing is written of the sagas to come.
UnwrittenInv ==
  \A s \in 1..MaxSagas : s > saga \/ (s = saga /\ phase \in {"trigger", "next"}) => journal[s] = <<>>

SagaInv ==
  /\ RunningInv /\ DoingInv /\ UndoingInv /\ UnwrittenInv
  /\ JournalFollowsLifecycle

\* Plans have the sagas and steps they are bounded by.
LEMMA PlanTyped ==
  ASSUME TypeOK
  PROVE  /\ plan \in Plan
         /\ Len(plan.sagas) \in 0..MaxSagas
         /\ \A s \in 1..Len(plan.sagas) : plan.sagas[s] \in Seq(Step) /\ Len(plan.sagas[s]) \in 0..MaxSteps
<1>1. plan \in Plan /\ plan.sagas \in Seq(Seq(Step))
  BY PlansAssumption DEF TypeOK, Plan
<1>2. /\ Len(plan.sagas) <= MaxSagas
      /\ \A s \in DOMAIN plan.sagas : Len(plan.sagas[s]) <= MaxSteps
  BY PlansAssumption DEF TypeOK
<1>3. /\ Len(plan.sagas) \in Nat /\ DOMAIN plan.sagas = 1..Len(plan.sagas)
      /\ \A s \in 1..Len(plan.sagas) : plan.sagas[s] \in Seq(Step)
  BY <1>1
<1>4. \A s \in 1..Len(plan.sagas) : Len(plan.sagas[s]) \in Nat
  BY <1>3
<1> QED
  BY <1>1, <1>2, <1>3, <1>4, BoundsAssumption

\* The steps of the saga at hand.
LEMMA StepsTyped ==
  ASSUME TypeOK, HasSaga
  PROVE  saga \in 1..MaxSagas /\ saga \in 1..Len(plan.sagas) /\ Steps \in Seq(Step) /\ Len(Steps) \in 0..MaxSteps
<1>1. saga \in 1..(MaxSagas + 1) /\ saga <= Len(plan.sagas)
  BY DEF TypeOK, HasSaga
<1> QED
  BY <1>1, PlanTyped, BoundsAssumption DEF Steps

\* The command at hand: of the next step, or of the last one completed.
LEMMA CommandTyped ==
  ASSUME SagaInv, HasCommand
  PROVE  /\ Command \in Action
         /\ Doing => ~Undoing /\ step \in 1..Len(Steps)
         /\ Undoing => /\ ~Doing /\ completed # <<>> /\ UndoNext = Len(completed)
                       /\ UndoNext \in 1..(step - 1) /\ UndoNext \in 1..Len(Steps) /\ Steps[UndoNext].undo # NoUndo
<1>0. TypeOK /\ (Doing \/ Undoing) /\ HasSaga
  BY DEF SagaInv, JournalFollowsLifecycle, HasCommand, RunningInv
<1>1. Steps \in Seq(Step) /\ Len(Steps) \in 0..MaxSteps
  BY <1>0, StepsTyped
<1>2. ~(Doing /\ Undoing)
  BY DEF Doing, Undoing
<1>3. CASE Doing
  <2>1. step \in 1..Len(Steps)
    BY <1>0, <1>1, <1>2, <1>3 DEF HasCommand, HasStep, TypeOK
  <2>2. Steps[step] \in Step
    BY <1>1, <2>1
  <2> QED
    BY <1>2, <1>3, <2>1, <2>2 DEF Command, Step
<1>4. CASE Undoing
  <2>1. completed # <<>> /\ Steps[UndoNext].undo # NoUndo
    BY <1>2, <1>4 DEF HasCommand
  <2>2. completed \in Seq(1..MaxSteps) /\ Len(completed) \in Nat \ {0}
    BY <1>0, <2>1 DEF TypeOK
  <2>3. UndoNext = Len(completed)
    BY <1>4, <2>2 DEF UndoNext, Last, SagaInv, RunningInv
  <2>4. Len(completed) < step /\ step <= Len(Steps)
    <3>1. Len(completed) < LastEntry.step /\ LastEntry.step <= step /\ step <= Len(Steps)
      BY <1>4 DEF SagaInv, UndoingInv
    <3>2. step \in Nat /\ LastEntry.step \in Nat
      <4>1. journal[saga] \in Seq(Entry) /\ journal[saga] # <<>>
        BY <1>0, StepsTyped DEF TypeOK, SagaInv, RunningInv
      <4>2. LastEntry \in Entry
        BY <4>1 DEF LastEntry, Last
      <4> QED
        BY <1>0, <4>2, BoundsAssumption DEF Entry, TypeOK
    <3> QED
      BY <2>2, <3>1, <3>2
  <2>5. UndoNext \in 1..(step - 1) /\ UndoNext \in 1..Len(Steps)
    BY <1>0, <1>1, <2>2, <2>3, <2>4 DEF TypeOK
  <2>6. Steps[UndoNext] \in Step
    BY <1>1, <2>5
  <2> QED
    BY <1>2, <1>4, <2>1, <2>3, <2>5, <2>6 DEF Command, Step
<1> QED
  BY <1>0, <1>3, <1>4

\* Without its last completed step.
LEMMA FrontTyped ==
  ASSUME NEW S, NEW q \in Seq(S), q # <<>>
  PROVE  /\ Front(q) \in Seq(S)
         /\ Len(q) \in Nat \ {0} /\ Len(Front(q)) = Len(q) - 1
         /\ \A i \in 1..Len(Front(q)) : Front(q)[i] = q[i]
<1> DEFINE m == Len(q) - 1
<1>1. m \in Nat /\ \A i \in 1..m : q[i] \in S
  OBVIOUS
<1>2. Front(q) = SubSeq(q, 1, m)
  BY DEF Front
<1> HIDE DEF m
<1>3. /\ Front(q) \in Seq(S) /\ Len(Front(q)) = IF 1 <= m THEN m - 1 + 1 ELSE 0
      /\ \A i \in 1..(m - 1 + 1) : Front(q)[i] = q[1 + i - 1]
  BY <1>1, <1>2, SubSeqProperties
<1>4. Len(Front(q)) = m /\ \A i \in 1..m : Front(q)[i] = q[i]
  BY <1>1, <1>3
<1> QED
  BY <1>1, <1>3, <1>4 DEF m

\* One more entry of a journal, or one more completed step.
LEMMA AppendTyped ==
  ASSUME NEW S, NEW q \in Seq(S), NEW e \in S
  PROVE  /\ Append(q, e) \in Seq(S) /\ Append(q, e) # <<>>
         /\ Len(q) \in Nat /\ Len(Append(q, e)) = Len(q) + 1
         /\ Append(q, e)[Len(q) + 1] = e
         /\ \A i \in 1..Len(q) : Append(q, e)[i] = q[i]
OBVIOUS

\* What an entry adds to the journal of the saga at hand.
LEMMA Written ==
  ASSUME TypeOK, saga \in 1..MaxSagas, NEW type \in EntryType, NEW n \in 0..MaxSteps, Write(type, n)
  PROVE  /\ journal' \in [1..MaxSagas -> Seq(Entry)]
         /\ \A s \in 1..MaxSagas : s # saga => journal'[s] = journal[s]
         /\ journal'[saga] = Append(journal[saga], [type |-> type, step |-> n])
         /\ Len(journal[saga]) \in Nat /\ Len(journal'[saga]) = Len(journal[saga]) + 1
         /\ journal'[saga][Len(journal[saga]) + 1] = [type |-> type, step |-> n]
         /\ \A i \in 1..Len(journal[saga]) : journal'[saga][i] = journal[saga][i]
         /\ journal'[saga] # <<>> /\ Last(journal'[saga]) = [type |-> type, step |-> n]
<1> DEFINE e == [type |-> type, step |-> n]
           q == journal[saga]
<1>1. e \in Entry /\ q \in Seq(Entry)
  BY DEF Entry, TypeOK
<1>2. journal' = [journal EXCEPT ![saga] = Append(q, e)]
  BY DEF Write
<1>3. /\ Append(q, e) \in Seq(Entry) /\ Append(q, e) # <<>>
      /\ Len(q) \in Nat /\ Len(Append(q, e)) = Len(q) + 1
      /\ Append(q, e)[Len(q) + 1] = e
      /\ \A i \in 1..Len(q) : Append(q, e)[i] = q[i]
  BY <1>1, AppendTyped
<1>4. /\ journal' \in [1..MaxSagas -> Seq(Entry)]
      /\ journal'[saga] = Append(q, e)
      /\ \A s \in 1..MaxSagas : s # saga => journal'[s] = journal[s]
  BY <1>2, <1>3 DEF TypeOK
<1> QED
  BY <1>3, <1>4 DEF Last

\* What the journals record, a step that writes one entry adds that entry to.
LEMMA WrittenLogged ==
  ASSUME TypeOK, saga \in 1..MaxSagas, NEW type \in EntryType, NEW n \in 0..MaxSteps, Write(type, n)
  PROVE  /\ \A s \in 1..MaxSagas : \A t, k : Logged(s, t, k) => Logged(s, t, k)'
         /\ \A s \in 1..MaxSagas : \A t, k : Logged(s, t, k)' => Logged(s, t, k) \/ (s = saga /\ t = type /\ k = n)
         /\ \A s \in 1..MaxSagas : s = saga => Logged(s, type, n)'
<1>1. ASSUME NEW s \in 1..MaxSagas, s # saga, NEW t, NEW k
      PROVE  Logged(s, t, k)' <=> Logged(s, t, k)
  BY <1>1, Written DEF Logged
<1> DEFINE q == journal[saga]
           r == journal'[saga]
<1>2. /\ Len(q) \in Nat /\ Len(r) = Len(q) + 1 /\ r[Len(q) + 1] = [type |-> type, step |-> n]
      /\ \A i \in 1..Len(q) : r[i] = q[i]
  BY Written
<1>3. ASSUME NEW s \in 1..MaxSagas, s = saga, NEW t, NEW k
      PROVE  /\ Logged(s, t, k) <=> \E i \in 1..Len(q) : q[i] = [type |-> t, step |-> k]
             /\ Logged(s, t, k)' <=> \E i \in 1..Len(r) : r[i] = [type |-> t, step |-> k]
  BY <1>3 DEF Logged
<1> HIDE DEF q, r
<1>4. \A i \in 1..Len(r) : i \in 1..Len(q) \/ i = Len(q) + 1
  BY <1>2
<1>5. /\ \A i \in 1..Len(q) : i \in 1..Len(r)
      /\ Len(q) + 1 \in 1..Len(r)
  BY <1>2
<1>6. ASSUME NEW s \in 1..MaxSagas, s = saga, NEW t, NEW k
      PROVE  /\ Logged(s, t, k) => Logged(s, t, k)'
             /\ Logged(s, t, k)' => Logged(s, t, k) \/ (t = type /\ k = n)
             /\ t = type /\ k = n => Logged(s, t, k)'
  <2>1. /\ Logged(s, t, k) <=> \E i \in 1..Len(q) : q[i] = [type |-> t, step |-> k]
        /\ Logged(s, t, k)' <=> \E i \in 1..Len(r) : r[i] = [type |-> t, step |-> k]
    BY <1>3, <1>6
  <2>2. [type |-> t, step |-> k] = [type |-> type, step |-> n] => t = type /\ k = n
    OBVIOUS
  <2> QED
    BY <1>2, <1>4, <1>5, <2>1, <2>2
<1> QED
  BY <1>1, <1>6

\* One more entry that may follow the last one.
LEMMA WrittenFollows ==
  ASSUME TypeOK, HasSaga, NEW type \in EntryType, NEW n \in 0..MaxSteps, Write(type, n), UNCHANGED plan,
         FollowsLifecycle(saga),
         journal[saga] = <<>> => type = "SagaStarted" /\ n = 0,
         journal[saga] # <<>> => MayFollow(Steps, LastEntry, [type |-> type, step |-> n]),
         type = "SagaFailed" => Logged(saga, "SagaStepFailed", n)
  PROVE  \A s \in 1..Len(plan.sagas) : FollowsLifecycle(s) => FollowsLifecycle(s)'
<1>0. saga \in 1..MaxSagas /\ saga \in 1..Len(plan.sagas) /\ 1..Len(plan.sagas) \subseteq 1..MaxSagas
  BY StepsTyped, PlanTyped, BoundsAssumption
<1>1. ASSUME NEW s \in 1..Len(plan.sagas), s # saga, FollowsLifecycle(s)
      PROVE  FollowsLifecycle(s)'
  <2>1. journal'[s] = journal[s] /\ plan' = plan
    BY <1>0, <1>1, Written
  <2>2. \A t, k : Logged(s, t, k)' <=> Logged(s, t, k)
    BY <2>1 DEF Logged
  <2> QED
    BY <1>1, <2>1, <2>2 DEF FollowsLifecycle
<1>2. ASSUME NEW s \in 1..Len(plan.sagas), s = saga
      PROVE  FollowsLifecycle(s)'
  <2> DEFINE q == journal[s]
             r == journal'[s]
             e == [type |-> type, step |-> n]
             May(d, f) == MayFollow(plan.sagas[s], d, f)
  <2>1. /\ Len(q) \in Nat /\ Len(r) = Len(q) + 1 /\ r[Len(q) + 1] = e
        /\ \A i \in 1..Len(q) : r[i] = q[i]
        /\ q = <<>> => Len(q) = 0
        /\ q # <<>> => Len(q) # 0
    <3>1. q \in Seq(Entry)
      BY <1>0, <1>2 DEF TypeOK
    <3>2. /\ q = <<>> => Len(q) = 0
          /\ q # <<>> => Len(q) # 0
      BY <3>1
    <3>3. /\ Len(journal[saga]) \in Nat /\ Len(journal'[saga]) = Len(journal[saga]) + 1
          /\ journal'[saga][Len(journal[saga]) + 1] = e
          /\ \A i \in 1..Len(journal[saga]) : journal'[saga][i] = journal[saga][i]
      BY <1>0, Written
    <3> QED
      BY <1>2, <3>2, <3>3
  <2>2. /\ q # <<>> => q[1] = [type |-> "SagaStarted", step |-> 0] /\ May(q[Len(q)], e)
        /\ q = <<>> => e = [type |-> "SagaStarted", step |-> 0]
        /\ \A i \in 2..Len(q) : May(q[i - 1], q[i])
    BY <1>2 DEF FollowsLifecycle, LastEntry, Last, Steps
  <2> HIDE DEF q, r, e, May
  <2>3. r[1] = [type |-> "SagaStarted", step |-> 0]
    BY <2>1, <2>2
  <2>4. ASSUME NEW i \in 2..Len(r)
        PROVE  May(r[i - 1], r[i])
    <3>1. CASE i = Len(q) + 1
      <4>1. i - 1 = Len(q) /\ Len(q) \in 1..Len(q) /\ q # <<>>
        BY <2>1, <2>4, <3>1
      <4> QED
        BY <2>1, <2>2, <3>1, <4>1
    <3>2. CASE i # Len(q) + 1
      <4>1. i \in 2..Len(q) /\ i \in 1..Len(q) /\ i - 1 \in 1..Len(q)
        BY <2>1, <2>4, <3>2
      <4> QED
        BY <2>1, <2>2, <4>1
    <3> QED
      BY <3>1, <3>2
  <2>5. \A k \in 0..MaxSteps : Logged(s, "SagaFailed", k)' => Logged(s, "SagaStepFailed", k)'
    <3>1. ASSUME NEW k \in 0..MaxSteps, Logged(s, "SagaFailed", k)'
          PROVE  Logged(s, "SagaStepFailed", k)
      <4>1. Logged(s, "SagaFailed", k) \/ (type = "SagaFailed" /\ k = n)
        BY <1>0, <1>2, <3>1, WrittenLogged
      <4> QED
        BY <1>2, <3>1, <4>1 DEF FollowsLifecycle
    <3> QED
      BY <1>0, <1>2, <3>1, WrittenLogged
  <2>6. \A i \in 2..Len(r) : MayFollow(plan'.sagas[s], r[i - 1], r[i])
    BY <2>4 DEF May
  <2> QED
    BY <2>3, <2>5, <2>6 DEF FollowsLifecycle, r, MayFollow, ToUndo
<1> QED
  BY <1>1, <1>2

\* A saga that has failed or completed writes no more.
LEMMA FailedLast ==
  ASSUME TypeOK, NEW s \in 1..Len(plan.sagas), FollowsLifecycle(s), NEW k, Logged(s, "SagaFailed", k)
  PROVE  journal[s] # <<>> /\ Last(journal[s]).type = "SagaFailed"
<1> DEFINE q == journal[s]
<1>1. q \in Seq(Entry)
  BY PlanTyped, BoundsAssumption DEF TypeOK
<1>2. PICK i \in 1..Len(q) : q[i] = [type |-> "SagaFailed", step |-> k]
  BY DEF Logged
<1>3. CASE i = Len(q)
  BY <1>1, <1>2, <1>3 DEF Last
<1>4. CASE i # Len(q)
  <2>1. i + 1 \in 2..Len(q) /\ (i + 1) - 1 = i
    BY <1>1, <1>4
  <2>2. MayFollow(plan.sagas[s], q[i], q[i + 1])
    BY <2>1 DEF FollowsLifecycle
  <2> QED
    BY <1>2, <2>2 DEF MayFollow
<1> QED
  BY <1>3, <1>4

\* What a step or a compensation comes to is written.
LEMMA OutcomeTyped ==
  ASSUME SagaInv, HasCommand, Succeeds \/ Fails
  PROVE  /\ phase' \in {"do", "undo"}
         /\ step' \in 1..(MaxSteps + 1)
         /\ completed' \in Seq(1..MaxSteps)
         /\ journal' \in [1..MaxSagas -> Seq(Entry)]
<1>0. TypeOK /\ HasSaga /\ (Doing \/ Undoing)
  BY DEF SagaInv, JournalFollowsLifecycle, HasCommand, RunningInv
<1>1. saga \in 1..MaxSagas /\ Len(Steps) \in 0..MaxSteps /\ step \in 1..(MaxSteps + 1) /\ completed \in Seq(1..MaxSteps)
  BY <1>0, StepsTyped DEF TypeOK
<1>2. CASE Doing
  <2>1. step \in 1..MaxSteps /\ step \in 0..MaxSteps /\ step + 1 \in 1..(MaxSteps + 1)
    BY <1>1, <1>2, CommandTyped, BoundsAssumption
  <2>2. Append(completed, step) \in Seq(1..MaxSteps)
    BY <1>1, <2>1
  <2>3. StepSucceeds \/ StepFails
    BY <1>2 DEF Succeeds, Fails
  <2>4. {"SagaStepCompleted", "SagaStepFailed"} \subseteq EntryType
    BY DEF EntryType
  <2> QED
    BY <1>0, <1>1, <2>1, <2>2, <2>3, <2>4, Written DEF StepSucceeds, StepFails
<1>3. CASE Undoing
  <2>1. completed # <<>> /\ UndoNext \in 0..MaxSteps /\ ~Doing
    BY <1>1, <1>3, CommandTyped, BoundsAssumption
  <2>2. Front(completed) \in Seq(1..MaxSteps)
    BY <1>1, <2>1, FrontTyped
  <2>3. CompensationSucceeds \/ CompensationFails
    BY <2>1 DEF Succeeds, Fails
  <2>4. {"SagaCompensated", "SagaCompensationFailed"} \subseteq EntryType
    BY DEF EntryType
  <2> QED
    BY <1>0, <1>1, <2>1, <2>2, <2>3, <2>4, Written DEF CompensationSucceeds, CompensationFails
<1> QED
  BY <1>0, <1>2, <1>3

\* Who answers, throws or ends runs the command at hand.
LEMMA OutcomeHasCommand ==
  ASSUME SagaInv, CommandAnswered \/ CommandThrows \/ CommandDone \/ CommandCommitsAndThrows
  PROVE  HasCommand /\ (Succeeds \/ Fails) /\ UNCHANGED <<plan, saga>>
<1>1. HasCommand
  <2>1. CASE CommandAnswered \/ CommandThrows
    BY <2>1 DEF CommandAnswered, CommandThrows
  <2>2. CASE CommandDone \/ CommandCommitsAndThrows
    <3>1. phase \in {"doPost", "undoPost"}
      BY <2>2 DEF CommandDone, CommandCommitsAndThrows
    <3>2. phase = "undoPost" => HasCommand
      BY DEF SagaInv, UndoingInv, Undoing
    <3>3. phase = "doPost" => HasCommand
      BY DEF SagaInv, DoingInv, Doing, HasCommand, HasStep
    <3> QED
      BY <3>1, <3>2, <3>3
  <2> QED
    BY <2>1, <2>2
<1>2. Succeeds \/ Fails
  BY Zenon DEF CommandAnswered, CommandThrows, CommandDone, CommandCommitsAndThrows
<1>3. UNCHANGED <<plan, saga>>
  BY Zenon DEF CommandAnswered, CommandThrows, CommandDone, CommandCommitsAndThrows
<1> QED
  BY <1>1, <1>2, <1>3

\* Who commits has queued for the command at hand.
LEMMA CommitHasCommand ==
  ASSUME SagaInv, CommandCommits
  PROVE  HasCommand
<1>1. Waiting
  BY DEF CommandCommits
<1>2. phase = "doLocks" => HasCommand
  BY DEF SagaInv, DoingInv, Doing, HasCommand, HasStep
<1>3. phase = "undoLocks" => HasCommand
  BY DEF SagaInv, UndoingInv, Undoing
<1> QED
  BY <1>1, <1>2, <1>3 DEF Waiting

\* Every variable of the sagas keeps its type.
LEMMA SagaTypeStep ==
  ASSUME SagaInv, [Next]_vars
  PROVE  TypeOK'
<1>0. /\ TypeOK
      /\ plan \in Plans /\ phase \in Running \cup {"finished", "failed"}
      /\ saga \in 1..(MaxSagas + 1) /\ step \in 1..(MaxSteps + 1)
      /\ completed \in Seq(1..MaxSteps) /\ journal \in [1..MaxSagas -> Seq(Entry)]
      /\ held \in SUBSET (Aggregate \cup Operation \cup {Cascade}) /\ recorded \in SUBSET Operation
      /\ executed \in SUBSET StepId /\ undone \in SUBSET StepId
  BY DEF SagaInv, JournalFollowsLifecycle, TypeOK
<1>1. HasSaga => saga \in 1..MaxSagas /\ saga + 1 \in 1..(MaxSagas + 1) /\ Len(Steps) \in 0..MaxSteps
  BY <1>0, StepsTyped, BoundsAssumption
<1>2. HasCommand => /\ Command.op \in Operation
                    /\ Doing => <<saga, step>> \in StepId
                    /\ Undoing => <<saga, UndoNext>> \in StepId
  <2> SUFFICES ASSUME HasCommand
               PROVE  /\ Command.op \in Operation
                      /\ Doing => <<saga, step>> \in StepId
                      /\ Undoing => <<saga, UndoNext>> \in StepId
    OBVIOUS
  <2>1. HasSaga
    BY DEF SagaInv, RunningInv, HasCommand
  <2>2. \A n \in 1..Len(Steps) : <<saga, n>> \in StepId
    BY <1>1, <2>1, BoundsAssumption DEF StepId
  <2> QED
    BY <2>2, CommandTyped DEF Action
<1>3. /\ 1 \in 1..(MaxSteps + 1) /\ 0 \in 0..MaxSteps /\ <<>> \in Seq(1..MaxSteps)
      /\ {} \in SUBSET (Aggregate \cup Operation \cup {Cascade})
  BY BoundsAssumption
<1>4. CASE \/ ConditionThrows \/ FinishSagas \/ UndoArgumentsThrow \/ CommandQueues \/ PostCommitStep
           \/ TriggerDone \/ TriggerThrows \/ SkipSaga \/ UNCHANGED vars
  <2>1. UNCHANGED <<plan, step, completed, journal, recorded, executed, undone>>
    BY <1>4, Zenon DEF ConditionThrows, FinishSagas, UndoArgumentsThrow, CommandQueues, PostCommitStep,
                       TriggerDone, TriggerThrows, SkipSaga, vars
  <2>2. held' = held \/ held' = {}
    BY <1>4, Zenon DEF ConditionThrows, FinishSagas, UndoArgumentsThrow, CommandQueues, PostCommitStep,
                       TriggerDone, TriggerThrows, SkipSaga, vars
  <2>3. saga' = saga \/ (HasSaga /\ saga' = saga + 1)
    BY <1>4, Zenon DEF ConditionThrows, FinishSagas, UndoArgumentsThrow, CommandQueues, PostCommitStep,
                       TriggerDone, TriggerThrows, SkipSaga, vars
  <2>4. phase' \in Running \cup {"finished", "failed"}
    BY <1>0, <1>4 DEF ConditionThrows, FinishSagas, UndoArgumentsThrow, CommandQueues, PostCommitStep,
                      TriggerDone, TriggerThrows, SkipSaga, vars, Running
  <2> QED
    BY <1>0, <1>1, <1>3, <2>1, <2>2, <2>3, <2>4 DEF TypeOK
<1>5. CASE StartSaga
  <2>1. "SagaStarted" \in EntryType
    BY DEF EntryType
  <2>2. journal' \in [1..MaxSagas -> Seq(Entry)]
    BY <1>0, <1>1, <1>3, <1>5, <2>1, Written DEF StartSaga
  <2> QED
    BY <1>0, <1>3, <1>5, <2>2 DEF StartSaga, TypeOK, Running
<1>6. CASE CompleteSaga \/ FailSaga
  <2>1. HasSaga
    BY <1>6 DEF CompleteSaga, FailSaga, SagaInv, RunningInv, Doing, Undoing
  <2>2. {"SagaCompleted", "SagaFailed"} \subseteq EntryType
    BY DEF EntryType
  <2>3. FailSaga => step \in 0..MaxSteps
    <3>1. FailSaga => step <= Len(Steps)
      BY DEF FailSaga, Undoing, SagaInv, UndoingInv
    <3> QED
      BY <1>0, <1>1, <2>1, <3>1, BoundsAssumption
  <2>4. journal' \in [1..MaxSagas -> Seq(Entry)]
    <3>1. CASE CompleteSaga
      BY <1>0, <1>1, <1>3, <2>1, <2>2, <3>1, Written DEF CompleteSaga
    <3>2. CASE FailSaga
      BY <1>0, <1>1, <2>1, <2>2, <2>3, <3>2, Written DEF FailSaga
    <3> QED
      BY <1>6, <3>1, <3>2
  <2>5. /\ UNCHANGED <<plan, step, completed, held, recorded, executed, undone>>
        /\ phase' = "next" /\ saga' = saga + 1
    BY <1>6, Zenon DEF CompleteSaga, FailSaga
  <2> QED
    BY <1>0, <1>1, <2>1, <2>4, <2>5 DEF TypeOK, Running
<1>7. CASE SkipUndo
  <2>1. Front(completed) \in Seq(1..MaxSteps)
    BY <1>0, <1>7, FrontTyped DEF SkipUndo
  <2> QED
    BY <1>0, <1>7, <2>1 DEF SkipUndo, TypeOK
<1>8. CASE CommandAnswered \/ CommandThrows \/ CommandDone \/ CommandCommitsAndThrows
  <2>1. HasCommand /\ (Succeeds \/ Fails)
    BY <1>8, OutcomeHasCommand
  <2>3. UNCHANGED <<plan, saga, held, executed, undone>>
    BY <1>8, Zenon DEF CommandAnswered, CommandThrows, CommandDone, CommandCommitsAndThrows
  <2>4. recorded' = recorded \/ recorded' = recorded \cup {Command.op}
    BY <1>8 DEF CommandAnswered, CommandThrows, CommandDone, CommandCommitsAndThrows
  <2>5. /\ phase' \in {"do", "undo"} /\ step' \in 1..(MaxSteps + 1)
        /\ completed' \in Seq(1..MaxSteps) /\ journal' \in [1..MaxSagas -> Seq(Entry)]
    BY <2>1, OutcomeTyped
  <2> QED
    BY <1>0, <1>2, <2>1, <2>3, <2>4, <2>5 DEF TypeOK, Running
<1>9. CASE CommandCommits
  <2>1. HasCommand
    BY <1>9, CommitHasCommand
  <2>2. Doing \/ Undoing
    BY <2>1 DEF HasCommand
  <2>3. executed' \in SUBSET StepId /\ undone' \in SUBSET StepId
    BY <1>0, <1>2, <1>9, <2>1, <2>2 DEF CommandCommits, Effect
  <2>4. UNCHANGED <<plan, saga, step, completed, journal, held, recorded>> /\ phase' \in Running
    BY <1>9 DEF CommandCommits, Running
  <2> QED
    BY <1>0, <2>3, <2>4 DEF TypeOK
<1> QED
  BY <1>4, <1>5, <1>6, <1>7, <1>8, <1>9 DEF Next, SagaStep, Stopped

\* Who leaves the journals alone leaves what they record.
LEMMA JournalsRemain ==
  ASSUME UNCHANGED <<plan, journal>>
  PROVE  \A s : /\ FollowsLifecycle(s)' <=> FollowsLifecycle(s)
                /\ Ended(s)' <=> Ended(s)
                /\ \A t, k : Logged(s, t, k)' <=> Logged(s, t, k)
<1>1. ASSUME NEW s, NEW t, NEW k
      PROVE  Logged(s, t, k)' <=> Logged(s, t, k)
  BY DEF Logged
<1>2. ASSUME NEW s
      PROVE  (FollowsLifecycle(s)' <=> FollowsLifecycle(s)) /\ (Ended(s)' <=> Ended(s))
  BY <1>1 DEF FollowsLifecycle, Ended
<1> QED
  BY <1>1, <1>2

\* An entry that may follow keeps all journals right.
LEMMA Wrote ==
  ASSUME SagaInv, HasSaga, NEW type \in EntryType, NEW n \in 0..MaxSteps, Write(type, n), UNCHANGED plan,
         journal[saga] = <<>> => type = "SagaStarted" /\ n = 0,
         journal[saga] # <<>> => MayFollow(Steps, LastEntry, [type |-> type, step |-> n]),
         type = "SagaFailed" => Logged(saga, "SagaStepFailed", n)
  PROVE  /\ \A s \in 1..Len(plan.sagas) : FollowsLifecycle(s)' /\ (s < saga => Ended(s)')
         /\ journal'[saga] # <<>> /\ Last(journal'[saga]) = [type |-> type, step |-> n]
         /\ \A s \in 1..MaxSagas : s > saga => journal'[s] = <<>>
<1>1. TypeOK /\ saga \in 1..MaxSagas /\ saga \in 1..Len(plan.sagas)
      /\ \A s \in 1..Len(plan.sagas) : s \in 1..MaxSagas
  BY StepsTyped, PlanTyped, BoundsAssumption DEF SagaInv, JournalFollowsLifecycle
<1>2. \A s \in 1..Len(plan.sagas) : FollowsLifecycle(s) /\ (s < saga => Ended(s))
  BY DEF SagaInv, JournalFollowsLifecycle
<1>3. \A s \in 1..Len(plan.sagas) : FollowsLifecycle(s)'
  BY <1>1, <1>2, WrittenFollows
<1>4. /\ \A s \in 1..MaxSagas : s # saga => journal'[s] = journal[s]
      /\ journal'[saga] # <<>> /\ Last(journal'[saga]) = [type |-> type, step |-> n]
  BY <1>1, Written
<1>5. ASSUME NEW s \in 1..Len(plan.sagas), s < saga
      PROVE  Ended(s)'
  BY <1>1, <1>2, <1>4, <1>5 DEF Ended
<1>6. \A s \in 1..MaxSagas : s > saga => journal'[s] = <<>>
  BY <1>1, <1>4 DEF SagaInv, UnwrittenInv
<1> QED
  BY <1>3, <1>4, <1>5, <1>6

\* Steps at which a saga stays where it is.
LEMMA StillStep ==
  ASSUME SagaInv, TypeOK', UNCHANGED <<plan, saga, step, completed, journal>>,
         Doing' => Doing /\ (phase' = "do" \/ HasStep),
         Undoing' => Undoing /\ (phase' = "undo" \/ HasCommand),
         phase' \in {"trigger", "next"} => phase \in {"trigger", "next"}
  PROVE  SagaInv'
<1>1. /\ Steps' = Steps /\ (HasSaga' <=> HasSaga) /\ LastEntry' = LastEntry /\ UndoNext' = UndoNext
  BY DEF Steps, HasSaga, LastEntry, UndoNext
<1>2. JournalFollowsLifecycle'
  BY JournalsRemain DEF SagaInv, JournalFollowsLifecycle
<1>3. RunningInv'
  BY <1>1 DEF SagaInv, RunningInv
<1>4. DoingInv'
  BY <1>1 DEF SagaInv, DoingInv, HasStep
<1>5. UndoingInv'
  <2>1. HasCommand /\ Undoing /\ Undoing' => HasCommand'
    <3>1. ~(Doing /\ Undoing)
      BY DEF Doing, Undoing
    <3> QED
      BY <1>1, <3>1 DEF HasCommand
  <2>2. \A t, k : Logged(saga, t, k)' <=> Logged(saga, t, k)
    BY DEF Logged
  <2> QED
    BY <1>1, <2>1, <2>2 DEF SagaInv, UndoingInv
<1>6. UnwrittenInv'
  BY DEF SagaInv, UnwrittenInv
<1> QED
  BY <1>2, <1>3, <1>4, <1>5, <1>6 DEF SagaInv

\* A saga starts.
LEMMA StartStep ==
  ASSUME SagaInv, TypeOK', StartSaga
  PROVE  SagaInv'
<1>1. HasSaga /\ phase = "next" /\ phase' = "do" /\ step' = 1 /\ completed' = <<>> /\ UNCHANGED <<plan, saga>>
  BY DEF StartSaga
<1>2. TypeOK /\ saga \in 1..MaxSagas /\ Len(Steps) \in 0..MaxSteps
  BY <1>1, StepsTyped DEF SagaInv, JournalFollowsLifecycle
<1>3. journal[saga] = <<>>
  BY <1>1, <1>2 DEF SagaInv, UnwrittenInv
<1>4. /\ \A s \in 1..Len(plan.sagas) : FollowsLifecycle(s)' /\ (s < saga => Ended(s)')
      /\ journal'[saga] # <<>> /\ Last(journal'[saga]) = [type |-> "SagaStarted", step |-> 0]
      /\ \A s \in 1..MaxSagas : s > saga => journal'[s] = <<>>
  <2>1. "SagaStarted" \in EntryType /\ 0 \in 0..MaxSteps /\ Write("SagaStarted", 0)
    BY BoundsAssumption DEF EntryType, StartSaga
  <2> QED
    BY <1>1, <1>3, <2>1, Wrote
<1>5. Doing' /\ ~Undoing' /\ HasSaga' /\ Steps' = Steps /\ LastEntry' = [type |-> "SagaStarted", step |-> 0]
  BY <1>1, <1>4 DEF Doing, Undoing, HasSaga, Steps, LastEntry
<1>6. JournalFollowsLifecycle'
  BY <1>1, <1>4 DEF JournalFollowsLifecycle
<1>7. RunningInv'
  BY <1>1, <1>4, <1>5 DEF RunningInv
<1>8. DoingInv'
  BY <1>1, <1>2, <1>5, BoundsAssumption DEF DoingInv
<1>9. UndoingInv' /\ UnwrittenInv'
  BY <1>1, <1>4, <1>5 DEF UndoingInv, UnwrittenInv
<1> QED
  BY <1>6, <1>7, <1>8, <1>9 DEF SagaInv

\* The loop goes on to the next saga, with the journal of this one ended.
LEMMA GoOnStep ==
  ASSUME SagaInv, TypeOK', HasSaga, saga' = saga + 1, phase' = "next", UNCHANGED plan,
         \A s \in 1..Len(plan.sagas) : FollowsLifecycle(s)' /\ (s <= saga => Ended(s)'),
         \A s \in 1..MaxSagas : s > saga => journal'[s] = <<>>
  PROVE  SagaInv'
<1>1. TypeOK /\ saga \in 1..MaxSagas
  BY StepsTyped DEF SagaInv, JournalFollowsLifecycle
<1>2. \A s \in 1..Len(plan.sagas) : s \in Nat /\ (s < saga + 1 => s <= saga)
  BY <1>1
<1>3. JournalFollowsLifecycle'
  BY <1>2 DEF JournalFollowsLifecycle
<1>4. ~Doing' /\ ~Undoing'
  BY DEF Doing, Undoing
<1>5. UnwrittenInv'
  BY <1>1 DEF UnwrittenInv
<1> QED
  BY <1>3, <1>4, <1>5 DEF SagaInv, RunningInv, DoingInv, UndoingInv

\* It passes over a saga that has not been triggered.
LEMMA SkipSagaStep ==
  ASSUME SagaInv, TypeOK', SkipSaga
  PROVE  SagaInv'
<1>1. HasSaga /\ phase = "next" /\ phase' = "next" /\ saga' = saga + 1 /\ UNCHANGED <<plan, journal>>
  BY DEF SkipSaga
<1>2. TypeOK /\ saga \in 1..MaxSagas /\ \A s \in 1..Len(plan.sagas) : s \in Nat
  BY <1>1, StepsTyped DEF SagaInv, JournalFollowsLifecycle
<1>3. \A s \in 1..MaxSagas : s >= saga => journal[s] = <<>>
  BY <1>1, <1>2 DEF SagaInv, UnwrittenInv
<1>4. \A s \in 1..Len(plan.sagas) : FollowsLifecycle(s) /\ (s <= saga => Ended(s))
  BY <1>2, <1>3 DEF SagaInv, JournalFollowsLifecycle, Ended
<1> QED
  BY <1>1, <1>2, <1>3, <1>4, JournalsRemain, GoOnStep

\* It has written the last entry of a saga.
LEMMA EndStep ==
  ASSUME SagaInv, TypeOK', CompleteSaga \/ FailSaga
  PROVE  SagaInv'
<1>1. /\ phase' = "next" /\ saga' = saga + 1 /\ UNCHANGED plan
      /\ \/ Doing /\ ~HasStep /\ Write("SagaCompleted", 0)
         \/ Undoing /\ completed = <<>> /\ Write("SagaFailed", step)
  BY DEF CompleteSaga, FailSaga, Doing, Undoing
<1>2. HasSaga /\ journal[saga] # <<>>
  BY <1>1 DEF SagaInv, RunningInv
<1>3. /\ TypeOK /\ saga \in 1..MaxSagas /\ Len(Steps) \in 0..MaxSteps /\ step \in 1..(MaxSteps + 1)
      /\ \A s \in 1..Len(plan.sagas) : s \in 1..MaxSagas
  <2>1. TypeOK
    BY DEF SagaInv, JournalFollowsLifecycle
  <2>2. step \in 1..(MaxSteps + 1)
    BY <2>1 DEF TypeOK
  <2>3. saga \in 1..MaxSagas /\ Len(Steps) \in 0..MaxSteps
    BY <1>2, <2>1, StepsTyped
  <2>4. \A s \in 1..Len(plan.sagas) : s \in 1..MaxSagas
    BY <2>1, PlanTyped, BoundsAssumption
  <2> QED
    BY <2>1, <2>2, <2>3, <2>4
<1>4. ASSUME NEW type \in {"SagaCompleted", "SagaFailed"}, NEW n \in 0..MaxSteps, Write(type, n),
             MayFollow(Steps, LastEntry, [type |-> type, step |-> n]),
             type = "SagaFailed" => Logged(saga, "SagaStepFailed", n)
      PROVE  SagaInv'
  <2>1. type \in EntryType /\ type # "SagaStarted"
    BY DEF EntryType
  <2>2. /\ \A s \in 1..Len(plan.sagas) : FollowsLifecycle(s)' /\ (s < saga => Ended(s)')
        /\ Last(journal'[saga]) = [type |-> type, step |-> n]
        /\ \A s \in 1..MaxSagas : s > saga => journal'[s] = <<>>
    BY <1>1, <1>2, <1>4, <2>1, Wrote
  <2>3. \A s \in 1..Len(plan.sagas) : s <= saga => Ended(s)'
    BY <1>3, <1>4, <2>2 DEF Ended, Last
  <2> QED
    BY <1>1, <1>2, <2>2, <2>3, GoOnStep
<1>5. CASE Doing /\ ~HasStep /\ Write("SagaCompleted", 0)
  <2>1. LastEntry.type \in {"SagaStarted", "SagaStepCompleted"} /\ LastEntry.step = step - 1 /\ step - 1 = Len(Steps)
    BY <1>3, <1>5, BoundsAssumption DEF SagaInv, DoingInv, HasStep
  <2> QED
    BY <1>4, <1>5, <2>1, BoundsAssumption DEF MayFollow
<1>6. CASE Undoing /\ completed = <<>> /\ Write("SagaFailed", step)
  <2>1. /\ LastEntry.type \in {"SagaStepFailed", "SagaCompensated", "SagaCompensationFailed"}
        /\ ToUndo(Steps, LastEntry.step) = {} /\ step \in 0..MaxSteps
        /\ Logged(saga, "SagaStepFailed", step)
    BY <1>3, <1>6, BoundsAssumption DEF SagaInv, UndoingInv
  <2> QED
    BY <1>4, <1>6, <2>1 DEF MayFollow
<1> QED
  BY <1>1, <1>5, <1>6

\* A completed step that has no compensation is passed over.
LEMMA SkipUndoStep ==
  ASSUME SagaInv, TypeOK', SkipUndo
  PROVE  SagaInv'
<1>1. /\ phase = "undo" /\ completed # <<>> /\ Steps[UndoNext].undo = NoUndo /\ completed' = Front(completed)
      /\ UNCHANGED <<plan, phase, saga, step, journal>>
  BY DEF SkipUndo
<1>2. Undoing /\ ~Doing /\ Undoing' /\ ~Doing'
  BY <1>1 DEF Undoing, Doing
<1>3. HasSaga /\ TypeOK /\ completed \in Seq(1..MaxSteps)
  BY <1>2 DEF SagaInv, RunningInv, JournalFollowsLifecycle, TypeOK
<1>4. /\ Len(completed) \in Nat \ {0} /\ Len(completed') = Len(completed) - 1
      /\ \A i \in 1..Len(completed') : completed'[i] = completed[i]
  BY <1>1, <1>3, FrontTyped
<1>5. UndoNext = Len(completed) /\ \A i \in 1..Len(completed') : completed'[i] = i
  BY <1>2, <1>4 DEF SagaInv, RunningInv, UndoNext, Last
<1>6. Steps' = Steps /\ (HasSaga' <=> HasSaga) /\ LastEntry' = LastEntry
  BY <1>1 DEF Steps, HasSaga, LastEntry
<1>7. LastEntry.step \in Nat
  <2>1. journal[saga] \in Seq(Entry) /\ journal[saga] # <<>>
    BY <1>2, <1>3, StepsTyped DEF TypeOK, SagaInv, RunningInv
  <2>2. LastEntry \in Entry
    BY <2>1 DEF LastEntry, Last
  <2> QED
    BY <2>2, BoundsAssumption DEF Entry
<1>8. /\ Len(completed') < LastEntry.step
      /\ ToUndo(Steps, LastEntry.step) \subseteq 1..Len(completed')
  <2>1. Len(completed) < LastEntry.step /\ ToUndo(Steps, LastEntry.step) \subseteq 1..Len(completed)
    BY <1>2 DEF SagaInv, UndoingInv
  <2>2. Len(completed) \notin ToUndo(Steps, LastEntry.step)
    BY <1>1, <1>5 DEF ToUndo
  <2> QED
    BY <1>4, <1>7, <2>1, <2>2
<1>9. JournalFollowsLifecycle'
  BY <1>1, JournalsRemain DEF SagaInv, JournalFollowsLifecycle
<1>10. RunningInv' /\ DoingInv'
  BY <1>1, <1>2, <1>3, <1>5, <1>6 DEF SagaInv, RunningInv, DoingInv
<1>11. UndoingInv'
  <2>1. \A t, k : Logged(saga, t, k)' <=> Logged(saga, t, k)
    BY <1>1 DEF Logged
  <2> QED
    BY <1>1, <1>2, <1>6, <1>8, <2>1 DEF SagaInv, UndoingInv
<1>12. UnwrittenInv'
  BY <1>1 DEF SagaInv, UnwrittenInv
<1> QED
  BY <1>9, <1>10, <1>11, <1>12 DEF SagaInv

\* A step or a compensation comes to its outcome.
LEMMA OutcomeStep ==
  ASSUME SagaInv, TypeOK', HasCommand, Succeeds \/ Fails, UNCHANGED <<plan, saga>>
  PROVE  SagaInv'
<1>0. HasSaga /\ (Doing \/ Undoing) /\ journal[saga] # <<>>
  BY DEF SagaInv, HasCommand, RunningInv
<1>1. /\ TypeOK /\ saga \in 1..MaxSagas /\ Len(Steps) \in 0..MaxSteps /\ step \in Nat
      /\ completed \in Seq(1..MaxSteps) /\ Len(completed) \in Nat
  BY <1>0, StepsTyped DEF SagaInv, JournalFollowsLifecycle, TypeOK
<1>2. Steps' = Steps /\ (HasSaga' <=> HasSaga)
  BY DEF Steps, HasSaga
<1>3. ASSUME NEW type \in {"SagaStepCompleted", "SagaStepFailed", "SagaCompensated", "SagaCompensationFailed"},
             NEW n \in 0..MaxSteps, Write(type, n), MayFollow(Steps, LastEntry, [type |-> type, step |-> n])
      PROVE  /\ JournalFollowsLifecycle' /\ (phase' \in {"do", "undo"} => UnwrittenInv')
             /\ journal'[saga] # <<>> /\ LastEntry' = [type |-> type, step |-> n]
             /\ \A t, k : Logged(saga, t, k) => Logged(saga, t, k)'
             /\ Logged(saga, type, n)'
  <2>1. type \in EntryType /\ type # "SagaStarted" /\ type # "SagaFailed"
    BY DEF EntryType
  <2>2. /\ \A s \in 1..Len(plan.sagas) : FollowsLifecycle(s)' /\ (s < saga => Ended(s)')
        /\ journal'[saga] # <<>> /\ Last(journal'[saga]) = [type |-> type, step |-> n]
        /\ \A s \in 1..MaxSagas : s > saga => journal'[s] = <<>>
    BY <1>0, <1>3, <2>1, Wrote
  <2>3. /\ \A s \in 1..MaxSagas : \A t, k : Logged(s, t, k) => Logged(s, t, k)'
        /\ \A s \in 1..MaxSagas : s = saga => Logged(s, type, n)'
    BY <1>1, <1>3, <2>1, WrittenLogged
  <2>4. PICK s \in 1..MaxSagas : s = saga
    BY <1>1
  <2>5. \A t, k : Logged(saga, t, k)' <=> Logged(s, t, k)'
    BY <2>4 DEF Logged
  <2>6. \A t, k : Logged(saga, t, k) <=> Logged(s, t, k)
    BY <2>4 DEF Logged
  <2> QED
    BY <2>2, <2>3, <2>4, <2>5, <2>6 DEF JournalFollowsLifecycle, UnwrittenInv, LastEntry
<1>4. CASE Doing
  <2>1. ~Undoing /\ step \in 1..Len(Steps) /\ step \in 0..MaxSteps
    BY <1>1, <1>4, CommandTyped, BoundsAssumption
  <2>2. /\ Len(completed) = step - 1 /\ \A i \in 1..Len(completed) : completed[i] = i
        /\ LastEntry.type \in {"SagaStarted", "SagaStepCompleted"} /\ LastEntry.step = step - 1
    BY <1>4 DEF SagaInv, RunningInv, DoingInv
  <2>3. \A type \in {"SagaStepCompleted", "SagaStepFailed"} : MayFollow(Steps, LastEntry, [type |-> type, step |-> step])
    BY <1>1, <2>1, <2>2 DEF MayFollow
  <2>4. CASE StepSucceeds
    <3>1. /\ JournalFollowsLifecycle' /\ (phase' \in {"do", "undo"} => UnwrittenInv')
          /\ journal'[saga] # <<>> /\ LastEntry' = [type |-> "SagaStepCompleted", step |-> step]
      BY <1>3, <2>1, <2>3, <2>4 DEF StepSucceeds
    <3>2. phase' = "do" /\ completed' = Append(completed, step) /\ step' = step + 1
      BY <2>4 DEF StepSucceeds
    <3>3. Doing' /\ ~Undoing'
      BY <3>2 DEF Doing, Undoing
    <3>4. /\ Len(completed') = Len(completed) + 1 /\ completed'[Len(completed) + 1] = step
          /\ \A i \in 1..Len(completed) : completed'[i] = completed[i]
      <4>1. step \in 1..MaxSteps
        BY <1>1, <2>1, BoundsAssumption
      <4> QED
        BY <1>1, <3>2, <4>1, AppendTyped
    <3>5. /\ Len(completed') = step' - 1 /\ step' <= Len(Steps) + 1
          /\ \A i \in 1..Len(completed') : completed'[i] = i
      BY <1>1, <2>1, <2>2, <3>2, <3>4
    <3>6. RunningInv' /\ DoingInv' /\ UndoingInv'
      BY <1>0, <1>1, <1>2, <3>1, <3>2, <3>3, <3>5 DEF RunningInv, DoingInv, UndoingInv
    <3> QED
      BY <3>1, <3>2, <3>6 DEF SagaInv
  <2>5. CASE StepFails
    <3>1. /\ JournalFollowsLifecycle' /\ (phase' \in {"do", "undo"} => UnwrittenInv')
          /\ journal'[saga] # <<>> /\ LastEntry' = [type |-> "SagaStepFailed", step |-> step]
          /\ Logged(saga, "SagaStepFailed", step)'
      BY <1>3, <2>1, <2>3, <2>5 DEF StepFails
    <3>2. phase' = "undo" /\ completed' = completed /\ step' = step
      BY <2>5 DEF StepFails
    <3>3. ~Doing' /\ Undoing'
      BY <3>2 DEF Doing, Undoing
    <3>4. ToUndo(Steps, step) \subseteq 1..Len(completed) /\ Len(completed) < step
      BY <1>1, <2>1, <2>2 DEF ToUndo
    <3>5. RunningInv' /\ DoingInv' /\ UndoingInv'
      BY <1>0, <1>1, <1>2, <2>1, <2>2, <3>1, <3>2, <3>3, <3>4 DEF RunningInv, DoingInv, UndoingInv
    <3> QED
      BY <3>1, <3>2, <3>5 DEF SagaInv
  <2> QED
    BY <1>4, <2>4, <2>5 DEF Succeeds, Fails
<1>5. CASE Undoing
  <2> DEFINE m == Len(completed)
  <2>1. /\ ~Doing /\ completed # <<>> /\ UndoNext = m /\ m \in 1..(step - 1) /\ m \in 1..Len(Steps)
        /\ Steps[m].undo # NoUndo
    BY <1>5, CommandTyped
  <2>2. /\ \A i \in 1..m : completed[i] = i
        /\ LastEntry.type \in {"SagaStepFailed", "SagaCompensated", "SagaCompensationFailed"}
        /\ m < LastEntry.step /\ step <= Len(Steps)
        /\ ToUndo(Steps, LastEntry.step) \subseteq 1..m
        /\ Logged(saga, "SagaStepFailed", step)
    BY <1>5 DEF SagaInv, RunningInv, UndoingInv
  <2>3. LastEntry.step \in Nat
    <3>1. journal[saga] \in Seq(Entry)
      BY <1>1 DEF TypeOK
    <3>2. LastEntry \in Entry
      BY <1>0, <3>1 DEF LastEntry, Last
    <3> QED
      BY <3>2, BoundsAssumption DEF Entry
  <2>4. m \in ToUndo(Steps, LastEntry.step) /\ \A k \in ToUndo(Steps, LastEntry.step) : k <= m
    BY <1>1, <2>1, <2>2, <2>3 DEF ToUndo
  <2>5. \A type \in {"SagaCompensated", "SagaCompensationFailed"} : MayFollow(Steps, LastEntry, [type |-> type, step |-> m])
    BY <2>2, <2>4 DEF MayFollow
  <2>6. CompensationSucceeds \/ CompensationFails
    BY <2>1 DEF Succeeds, Fails
  <2>7. PICK type \in {"SagaCompensated", "SagaCompensationFailed"} : Write(type, m)
    BY <2>1, <2>6 DEF CompensationSucceeds, CompensationFails
  <2>8. phase' = "undo" /\ completed' = Front(completed) /\ step' = step
    BY <2>6 DEF CompensationSucceeds, CompensationFails
  <2>9. /\ JournalFollowsLifecycle' /\ (phase' \in {"do", "undo"} => UnwrittenInv')
        /\ journal'[saga] # <<>> /\ LastEntry' = [type |-> type, step |-> m]
        /\ \A t, k : Logged(saga, t, k) => Logged(saga, t, k)'
    <3>1. m \in 0..MaxSteps
      BY <1>1, <2>1, BoundsAssumption
    <3> HIDE DEF m
    <3> QED
      BY <1>3, <2>5, <2>7, <3>1
  <2>10. ~Doing' /\ Undoing'
    BY <2>8 DEF Doing, Undoing
  <2>11. Len(completed') = m - 1 /\ \A i \in 1..Len(completed') : completed'[i] = completed[i]
    BY <1>1, <2>1, <2>8, FrontTyped
  <2> HIDE DEF m
  <2>12. \A i \in 1..Len(completed') : completed'[i] = i
    BY <2>1, <2>2, <2>11
  <2>13. ToUndo(Steps, m) \subseteq 1..Len(completed') /\ Len(completed') < m /\ m <= step
    BY <1>1, <2>1, <2>11 DEF ToUndo
  <2>14. RunningInv' /\ DoingInv'
    BY <1>0, <1>2, <2>9, <2>10, <2>12 DEF RunningInv, DoingInv
  <2>15. UndoingInv'
    <3>1. Logged(saga, "SagaStepFailed", step)'
      BY <2>2, <2>8, <2>9 DEF Logged
    <3>2. /\ LastEntry'.type \in {"SagaStepFailed", "SagaCompensated", "SagaCompensationFailed"}
          /\ LastEntry'.step = m
      BY <2>9
    <3> QED
      BY <1>2, <2>2, <2>8, <2>13, <3>1, <3>2 DEF UndoingInv
  <2> QED
    BY <2>8, <2>9, <2>14, <2>15 DEF SagaInv
<1> QED
  BY <1>0, <1>4, <1>5

LEMMA SagaInvInit ==
  Init => SagaInv
<1> SUFFICES ASSUME Init PROVE SagaInv
  OBVIOUS
<1>1. /\ plan \in Plans /\ phase = "trigger" /\ saga = 1 /\ step = 1 /\ completed = <<>>
      /\ journal = [s \in 1..MaxSagas |-> <<>>]
      /\ held = (IF plan.batched THEN {} ELSE PrimaryLocks(plan.trigger))
      /\ recorded = (IF plan.batched /\ plan.keyed THEN {plan.trigger.op} ELSE {})
      /\ executed = {} /\ undone = {}
  BY DEF Init
<1>2. plan.trigger \in Action
  BY <1>1, PlansAssumption DEF Plan
<1>3. held \in SUBSET (Aggregate \cup Operation \cup {Cascade}) /\ recorded \in SUBSET Operation
  BY <1>1, <1>2 DEF PrimaryLocks, OwnLocks, Action
<1>4. TypeOK
  BY <1>1, <1>3, BoundsAssumption DEF TypeOK, Running
<1>5. \A s \in 1..MaxSagas : journal[s] = <<>>
  BY <1>1
<1>6. \A s \in 1..Len(plan.sagas) : s \in 1..MaxSagas
  BY <1>4, PlanTyped, BoundsAssumption
<1>7. \A s \in 1..Len(plan.sagas) : FollowsLifecycle(s) /\ Ended(s)
  BY <1>5, <1>6 DEF FollowsLifecycle, Ended, Logged
<1>8. ~Doing /\ ~Undoing
  BY <1>1 DEF Doing, Undoing
<1> QED
  BY <1>4, <1>5, <1>7, <1>8
  DEF SagaInv, JournalFollowsLifecycle, RunningInv, DoingInv, UndoingInv, UnwrittenInv

LEMMA SagaInvStep ==
  ASSUME SagaInv, [Next]_vars
  PROVE  SagaInv'
<1>0. TypeOK'
  BY SagaTypeStep
<1>1. CASE \/ ConditionThrows \/ FinishSagas \/ UndoArgumentsThrow \/ CommandQueues \/ CommandCommits
           \/ PostCommitStep \/ TriggerDone \/ TriggerThrows \/ UNCHANGED vars
  <2>1. UNCHANGED <<plan, saga, step, completed, journal>>
    BY <1>1, Zenon DEF ConditionThrows, FinishSagas, UndoArgumentsThrow, CommandQueues, CommandCommits,
                       PostCommitStep, TriggerDone, TriggerThrows, vars
  <2>2. \/ phase' \in {"failed", "finished"}
        \/ phase' = phase
        \/ phase = "trigger" /\ phase' = "next"
        \/ /\ HasCommand
           /\ \/ phase = "do" /\ phase' = "doLocks"
              \/ phase = "undo" /\ phase' = "undoLocks"
              \/ phase = "doLocks" /\ phase' = "doPost"
              \/ phase = "undoLocks" /\ phase' = "undoPost"
    <3>1. CASE CommandCommits
      BY <3>1, CommitHasCommand DEF CommandCommits, Waiting, Doing
    <3>2. CASE CommandQueues
      BY <3>2 DEF CommandQueues
    <3>3. CASE \/ ConditionThrows \/ FinishSagas \/ UndoArgumentsThrow
               \/ PostCommitStep \/ TriggerDone \/ TriggerThrows \/ UNCHANGED vars
      BY <3>3 DEF ConditionThrows, FinishSagas, UndoArgumentsThrow,
                  PostCommitStep, TriggerDone, TriggerThrows, vars
    <3> QED
      BY <1>1, <3>1, <3>2, <3>3
  <2>3. phase = "doPost" \/ phase = "doLocks" => HasStep
    BY DEF SagaInv, DoingInv, Doing, HasStep
  <2>4. phase = "undoPost" \/ phase = "undoLocks" => HasCommand
    BY DEF SagaInv, UndoingInv, Undoing
  <2>5. /\ Doing' => Doing /\ (phase' = "do" \/ HasStep)
        /\ Undoing' => Undoing /\ (phase' = "undo" \/ HasCommand)
        /\ phase' \in {"trigger", "next"} => phase \in {"trigger", "next"}
    <3>1. phase = "do" /\ HasCommand => HasStep
      BY DEF HasCommand, Doing, Undoing
    <3> QED
      BY <2>2, <2>3, <2>4, <3>1 DEF Doing, Undoing
  <2> QED
    BY <1>0, <2>1, <2>5, StillStep
<1>2. CASE StartSaga
  BY <1>0, <1>2, StartStep
<1>3. CASE SkipSaga
  BY <1>0, <1>3, SkipSagaStep
<1>4. CASE CompleteSaga \/ FailSaga
  BY <1>0, <1>4, EndStep
<1>5. CASE SkipUndo
  BY <1>0, <1>5, SkipUndoStep
<1>6. CASE CommandAnswered \/ CommandThrows \/ CommandDone \/ CommandCommitsAndThrows
  BY <1>0, <1>6, OutcomeHasCommand, OutcomeStep
<1> QED
  BY <1>1, <1>2, <1>3, <1>4, <1>5, <1>6 DEF Next, SagaStep, Stopped

LEMMA SagaInvariant ==
  Spec => []SagaInv
<1> QED
  BY SagaInvInit, SagaInvStep, PTL DEF Spec

(***************************************************************************)
(* The journal of every saga is at every moment a beginning of one the     *)
(* lifecycle allows, and the whole of it once the loop of runSagas has     *)
(* gone on, whatever throws and however often (engine.ts, runSagas).       *)
(***************************************************************************)
THEOREM JournalsFollow ==
  Spec => []JournalFollowsLifecycle
<1>1. SagaInv => JournalFollowsLifecycle
  BY DEF SagaInv
<1> QED
  BY <1>1, SagaInvariant, PTL

-----------------------------------------------------------------------------
(* What the steps of a saga have committed.                                *)

\* Neither a key nor a fault answers its commands, and no hook throws.
PlainRequest == ~plan.keyed /\ plan.may \cap {"fault", "hook"} = {}

FailedSaga(s) == \E k \in 0..MaxSteps : Logged(s, "SagaFailed", k)

\* A step that needs no compensation any more.
Settled(s, n) ==
  <<s, n>> \in undone \/ Logged(s, "SagaCompensationFailed", n) \/ plan.sagas[s][n].undo = NoUndo

\* No effect is of a saga to come, and those of a failed one are settled.
PastInv ==
  \A s \in 1..MaxSagas, n \in 1..MaxSteps : <<s, n>> \in executed =>
    /\ s <= saga /\ (s = saga => phase \notin {"trigger", "next"})
    /\ s < saga /\ FailedSaga(s) => Settled(s, n)

\* The effects of the saga at hand are those of the steps to compensate, of
\* the step that is about to complete, and of those already settled.
PresentInv ==
  /\ \A n \in 1..MaxSteps : (Doing \/ Undoing) /\ n <= Len(completed) => <<saga, n>> \in executed
  /\ \A n \in 1..MaxSteps : <<saga, n>> \in executed =>
       /\ Doing => n <= Len(completed) \/ (phase = "doPost" /\ n = step)
       /\ Undoing => n <= Len(completed) \/ Settled(saga, n)
  /\ phase = "doPost" => <<saga, step>> \in executed
  /\ phase = "undoPost" => <<saga, UndoNext>> \in undone

EffectInv == PlainRequest => undone \subseteq executed /\ PastInv /\ PresentInv

\* The types those facts are about.
LEMMA EffectTyped ==
  ASSUME SagaInv
  PROVE  /\ TypeOK /\ saga \in Nat /\ step \in Nat
         /\ completed \in Seq(1..MaxSteps) /\ Len(completed) \in Nat
         /\ executed \subseteq StepId /\ undone \subseteq StepId
<1>1. TypeOK
  BY DEF SagaInv, JournalFollowsLifecycle
<1> QED
  BY <1>1, BoundsAssumption DEF TypeOK

\* A step at which nothing is written and nothing committed.
LEMMA EffectStill ==
  ASSUME SagaInv, EffectInv, UNCHANGED <<plan, saga, step, completed, journal, executed, undone>>,
         Doing' => Doing, Undoing' => Undoing,
         phase' \in {"doPost", "undoPost"} => phase' = phase,
         phase = "doPost" /\ Doing' => phase' = phase,
         phase' \in {"trigger", "next"} => phase \in {"trigger", "next"}
  PROVE  EffectInv'
<1> SUFFICES ASSUME PlainRequest'
             PROVE  undone' \subseteq executed' /\ PastInv' /\ PresentInv'
  BY DEF EffectInv
<1>1. undone \subseteq executed /\ PastInv /\ PresentInv
  BY DEF EffectInv, PlainRequest
<1>2. ASSUME NEW s, NEW n
      PROVE  /\ FailedSaga(s)' <=> FailedSaga(s)
             /\ Settled(s, n)' <=> Settled(s, n)
  BY DEF FailedSaga, Settled, Logged
<1>3. PastInv'
  BY <1>1, <1>2 DEF PastInv
<1>4. UndoNext' = UndoNext
  BY DEF UndoNext
<1>5. PresentInv'
  BY <1>1, <1>2, <1>4 DEF PresentInv
<1> QED
  BY <1>1, <1>3, <1>5

\* An entry settles nothing less, and only the last one of a saga fails it.
LEMMA EffectWritten ==
  ASSUME SagaInv, saga \in 1..MaxSagas, NEW type \in EntryType, NEW n \in 0..MaxSteps, Write(type, n),
         UNCHANGED plan, undone \subseteq undone'
  PROVE  /\ \A s \in 1..MaxSagas : FailedSaga(s)' => FailedSaga(s) \/ (s = saga /\ type = "SagaFailed")
         /\ \A s \in 1..MaxSagas, m \in 1..MaxSteps : Settled(s, m) => Settled(s, m)'
<1>1. TypeOK
  BY EffectTyped
<1>2. /\ \A s \in 1..MaxSagas : \A t, k : Logged(s, t, k) => Logged(s, t, k)'
      /\ \A s \in 1..MaxSagas : \A t, k : Logged(s, t, k)' => Logged(s, t, k) \/ (s = saga /\ t = type /\ k = n)
  BY <1>1, WrittenLogged
<1>3. ASSUME NEW s \in 1..MaxSagas, FailedSaga(s)'
      PROVE  FailedSaga(s) \/ (s = saga /\ type = "SagaFailed")
  BY <1>2, <1>3 DEF FailedSaga
<1>4. ASSUME NEW s \in 1..MaxSagas, NEW m \in 1..MaxSteps, Settled(s, m)
      PROVE  Settled(s, m)'
  BY <1>2, <1>4 DEF Settled
<1> QED
  BY <1>3, <1>4

\* A saga that runs has not failed.
LEMMA RunningHasNotFailed ==
  ASSUME SagaInv, Doing \/ Undoing
  PROVE  ~FailedSaga(saga)
<1>1. TypeOK /\ HasSaga /\ saga \in 1..Len(plan.sagas) /\ FollowsLifecycle(saga)
  BY StepsTyped DEF SagaInv, JournalFollowsLifecycle, RunningInv
<1>2. LastEntry.type # "SagaFailed"
  BY DEF SagaInv, DoingInv, UndoingInv
<1> QED
  BY <1>1, <1>2, FailedLast DEF FailedSaga, LastEntry

\* The loop starts a saga or goes on to the next one.
LEMMA EffectLoop ==
  ASSUME SagaInv, EffectInv, StartSaga \/ SkipSaga \/ CompleteSaga \/ FailSaga
  PROVE  EffectInv'
<1> SUFFICES ASSUME PlainRequest'
             PROVE  undone' \subseteq executed' /\ PastInv' /\ PresentInv'
  BY DEF EffectInv
<1>1. UNCHANGED <<plan, executed, undone>>
  BY Zenon DEF StartSaga, SkipSaga, CompleteSaga, FailSaga
<1>2. undone \subseteq executed /\ PastInv /\ PresentInv
  BY <1>1 DEF EffectInv, PlainRequest
<1>3. TypeOK /\ saga \in 1..MaxSagas /\ saga \in Nat /\ step \in 1..(MaxSteps + 1) /\ Len(Steps) \in 0..MaxSteps
  <2>1. HasSaga
    BY DEF StartSaga, SkipSaga, CompleteSaga, FailSaga, SagaInv, RunningInv, Doing, Undoing
  <2> QED
    BY <2>1, EffectTyped, StepsTyped DEF TypeOK
<1>4. CASE StartSaga
  <2>1. phase = "next" /\ phase' = "do" /\ completed' = <<>> /\ saga' = saga /\ Write("SagaStarted", 0)
    BY <1>4 DEF StartSaga
  <2>2. \A n \in 1..MaxSteps : <<saga, n>> \notin executed
    BY <1>2, <1>3, <2>1 DEF PastInv
  <2>3. /\ \A s \in 1..MaxSagas : FailedSaga(s)' => FailedSaga(s)
        /\ \A s \in 1..MaxSagas, m \in 1..MaxSteps : Settled(s, m) => Settled(s, m)'
    <3>1. "SagaStarted" \in EntryType /\ 0 \in 0..MaxSteps
      BY BoundsAssumption DEF EntryType
    <3> QED
      BY <1>1, <1>3, <2>1, <3>1, EffectWritten
  <2>4. PastInv'
    BY <1>1, <1>2, <2>1, <2>3 DEF PastInv
  <2>5. PresentInv'
    BY <1>1, <2>1, <2>2 DEF PresentInv
  <2> QED
    BY <1>1, <1>2, <2>4, <2>5
<1>5. CASE SkipSaga \/ CompleteSaga \/ FailSaga
  <2>1. phase' = "next" /\ saga' = saga + 1
    BY <1>5 DEF SkipSaga, CompleteSaga, FailSaga
  <2>2. ASSUME NEW s \in 1..MaxSagas, NEW n \in 1..MaxSteps, <<s, n>> \in executed
        PROVE  s <= saga /\ (s < saga + 1 /\ FailedSaga(s)' => Settled(s, n)')
    <3>1. s <= saga /\ (s = saga => phase \notin {"trigger", "next"}) /\ (s < saga /\ FailedSaga(s) => Settled(s, n))
      BY <1>2, <2>2 DEF PastInv
    <3>2. CASE SkipSaga
      <4>1. s < saga
        BY <1>3, <3>1, <3>2 DEF SkipSaga
      <4>2. (FailedSaga(s)' => FailedSaga(s)) /\ (Settled(s, n) => Settled(s, n)')
        BY <1>1, <3>2 DEF SkipSaga, FailedSaga, Settled, Logged
      <4> QED
        BY <3>1, <4>1, <4>2
    <3>3. CASE CompleteSaga
      <4>1. Doing /\ Write("SagaCompleted", 0)
        BY <3>3 DEF CompleteSaga, Doing
      <4>2. (FailedSaga(s)' => FailedSaga(s)) /\ (Settled(s, n) => Settled(s, n)')
        <5>1. "SagaCompleted" \in EntryType /\ 0 \in 0..MaxSteps
          BY BoundsAssumption DEF EntryType
        <5> QED
          BY <1>1, <1>3, <4>1, <5>1, EffectWritten
      <4>3. s = saga => ~FailedSaga(s)
        BY <4>1, RunningHasNotFailed
      <4> QED
        BY <1>3, <3>1, <4>2, <4>3
    <3>4. CASE FailSaga
      <4>1. Undoing /\ Write("SagaFailed", step) /\ Len(completed) = 0
        BY <3>4 DEF FailSaga, Undoing
      <4>2. step \in 0..MaxSteps
        <5>1. step <= Len(Steps)
          BY <4>1 DEF SagaInv, UndoingInv
        <5> QED
          BY <1>3, <5>1, BoundsAssumption
      <4>3. s < saga /\ FailedSaga(s)' => FailedSaga(s)
        <5>1. "SagaFailed" \in EntryType
          BY DEF EntryType
        <5> QED
          BY <1>1, <1>3, <4>1, <4>2, <5>1, EffectWritten
      <4>4. Settled(s, n) => Settled(s, n)'
        <5>1. "SagaFailed" \in EntryType
          BY DEF EntryType
        <5> QED
          BY <1>1, <1>3, <4>1, <4>2, <5>1, EffectWritten
      <4>5. s = saga => Settled(s, n)
        BY <1>2, <2>2, <4>1 DEF PresentInv
      <4> QED
        BY <1>3, <3>1, <4>3, <4>4, <4>5
    <3> QED
      BY <1>5, <3>2, <3>3, <3>4
  <2>3. PastInv'
    BY <1>1, <1>3, <2>1, <2>2 DEF PastInv
  <2>4. PresentInv'
    <3>1. \A n \in 1..MaxSteps : <<saga + 1, n>> \notin executed
      <4>1. ASSUME NEW n \in 1..MaxSteps, <<saga + 1, n>> \in executed
            PROVE  FALSE
        <5>1. saga + 1 \in 1..MaxSagas
          BY <4>1, EffectTyped DEF StepId
        <5> QED
          BY <1>3, <2>2, <4>1, <5>1
      <4> QED
        BY <4>1
    <3> QED
      BY <1>1, <2>1, <3>1 DEF PresentInv, Doing, Undoing
  <2> QED
    BY <1>1, <1>2, <2>3, <2>4
<1> QED
  BY <1>4, <1>5

\* The step to undo next is the last of those completed.
LEMMA UndoNextIsLast ==
  ASSUME SagaInv, Undoing, completed # <<>>
  PROVE  /\ UndoNext = Len(completed) /\ UndoNext \in 1..MaxSteps
         /\ Len(Front(completed)) = Len(completed) - 1
<1>1. completed \in Seq(1..MaxSteps)
  BY EffectTyped
<1>2. Len(completed) \in Nat \ {0} /\ Len(Front(completed)) = Len(completed) - 1
  BY <1>1, FrontTyped
<1>3. completed[Len(completed)] \in 1..MaxSteps
  <2>1. \A i \in 1..Len(completed) : completed[i] \in 1..MaxSteps
    BY <1>1, ElementOfSeq
  <2>2. Len(completed) \in 1..Len(completed)
    BY <1>2
  <2> QED
    BY <2>1, <2>2
<1>4. completed[Len(completed)] = Len(completed)
  <2>1. \A i \in 1..Len(completed) : completed[i] = i
    BY DEF SagaInv, RunningInv
  <2>2. Len(completed) \in 1..Len(completed)
    BY <1>2
  <2> QED
    BY <2>1, <2>2
<1>5. UndoNext = completed[Len(completed)]
  BY DEF UndoNext, Last
<1> QED
  BY <1>2, <1>3, <1>4, <1>5

\* A completed step is settled and need not be compensated any more.
LEMMA EffectFront ==
  ASSUME SagaInv, EffectInv, Undoing, completed # <<>>, completed' = Front(completed), phase' = "undo",
         UNCHANGED <<plan, saga, executed, undone>>,
         \A s \in 1..MaxSagas : FailedSaga(s)' => FailedSaga(s),
         \A s \in 1..MaxSagas, m \in 1..MaxSteps : Settled(s, m) => Settled(s, m)',
         \A n : n = UndoNext => Settled(saga, n)'
  PROVE  EffectInv'
<1> SUFFICES ASSUME PlainRequest'
             PROVE  undone' \subseteq executed' /\ PastInv' /\ PresentInv'
  BY DEF EffectInv
<1>1. undone \subseteq executed /\ PastInv /\ PresentInv
  BY DEF EffectInv, PlainRequest
<1>2. PastInv'
  BY <1>1 DEF PastInv, Undoing
<1>3. /\ UndoNext = Len(completed) /\ Len(completed') = Len(completed) - 1 /\ Len(completed) \in Nat
      /\ Undoing' /\ ~Doing' /\ ~Doing
  BY UndoNextIsLast, EffectTyped DEF Undoing, Doing
<1>4. saga \in 1..MaxSagas
  BY EffectTyped, StepsTyped DEF SagaInv, RunningInv
<1>5. ASSUME NEW n \in 1..MaxSteps, <<saga, n>> \in executed
      PROVE  n <= Len(completed') \/ Settled(saga, n)'
  <2>1. n <= Len(completed) \/ Settled(saga, n)
    BY <1>1, <1>5 DEF PresentInv
  <2>2. Settled(saga, n) => Settled(saga, n)'
    BY <1>4
  <2>3. n <= Len(completed) => n <= Len(completed') \/ n = UndoNext
    BY <1>3
  <2> QED
    BY <2>1, <2>2, <2>3
<1>6. PresentInv'
  <2>1. \A n \in 1..MaxSteps : n <= Len(completed') => <<saga, n>> \in executed
    BY <1>1, <1>3 DEF PresentInv
  <2> QED
    BY <1>3, <1>5, <2>1 DEF PresentInv
<1> QED
  BY <1>1, <1>2, <1>6

\* A completed step without compensation is passed over.
LEMMA EffectSkipUndo ==
  ASSUME SagaInv, EffectInv, SkipUndo
  PROVE  EffectInv'
<1>1. /\ Undoing /\ completed # <<>> /\ Steps[UndoNext].undo = NoUndo /\ completed' = Front(completed)
      /\ phase' = "undo" /\ UNCHANGED <<plan, saga, journal, executed, undone>>
  BY DEF SkipUndo, Undoing
<1>2. \A s, m : (FailedSaga(s)' => FailedSaga(s)) /\ (Settled(s, m) => Settled(s, m)')
  BY <1>1 DEF FailedSaga, Settled, Logged
<1>3. Settled(saga, UndoNext)
  BY <1>1 DEF Settled, Steps
<1>4. \A n : n = UndoNext => Settled(saga, n)'
  BY <1>2, <1>3, <1>1 DEF Settled, Logged
<1> QED
  BY <1>1, <1>2, <1>4, EffectFront

\* A step or a compensation throws before it commits anything.
LEMMA EffectThrows ==
  ASSUME SagaInv, EffectInv, CommandThrows
  PROVE  EffectInv'
<1>1. HasCommand /\ Fails /\ phase # "doPost" /\ UNCHANGED <<plan, saga, executed, undone>>
  BY DEF CommandThrows, Waiting
<1>2. HasSaga /\ saga \in 1..MaxSagas /\ TypeOK /\ Len(Steps) \in 0..MaxSteps
  BY <1>1, StepsTyped, EffectTyped DEF SagaInv, RunningInv, HasCommand
<1>3. CASE Doing
  <2>1. /\ ~Undoing /\ step \in 0..MaxSteps
        /\ Write("SagaStepFailed", step) /\ phase' = "undo" /\ UNCHANGED <<step, completed>>
    BY <1>1, <1>2, <1>3, CommandTyped, BoundsAssumption DEF Fails, StepFails
  <2>2. /\ \A s \in 1..MaxSagas : FailedSaga(s)' => FailedSaga(s)
        /\ \A s \in 1..MaxSagas, m \in 1..MaxSteps : Settled(s, m) => Settled(s, m)'
    <3>1. "SagaStepFailed" \in EntryType
      BY DEF EntryType
    <3> QED
      BY <1>1, <1>2, <2>1, <3>1, EffectWritten
  <2> SUFFICES ASSUME PlainRequest'
               PROVE  undone' \subseteq executed' /\ PastInv' /\ PresentInv'
    BY DEF EffectInv
  <2>3. undone \subseteq executed /\ PastInv /\ PresentInv
    BY <1>1 DEF EffectInv, PlainRequest
  <2>4. PastInv'
    BY <1>1, <2>1, <2>2, <2>3, <1>3 DEF PastInv, Doing
  <2>5. PresentInv'
    BY <1>1, <1>3, <2>1, <2>3 DEF PresentInv, Doing, Undoing
  <2> QED
    BY <1>1, <2>3, <2>4, <2>5
<1>4. CASE Undoing
  <2>1. /\ ~Doing /\ completed # <<>> /\ UndoNext \in 0..MaxSteps
    BY <1>1, <1>2, <1>4, CommandTyped, BoundsAssumption
  <2>2. Write("SagaCompensationFailed", UndoNext) /\ phase' = "undo" /\ completed' = Front(completed)
    BY <1>1, <2>1 DEF Fails, CompensationFails
  <2>3. "SagaCompensationFailed" \in EntryType
    BY DEF EntryType
  <2>4. /\ \A s \in 1..MaxSagas : FailedSaga(s)' => FailedSaga(s)
        /\ \A s \in 1..MaxSagas, m \in 1..MaxSteps : Settled(s, m) => Settled(s, m)'
    BY <1>1, <1>2, <2>1, <2>2, <2>3, EffectWritten
  <2>5. ASSUME NEW n, n = UndoNext
        PROVE  Settled(saga, n)'
    <3>1. n \in 0..MaxSteps /\ Write("SagaCompensationFailed", n)
      BY <2>1, <2>2, <2>5
    <3>2. \A s \in 1..MaxSagas : s = saga => Logged(s, "SagaCompensationFailed", n)'
      BY <1>2, <2>3, <3>1, WrittenLogged
    <3>3. Logged(saga, "SagaCompensationFailed", n)'
      <4>1. PICK s \in 1..MaxSagas : s = saga
        BY <1>2
      <4>2. saga' = s
        BY <1>1, <4>1
      <4> QED
        BY <3>2, <4>1, <4>2 DEF Logged
    <3> QED
      BY <3>3 DEF Settled
  <2> QED
    BY <1>1, <1>4, <2>1, <2>2, <2>4, <2>5, EffectFront
<1> QED
  BY <1>1, <1>3, <1>4 DEF HasCommand

\* A step or a compensation is committed.
LEMMA EffectCommits ==
  ASSUME SagaInv, EffectInv, CommandCommits
  PROVE  EffectInv'
<1> SUFFICES ASSUME PlainRequest'
             PROVE  undone' \subseteq executed' /\ PastInv' /\ PresentInv'
  BY DEF EffectInv
<1>1. Waiting /\ Effect /\ phase' = (IF Doing THEN "doPost" ELSE "undoPost")
      /\ UNCHANGED <<plan, saga, step, completed, journal>>
  BY DEF CommandCommits
<1>2. undone \subseteq executed /\ PastInv /\ PresentInv
  BY <1>1 DEF EffectInv, PlainRequest
<1>3. HasCommand
  BY CommitHasCommand
<1>4. HasSaga /\ saga \in 1..MaxSagas /\ TypeOK /\ Len(Steps) \in 0..MaxSteps
  BY <1>3, StepsTyped, EffectTyped DEF SagaInv, RunningInv, HasCommand
<1>5. /\ \A s : FailedSaga(s)' <=> FailedSaga(s)
      /\ \A s, n : Logged(s, "SagaCompensationFailed", n)' <=> Logged(s, "SagaCompensationFailed", n)
      /\ UndoNext' = UndoNext
  BY <1>1 DEF FailedSaga, Logged, UndoNext
<1>6. CASE Doing
  <2>1. /\ phase = "doLocks" /\ phase' = "doPost" /\ executed' = executed \cup {<<saga, step>>} /\ undone' = undone
        /\ Doing' /\ ~Undoing'
    BY <1>1, <1>6 DEF Waiting, Doing, Undoing, Effect
  <2>2. \A s, n : Settled(s, n)' <=> Settled(s, n)
    BY <1>1, <1>5, <2>1 DEF Settled
  <2>3. ASSUME NEW s \in 1..MaxSagas, NEW n \in 1..MaxSteps, <<s, n>> \in executed'
        PROVE  s <= saga /\ (s < saga /\ FailedSaga(s)' => Settled(s, n)')
    <3>1. CASE <<s, n>> \in executed
      BY <1>2, <1>5, <2>2, <3>1 DEF PastInv
    <3>2. CASE s = saga
      BY <1>4, <3>2
    <3> QED
      BY <2>1, <2>3, <3>1, <3>2
  <2>4. PastInv'
    BY <1>1, <2>1, <2>3 DEF PastInv
  <2>5. PresentInv'
    BY <1>1, <1>2, <1>6, <2>1 DEF PresentInv
  <2> QED
    BY <1>2, <2>1, <2>4, <2>5
<1>7. CASE ~Doing
  <2>1. /\ Undoing /\ phase = "undoLocks" /\ phase' = "undoPost" /\ executed' = executed
        /\ undone' = undone \cup {<<saga, UndoNext>>} /\ ~Doing' /\ Undoing'
    BY <1>1, <1>7 DEF Waiting, Doing, Undoing, Effect
  <2>2. UndoNext = Len(completed) /\ UndoNext \in 1..MaxSteps /\ Len(completed) \in Nat
    BY <1>3, <1>7, <2>1, UndoNextIsLast, EffectTyped DEF HasCommand
  <2>3. undone' \subseteq executed'
    <3>1. <<saga, UndoNext>> \in executed
      BY <1>2, <2>1, <2>2 DEF PresentInv
    <3> QED
      BY <1>2, <2>1, <3>1
  <2>4. \A s, n : Settled(s, n) => Settled(s, n)'
    BY <1>1, <1>5, <2>1 DEF Settled
  <2>5. PastInv'
    BY <1>1, <1>2, <1>5, <2>1, <2>4 DEF PastInv
  <2>6. PresentInv'
    <3>1. \A n \in 1..MaxSteps : <<saga, n>> \in executed => n <= Len(completed) \/ Settled(saga, n)
      BY <1>2, <2>1 DEF PresentInv
    <3>2. \A n : Settled(saga, n) => Settled(saga, n)'
      BY <1>1, <1>5, <2>1 DEF Settled, Logged
    <3> QED
      BY <1>1, <1>2, <1>5, <2>1, <3>1, <3>2 DEF PresentInv
  <2> QED
    BY <2>3, <2>5, <2>6
<1> QED
  BY <1>6, <1>7

\* Its post-commit work has ended: the step completes, or the compensation.
LEMMA EffectDone ==
  ASSUME SagaInv, EffectInv, CommandDone
  PROVE  EffectInv'
<1>1. HasCommand /\ Succeeds /\ phase \in {"doPost", "undoPost"} /\ UNCHANGED <<plan, saga, executed, undone>>
  BY OutcomeHasCommand DEF CommandDone
<1>2. HasSaga /\ saga \in 1..MaxSagas /\ TypeOK /\ Len(Steps) \in 0..MaxSteps
  BY <1>1, StepsTyped, EffectTyped DEF SagaInv, RunningInv, HasCommand
<1>3. CASE Doing
  <2>1. /\ ~Undoing /\ step \in 0..MaxSteps /\ step \in 1..MaxSteps /\ step \in Nat /\ phase = "doPost"
        /\ Write("SagaStepCompleted", step) /\ phase' = "do" /\ completed' = Append(completed, step)
        /\ Doing' /\ ~Undoing'
    BY <1>1, <1>2, <1>3, CommandTyped, BoundsAssumption DEF Succeeds, StepSucceeds, Doing, Undoing
  <2>2. /\ \A s \in 1..MaxSagas : FailedSaga(s)' => FailedSaga(s)
        /\ \A s \in 1..MaxSagas, m \in 1..MaxSteps : Settled(s, m) => Settled(s, m)'
    <3>1. "SagaStepCompleted" \in EntryType
      BY DEF EntryType
    <3> QED
      BY <1>1, <1>2, <2>1, <3>1, EffectWritten
  <2> SUFFICES ASSUME PlainRequest'
               PROVE  undone' \subseteq executed' /\ PastInv' /\ PresentInv'
    BY DEF EffectInv
  <2>3. undone \subseteq executed /\ PastInv /\ PresentInv
    BY <1>1 DEF EffectInv, PlainRequest
  <2>4. PastInv'
    BY <1>1, <2>1, <2>2, <2>3 DEF PastInv
  <2>5. Len(completed') = Len(completed) + 1 /\ Len(completed) = step - 1
    <3>1. Len(completed') = Len(completed) + 1
      BY <2>1, EffectTyped, AppendTyped
    <3> QED
      BY <1>3, <3>1 DEF SagaInv, DoingInv
  <2>6. PresentInv'
    <3>1. /\ \A n \in 1..MaxSteps : n <= Len(completed) => <<saga, n>> \in executed
          /\ \A n \in 1..MaxSteps : <<saga, n>> \in executed => n <= Len(completed) \/ n = step
          /\ <<saga, step>> \in executed
      BY <1>3, <2>1, <2>3 DEF PresentInv
    <3>2. /\ \A n \in 1..MaxSteps : n <= Len(completed') => <<saga, n>> \in executed
          /\ \A n \in 1..MaxSteps : <<saga, n>> \in executed => n <= Len(completed')
      BY <2>1, <2>5, <3>1
    <3> QED
      BY <1>1, <2>1, <3>2 DEF PresentInv
  <2> QED
    BY <1>1, <2>3, <2>4, <2>6
<1>4. CASE Undoing
  <2>1. ~Doing /\ completed # <<>> /\ UndoNext \in 0..MaxSteps /\ phase = "undoPost"
    BY <1>1, <1>2, <1>4, CommandTyped, BoundsAssumption DEF Doing
  <2>2. Write("SagaCompensated", UndoNext) /\ phase' = "undo" /\ completed' = Front(completed)
    BY <1>1, <2>1 DEF Succeeds, CompensationSucceeds
  <2>3. "SagaCompensated" \in EntryType
    BY DEF EntryType
  <2>4. /\ \A s \in 1..MaxSagas : FailedSaga(s)' => FailedSaga(s)
        /\ \A s \in 1..MaxSagas, m \in 1..MaxSteps : Settled(s, m) => Settled(s, m)'
    BY <1>1, <1>2, <2>1, <2>2, <2>3, EffectWritten
  <2> SUFFICES ASSUME PlainRequest'
               PROVE  EffectInv'
    BY DEF EffectInv
  <2>5. <<saga, UndoNext>> \in undone
    BY <1>1, <2>1 DEF EffectInv, PlainRequest, PresentInv
  <2>6. \A n : n = UndoNext => Settled(saga, n)'
    BY <1>1, <2>5 DEF Settled
  <2> QED
    BY <1>1, <1>4, <2>1, <2>2, <2>4, <2>6, EffectFront
<1> QED
  BY <1>1, <1>3, <1>4 DEF HasCommand

LEMMA EffectStep ==
  ASSUME SagaInv, EffectInv, [Next]_vars
  PROVE  EffectInv'
<1>1. CASE StartSaga \/ SkipSaga \/ CompleteSaga \/ FailSaga
  BY <1>1, EffectLoop
<1>2. CASE SkipUndo
  BY <1>2, EffectSkipUndo
<1>3. CASE CommandThrows
  BY <1>3, EffectThrows
<1>4. CASE CommandCommits
  BY <1>4, EffectCommits
<1>5. CASE CommandDone
  BY <1>5, EffectDone
<1>6. CASE CommandAnswered \/ TriggerThrows \/ CommandCommitsAndThrows
  <2>1. ~PlainRequest /\ plan' = plan
    BY <1>6 DEF CommandAnswered, TriggerThrows, CommandCommitsAndThrows, PlainRequest, Cached
  <2> QED
    BY <2>1 DEF EffectInv, PlainRequest
<1>7. CASE \/ ConditionThrows \/ FinishSagas \/ UndoArgumentsThrow \/ CommandQueues
           \/ PostCommitStep \/ TriggerDone \/ UNCHANGED vars
  <2>1. UNCHANGED <<plan, saga, step, completed, journal, executed, undone>>
    BY <1>7, Zenon DEF ConditionThrows, FinishSagas, UndoArgumentsThrow, CommandQueues,
                       PostCommitStep, TriggerDone, vars
  <2>2. \/ phase' \in {"failed", "finished"} \/ phase' = phase
        \/ phase = "trigger" /\ phase' = "next"
        \/ phase = "do" /\ phase' = "doLocks"
        \/ phase = "undo" /\ phase' = "undoLocks"
    BY <1>7 DEF ConditionThrows, FinishSagas, UndoArgumentsThrow, CommandQueues,
                PostCommitStep, TriggerDone, vars
  <2>3. /\ Doing' => Doing
        /\ Undoing' => Undoing
        /\ phase' \in {"doPost", "undoPost"} => phase' = phase
        /\ phase = "doPost" /\ Doing' => phase' = phase
        /\ phase' \in {"trigger", "next"} => phase \in {"trigger", "next"}
    BY <2>2 DEF Doing, Undoing
  <2> QED
    BY <2>1, <2>3, EffectStill
<1> QED
  BY <1>1, <1>2, <1>3, <1>4, <1>5, <1>6, <1>7 DEF Next, SagaStep, Stopped

LEMMA EffectInit ==
  Init => EffectInv
BY DEF Init, EffectInv, PastInv, PresentInv, Doing, Undoing

(***************************************************************************)
(* Without keys, faults and throwing hooks, a failed saga leaves no effect *)
(* that was neither undone nor noted as not compensated, and undoes none   *)
(* that it did not have (engine.ts, runSagas and its compensations).       *)
(***************************************************************************)
THEOREM NothingIsOrphaned ==
  Spec => []NoOrphanEffects
<1>1. SagaInv /\ EffectInv => NoOrphanEffects
  <2> SUFFICES ASSUME SagaInv, EffectInv, PlainRequest
               PROVE  /\ undone \subseteq executed
                      /\ \A s \in 1..Len(plan.sagas) : \A n \in 1..Len(plan.sagas[s]) :
                           /\ s < saga
                           /\ <<s, n>> \in executed
                           /\ plan.sagas[s][n].undo # NoUndo
                           /\ \E k \in 1..Len(plan.sagas[s]) : Logged(s, "SagaFailed", k)
                           => <<s, n>> \in undone \/ Logged(s, "SagaCompensationFailed", n)
    BY DEF NoOrphanEffects, PlainRequest
  <2>1. undone \subseteq executed /\ PastInv
    BY DEF EffectInv
  <2>2. ASSUME NEW s \in 1..Len(plan.sagas), NEW n \in 1..Len(plan.sagas[s]), s < saga,
               <<s, n>> \in executed, plan.sagas[s][n].undo # NoUndo,
               NEW k \in 1..Len(plan.sagas[s]), Logged(s, "SagaFailed", k)
        PROVE  <<s, n>> \in undone \/ Logged(s, "SagaCompensationFailed", n)
    <3>1. s \in 1..MaxSagas /\ n \in 1..MaxSteps /\ k \in 0..MaxSteps
      BY <2>2, PlanTyped, EffectTyped, BoundsAssumption
    <3>2. FailedSaga(s)
      BY <2>2, <3>1 DEF FailedSaga
    <3> QED
      BY <2>1, <2>2, <3>1, <3>2 DEF PastInv, Settled
  <2> QED
    BY <2>1, <2>2
<1> QED
  BY <1>1, SagaInvariant, SagaInvStep, EffectInit, EffectStep, PTL DEF Spec

-----------------------------------------------------------------------------
(***************************************************************************)
(* What happens outside the stores.  First, the loop of PostCommit that    *)
(* takes some events of a sequence: induction over sequences is the        *)
(* absence of a shortest counterexample, so that sets will do for it.      *)
(***************************************************************************)

\* Every sequence is the empty one with elements appended.
LEMMA SequenceInduction ==
  ASSUME NEW R, NEW T \in SUBSET Seq(R), <<>> \in T, \A s \in T, e \in R : Append(s, e) \in T
  PROVE  T = Seq(R)
<1> DEFINE N == {n \in Nat : \E s \in Seq(R) : s \notin T /\ Len(s) = n}
<1> SUFFICES ASSUME NEW z \in Seq(R), z \notin T
             PROVE  FALSE
  OBVIOUS
<1>1. Len(z) \in N
  OBVIOUS
<1>2. PICK n \in N : \A m \in N : n <= m
  BY <1>1, LeastNat
<1>3. PICK s \in Seq(R) : s \notin T /\ Len(s) = n
  BY <1>2
<1>4. s # <<>>
  BY <1>3
<1>5. PICK t \in Seq(R), e \in R : s = Append(t, e)
  BY <1>3, <1>4, SequenceEmptyOrAppend
<1>6. Len(t) \in Nat /\ n = Len(t) + 1
  BY <1>3, <1>5, AppendProperties, LenProperties
<1>7. Len(t) \notin N
  <2>1. n \in Nat /\ n > Len(t)
    BY <1>6
  <2> HIDE DEF N
  <2> QED
    BY <1>2, <1>6, <2>1
<1>8. t \in T
  BY <1>5, <1>6, <1>7
<1> QED
  BY <1>3, <1>5, <1>8

\* What Among has taken of the first n events.
Taken(f, s, S, n) ==
  /\ DOMAIN f = 0..n /\ f[0] = <<>>
  /\ \A k \in 1..n : f[k] = IF s[k] \in S THEN Append(f[k - 1], s[k]) ELSE f[k - 1]

\* There is such a function, for any number of events.
LEMMA TakenExists ==
  ASSUME NEW s, NEW S, NEW n \in Nat
  PROVE  \E f : Taken(f, s, S, n)
<1> DEFINE T == {m \in Nat : ~\E f : Taken(f, s, S, m)}
<1> SUFFICES ASSUME T # {}
             PROVE  FALSE
  OBVIOUS
<1>1. PICK m \in T : \A l \in T : m <= l
  BY LeastNat
<1>2. m # 0
  <2>1. Taken([k \in 0..0 |-> <<>>], s, S, 0)
    BY DEF Taken
  <2> QED
    BY <2>1
<1>3. m - 1 \in Nat /\ m - 1 \notin T
  BY <1>1, <1>2
<1>4. PICK f : Taken(f, s, S, m - 1)
  BY <1>3
<1> DEFINE last == IF s[m] \in S THEN Append(f[m - 1], s[m]) ELSE f[m - 1]
           h == [k \in 0..m |-> IF k = m THEN last ELSE f[k]]
<1> HIDE DEF last
<1>5. h[0] = <<>>
  BY <1>1, <1>2, <1>4 DEF Taken
<1>6. \A k \in 1..m : h[k] = IF s[k] \in S THEN Append(h[k - 1], s[k]) ELSE h[k - 1]
  <2> TAKE k \in 1..m
  <2>1. h[k - 1] = f[k - 1]
    BY <1>1, <1>2
  <2>2. CASE k = m
    BY <1>1, <2>1, <2>2 DEF last
  <2>3. CASE k # m
    <3>1. k \in 1..(m - 1) /\ h[k] = f[k]
      BY <1>1, <2>3
    <3> QED
      BY <1>4, <2>1, <3>1 DEF Taken
  <2> QED
    BY <2>2, <2>3
<1>7. Taken(h, s, S, m)
  BY <1>5, <1>6 DEF Taken
<1> QED
  BY <1>1, <1>7

\* It depends on these events alone.
LEMMA TakenAgree ==
  ASSUME NEW s, NEW t, NEW S, NEW m \in Nat, NEW n \in Nat, NEW f, NEW g, Taken(f, s, S, m), Taken(g, t, S, n),
         NEW k \in Nat, k <= m, k <= n, \A i \in 1..k : s[i] = t[i]
  PROVE  f[k] = g[k]
<1> DEFINE T == {l \in Nat : l <= k /\ f[l] # g[l]}
<1> SUFFICES ASSUME T # {}
             PROVE  FALSE
  OBVIOUS
<1>1. PICK l \in T : \A i \in T : l <= i
  BY LeastNat
<1>2. l # 0
  BY <1>1 DEF Taken
<1>3. l - 1 \in Nat /\ l - 1 \notin T
  BY <1>1, <1>2
<1>4. f[l - 1] = g[l - 1]
  BY <1>1, <1>3
<1>5. l \in 1..m /\ l \in 1..n /\ s[l] = t[l]
  BY <1>1, <1>2
<1> QED
  BY <1>1, <1>4, <1>5 DEF Taken

\* So the recursion of Among is one.
LEMMA AmongIs ==
  ASSUME NEW R, NEW s \in Seq(R), NEW S
  PROVE  \E f : Taken(f, s, S, Len(s)) /\ Among(s, S) = f[Len(s)]
<1> DEFINE B(f, n) == IF n = 0 THEN <<>> ELSE IF s[n] \in S THEN Append(f[n - 1], s[n]) ELSE f[n - 1]
           Is(f) == f = [n \in 0..Len(s) |-> B(f, n)]
<1>1. Len(s) \in Nat
  OBVIOUS
<1>2. PICK f : Taken(f, s, S, Len(s))
  BY <1>1, TakenExists
<1> DEFINE g == [n \in 0..Len(s) |-> f[n]]
<1>3. Is(g)
  <2>1. \A n \in 0..Len(s) : g[n] = B(g, n)
    <3> TAKE n \in 0..Len(s)
    <3>1. CASE n = 0
      BY <1>2, <3>1 DEF Taken
    <3>2. CASE n # 0
      <4>1. n \in 1..Len(s) /\ n - 1 \in 0..Len(s)
        BY <1>1, <3>2
      <4>2. g[n] = f[n] /\ g[n - 1] = f[n - 1]
        BY <4>1
      <4>3. f[n] = IF s[n] \in S THEN Append(f[n - 1], s[n]) ELSE f[n - 1]
        BY <1>2, <4>1, Zenon DEF Taken
      <4> QED
        BY <3>2, <4>2, <4>3, Zenon
    <3> QED
      BY <3>1, <3>2
  <2> HIDE DEF B
  <2> QED
    BY <2>1
<1> DEFINE c == CHOOSE h : Is(h)
<1>4. Is(c)
  BY <1>3
<1>5. Among(s, S) = c[Len(s)]
  BY DEF Among
<1> HIDE DEF c
<1>6. Taken(c, s, S, Len(s))
  <2> HIDE DEF c
  <2>1. c = [n \in 0..Len(s) |-> B(c, n)]
    BY <1>4
  <2>2. DOMAIN c = 0..Len(s) /\ \A n \in 0..Len(s) : c[n] = B(c, n)
    BY <2>1
  <2>3. \A n \in 1..Len(s) : n \in 0..Len(s) /\ n # 0
    BY <1>1
  <2>4. 0 \in 0..Len(s)
    BY <1>1
  <2> QED
    BY <2>2, <2>3, <2>4, Zenon DEF Taken
<1> QED
  BY <1>5, <1>6

\* Nothing is among nothing.
LEMMA AmongEmpty ==
  ASSUME NEW S
  PROVE  Among(<<>>, S) = <<>>
<1>1. <<>> \in Seq({}) /\ Len(<<>>) = 0
  BY EmptySeq
<1>2. PICK f : Taken(f, <<>>, S, Len(<<>>)) /\ Among(<<>>, S) = f[Len(<<>>)]
  BY <1>1, AmongIs, Zenon
<1>3. f[0] = <<>>
  BY <1>2, Zenon DEF Taken
<1> QED
  BY <1>1, <1>2, <1>3, Zenon

\* One event more is taken or not.
LEMMA AmongAppend ==
  ASSUME NEW R, NEW s \in Seq(R), NEW e \in R, NEW S
  PROVE  Among(Append(s, e), S) = IF e \in S THEN Append(Among(s, S), e) ELSE Among(s, S)
<1> DEFINE t == Append(s, e)
<1>1. /\ Len(s) \in Nat /\ Len(t) = Len(s) + 1 /\ t \in Seq(R)
      /\ t[Len(s) + 1] = e /\ \A i \in 1..Len(s) : s[i] = t[i]
  BY AppendProperties, LenProperties
<1> HIDE DEF t
<1>2. PICK n \in Nat : n = Len(s)
  BY <1>1
<1>3. PICK f : Taken(f, s, S, n) /\ Among(s, S) = f[n]
  BY <1>2, AmongIs
<1>4. PICK g : Taken(g, t, S, n + 1) /\ Among(t, S) = g[n + 1]
  BY <1>1, <1>2, AmongIs
<1>5. f[n] = g[n]
  <2>1. n + 1 \in Nat /\ n <= n /\ n <= n + 1
    OBVIOUS
  <2>2. \A i \in 1..n : s[i] = t[i]
    BY <1>1, <1>2
  <2>3. Taken(f, s, S, n) /\ Taken(g, t, S, n + 1)
    BY <1>3, <1>4
  <2> QED
    BY <2>1, <2>2, <2>3, TakenAgree
<1>6. n + 1 \in 1..(n + 1) /\ (n + 1) - 1 = n
  OBVIOUS
<1>7. g[n + 1] = IF e \in S THEN Append(g[n], e) ELSE g[n]
  BY <1>1, <1>2, <1>4, <1>6 DEF Taken
<1> QED
  BY <1>3, <1>4, <1>5, <1>7 DEF t

\* An element appended is one of those of the sequence.
LEMMA RangeAppend ==
  ASSUME NEW R, NEW s \in Seq(R), NEW e \in R
  PROVE  Range(Append(s, e)) = Range(s) \cup {e}
<1>1. PICK t \in Seq(R) : t = <<e>>
  <2>1. <<e>> \in Seq(R)
    OBVIOUS
  <2> QED
    BY <2>1, Zenon
<1>2. Range(t) = {e}
  BY <1>1 DEF Range
<1>3. Append(s, e) = s \o t
  BY <1>1, AppendIsConcat
<1>4. Range(s \o t) = Range(s) \cup Range(t)
  BY RangeConcatenation
<1> QED
  BY <1>2, <1>3, <1>4, Zenon

\* Appending to the second part is appending to the whole.
LEMMA ConcatAppend ==
  ASSUME NEW R, NEW s \in Seq(R), NEW t \in Seq(R), NEW e \in R
  PROVE  s \o Append(t, e) = Append(s \o t, e)
<1>1. Append(t, e) = t \o <<e>> /\ <<e>> \in Seq(R)
  BY AppendIsConcat
<1>2. s \o t \in Seq(R)
  BY ConcatProperties
<1>3. Append(s \o t, e) = (s \o t) \o <<e>>
  BY <1>2, AppendIsConcat
<1> QED
  BY <1>1, <1>3, ConcatAssociative

\* What is taken is of the set.
LEMMA AmongTyped ==
  ASSUME NEW R, NEW s \in Seq(R), NEW S
  PROVE  Among(s, S) \in Seq(R) /\ Range(Among(s, S)) = Range(s) \cap S
<1> DEFINE T == {q \in Seq(R) : Among(q, S) \in Seq(R) /\ Range(Among(q, S)) = Range(q) \cap S}
<1>1. <<>> \in T
  <2>1. Range(<<>>) = {} /\ <<>> \in Seq(R)
    BY EmptySeq DEF Range
  <2> QED
    BY <2>1, AmongEmpty, Zenon
<1>2. ASSUME NEW q \in T, NEW e \in R
      PROVE  Append(q, e) \in T
  <2>1. /\ q \in Seq(R) /\ Among(q, S) \in Seq(R) /\ Range(Among(q, S)) = Range(q) \cap S
        /\ Append(q, e) \in Seq(R)
    BY AppendProperties
  <2>2. \A z \in Seq(R) : Range(Append(z, e)) = Range(z) \cup {e}
    BY RangeAppend
  <2>3. CASE e \in S
    <3>1. Among(Append(q, e), S) = Append(Among(q, S), e)
      BY <2>1, <2>3, AmongAppend
    <3>2. Append(Among(q, S), e) \in Seq(R)
      BY <2>1, AppendProperties
    <3>3. Range(Append(Among(q, S), e)) = Range(Append(q, e)) \cap S
      BY <2>1, <2>2, <2>3, Zenon
    <3> QED
      BY <2>1, <3>1, <3>2, <3>3, Zenon
  <2>4. CASE e \notin S
    <3>1. Among(Append(q, e), S) = Among(q, S)
      BY <2>1, <2>4, AmongAppend
    <3>2. Range(Append(q, e)) \cap S = Range(q) \cap S
      BY <2>1, <2>2, <2>4, Zenon
    <3> QED
      BY <2>1, <3>1, <3>2, Zenon
  <2> QED
    BY <2>3, <2>4
<1>3. T = Seq(R)
  <2>1. \A q \in T, e \in R : Append(q, e) \in T
    BY <1>2
  <2>2. T \in SUBSET Seq(R)
    OBVIOUS
  <2> HIDE DEF T
  <2> QED
    BY <1>1, <2>1, <2>2, SequenceInduction
<1> QED
  BY <1>3

\* What is taken of two sequences is taken of one after the other.
LEMMA AmongConcat ==
  ASSUME NEW R, NEW s \in Seq(R), NEW t \in Seq(R), NEW S
  PROVE  Among(s \o t, S) = Among(s, S) \o Among(t, S)
<1> DEFINE T == {q \in Seq(R) : Among(s \o q, S) = Among(s, S) \o Among(q, S)}
<1>1. <<>> \in T
  <2>1. s \o <<>> = s /\ Among(s, S) \o <<>> = Among(s, S)
    BY ConcatEmptySeq, AmongTyped
  <2>2. <<>> \in Seq(R)
    BY EmptySeq
  <2> QED
    BY <2>1, <2>2, AmongEmpty, Zenon
<1>2. ASSUME NEW q \in T, NEW e \in R
      PROVE  Append(q, e) \in T
  <2>1. /\ q \in Seq(R) /\ Among(s \o q, S) = Among(s, S) \o Among(q, S)
        /\ Append(q, e) \in Seq(R) /\ s \o q \in Seq(R)
        /\ Among(q, S) \in Seq(R) /\ Among(s, S) \in Seq(R)
    BY AppendProperties, ConcatProperties, AmongTyped
  <2>2. s \o Append(q, e) = Append(s \o q, e)
    BY <2>1, ConcatAppend
  <2>3. CASE e \in S
    <3>1. Among(Append(s \o q, e), S) = Append(Among(s, S) \o Among(q, S), e)
      <4>1. PICK w \in Seq(R) : w = s \o q
        BY <2>1
      <4>2. Among(Append(w, e), S) = Append(Among(w, S), e)
        BY <2>3, AmongAppend
      <4> QED
        BY <2>1, <4>1, <4>2, Zenon
    <3>2. Among(Append(q, e), S) = Append(Among(q, S), e)
      BY <2>1, <2>3, AmongAppend
    <3>3. Among(s, S) \o Append(Among(q, S), e) = Append(Among(s, S) \o Among(q, S), e)
      BY <2>1, ConcatAppend
    <3> QED
      BY <2>1, <2>2, <3>1, <3>2, <3>3, Zenon
  <2>4. CASE e \notin S
    <3>1. Among(Append(s \o q, e), S) = Among(s \o q, S)
      <4>1. PICK w \in Seq(R) : w = s \o q
        BY <2>1
      <4>2. Among(Append(w, e), S) = Among(w, S)
        BY <2>4, AmongAppend
      <4> QED
        BY <4>1, <4>2, Zenon
    <3>2. Among(Append(q, e), S) = Among(q, S)
      BY <2>1, <2>4, AmongAppend
    <3> QED
      BY <2>1, <2>2, <3>1, <3>2, Zenon
  <2> QED
    BY <2>3, <2>4
<1>3. T = Seq(R)
  <2>1. \A q \in T, e \in R : Append(q, e) \in T
    BY <1>2
  <2>2. T \in SUBSET Seq(R)
    OBVIOUS
  <2> HIDE DEF T
  <2> QED
    BY <1>1, <2>1, <2>2, SequenceInduction
<1> QED
  BY <1>3

\* It matters only which events of the sequence are in the set.
LEMMA AmongAgree ==
  ASSUME NEW R, NEW s \in Seq(R), NEW S, NEW T, Range(s) \cap S = Range(s) \cap T
  PROVE  Among(s, S) = Among(s, T)
<1> DEFINE U == {q \in Seq(R) : Range(q) \cap S = Range(q) \cap T => Among(q, S) = Among(q, T)}
<1>1. <<>> \in U
  BY EmptySeq, AmongEmpty
<1>2. ASSUME NEW q \in U, NEW e \in R
      PROVE  Append(q, e) \in U
  <2> SUFFICES ASSUME Range(Append(q, e)) \cap S = Range(Append(q, e)) \cap T
               PROVE  Among(Append(q, e), S) = Among(Append(q, e), T)
    BY AppendProperties
  <2>1. q \in Seq(R) /\ Range(Append(q, e)) = Range(q) \cup {e}
    BY RangeAppend
  <2>2. (e \in S <=> e \in T) /\ Range(q) \cap S = Range(q) \cap T
    BY <2>1
  <2>3. Among(q, S) = Among(q, T)
    BY <2>2
  <2>4. /\ Among(Append(q, e), S) = IF e \in S THEN Append(Among(q, S), e) ELSE Among(q, S)
        /\ Among(Append(q, e), T) = IF e \in T THEN Append(Among(q, T), e) ELSE Among(q, T)
    BY <2>1, AmongAppend
  <2> QED
    BY <2>2, <2>3, <2>4, Zenon
<1>3. U = Seq(R)
  <2>1. \A q \in U, e \in R : Append(q, e) \in U
    BY <1>2
  <2>2. U \in SUBSET Seq(R)
    OBVIOUS
  <2> HIDE DEF U
  <2> QED
    BY <1>1, <2>1, <2>2, SequenceInduction
<1> QED
  BY <1>3

\* Nothing is taken of what has nothing of the set.
LEMMA AmongNothing ==
  ASSUME NEW R, NEW s \in Seq(R), NEW S
  PROVE  Among(s, S) = <<>> <=> Range(s) \cap S = {}
<1>1. Among(s, S) \in Seq(R) /\ Range(Among(s, S)) = Range(s) \cap S
  BY AmongTyped
<1> HIDE DEF Among
<1>2. \A q \in Seq(R) : q = <<>> <=> Range(q) = {}
  <2> TAKE q \in Seq(R)
  <2>1. q = <<>> => Range(q) = {}
    BY DEF Range
  <2>2. q # <<>> => q[1] \in Range(q)
    <3>1. q # <<>> => 1 \in DOMAIN q
      BY EmptySeq, LenProperties
    <3> QED
      BY <3>1 DEF Range
  <2> QED
    BY <2>1, <2>2
<1> QED
  BY <1>1, <1>2

\* A sequence split at an element of the set: it stands behind some that are
\* not of the set, and what is taken of the others is the tail.
SplitAt(R, s, S, head, tail) ==
  /\ head \in R \cap S
  /\ \E r, u \in Seq(R) : s = Append(r, head) \o u /\ Range(r) \cap S = {} /\ Among(u, S) = tail

\* The first element that is taken splits the sequence.
LEMMA AmongHead ==
  ASSUME NEW R, NEW s \in Seq(R), NEW S, Among(s, S) # <<>>
  PROVE  SplitAt(R, s, S, Head(Among(s, S)), Tail(Among(s, S)))
<1> USE DEF SplitAt
<1> DEFINE Splits(q) == SplitAt(R, q, S, Head(Among(q, S)), Tail(Among(q, S)))
           T == {q \in Seq(R) : Among(q, S) # <<>> => Splits(q)}
<1>1. <<>> \in T
  BY EmptySeq, AmongEmpty
<1>2. ASSUME NEW q \in T, NEW e \in R
      PROVE  Append(q, e) \in T
  <2>1. q \in Seq(R) /\ Among(q, S) \in Seq(R) /\ Append(q, e) \in Seq(R)
    BY AppendProperties, AmongTyped
  <2> SUFFICES ASSUME Among(Append(q, e), S) # <<>>
               PROVE  Splits(Append(q, e))
    BY <2>1
  <2>2. Among(Append(q, e), S) = IF e \in S THEN Append(Among(q, S), e) ELSE Among(q, S)
    BY <2>1, AmongAppend
  <2>3. CASE Among(q, S) = <<>>
    <3>1. e \in S /\ Among(Append(q, e), S) = Append(<<>>, e)
      BY <2>2, <2>3, Zenon
    <3>2. Head(Append(<<>>, e)) = e /\ Tail(Append(<<>>, e)) = <<>>
      OBVIOUS
    <3>3. Range(q) \cap S = {}
      BY <2>1, <2>3, AmongNothing
    <3>4. Append(q, e) = Append(q, e) \o <<>> /\ <<>> \in Seq(R)
      BY <2>1, ConcatEmptySeq, EmptySeq
    <3> QED
      BY <2>1, <3>1, <3>2, <3>3, <3>4, AmongEmpty, Zenon
  <2>4. CASE Among(q, S) # <<>>
    <3> DEFINE h == Head(Among(q, S))
    <3>1. PICK r \in Seq(R), u \in Seq(R) :
            q = Append(r, h) \o u /\ Range(r) \cap S = {} /\ Among(u, S) = Tail(Among(q, S))
      BY <2>4
    <3>2. h \in R \cap S
      BY <2>4
    <3>3. /\ Head(Append(Among(q, S), e)) = h
          /\ Tail(Append(Among(q, S), e)) = Append(Tail(Among(q, S)), e)
      BY <2>1, <2>4, HeadTailAppend
    <3>4. Among(Append(u, e), S) = IF e \in S THEN Append(Among(u, S), e) ELSE Among(u, S)
      BY AmongAppend
    <3>5. Append(q, e) = Append(r, h) \o Append(u, e) /\ Append(u, e) \in Seq(R)
      <4>1. PICK v \in Seq(R) : v = Append(r, h)
        BY <3>2, AppendProperties
      <4>2. v \o Append(u, e) = Append(v \o u, e) /\ Append(u, e) \in Seq(R)
        BY ConcatAppend, AppendProperties
      <4> QED
        BY <3>1, <4>1, <4>2, Zenon
    <3>6. Head(Among(Append(q, e), S)) = h /\ Among(Append(u, e), S) = Tail(Among(Append(q, e), S))
      BY <2>2, <3>1, <3>3, <3>4, Zenon
    <3> QED
      BY <3>1, <3>2, <3>5, <3>6, Zenon
  <2> QED
    BY <2>3, <2>4
<1>3. T = Seq(R)
  <2>1. \A q \in T, e \in R : Append(q, e) \in T
    BY <1>2
  <2>2. T \in SUBSET Seq(R)
    OBVIOUS
  <2> HIDE DEF T
  <2> QED
    BY <1>1, <2>1, <2>2, SequenceInduction
<1> QED
  BY <1>3

\* One event more is taken, behind all the others that are.
LEMMA AmongOneMore ==
  ASSUME NEW R, NEW r \in Seq(R), NEW h \in R, NEW u \in Seq(R), NEW S, NEW T, h \in T, h \notin S,
         Range(u) \cap S = {}, Range(u) \cap T = {}, Range(r) \cap S = Range(r) \cap T
  PROVE  Among(Append(r, h) \o u, T) = Append(Among(Append(r, h) \o u, S), h)
<1>1. Among(u, S) = <<>> /\ Among(u, T) = <<>>
  BY AmongNothing
<1>2. Among(r, S) = Among(r, T) /\ Among(r, S) \in Seq(R)
  BY AmongAgree, AmongTyped
<1>3. Append(r, h) \in Seq(R) /\ Append(Among(r, S), h) \in Seq(R)
  BY <1>2, AppendProperties
<1>4. /\ Among(Append(r, h) \o u, S) = Among(Append(r, h), S) \o <<>>
      /\ Among(Append(r, h) \o u, T) = Among(Append(r, h), T) \o <<>>
  <2>1. PICK v \in Seq(R) : v = Append(r, h)
    BY <1>3
  <2>2. Among(v \o u, S) = Among(v, S) \o Among(u, S)
    BY AmongConcat
  <2>3. Among(v \o u, T) = Among(v, T) \o Among(u, T)
    BY AmongConcat
  <2> QED
    BY <1>1, <2>1, <2>2, <2>3, Zenon
<1>5. Among(Append(r, h), S) = Among(r, S) /\ Among(Append(r, h), T) = Append(Among(r, S), h)
  BY <1>2, AmongAppend
<1>6. Among(r, S) \o <<>> = Among(r, S) /\ Append(Among(r, S), h) \o <<>> = Append(Among(r, S), h)
  BY <1>2, <1>3, ConcatEmptySeq
<1> QED
  BY <1>4, <1>5, <1>6, Zenon

\* No event twice, in one sequence after the other.
LEMMA InjectiveConcat ==
  ASSUME NEW R, NEW s \in Seq(R), NEW t \in Seq(R)
  PROVE  IsInjective(s \o t) <=> IsInjective(s) /\ IsInjective(t) /\ Range(s) \cap Range(t) = {}
<1>1. /\ Len(s) \in Nat /\ Len(t) \in Nat /\ DOMAIN s = 1..Len(s) /\ DOMAIN t = 1..Len(t)
      /\ DOMAIN (s \o t) = 1..(Len(s) + Len(t))
      /\ \A i \in 1..(Len(s) + Len(t)) : (s \o t)[i] = IF i <= Len(s) THEN s[i] ELSE t[i - Len(s)]
  BY ConcatProperties, LenProperties
<1> DEFINE c == s \o t
<1> HIDE DEF c
<1>2. \A i \in DOMAIN s : i \in DOMAIN c /\ c[i] = s[i]
  BY <1>1 DEF c
<1>3. \A i \in DOMAIN t : Len(s) + i \in DOMAIN c /\ c[Len(s) + i] = t[i]
  BY <1>1 DEF c
<1>4. \A i \in DOMAIN c : (i \in DOMAIN s /\ c[i] = s[i]) \/ (i - Len(s) \in DOMAIN t /\ c[i] = t[i - Len(s)])
  BY <1>1 DEF c
<1>5. DOMAIN s \subseteq Int /\ DOMAIN t \subseteq Int /\ DOMAIN c \subseteq Int /\ Len(s) \in Int
      /\ \A i \in DOMAIN s, j \in DOMAIN t : i # Len(s) + j
  BY <1>1 DEF c
<1>6. ASSUME IsInjective(c)
      PROVE  IsInjective(s) /\ IsInjective(t) /\ Range(s) \cap Range(t) = {}
  <2>1. IsInjective(s)
    BY <1>2, <1>6 DEF IsInjective
  <2>2. IsInjective(t)
    BY <1>3, <1>5, <1>6 DEF IsInjective
  <2>3. Range(s) \cap Range(t) = {}
    BY <1>2, <1>3, <1>5, <1>6 DEF IsInjective, Range
  <2> QED
    BY <2>1, <2>2, <2>3
<1>7. ASSUME IsInjective(s), IsInjective(t), Range(s) \cap Range(t) = {}
      PROVE  IsInjective(c)
  <2> SUFFICES ASSUME NEW i \in DOMAIN c, NEW j \in DOMAIN c, c[i] = c[j]
               PROVE  i = j
    BY DEF IsInjective
  <2>1. CASE i \in DOMAIN s /\ c[i] = s[i] /\ j \in DOMAIN s /\ c[j] = s[j]
    BY <1>7, <2>1 DEF IsInjective
  <2>2. CASE i - Len(s) \in DOMAIN t /\ c[i] = t[i - Len(s)] /\ j - Len(s) \in DOMAIN t /\ c[j] = t[j - Len(s)]
    <3>1. i - Len(s) = j - Len(s)
      BY <1>7, <2>2 DEF IsInjective
    <3> QED
      BY <1>5, <3>1
  <2> QED
    BY <1>4, <1>7, <2>1, <2>2 DEF Range
<1> QED
  BY <1>6, <1>7 DEF c

\* The events that trigger the webhook.
Triggering == {e \in DomainEvent : e.op \in Announcing}

Projected == DomainEvent \ Unprojected
ToDeliver == {e \in Triggering : e \notin Unannounced /\ attempts[e] < MaxAttempts}

\* Until the projections are through, the last events of the log are fresh;
FreshInv ==
  stage \in {"hook", "project"} =>
    \E past \in Seq(DomainEvent) :
      /\ log = past \o fresh
      /\ Range(fresh) \cap (unprojected \cup unannounced) = {}
      /\ \A e \in Range(fresh) : attempts[e] = 0

\* then those of the last that trigger the webhook wait for it.
OutboxInv ==
  stage = "deliver" =>
    /\ \E past, rest \in Seq(DomainEvent) : log = past \o rest /\ outbox = Among(rest, Triggering)
    /\ Range(outbox) \cap unannounced = {}
    /\ \A e \in Range(outbox) : attempts[e] < MaxAttempts

OutsideInv ==
  /\ OutsideFollowsLog
  /\ IsInjective(log)
  /\ unprojected \cup unannounced \subseteq Range(log)
  /\ \A e \in DomainEvent \ Range(log) : attempts[e] = 0
  /\ stage # "deliver" => outbox = <<>>
  /\ FreshInv /\ OutboxInv

\* What the invariant says of each variable.
LEMMA OutsideTyped ==
  ASSUME OutsideInv
  PROVE  /\ log \in Seq(DomainEvent) /\ fresh \in Seq(DomainEvent) /\ outbox \in Seq(DomainEvent)
         /\ rows \in Seq(DomainEvent) /\ delivered \in Seq(DomainEvent)
         /\ stage \in Stages /\ attempts \in [DomainEvent -> 0..MaxAttempts]
         /\ unprojected \subseteq DomainEvent /\ unannounced \subseteq DomainEvent
         /\ rows = Among(log, Projected) /\ delivered = Among(log, ToDeliver)
         /\ Range(log) \subseteq DomainEvent /\ Range(fresh) \subseteq DomainEvent
<1>1. OutsideTypeOK /\ rows = Among(log, Projected) /\ delivered = Among(log, ToDeliver)
  BY Zenon DEF OutsideInv, OutsideFollowsLog, Projected, ToDeliver, Triggering
<1>2. /\ log \in Seq(DomainEvent) /\ fresh \in Seq(DomainEvent) /\ outbox \in Seq(DomainEvent)
      /\ rows \in Seq(DomainEvent) /\ delivered \in Seq(DomainEvent)
      /\ stage \in Stages /\ attempts \in [DomainEvent -> 0..MaxAttempts]
      /\ unprojected \subseteq DomainEvent /\ unannounced \subseteq DomainEvent
  BY <1>1 DEF OutsideTypeOK
<1>3. Range(log) \subseteq DomainEvent /\ Range(fresh) \subseteq DomainEvent
  BY <1>2, RangeOfSeq
<1> QED
  BY <1>1, <1>2, <1>3

\* The same events of the log are due: the same are taken of it.
LEMMA SameDue ==
  ASSUME OutsideInv, log' = log
  PROVE  /\ Range(log) \cap Unprojected' = Range(log) \cap Unprojected => Among(log', Projected') = rows
         /\ (\A e \in Range(log) : e \in ToDeliver' <=> e \in ToDeliver) => Among(log', ToDeliver') = delivered
<1>1. log \in Seq(DomainEvent) /\ Range(log) \subseteq DomainEvent
      /\ rows = Among(log, Projected) /\ delivered = Among(log, ToDeliver)
  BY OutsideTyped
<1>2. ASSUME Range(log) \cap Unprojected' = Range(log) \cap Unprojected
      PROVE  Among(log', Projected') = rows
  <2>1. Range(log) \cap Projected' = Range(log) \cap Projected
    BY <1>2 DEF Projected
  <2>2. PICK P : P = Projected'
    OBVIOUS
  <2>3. Among(log, P) = Among(log, Projected)
    BY <1>1, <2>1, <2>2, AmongAgree
  <2> QED
    BY <1>1, <2>2, <2>3, Zenon
<1>3. ASSUME \A e \in Range(log) : e \in ToDeliver' <=> e \in ToDeliver
      PROVE  Among(log', ToDeliver') = delivered
  <2>1. PICK P : P = ToDeliver'
    OBVIOUS
  <2>2. Range(log) \cap P = Range(log) \cap ToDeliver
    BY <1>3, <2>1
  <2>3. Among(log, P) = Among(log, ToDeliver)
    BY <1>1, <2>2, AmongAgree
  <2> QED
    BY <1>1, <2>1, <2>3, Zenon
<1> QED
  BY <1>2, <1>3

\* The parts of the property.
LEMMA OutsideFollows ==
  ASSUME OutsideTypeOK', rows' = Among(log', Projected'), delivered' = Among(log', ToDeliver')
  PROVE  OutsideFollowsLog'
BY Zenon DEF OutsideFollowsLog, Projected, ToDeliver, Triggering

\* The hook returns: what was fresh still is.
LEMMA OutsideHook ==
  ASSUME OutsideInv, HookReturns
  PROVE  OutsideInv'
<1>1. /\ stage = "hook" /\ stage' = "project"
      /\ UNCHANGED <<log, fresh, outbox, attempts, rows, delivered, unprojected, unannounced>>
  BY DEF HookReturns
<1>2. OutsideTypeOK'
  BY <1>1 DEF OutsideInv, OutsideFollowsLog, OutsideTypeOK, Stages
<1>3. Unprojected' = Unprojected /\ Unannounced' = Unannounced
  BY <1>1 DEF Unprojected, Unannounced
<1>4. ToDeliver' = ToDeliver
  BY <1>1, <1>3 DEF ToDeliver
<1>5. OutsideFollowsLog'
  BY <1>1, <1>2, <1>3, <1>4, SameDue, OutsideFollows
<1>6. FreshInv' /\ OutboxInv'
  BY <1>1 DEF OutsideInv, FreshInv, OutboxInv
<1> QED
  BY <1>1, <1>5, <1>6 DEF OutsideInv

\* The projection takes the fresh events that are not lost, the outbox those that trigger the webhook.
LEMMA OutsideProject ==
  ASSUME OutsideInv, NEW failing \in SUBSET Range(fresh), NEW skipped, Project(failing, skipped)
  PROVE  OutsideInv'
<1> DEFINE lost == IF "projections" \in skipped THEN Range(fresh) ELSE failing
           taken == "webhooks" \notin skipped
<1>1. /\ stage = "project" /\ stage' = "deliver"
      /\ rows' = rows \o Among(fresh, DomainEvent \ lost)
      /\ unprojected' = unprojected \cup lost
      /\ outbox' = IF taken THEN Among(fresh, Triggering) ELSE <<>>
      /\ unannounced' = unannounced \cup (IF taken THEN {} ELSE Range(fresh))
      /\ UNCHANGED <<log, fresh, attempts, delivered>>
  BY Zenon DEF Project, Reduce, Triggering
<1>2. lost \subseteq Range(fresh)
  OBVIOUS
<1> HIDE DEF lost, taken
<1>3. /\ log \in Seq(DomainEvent) /\ fresh \in Seq(DomainEvent) /\ rows \in Seq(DomainEvent)
      /\ attempts \in [DomainEvent -> 0..MaxAttempts]
      /\ unprojected \subseteq DomainEvent /\ unannounced \subseteq DomainEvent
      /\ rows = Among(log, Projected) /\ Range(fresh) \subseteq DomainEvent
  BY OutsideTyped
<1>4. PICK past \in Seq(DomainEvent) :
        /\ log = past \o fresh
        /\ Range(fresh) \cap (unprojected \cup unannounced) = {}
        /\ \A e \in Range(fresh) : attempts[e] = 0
  BY <1>1 DEF OutsideInv, FreshInv
<1>5. Range(log) = Range(past) \cup Range(fresh) /\ Range(past) \cap Range(fresh) = {}
  <2>1. IsInjective(past \o fresh)
    BY <1>4 DEF OutsideInv
  <2> QED
    BY <1>3, <1>4, <2>1, RangeConcatenation, InjectiveConcat
<1>6. Among(fresh, Triggering) \in Seq(DomainEvent) /\ Range(Among(fresh, Triggering)) = Range(fresh) \cap Triggering
  BY <1>3, AmongTyped
<1>7. Range(outbox') = IF taken THEN Range(fresh) \cap Triggering ELSE {}
  <2>1. Range(<<>>) = {}
    BY DEF Range
  <2> QED
    BY <1>1, <1>6, <2>1, Zenon
<1>8. rows' = Among(log', Projected')
  <2>1. PICK P : P = Projected'
    OBVIOUS
  <2>2. P = DomainEvent \ (unprojected \cup lost) /\ Projected = DomainEvent \ (unprojected \cup Range(fresh))
    BY <1>1, <2>1 DEF Projected, Unprojected
  <2>3. Among(log, P) = Among(past, P) \o Among(fresh, P)
    <3>1. past \in Seq(DomainEvent) /\ fresh \in Seq(DomainEvent)
      BY <1>3
    <3>2. Among(past \o fresh, P) = Among(past, P) \o Among(fresh, P)
      BY <3>1, AmongConcat
    <3> QED
      BY <1>4, <3>2, Zenon
  <2>4. rows = Among(past, Projected) \o Among(fresh, Projected)
    <3>1. Among(past \o fresh, Projected) = Among(past, Projected) \o Among(fresh, Projected)
      BY <1>3, AmongConcat
    <3> QED
      BY <1>3, <1>4, <3>1, Zenon
  <2>5. Among(fresh, Projected) = <<>>
    <3>1. Range(fresh) \cap Projected = {}
      BY <2>2
    <3> QED
      BY <1>3, <3>1, AmongNothing
  <2>6. Among(past, P) = Among(past, Projected)
    <3>1. Range(past) \cap P = Range(past) \cap Projected
      BY <1>2, <1>5, <2>2
    <3> QED
      BY <3>1, AmongAgree
  <2>7. Among(fresh, P) = Among(fresh, DomainEvent \ lost)
    <3>1. Range(fresh) \cap P = Range(fresh) \cap (DomainEvent \ lost)
      BY <1>4, <2>2
    <3> QED
      BY <1>3, <3>1, AmongAgree
  <2>8. Among(past, Projected) \o <<>> = Among(past, Projected)
    BY AmongTyped, ConcatEmptySeq
  <2>9. rows = Among(past, P)
    BY <2>4, <2>5, <2>6, <2>8, Zenon
  <2> QED
    BY <1>1, <2>1, <2>3, <2>7, <2>9, Zenon
<1>9. delivered' = Among(log', ToDeliver')
  <2>1. Unannounced = unannounced \cup Range(fresh) /\ Unannounced' = unannounced' \cup Range(outbox')
    BY <1>1 DEF Unannounced
  <2>2. \A e \in Range(log) : e \in ToDeliver' <=> e \in ToDeliver
    <3> TAKE e \in Range(log)
    <3>1. e \in Triggering => (e \in Unannounced' <=> e \in Unannounced)
      BY <1>1, <1>7, <2>1
    <3> QED
      BY <1>1, <3>1 DEF ToDeliver
  <2> QED
    BY <1>1, <2>2, SameDue
<1>10. OutsideTypeOK'
  <2>1. rows' \in Seq(DomainEvent)
    <3>1. Among(fresh, DomainEvent \ lost) \in Seq(DomainEvent)
      BY <1>3, AmongTyped
    <3> QED
      BY <1>1, <1>3, <3>1, ConcatProperties
  <2>2. outbox' \in Seq(DomainEvent)
    BY <1>1, <1>6, EmptySeq
  <2>3. unprojected' \subseteq DomainEvent /\ unannounced' \subseteq DomainEvent
    BY <1>1, <1>2, <1>3
  <2> QED
    BY <1>1, <2>1, <2>2, <2>3 DEF OutsideInv, OutsideFollowsLog, OutsideTypeOK, Stages
<1>11. OutboxInv'
  <2>1. \E before, rest \in Seq(DomainEvent) : log = before \o rest /\ outbox' = Among(rest, Triggering)
    <3>1. CASE taken
      BY <1>1, <1>3, <1>4, <3>1
    <3>2. CASE ~taken
      <4>1. log = log \o <<>> /\ <<>> \in Seq(DomainEvent) /\ Among(<<>>, Triggering) = <<>>
        BY <1>3, ConcatEmptySeq, EmptySeq, AmongEmpty
      <4> QED
        BY <1>1, <1>3, <3>2, <4>1, Zenon
    <3> QED
      BY <3>1, <3>2
  <2>2. Range(outbox') \cap unannounced' = {}
    BY <1>1, <1>4, <1>7
  <2>3. \A e \in Range(outbox') : attempts'[e] < MaxAttempts
    <3> TAKE e \in Range(outbox')
    <3>1. e \in Range(fresh) /\ attempts'[e] = 0
      BY <1>1, <1>4, <1>7
    <3> QED
      BY <3>1, NamesAssumption
  <2>4. Triggering' = Triggering
    BY DEF Triggering
  <2> QED
    BY <1>1, <2>1, <2>2, <2>3, <2>4 DEF OutboxInv
<1>12. FreshInv' /\ (stage' # "deliver" => outbox' = <<>>)
  BY <1>1 DEF FreshInv
<1>13. /\ IsInjective(log') /\ unprojected' \cup unannounced' \subseteq Range(log')
       /\ \A e \in DomainEvent \ Range(log') : attempts'[e] = 0
  BY <1>1, <1>2, <1>5 DEF OutsideInv
<1> QED
  BY <1>8, <1>9, <1>10, <1>11, <1>12, <1>13, OutsideFollows DEF OutsideInv

\* The event whose webhook is due stands behind those it was announced for, and before the others.
LEMMA OutboxHead ==
  ASSUME OutsideInv, stage = "deliver", outbox # <<>>
  PROVE  /\ Head(outbox) \in Triggering /\ Head(outbox) \in Range(outbox) /\ Head(outbox) \in Range(log)
         /\ Tail(outbox) \in Seq(DomainEvent)
         /\ Range(outbox) = {Head(outbox)} \cup Range(Tail(outbox)) /\ Head(outbox) \notin Range(Tail(outbox))
         /\ \E r, u \in Seq(DomainEvent) :
              /\ log = Append(r, Head(outbox)) \o u
              /\ Tail(outbox) = Among(u, Triggering) /\ Range(Tail(outbox)) = Range(u) \cap Triggering
              /\ Head(outbox) \notin Range(r) \cup Range(u)
<1> DEFINE h == Head(outbox)
<1>1. PICK past \in Seq(DomainEvent), rest \in Seq(DomainEvent) : log = past \o rest /\ outbox = Among(rest, Triggering)
  BY DEF OutsideInv, OutboxInv
<1>2. /\ h \in DomainEvent \cap Triggering
      /\ \E r, u \in Seq(DomainEvent) : /\ rest = Append(r, h) \o u
                                        /\ Range(r) \cap Triggering = {} /\ Among(u, Triggering) = Tail(outbox)
  <2>1. Among(rest, Triggering) # <<>>
    BY <1>1, Zenon
  <2>2. SplitAt(DomainEvent, rest, Triggering, Head(Among(rest, Triggering)), Tail(Among(rest, Triggering)))
    BY <2>1, AmongHead
  <2>3. SplitAt(DomainEvent, rest, Triggering, h, Tail(outbox))
    BY <1>1, <2>2, Zenon
  <2> QED
    BY <2>3, Zenon DEF SplitAt
<1>3. PICK b \in Seq(DomainEvent), u \in Seq(DomainEvent) :
        rest = Append(b, h) \o u /\ Range(b) \cap Triggering = {} /\ Among(u, Triggering) = Tail(outbox)
  BY <1>2
<1> HIDE DEF h
<1>4. Append(b, h) \in Seq(DomainEvent) /\ Range(Append(b, h)) = Range(b) \cup {h}
  BY <1>2, <1>3, AppendProperties, RangeAppend
<1>5. PICK r \in Seq(DomainEvent) : r = past \o b
  BY <1>1, <1>3, ConcatProperties
<1>6. log = Append(r, h) \o u
  <2>1. PICK v \in Seq(DomainEvent) : v = Append(b, h)
    BY <1>4
  <2>2. (past \o v) \o u = past \o (v \o u)
    BY ConcatAssociative, SMTT(30)
  <2>3. past \o Append(b, h) = Append(past \o b, h)
    BY <1>1, <1>2, <1>3, ConcatAppend
  <2> QED
    BY <1>1, <1>3, <1>5, <2>1, <2>2, <2>3, Zenon
<1>7. PICK v \in Seq(DomainEvent) : v = Append(r, h)
  BY <1>2, <1>5, AppendProperties
<1>8. h \notin Range(r) \cup Range(u) /\ h \in Range(log)
  <2>1. h \in DomainEvent
    BY <1>2
  <2>2. v = r \o <<h>> /\ <<h>> \in Seq(DomainEvent) /\ Range(<<h>>) = {h}
    <3>1. Append(r, h) = r \o <<h>>
      BY <2>1, AppendIsConcat
    <3>2. <<h>> \in Seq(DomainEvent) /\ Range(<<h>>) = {h}
      BY <2>1 DEF Range
    <3> QED
      BY <1>7, <3>1, <3>2
  <2>3. Range(v) = Range(r) \cup {h}
    BY <1>7, <2>1, RangeAppend
  <2>4. IsInjective(v \o u)
    BY <1>6, <1>7, Zenon DEF OutsideInv
  <2>5. IsInjective(v) /\ Range(v) \cap Range(u) = {}
    BY <1>3, <1>7, <2>4, InjectiveConcat
  <2>6. Range(r) \cap Range(<<h>>) = {}
    BY <2>2, <2>5, InjectiveConcat
  <2>7. Range(v \o u) = Range(v) \cup Range(u)
    <3>1. u \in Seq(DomainEvent) /\ v \in Seq(DomainEvent)
      OBVIOUS
    <3> QED
      BY <3>1, RangeConcatenation
  <2>8. Range(log) = Range(v) \cup Range(u)
    BY <1>6, <1>7, <2>7, Zenon
  <2> QED
    <3>1. Range(r) \cap {h} = {}
      BY <2>2, <2>6, Zenon
    <3> QED
      BY <2>3, <2>5, <2>8, <3>1
<1>9. Tail(outbox) \in Seq(DomainEvent) /\ Range(Tail(outbox)) = Range(u) \cap Triggering
  <2>1. Among(u, Triggering) \in Seq(DomainEvent) /\ Range(Among(u, Triggering)) = Range(u) \cap Triggering
    BY AmongTyped
  <2> QED
    BY <1>3, <2>1, Zenon
<1>10. Range(outbox) = {h} \cup Range(Tail(outbox))
  <2>1. Range(outbox) = Range(rest) \cap Triggering
    BY <1>1, AmongTyped
  <2>2. Range(rest) = Range(Append(b, h)) \cup Range(u)
    <3>1. PICK w \in Seq(DomainEvent) : w = Append(b, h)
      BY <1>4
    <3>2. Range(w \o u) = Range(w) \cup Range(u)
      BY RangeConcatenation
    <3> QED
      BY <1>3, <3>1, <3>2, Zenon
  <2> QED
    BY <1>2, <1>3, <1>4, <1>9, <2>1, <2>2
<1> QED
  BY <1>2, <1>3, <1>5, <1>6, <1>8, <1>9, <1>10 DEF h

\* The rest of the outbox is what the rest of the log announces.
LEMMA OutboxTail ==
  ASSUME OutsideInv, stage = "deliver", outbox # <<>>, outbox' = Tail(outbox), UNCHANGED <<log, unannounced>>,
         \A e \in Range(outbox) \ {Head(outbox)} : attempts'[e] = attempts[e]
  PROVE  OutboxInv' /\ outbox' \in Seq(DomainEvent)
<1> DEFINE h == Head(outbox)
<1>1. /\ Tail(outbox) \in Seq(DomainEvent)
      /\ Range(outbox) = {h} \cup Range(Tail(outbox)) /\ h \notin Range(Tail(outbox))
  BY OutboxHead
<1>2. PICK r \in Seq(DomainEvent), u \in Seq(DomainEvent) :
        log = Append(r, h) \o u /\ Tail(outbox) = Among(u, Triggering)
  BY OutboxHead
<1>3. h \in DomainEvent
  BY OutboxHead DEF Triggering
<1> HIDE DEF h
<1>4. PICK v \in Seq(DomainEvent) : v = Append(r, h)
  BY <1>3, AppendProperties
<1>5. \E past, rest \in Seq(DomainEvent) : log' = past \o rest /\ outbox' = Among(rest, Triggering')
  <2>1. log = v \o u /\ outbox' = Among(u, Triggering)
    BY <1>2, <1>4, Zenon
  <2>2. Triggering' = Triggering /\ log' = log
    BY DEF Triggering
  <2> QED
    BY <2>1, <2>2, Zenon
<1>6. /\ Range(outbox) \cap unannounced = {}
      /\ \A e \in Range(outbox) : attempts[e] < MaxAttempts
  BY DEF OutsideInv, OutboxInv
<1>7. Range(outbox') \cap unannounced' = {}
  BY <1>1, <1>6
<1>8. \A e \in Range(outbox') : attempts'[e] < MaxAttempts
  BY <1>1, <1>6 DEF h
<1> QED
  BY <1>1, <1>5, <1>7, <1>8 DEF OutboxInv

\* A delivery is the next of those due.
LEMMA OutsideDeliver ==
  ASSUME OutsideInv, Deliver
  PROVE  OutsideInv'
<1> DEFINE h == Head(outbox)
<1>1. /\ stage = "deliver" /\ outbox # <<>>
      /\ delivered' = Append(delivered, h) /\ outbox' = Tail(outbox)
      /\ UNCHANGED <<log, stage, fresh, attempts, rows, unprojected, unannounced>>
  BY DEF Deliver
<1>2. /\ log \in Seq(DomainEvent) /\ delivered \in Seq(DomainEvent)
      /\ rows = Among(log, Projected) /\ delivered = Among(log, ToDeliver)
  BY OutsideTyped
<1>3. /\ h \in Triggering /\ h \in Range(outbox) /\ h \in Range(log)
      /\ Range(outbox) = {h} \cup Range(Tail(outbox)) /\ h \notin Range(Tail(outbox))
  BY <1>1, OutboxHead
<1>4. PICK r \in Seq(DomainEvent), u \in Seq(DomainEvent) :
        /\ log = Append(r, h) \o u
        /\ Range(Tail(outbox)) = Range(u) \cap Triggering
        /\ h \notin Range(r) \cup Range(u)
  BY <1>1, OutboxHead
<1>5. /\ Range(outbox) \cap unannounced = {}
      /\ \A e \in Range(outbox) : attempts[e] < MaxAttempts
  BY <1>1 DEF OutsideInv, OutboxInv
<1>6. /\ Unannounced = unannounced \cup Range(outbox)
      /\ Unannounced' = unannounced \cup Range(Tail(outbox))
      /\ Projected' = Projected /\ Unprojected' = Unprojected
  BY <1>1 DEF Unannounced, Unprojected, Projected
<1>7. PICK S, T : S = ToDeliver /\ T = ToDeliver'
  OBVIOUS
<1>8. /\ S = {e \in Triggering : e \notin Unannounced /\ attempts[e] < MaxAttempts}
      /\ T = {e \in Triggering : e \notin Unannounced' /\ attempts[e] < MaxAttempts}
  BY <1>1, <1>7 DEF ToDeliver, Triggering
<1> HIDE DEF h
<1>9. h \in T /\ h \notin S
  BY <1>3, <1>5, <1>6, <1>8
<1>10. Range(u) \cap S = {} /\ Range(u) \cap T = {}
  BY <1>3, <1>4, <1>6, <1>8
<1>11. Range(r) \cap S = Range(r) \cap T
  BY <1>3, <1>4, <1>6, <1>8
<1>12. delivered' = Among(log', ToDeliver')
  <2>1. h \in DomainEvent
    BY <1>3 DEF Triggering
  <2>2. Among(Append(r, h) \o u, T) = Append(Among(Append(r, h) \o u, S), h)
    BY <1>9, <1>10, <1>11, <2>1, AmongOneMore
  <2>3. log' = log
    BY <1>1
  <2> QED
    BY <1>1, <1>2, <1>4, <1>7, <2>2, <2>3, Zenon DEF h
<1>13. OutboxInv' /\ outbox' \in Seq(DomainEvent)
  BY <1>1, OutboxTail
<1>14. OutsideTypeOK'
  <2>1. delivered' \in Seq(DomainEvent)
    BY <1>1, <1>2, <1>3, AppendProperties DEF h, Triggering
  <2> QED
    BY <1>1, <1>13, <2>1 DEF OutsideInv, OutsideFollowsLog, OutsideTypeOK
<1>15. rows' = Among(log', Projected')
  BY <1>1, <1>2, <1>6
<1>16. OutsideFollowsLog'
  BY <1>12, <1>14, <1>15, OutsideFollows
<1>17. FreshInv'
  BY <1>1 DEF FreshInv
<1> QED
  BY <1>1, <1>13, <1>16, <1>17 DEF OutsideInv

\* A delivery that fails is tried again, until it is given up; the others stay due.
LEMMA OutsideFails ==
  ASSUME OutsideInv, DeliveryFails
  PROVE  OutsideInv'
<1> DEFINE h == Head(outbox)
<1>1. /\ stage = "deliver" /\ outbox # <<>>
      /\ attempts' = [attempts EXCEPT ![h] = @ + 1]
      /\ outbox' = IF attempts'[h] >= MaxAttempts THEN Tail(outbox) ELSE outbox
      /\ UNCHANGED <<log, stage, fresh, rows, delivered, unprojected, unannounced>>
  BY DEF DeliveryFails, GivesUp
<1>2. /\ outbox \in Seq(DomainEvent) /\ attempts \in [DomainEvent -> 0..MaxAttempts]
      /\ rows = Among(log, Projected) /\ delivered = Among(log, ToDeliver)
      /\ Range(log) \subseteq DomainEvent
  BY OutsideTyped
<1>3. /\ h \in Triggering /\ h \in Range(outbox) /\ h \in Range(log)
      /\ Range(outbox) = {h} \cup Range(Tail(outbox)) /\ h \notin Range(Tail(outbox))
  BY <1>1, OutboxHead
<1>4. /\ Range(outbox) \cap unannounced = {}
      /\ \A e \in Range(outbox) : attempts[e] < MaxAttempts
  BY <1>1 DEF OutsideInv, OutboxInv
<1> HIDE DEF h
<1>5. /\ attempts' \in [DomainEvent -> 0..MaxAttempts]
      /\ \A e \in DomainEvent : e # h => attempts'[e] = attempts[e]
  <2>1. h \in DomainEvent /\ attempts[h] + 1 \in 0..MaxAttempts
    BY <1>2, <1>3, <1>4, NamesAssumption
  <2> QED
    BY <1>1, <1>2, <2>1
<1>6. OutboxInv' /\ outbox' \in Seq(DomainEvent)
  <2>1. CASE attempts'[h] >= MaxAttempts
    <3>1. outbox' = Tail(outbox)
      BY <1>1, <2>1
    <3>2. \A e \in Range(outbox) \ {Head(outbox)} : attempts'[e] = attempts[e]
      BY <1>2, <1>5, RangeOfSeq DEF h
    <3> QED
      BY <1>1, <3>1, <3>2, OutboxTail
  <2>2. CASE ~(attempts'[h] >= MaxAttempts)
    <3>1. outbox' = outbox /\ attempts'[h] < MaxAttempts
      BY <1>1, <1>2, <1>3, <1>5, <2>2, NamesAssumption DEF Triggering
    <3>2. \A e \in Range(outbox) : attempts'[e] < MaxAttempts
      BY <1>2, <1>4, <1>5, <3>1, RangeOfSeq
    <3>3. \E past, rest \in Seq(DomainEvent) : log = past \o rest /\ outbox = Among(rest, Triggering)
      BY <1>1 DEF OutsideInv, OutboxInv
    <3>4. \E past, rest \in Seq(DomainEvent) : log' = past \o rest /\ outbox' = Among(rest, Triggering')
      <4>1. log' = log /\ outbox' = outbox /\ Triggering' = Triggering
        BY <1>1, <3>1 DEF Triggering
      <4> QED
        BY <3>3, <4>1, Zenon
    <3>5. Range(outbox') \cap unannounced' = {}
      BY <1>1, <1>4, <3>1
    <3>6. \A e \in Range(outbox') : attempts'[e] < MaxAttempts
      BY <3>1, <3>2
    <3> QED
      BY <1>2, <3>1, <3>4, <3>5, <3>6 DEF OutboxInv
  <2> QED
    BY <2>1, <2>2
<1>7. /\ Unannounced = unannounced \cup Range(outbox)
      /\ Unannounced' = unannounced \cup Range(outbox')
      /\ Unprojected' = Unprojected
  BY <1>1 DEF Unannounced, Unprojected
<1>8. \A e \in Range(log) : e \in ToDeliver' <=> e \in ToDeliver
  <2> TAKE e \in Range(log)
  <2>1. CASE e # h
    <3>1. attempts'[e] = attempts[e]
      BY <1>2, <1>5, <2>1
    <3>2. e \in Range(outbox') <=> e \in Range(outbox)
      BY <1>1, <1>3, <2>1
    <3> QED
      BY <1>7, <3>1, <3>2 DEF ToDeliver, Triggering
  <2>2. CASE e = h
    <3>1. e \notin ToDeliver
      BY <1>3, <1>7, <2>2 DEF ToDeliver
    <3>2. e \notin ToDeliver'
      <4>1. CASE attempts'[h] >= MaxAttempts
        BY <1>3, <1>5, <2>2, <4>1, NamesAssumption DEF ToDeliver, Triggering
      <4>2. CASE ~(attempts'[h] >= MaxAttempts)
        <5>1. outbox' = outbox
          BY <1>1, <4>2
        <5>2. e \in Unannounced'
          BY <1>3, <1>7, <2>2, <5>1
        <5> QED
          BY <5>2 DEF ToDeliver
      <4> QED
        BY <4>1, <4>2
    <3> QED
      BY <3>1, <3>2
  <2> QED
    BY <2>1, <2>2
<1>9. delivered' = Among(log', ToDeliver') /\ rows' = Among(log', Projected')
  BY <1>1, <1>2, <1>7, <1>8, SameDue
<1>10. OutsideTypeOK'
  BY <1>1, <1>5, <1>6 DEF OutsideInv, OutsideFollowsLog, OutsideTypeOK
<1>11. OutsideFollowsLog'
  BY <1>9, <1>10, OutsideFollows
<1>12. \A e \in DomainEvent \ Range(log') : attempts'[e] = 0
  BY <1>1, <1>3, <1>5 DEF OutsideInv
<1>13. FreshInv' /\ stage' = "deliver"
  BY <1>1 DEF FreshInv
<1>14. IsInjective(log') /\ unprojected' \cup unannounced' \subseteq Range(log')
  BY <1>1 DEF OutsideInv
<1> QED
  BY <1>6, <1>11, <1>12, <1>13, <1>14 DEF OutsideInv

\* The end of the post-commit work leaves nothing behind.
LEMMA OutsideEnds ==
  ASSUME OutsideInv, EndPostCommit
  PROVE  OutsideInv'
<1>1. /\ stage = "deliver" /\ outbox = <<>> /\ stage' = "none"
      /\ UNCHANGED <<log, fresh, outbox, attempts, rows, delivered, unprojected, unannounced>>
  BY DEF EndPostCommit, AllDelivered
<1>2. rows = Among(log, Projected) /\ delivered = Among(log, ToDeliver)
  BY OutsideTyped
<1>3. Unprojected' = Unprojected /\ Unannounced' = Unannounced
  BY <1>1 DEF Unprojected, Unannounced
<1>4. ToDeliver' = ToDeliver
  BY <1>1, <1>3 DEF ToDeliver, Triggering
<1>5. rows' = Among(log', Projected') /\ delivered' = Among(log', ToDeliver')
  BY <1>1, <1>3, <1>4, SameDue
<1>6. OutsideTypeOK'
  BY <1>1 DEF OutsideInv, OutsideFollowsLog, OutsideTypeOK, Stages
<1>7. OutsideFollowsLog'
  BY <1>5, <1>6, OutsideFollows
<1>8. FreshInv' /\ OutboxInv'
  BY <1>1 DEF FreshInv, OutboxInv
<1> QED
  BY <1>1, <1>7, <1>8 DEF OutsideInv

\* What was to follow is thrown away: none of it is due any longer.
LEMMA OutsideThrows ==
  ASSUME OutsideInv, NEW skipped, PostCommitThrows(skipped)
  PROVE  OutsideInv'
<1>1. /\ stage \in {"hook", "deliver"} /\ stage' = "none" /\ outbox' = <<>>
      /\ unprojected' = unprojected \cup (IF stage = "hook" THEN Range(fresh) ELSE {})
      /\ unannounced' = unannounced \cup (IF stage = "hook" THEN Range(fresh) ELSE Range(outbox))
      /\ UNCHANGED <<log, fresh, attempts, rows, delivered>>
  BY DEF PostCommitThrows
<1>2. /\ log \in Seq(DomainEvent) /\ fresh \in Seq(DomainEvent)
      /\ unprojected \subseteq DomainEvent /\ unannounced \subseteq DomainEvent
      /\ rows = Among(log, Projected) /\ delivered = Among(log, ToDeliver)
      /\ Range(log) \subseteq DomainEvent
  BY OutsideTyped
<1>3. Range(<<>>) = {}
  BY DEF Range
<1>4. Unprojected' = Unprojected /\ Unannounced' = Unannounced
  BY <1>1, <1>3 DEF Unprojected, Unannounced
<1>5. ToDeliver' = ToDeliver
  BY <1>1, <1>4 DEF ToDeliver, Triggering
<1>6. rows' = Among(log', Projected') /\ delivered' = Among(log', ToDeliver')
  BY <1>1, <1>4, <1>5, SameDue
<1>7. stage = "hook" => Range(fresh) \subseteq Range(log)
  <2> SUFFICES ASSUME stage = "hook"
               PROVE  Range(fresh) \subseteq Range(log)
    OBVIOUS
  <2>1. PICK past \in Seq(DomainEvent) : log = past \o fresh
    BY DEF OutsideInv, FreshInv
  <2> QED
    BY <1>2, <2>1, RangeConcatenation
<1>8. stage = "deliver" => Range(outbox) \subseteq Range(log)
  <2> SUFFICES ASSUME stage = "deliver"
               PROVE  Range(outbox) \subseteq Range(log)
    OBVIOUS
  <2>1. PICK past \in Seq(DomainEvent), rest \in Seq(DomainEvent) : log = past \o rest /\ outbox = Among(rest, Triggering)
    BY DEF OutsideInv, OutboxInv
  <2>2. Range(Among(rest, Triggering)) = Range(rest) \cap Triggering
    BY AmongTyped
  <2>3. Range(past \o rest) = Range(past) \cup Range(rest)
    BY RangeConcatenation
  <2> QED
    BY <2>1, <2>2, <2>3, Zenon
<1>9. unprojected' \cup unannounced' \subseteq Range(log')
  BY <1>1, <1>7, <1>8 DEF OutsideInv
<1>10. OutsideTypeOK'
  <2>1. unprojected' \subseteq DomainEvent /\ unannounced' \subseteq DomainEvent
    BY <1>1, <1>2, <1>9
  <2>2. outbox' \in Seq(DomainEvent)
    BY <1>1, EmptySeq
  <2> QED
    BY <1>1, <2>1, <2>2 DEF OutsideInv, OutsideFollowsLog, OutsideTypeOK, Stages
<1>11. OutsideFollowsLog'
  BY <1>6, <1>10, OutsideFollows
<1>12. FreshInv' /\ OutboxInv'
  BY <1>1 DEF FreshInv, OutboxInv
<1> QED
  BY <1>1, <1>9, <1>11, <1>12 DEF OutsideInv

\* Events that are new are due once they are projected and announced.
LEMMA OutsideCommits ==
  ASSUME OutsideInv, NEW events \in Seq(DomainEvent), IsInjective(events), Range(events) \cap Range(log) = {},
         CommitEvents(events)
  PROVE  OutsideInv'
<1>1. /\ stage = "none" /\ stage' = "hook" /\ log' = log \o events /\ fresh' = events
      /\ UNCHANGED <<outbox, attempts, rows, delivered, unprojected, unannounced>>
  BY DEF CommitEvents
<1>2. /\ log \in Seq(DomainEvent)
      /\ unprojected \subseteq DomainEvent /\ unannounced \subseteq DomainEvent
      /\ rows \in Seq(DomainEvent) /\ delivered \in Seq(DomainEvent)
      /\ rows = Among(log, Projected) /\ delivered = Among(log, ToDeliver)
      /\ Range(log) \subseteq DomainEvent
  BY OutsideTyped
<1>3. /\ unprojected \cup unannounced \subseteq Range(log) /\ outbox = <<>>
      /\ \A e \in DomainEvent \ Range(log) : attempts[e] = 0
  BY <1>1 DEF OutsideInv
<1>4. Range(<<>>) = {} /\ Range(events) \subseteq DomainEvent
  BY RangeOfSeq DEF Range
<1>5. /\ Unprojected = unprojected /\ Unprojected' = unprojected \cup Range(events)
      /\ Unannounced = unannounced /\ Unannounced' = unannounced \cup Range(events)
  <2>1. Range(outbox) = {}
    BY <1>3, <1>4, Zenon
  <2> QED
    BY <1>1, <2>1 DEF Unprojected, Unannounced
<1>6. Among(log', Projected') = rows
  <2>1. PICK P : P = Projected'
    OBVIOUS
  <2>2. Range(log) \cap P = Range(log) \cap Projected /\ Range(events) \cap P = {}
    BY <1>5, <2>1 DEF Projected
  <2>3. Among(log \o events, P) = Among(log, P) \o Among(events, P)
    <3>1. log \in Seq(DomainEvent) /\ events \in Seq(DomainEvent)
      BY <1>2
    <3> QED
      BY <3>1, AmongConcat
  <2>4. Among(log, P) = Among(log, Projected)
    BY <1>2, <2>2, AmongAgree
  <2>5. Among(events, P) = <<>>
    BY <2>2, AmongNothing
  <2>6. rows \o <<>> = rows
    BY <1>2, ConcatEmptySeq
  <2> QED
    BY <1>1, <1>2, <2>1, <2>3, <2>4, <2>5, <2>6, Zenon
<1>7. Among(log', ToDeliver') = delivered
  <2>1. PICK D : D = ToDeliver'
    OBVIOUS
  <2>2. D = {e \in Triggering : e \notin Unannounced' /\ attempts[e] < MaxAttempts}
    BY <1>1, <2>1 DEF ToDeliver, Triggering
  <2>3. Range(log) \cap D = Range(log) \cap ToDeliver /\ Range(events) \cap D = {}
    BY <1>5, <2>2 DEF ToDeliver
  <2>4. Among(log \o events, D) = Among(log, D) \o Among(events, D)
    <3>1. log \in Seq(DomainEvent) /\ events \in Seq(DomainEvent)
      BY <1>2
    <3> QED
      BY <3>1, AmongConcat
  <2>5. Among(log, D) = Among(log, ToDeliver)
    BY <1>2, <2>3, AmongAgree
  <2>6. Among(events, D) = <<>>
    BY <2>3, AmongNothing
  <2>7. delivered \o <<>> = delivered
    BY <1>2, ConcatEmptySeq
  <2> QED
    BY <1>1, <1>2, <2>1, <2>4, <2>5, <2>6, <2>7, Zenon
<1>8. log' \in Seq(DomainEvent) /\ Range(log') = Range(log) \cup Range(events)
  BY <1>1, <1>2, ConcatProperties, RangeConcatenation
<1>9. OutsideTypeOK'
  BY <1>1, <1>8 DEF OutsideInv, OutsideFollowsLog, OutsideTypeOK, Stages
<1>10. OutsideFollowsLog'
  BY <1>1, <1>6, <1>7, <1>9, OutsideFollows
<1>11. IsInjective(log')
  <2>1. IsInjective(log)
    BY DEF OutsideInv
  <2>2. IsInjective(log \o events)
    BY <1>2, <2>1, InjectiveConcat
  <2> QED
    BY <1>1, <2>2, Zenon
<1>12. FreshInv'
  <2>1. Range(events) \cap (unprojected \cup unannounced) = {}
    BY <1>3
  <2>2. \A e \in Range(events) : attempts[e] = 0
    BY <1>3, <1>4
  <2> QED
    BY <1>1, <1>2, <2>1, <2>2 DEF FreshInv
<1>13. /\ unprojected' \cup unannounced' \subseteq Range(log')
       /\ \A e \in DomainEvent \ Range(log') : attempts'[e] = 0
  BY <1>1, <1>3, <1>8
<1>14. OutboxInv'
  BY <1>1 DEF OutboxInv
<1> QED
  BY <1>1, <1>3, <1>10, <1>11, <1>12, <1>13, <1>14 DEF OutsideInv

\* At first the events of the trigger are due for everything.
LEMMA OutsideInit ==
  ASSUME NEW events \in Seq(DomainEvent), IsInjective(events), InitOutside(events)
  PROVE  OutsideInv
<1>1. /\ log = events /\ fresh = events /\ stage = "hook" /\ outbox = <<>>
      /\ attempts = [e \in DomainEvent |-> 0] /\ rows = <<>> /\ delivered = <<>>
      /\ unprojected = {} /\ unannounced = {}
  BY DEF InitOutside
<1>2. Unprojected = Range(log) /\ Unannounced = Range(log)
  BY <1>1 DEF Unprojected, Unannounced
<1>3. Among(log, Projected) = <<>>
  <2>1. Range(log) \cap Projected = {}
    BY <1>2 DEF Projected
  <2>2. log \in Seq(DomainEvent)
    BY <1>1
  <2> QED
    BY <2>1, <2>2, AmongNothing
<1>4. Among(log, ToDeliver) = <<>>
  <2>1. Range(log) \cap ToDeliver = {}
    BY <1>2 DEF ToDeliver
  <2>2. log \in Seq(DomainEvent)
    BY <1>1
  <2> QED
    BY <2>1, <2>2, AmongNothing
<1>5. OutsideTypeOK
  BY <1>1, EmptySeq, NamesAssumption DEF OutsideTypeOK, Stages
<1>6. OutsideFollowsLog
  <2>1. rows = Among(log, Projected) /\ delivered = Among(log, ToDeliver)
    BY <1>1, <1>3, <1>4, Zenon
  <2> QED
    BY <1>5, <2>1, Zenon DEF OutsideFollowsLog, Projected, ToDeliver, Triggering
<1>7. FreshInv
  <2>1. <<>> \in Seq(DomainEvent) /\ events = <<>> \o events
    BY EmptySeq, ConcatEmptySeq
  <2>2. log = <<>> \o fresh
    BY <1>1, <2>1, Zenon
  <2>3. \A e \in Range(fresh) : attempts[e] = 0
    BY <1>1, RangeOfSeq
  <2>4. Range(fresh) \cap (unprojected \cup unannounced) = {}
    BY <1>1
  <2> QED
    BY <2>1, <2>2, <2>3, <2>4, Zenon DEF FreshInv
<1>8. OutboxInv
  BY <1>1 DEF OutboxInv
<1> QED
  BY <1>1, <1>6, <1>7, <1>8 DEF OutsideInv

\* Nothing happens outside.
LEMMA OutsideStill ==
  ASSUME OutsideInv, UNCHANGED outside
  PROVE  OutsideInv'
<1>1. UNCHANGED <<log, stage, fresh, outbox, attempts, rows, delivered, unprojected, unannounced>>
  BY DEF outside
<1>2. Unprojected' = Unprojected /\ Unannounced' = Unannounced
  BY <1>1 DEF Unprojected, Unannounced
<1>3. ToDeliver' = ToDeliver
  BY <1>1, <1>2 DEF ToDeliver, Triggering
<1>4. rows' = Among(log', Projected') /\ delivered' = Among(log', ToDeliver')
  BY <1>1, <1>2, <1>3, SameDue
<1>5. OutsideTypeOK'
  BY <1>1 DEF OutsideInv, OutsideFollowsLog, OutsideTypeOK
<1>6. OutsideFollowsLog'
  BY <1>4, <1>5, OutsideFollows
<1>7. FreshInv'
  BY <1>1 DEF OutsideInv, FreshInv
<1>8. OutboxInv'
  <2>1. Triggering' = Triggering
    BY DEF Triggering
  <2>2. OutboxInv
    BY DEF OutsideInv
  <2> QED
    BY <1>1, <2>1, <2>2, Zenon DEF OutboxInv
<1> QED
  BY <1>1, <1>6, <1>7, <1>8 DEF OutsideInv

-----------------------------------------------------------------------------
(* When the events of the log were committed.                              *)

\* An event of this saga is of a step before the next one, or of the step
\* that has just committed; one that compensates, of a later step than the next to undo.
Earlier(e) ==
  /\ e.saga <= saga
  /\ e.saga = saga =>
       /\ phase \notin {"trigger", "next"}
       /\ Doing => ~e.undo /\ (e.step < step \/ (phase = "doPost" /\ e.step = step))
       /\ Undoing /\ e.undo => e.step > Len(completed) \/ (phase = "undoPost" /\ e.step = Len(completed))

LogTimes == phase \in Running => \A e \in Range(log) : Earlier(e)

\* What a command commits is one event or two, of its saga and its step.
LEMMA EmittedTyped ==
  ASSUME NEW s \in 0..MaxSagas, NEW n \in 0..MaxSteps, NEW u \in BOOLEAN, NEW op \in Operation
  PROVE  /\ Emitted(s, n, u, op) \in Seq(DomainEvent) /\ IsInjective(Emitted(s, n, u, op))
         /\ \A e \in Range(Emitted(s, n, u, op)) : e.saga = s /\ e.step = n /\ e.undo = u
<1> DEFINE k == IF op \in Twice THEN 2 ELSE 1
           events == [i \in 1..k |-> [saga |-> s, step |-> n, undo |-> u, op |-> op, nth |-> i]]
<1>1. k \in Nat /\ k <= 2
  OBVIOUS
<1>2. Emitted(s, n, u, op) = events
  BY DEF Emitted
<1> HIDE DEF k
<1>3. \A i \in 1..k : events[i] \in DomainEvent
  BY <1>1 DEF DomainEvent
<1>4. events \in Seq(DomainEvent)
  BY <1>1, <1>3
<1>5. IsInjective(events)
  BY DEF IsInjective
<1>6. \A e \in Range(events) : e.saga = s /\ e.step = n /\ e.undo = u
  BY DEF Range
<1> QED
  BY <1>2, <1>4, <1>5, <1>6

\* Numbers of sagas, steps and events.
LEMMA TimesTyped ==
  ASSUME SagaInv, OutsideInv
  PROVE  /\ TypeOK
         /\ saga \in 1..(MaxSagas + 1) /\ step \in 1..(MaxSteps + 1) /\ completed \in Seq(1..MaxSteps) /\ Len(completed) \in Nat
         /\ MaxSagas \in Nat /\ MaxSteps \in Nat
         /\ \A e \in Range(log) : e.saga \in 0..MaxSagas /\ e.step \in 0..MaxSteps /\ e.undo \in BOOLEAN
<1>1. TypeOK
  BY DEF SagaInv, JournalFollowsLifecycle
<1>2. /\ saga \in 1..(MaxSagas + 1) /\ step \in 1..(MaxSteps + 1)
      /\ completed \in Seq(1..MaxSteps) /\ Len(completed) \in Nat
  BY <1>1 DEF TypeOK
<1>3. Range(log) \subseteq DomainEvent
  BY OutsideTyped
<1>4. \A e \in DomainEvent : e.saga \in 0..MaxSagas /\ e.step \in 0..MaxSteps /\ e.undo \in BOOLEAN
  BY DEF DomainEvent
<1> QED
  BY <1>1, <1>2, <1>3, <1>4, BoundsAssumption

\* The next saga has committed nothing.
LEMMA TimesNextSaga ==
  ASSUME SagaInv, OutsideInv, LogTimes, phase \in Running, log' = log, saga' = saga + 1
  PROVE  LogTimes'
<1>1. \A e \in Range(log) : e.saga <= saga
  BY DEF LogTimes, Earlier
<1>2. \A e \in Range(log) : e.saga <= saga + 1 /\ e.saga # saga + 1
  BY <1>1, TimesTyped
<1>3. \A e \in Range(log) : Earlier(e)'
  BY <1>2 DEF Earlier
<1> QED
  BY <1>3 DEF LogTimes

\* What a step or a compensation comes to: its events are of an earlier one now.
LEMMA TimesOutcome ==
  ASSUME SagaInv, OutsideInv, LogTimes, HasCommand, Succeeds \/ Fails, log' = log, saga' = saga
  PROVE  LogTimes'
<1>1. phase \in Running /\ (Doing \/ Undoing) /\ ~(Doing /\ Undoing)
  BY DEF HasCommand, Doing, Undoing, Running
<1>2. \A e \in Range(log) : Earlier(e)
  BY <1>1 DEF LogTimes
<1>3. CASE Doing
  <2>1. StepSucceeds \/ StepFails
    BY <1>3 DEF Succeeds, Fails
  <2>2. ASSUME NEW e \in Range(log)
        PROVE  Earlier(e)'
    <3>1. e.saga <= saga /\ (e.saga = saga => ~e.undo /\ (e.step < step \/ e.step = step))
      BY <1>2, <1>3 DEF Earlier
    <3>2. CASE StepSucceeds
      <4>1. step' = step + 1 /\ phase' = "do"
        BY <3>2 DEF StepSucceeds
      <4>2. e.step < step \/ e.step = step => e.step < step + 1
        BY TimesTyped
      <4> QED
        BY <3>1, <4>1, <4>2 DEF Earlier, Doing, Undoing
    <3>3. CASE StepFails
      <4>1. phase' = "undo"
        BY <3>3 DEF StepFails
      <4> QED
        BY <3>1, <4>1 DEF Earlier, Doing, Undoing
    <3> QED
      BY <2>1, <3>2, <3>3
  <2> QED
    BY <2>2 DEF LogTimes
<1>4. CASE Undoing
  <2>1. CompensationSucceeds \/ CompensationFails
    BY <1>1, <1>4 DEF Succeeds, Fails
  <2>2. completed' = Front(completed) /\ phase' = "undo"
    BY <2>1 DEF CompensationSucceeds, CompensationFails
  <2>3. completed # <<>>
    BY <1>4, CommandTyped
  <2>4. Len(completed') = Len(completed) - 1
    BY <1>4, <2>2, <2>3, UndoNextIsLast
  <2>5. ASSUME NEW e \in Range(log)
        PROVE  Earlier(e)'
    <3>1. e.saga <= saga /\ (e.saga = saga /\ e.undo => e.step > Len(completed) \/ e.step = Len(completed))
      BY <1>2, <1>4 DEF Earlier
    <3>2. e.step > Len(completed) \/ e.step = Len(completed) => e.step > Len(completed')
      BY <2>4, TimesTyped
    <3> QED
      BY <2>2, <3>1, <3>2 DEF Earlier, Doing, Undoing
  <2> QED
    BY <2>5 DEF LogTimes
<1> QED
  BY <1>1, <1>3, <1>4

\* A command commits new events: none in the log is of its saga, its step and its direction.
LEMMA EmittedCommits ==
  ASSUME OutsideInv, saga \in 1..MaxSagas, NEW n \in 0..MaxSteps, NEW u \in BOOLEAN, NEW op \in Operation,
         CommitEvents(Emitted(saga, n, u, op)),
         \A e \in Range(log) : e.saga = saga => e.undo # u \/ e.step # n
  PROVE  /\ OutsideInv'
         /\ \A e \in Range(log') : e \in Range(log) \/ (e.saga = saga /\ e.step = n /\ e.undo = u)
<1>1. PICK events : events = Emitted(saga, n, u, op)
  OBVIOUS
<1>2. /\ events \in Seq(DomainEvent) /\ IsInjective(events)
      /\ \A e \in Range(events) : e.saga = saga /\ e.step = n /\ e.undo = u
  <2>1. saga \in 0..MaxSagas
    BY BoundsAssumption
  <2>2. /\ Emitted(saga, n, u, op) \in Seq(DomainEvent) /\ IsInjective(Emitted(saga, n, u, op))
        /\ \A e \in Range(Emitted(saga, n, u, op)) : e.saga = saga /\ e.step = n /\ e.undo = u
    BY <2>1, EmittedTyped
  <2> QED
    BY <1>1, <2>2, Zenon
<1>3. CommitEvents(events)
  BY <1>1, Zenon
<1>4. Range(events) \cap Range(log) = {}
  BY <1>2
<1>5. OutsideInv'
  BY <1>2, <1>3, <1>4, OutsideCommits
<1>6. Range(log') = Range(log) \cup Range(events)
  <2>1. log' = log \o events /\ log \in Seq(DomainEvent)
    BY <1>3, OutsideTyped DEF CommitEvents
  <2> QED
    BY <1>2, <2>1, RangeConcatenation
<1> QED
  BY <1>2, <1>5, <1>6

\* So the invariants survive a commit.
LEMMA TimesCommits ==
  ASSUME SagaInv, OutsideInv, LogTimes, CommandCommits
  PROVE  OutsideInv' /\ LogTimes'
<1>1. HasCommand /\ Command.op \in Operation /\ Waiting /\ (Doing \/ Undoing)
  BY CommitHasCommand, CommandTyped DEF CommandCommits, Waiting, Doing, Undoing, Action
<1>2. UNCHANGED <<saga, step, completed>>
  BY DEF CommandCommits
<1>3. TypeOK /\ HasSaga
  BY <1>1 DEF SagaInv, JournalFollowsLifecycle, HasCommand, RunningInv
<1>4. saga \in 1..MaxSagas /\ Len(Steps) \in 0..MaxSteps
  BY <1>3, StepsTyped
<1>5. \A e \in Range(log) : Earlier(e)
  BY <1>1 DEF LogTimes, Waiting, Running
<1>6. /\ saga \in Int /\ step \in Int /\ Len(completed) \in Int
      /\ \A e \in Range(log) : e.saga \in Int /\ e.step \in Int /\ e.undo \in BOOLEAN
  BY TimesTyped
<1>7. CASE Doing
  <2>1. phase = "doLocks" /\ phase' = "doPost" /\ step \in 0..MaxSteps
    BY <1>1, <1>4, <1>7, CommandTyped, BoundsAssumption DEF CommandCommits, Waiting, Doing
  <2>2. CommitEvents(Emitted(saga, step, FALSE, Command.op))
    BY <1>7, Zenon DEF CommandCommits
  <2>3. \A e \in Range(log) : e.saga <= saga /\ (e.saga = saga => ~e.undo /\ e.step < step)
    BY <1>5, <1>6, <1>7, <2>1 DEF Earlier
  <2>4. \A e \in Range(log) : e.saga = saga => e.undo # FALSE \/ e.step # step
    <3> TAKE e \in Range(log)
    <3>1. e.step < step => e.step # step
      BY <1>6
    <3>2. e.undo \in BOOLEAN
      BY <1>6
    <3> QED
      BY <2>3, <3>1, <3>2, Zenon
  <2>5. /\ OutsideInv'
        /\ \A e \in Range(log') : e \in Range(log) \/ (e.saga = saga /\ e.step = step /\ e.undo = FALSE)
    BY <1>1, <1>4, <2>1, <2>2, <2>4, EmittedCommits
  <2>6. \A e \in Range(log') : e.saga <= saga /\ (e.saga = saga => ~e.undo /\ (e.step < step \/ e.step = step))
    BY <1>6, <2>3, <2>5
  <2>7. \A e \in Range(log') : Earlier(e)'
    BY <1>2, <2>1, <2>6 DEF Earlier, Doing, Undoing
  <2> QED
    BY <2>5, <2>7 DEF LogTimes
<1>8. CASE ~Doing
  <2>1. phase = "undoLocks" /\ phase' = "undoPost" /\ Undoing
    BY <1>1, <1>8 DEF CommandCommits, Waiting, Doing, Undoing
  <2>2. UndoNext = Len(completed) /\ UndoNext \in 0..MaxSteps
    BY <1>1, <1>4, <2>1, CommandTyped, BoundsAssumption
  <2>3. CommitEvents(Emitted(saga, UndoNext, TRUE, Command.op))
    BY <1>8, Zenon DEF CommandCommits
  <2>4. \A e \in Range(log) : e.saga <= saga /\ (e.saga = saga /\ e.undo => e.step > Len(completed))
    BY <1>5, <1>6, <2>1 DEF Earlier
  <2>5. \A e \in Range(log) : e.saga = saga => e.undo # TRUE \/ e.step # UndoNext
    <3> TAKE e \in Range(log)
    <3>1. e.step > Len(completed) => e.step # UndoNext
      BY <1>6, <2>2
    <3>2. e.undo \in BOOLEAN
      BY <1>6
    <3> QED
      BY <2>4, <3>1, <3>2, Zenon
  <2>6. /\ OutsideInv'
        /\ \A e \in Range(log') : e \in Range(log) \/ (e.saga = saga /\ e.step = UndoNext /\ e.undo = TRUE)
    BY <1>1, <1>4, <2>2, <2>3, <2>5, EmittedCommits
  <2>7. \A e \in Range(log') : e.saga <= saga /\ (e.saga = saga /\ e.undo => e.step > Len(completed) \/ e.step = Len(completed))
    BY <1>6, <2>2, <2>4, <2>6
  <2>8. \A e \in Range(log') : Earlier(e)'
    BY <1>2, <2>1, <2>7 DEF Earlier, Doing, Undoing
  <2> QED
    BY <2>6, <2>8 DEF LogTimes
<1> QED
  BY <1>7, <1>8

\* Every other step leaves the log as it is.
LEMMA TimesStep ==
  ASSUME SagaInv, OutsideInv, LogTimes, [Next]_vars
  PROVE  LogTimes'
<1>1. CASE CommandCommits
  BY <1>1, TimesCommits
<1>2. CASE CommandAnswered \/ CommandThrows \/ CommandDone \/ CommandCommitsAndThrows
  <2>1. HasCommand /\ (Succeeds \/ Fails) /\ saga' = saga
    BY <1>2, OutcomeHasCommand
  <2>2. log' = log
    BY <1>2 DEF CommandAnswered, CommandThrows, CommandDone, CommandCommitsAndThrows, outside,
                EndPostCommit, PostCommitThrows
  <2> QED
    BY <2>1, <2>2, TimesOutcome
<1>3. CASE SkipSaga \/ CompleteSaga \/ FailSaga
  <2>1. phase \in Running /\ saga' = saga + 1
    BY <1>3 DEF SkipSaga, CompleteSaga, FailSaga, Running
  <2>2. log' = log
    BY <1>3 DEF SkipSaga, CompleteSaga, FailSaga, outside
  <2> QED
    BY <2>1, <2>2, TimesNextSaga
<1>4. CASE ConditionThrows \/ FinishSagas \/ UndoArgumentsThrow \/ TriggerThrows
  <2>1. phase' \notin Running
    BY <1>4 DEF ConditionThrows, FinishSagas, UndoArgumentsThrow, TriggerThrows, Running
  <2> QED
    BY <2>1 DEF LogTimes
<1>5. CASE StartSaga \/ TriggerDone
  <2>1. phase \in {"trigger", "next"} /\ saga' = saga
    BY <1>5 DEF StartSaga, TriggerDone
  <2>2. log' = log
    BY <1>5 DEF StartSaga, TriggerDone, outside, EndPostCommit
  <2>3. \A e \in Range(log) : e.saga <= saga /\ e.saga # saga
    BY <2>1 DEF LogTimes, Earlier, Running
  <2>4. \A e \in Range(log') : Earlier(e)'
    BY <2>1, <2>2, <2>3 DEF Earlier
  <2> QED
    BY <2>4 DEF LogTimes
<1>6. CASE SkipUndo
  <2>1. /\ phase = "undo" /\ phase' = "undo" /\ completed # <<>> /\ completed' = Front(completed)
        /\ saga' = saga /\ Undoing
    BY <1>6 DEF SkipUndo, Undoing
  <2>2. log' = log
    BY <1>6 DEF SkipUndo, outside
  <2>3. Len(completed') = Len(completed) - 1
    BY <2>1, UndoNextIsLast
  <2>4. \A e \in Range(log) : e.step > Len(completed) => e.step > Len(completed')
    BY <2>3, TimesTyped
  <2>5. \A e \in Range(log) : e.saga <= saga /\ (e.saga = saga /\ e.undo => e.step > Len(completed'))
    BY <2>1, <2>4 DEF LogTimes, Earlier, Running
  <2>6. \A e \in Range(log') : Earlier(e)'
    BY <2>1, <2>2, <2>5 DEF Earlier, Doing, Undoing
  <2> QED
    BY <2>6 DEF LogTimes
<1>7. CASE CommandQueues
  <2>1. /\ (phase = "do" /\ phase' = "doLocks") \/ (phase = "undo" /\ phase' = "undoLocks")
        /\ UNCHANGED <<saga, step, completed>>
    BY <1>7 DEF CommandQueues
  <2>2. log' = log
    BY <1>7 DEF CommandQueues, outside
  <2>3. \A e \in Range(log') : Earlier(e)'
    BY <2>1, <2>2 DEF LogTimes, Earlier, Running, Doing, Undoing
  <2> QED
    BY <2>3 DEF LogTimes
<1>8. CASE PostCommitStep \/ UNCHANGED vars
  <2>1. UNCHANGED <<phase, saga, step, completed>>
    BY <1>8 DEF PostCommitStep, vars
  <2>2. log' = log
    <3>1. CASE UNCHANGED vars
      BY <3>1 DEF vars, outside
    <3>2. CASE PostCommitStep
      BY <3>2, Zenon DEF PostCommitStep, HookReturns, Deliver, DeliveryFails, Project
    <3> QED
      BY <1>8, <3>1, <3>2
  <2>3. \A e \in Range(log) : Earlier(e)' <=> Earlier(e)
    BY <2>1 DEF Earlier, Doing, Undoing
  <2> QED
    BY <2>1, <2>2, <2>3 DEF LogTimes
<1> QED
  BY <1>1, <1>2, <1>3, <1>4, <1>5, <1>6, <1>7, <1>8 DEF Next, SagaStep, Stopped

\* And every step follows the log outside.
LEMMA OutsideStep ==
  ASSUME SagaInv, OutsideInv, LogTimes, [Next]_vars
  PROVE  OutsideInv'
<1>1. CASE CommandCommits
  BY <1>1, TimesCommits
<1>2. CASE PostCommitStep
  <2>1. CASE HookReturns
    BY <2>1, OutsideHook
  <2>2. CASE Deliver
    BY <2>2, OutsideDeliver
  <2>3. CASE DeliveryFails
    BY <2>3, OutsideFails
  <2>4. CASE \E failing \in SUBSET Range(fresh) : Project(failing, plan.skipped)
    BY <2>4, OutsideProject
  <2> QED
    BY <1>2, <2>1, <2>2, <2>3, <2>4 DEF PostCommitStep
<1>3. CASE TriggerDone \/ CommandDone
  BY <1>3, OutsideEnds DEF TriggerDone, CommandDone
<1>4. CASE TriggerThrows \/ CommandCommitsAndThrows
  BY <1>4, OutsideThrows DEF TriggerThrows, CommandCommitsAndThrows
<1>5. CASE \/ StartSaga \/ SkipSaga \/ ConditionThrows \/ FinishSagas \/ CompleteSaga \/ FailSaga \/ SkipUndo
           \/ UndoArgumentsThrow \/ CommandAnswered \/ CommandQueues \/ CommandThrows \/ UNCHANGED vars
  <2>1. UNCHANGED outside
    BY <1>5, Zenon DEF StartSaga, SkipSaga, ConditionThrows, FinishSagas, CompleteSaga, FailSaga, SkipUndo,
                       UndoArgumentsThrow, CommandAnswered, CommandQueues, CommandThrows, vars
  <2> QED
    BY <2>1, OutsideStill
<1> QED
  BY <1>1, <1>2, <1>3, <1>4, <1>5 DEF Next, SagaStep, Stopped

\* The events of the trigger are of no saga.
LEMMA OutsideInitially ==
  ASSUME Init
  PROVE  OutsideInv /\ LogTimes
<1>1. TypeOK /\ plan \in Plan
  BY SagaInvInit, PlanTyped DEF SagaInv, JournalFollowsLifecycle
<1>2. plan.trigger.op \in Operation
  BY <1>1 DEF Plan, Action
<1>3. PICK events : events = Emitted(0, 0, FALSE, plan.trigger.op)
  OBVIOUS
<1>4. /\ events \in Seq(DomainEvent) /\ IsInjective(events)
      /\ \A e \in Range(events) : e.saga = 0
  <2>1. 0 \in 0..MaxSagas /\ 0 \in 0..MaxSteps /\ FALSE \in BOOLEAN
    BY BoundsAssumption
  <2>2. PICK o : o = plan.trigger.op
    OBVIOUS
  <2>3. o \in Operation /\ events = Emitted(0, 0, FALSE, o)
    BY <1>2, <1>3, <2>2, Zenon
  <2>4. Emitted(0, 0, FALSE, o) \in Seq(DomainEvent)
    BY <2>1, <2>3, EmittedTyped
  <2>5. IsInjective(Emitted(0, 0, FALSE, o))
    BY <2>1, <2>3, EmittedTyped
  <2>6. \A e \in Range(Emitted(0, 0, FALSE, o)) : e.saga = 0
    BY <2>1, <2>3, EmittedTyped
  <2> QED
    BY <2>3, <2>4, <2>5, <2>6, Zenon
<1>5. InitOutside(events)
  BY <1>3, Zenon DEF Init
<1>6. OutsideInv
  BY <1>4, <1>5, OutsideInit
<1>7. log = events /\ saga = 1 /\ phase = "trigger"
  BY <1>5 DEF Init, InitOutside
<1>8. LogTimes
  BY <1>4, <1>7 DEF LogTimes, Earlier
<1> QED
  BY <1>6, <1>8

(***************************************************************************)
(* What the outside has seen follows the log, whatever throws, is skipped  *)
(* or refused, and whichever sagas run: the projection has every committed *)
(* event that was not left out once and in the order of the log, and the   *)
(* webhooks are delivered once and in this order (engine.ts, runProjections*)
(* and runWebhooks).                                                       *)
(***************************************************************************)
THEOREM OutsideIsLog ==
  Spec => []OutsideFollowsLog
<1>1. Init => OutsideInv /\ LogTimes
  BY OutsideInitially
<1>2. SagaInv /\ (OutsideInv /\ LogTimes) /\ [Next]_vars => (OutsideInv /\ LogTimes)'
  BY OutsideStep, TimesStep
<1>3. OutsideInv => OutsideFollowsLog
  BY DEF OutsideInv
<1> QED
  BY <1>1, <1>2, <1>3, SagaInvariant, PTL DEF Spec

-----------------------------------------------------------------------------
(* What a saga waits for.                                                  *)

\* An action that needs no lock of the triggering command.
Elsewhere(action) ==
  action.agg # plan.trigger.agg /\ (plan.keyed => action.op # plan.trigger.op)

\* No step and no compensation needs one, or the batch has released them.
StepsElsewhere ==
  \/ plan.batched
  \/ \A s \in DOMAIN plan.sagas : \A n \in DOMAIN plan.sagas[s] :
       LET p == plan.sagas[s][n] IN Elsewhere(p.do) /\ (p.undo # NoUndo => Elsewhere(p.undo))

\* A request holds the locks of its triggering command or, of a batch or in the end, none.
HeldInv == held = {} \/ (held = PrimaryLocks(plan.trigger) /\ ~plan.batched)

\* A step never waits for a lock of its own request.
WaitsForNobody == StepsElsewhere /\ Waiting => LocksFree

\* Locks are taken once and given back together.
LEMMA HeldStep ==
  ASSUME HeldInv, [Next]_vars
  PROVE  HeldInv'
<1>1. plan' = plan /\ (held' = held \/ held' = {})
  BY Zenon DEF Next, SagaStep, Stopped, vars, StartSaga, SkipSaga, ConditionThrows, FinishSagas, CompleteSaga, FailSaga,
               SkipUndo, UndoArgumentsThrow, CommandAnswered, CommandQueues, CommandThrows, CommandCommits,
               PostCommitStep, TriggerDone, TriggerThrows, CommandDone, CommandCommitsAndThrows
<1> QED
  BY <1>1 DEF HeldInv, PrimaryLocks, OwnLocks

\* Aggregates and operations have locks of different names, and the cascade has its own.
LEMMA ElsewhereIsFree ==
  ASSUME NEW a \in Action, plan.trigger \in Action, Elsewhere(a)
  PROVE  SecondaryLocks(a) \cap PrimaryLocks(plan.trigger) = {}
<1>1. /\ a.agg \in Aggregate /\ a.op \in Operation
      /\ plan.trigger.agg \in Aggregate /\ plan.trigger.op \in Operation
  BY DEF Action
<1>2. Aggregate \cap Operation = {} /\ Cascade \notin Aggregate \cup Operation
  BY NamesAssumption
<1> QED
  BY <1>1, <1>2 DEF Elsewhere, SecondaryLocks, PrimaryLocks, OwnLocks

\* The command at hand is that of a step or a compensation of the plan.
LEMMA WaitingIsFree ==
  ASSUME SagaInv, HeldInv
  PROVE  WaitsForNobody
<1> SUFFICES ASSUME StepsElsewhere, Waiting
             PROVE  LocksFree
  BY DEF WaitsForNobody
<1>1. HasCommand
  <2>1. phase = "doLocks" => HasCommand
    BY DEF SagaInv, DoingInv, Doing, HasCommand, HasStep
  <2>2. phase = "undoLocks" => HasCommand
    BY DEF SagaInv, UndoingInv, Undoing
  <2> QED
    BY <2>1, <2>2 DEF Waiting
<1>2. TypeOK /\ HasSaga
  BY <1>1 DEF SagaInv, JournalFollowsLifecycle, HasCommand, RunningInv
<1>3. plan \in Plan /\ saga \in DOMAIN plan.sagas /\ Steps = plan.sagas[saga] /\ DOMAIN Steps = 1..Len(Steps)
  <2>1. saga \in 1..Len(plan.sagas) /\ Steps \in Seq(Step)
    BY <1>2, StepsTyped
  <2>2. plan \in Plan
    BY <1>2, PlanTyped
  <2> QED
    BY <2>1, <2>2 DEF Steps, Plan
<1>4. CASE held = {}
  BY <1>4 DEF LocksFree
<1>5. CASE held = PrimaryLocks(plan.trigger) /\ ~plan.batched
  <2>1. \A n \in DOMAIN Steps : Elsewhere(Steps[n].do) /\ (Steps[n].undo # NoUndo => Elsewhere(Steps[n].undo))
    BY <1>3, <1>5 DEF StepsElsewhere
  <2>2. Elsewhere(Command)
    <3>1. CASE Doing
      BY <1>1, <1>3, <2>1, <3>1, CommandTyped DEF Command
    <3>2. CASE ~Doing
      <4>1. Undoing
        BY <3>2 DEF Waiting, Doing, Undoing
      <4> QED
        BY <1>1, <1>3, <2>1, <3>2, <4>1, CommandTyped DEF Command
    <3> QED
      BY <3>1, <3>2
  <2>3. Command \in Action /\ plan.trigger \in Action
    BY <1>1, <1>3, CommandTyped DEF Plan
  <2> QED
    BY <1>5, <2>2, <2>3, ElsewhereIsFree DEF LocksFree
<1> QED
  BY <1>4, <1>5 DEF HeldInv

(***************************************************************************)
(* A request waits for itself only if a step or a compensation is on the   *)
(* aggregate of its trigger or, with a client key, repeats its operation:  *)
(* in any other plan, and in a batch, no internal command ever finds a     *)
(* lock of its own request (engine.ts, executeUnlocked; the comment before *)
(* acquireMany says so of every plan, which a run refutes).                *)
(***************************************************************************)
THEOREM NobodyWaitsForItself ==
  Spec => []WaitsForNobody
<1>1. Init => HeldInv
  BY DEF Init, HeldInv
<1>2. HeldInv /\ [Next]_vars => HeldInv'
  BY HeldStep
<1>3. SagaInv /\ HeldInv => WaitsForNobody
  BY WaitingIsFree
<1> QED
  BY <1>1, <1>2, <1>3, SagaInvariant, PTL DEF Spec
=============================================================================
