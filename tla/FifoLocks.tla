------------------------------ MODULE FifoLocks ------------------------------
(***************************************************************************)
(* What RuntimeEngine.acquire and acquireMany promise: one FIFO queue for  *)
(* every lock key, whose head holds the lock, and callers that wait in one *)
(* queue at a time.  RuntimeEngine and RuntimeBatch use this promise for   *)
(* the barrier.                                                            *)
(***************************************************************************)
EXTENDS Integers, Sequences

CONSTANTS
  Task,    \* requests that take locks, each once
  Key,     \* lock keys
  Wants    \* the keys of each task

VARIABLES
  pc,      \* idle, waiting, holding or done
  got,     \* the locks each task holds
  queue    \* for every key the holder and those who wait, oldest first

vars == <<pc, got, queue>>

Init ==
  /\ pc = [t \in Task |-> "idle"]
  /\ got = [t \in Task |-> {}]
  /\ queue = [k \in Key |-> <<>>]

Join(t, k) == queue' = [queue EXCEPT ![k] = Append(@, t)]

Call(t) ==
  /\ pc[t] = "idle"
  /\ \E k \in Wants[t] : Join(t, k)
  /\ pc' = [pc EXCEPT ![t] = "waiting"]
  /\ UNCHANGED got

\* The task is at the head of the queue it waits in.
Enter(t, k) ==
  /\ pc[t] = "waiting"
  /\ k \in Wants[t] \ got[t]
  /\ queue[k] # <<>> /\ Head(queue[k]) = t
  /\ got' = [got EXCEPT ![t] = @ \cup {k}]
  /\ \/ /\ Wants[t] = got'[t]
        /\ pc' = [pc EXCEPT ![t] = "holding"]
        /\ UNCHANGED queue
     \/ /\ \E j \in Wants[t] \ got'[t] : Join(t, j)
        /\ UNCHANGED pc

Release(t) ==
  /\ pc[t] = "holding"
  /\ pc' = [pc EXCEPT ![t] = "done"]
  /\ got' = [got EXCEPT ![t] = {}]
  /\ queue' = [k \in Key |-> IF k \in got[t] THEN Tail(queue[k]) ELSE queue[k]]

Next == \E t \in Task : Call(t) \/ (\E k \in Key : Enter(t, k)) \/ Release(t)

Spec == Init /\ [][Next]_vars
=============================================================================
