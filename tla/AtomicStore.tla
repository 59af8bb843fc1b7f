----------------------------- MODULE AtomicStore -----------------------------
(***************************************************************************)
(* What the runtime promises of its stores: units of work take effect one  *)
(* at a time, each with all its events, numbered without gaps, and the     *)
(* state graph is at every moment the projection of the log.  The only     *)
(* other changes are a wipe and the seeding of an empty store.             *)
(***************************************************************************)
EXTENDS EventSourcing

VARIABLES log, view

storeVars == <<log, view>>

StoreInit == log = BaselineLog /\ view = Replay(BaselineLog)

\* Request r, which has no event yet, appends events to any aggregates.
CommitUnit(r) ==
  /\ ~Committed(log, r)
  /\ log' \in EventLog
  /\ \A a \in Aggregate :
       /\ Len(log'[a]) >= Len(log[a])
       /\ \A i \in 1..Len(log'[a]) :
            log'[a][i] = IF i <= Len(log[a]) THEN log[a][i] ELSE [seq |-> i, by |-> r]
  /\ view' = Replay(log')

Wipe == log' = Nothing /\ view' = Nothing

Seed == log = Nothing /\ log' = BaselineLog /\ view' = Replay(BaselineLog)

StoreNext == (\E r \in Request : CommitUnit(r)) \/ Wipe \/ Seed

StoreSpec == StoreInit /\ [][StoreNext]_storeVars
=============================================================================
