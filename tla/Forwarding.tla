----------------------------- MODULE Forwarding -----------------------------
(***************************************************************************)
(* A request through the plugin: StatefulRequestHandler.kt asks            *)
(* RouteDiscovery whether the engine owns the path, ResilientForwarder.kt  *)
(* admits it by a circuit breaker and calls the engine up to three times   *)
(* through CqrsBackendClient.kt.                                           *)
(*                                                                         *)
(* A call that timed out is not withdrawn: the engine may execute it later *)
(* and beside the call that retries it.  The engine is external: it        *)
(* executes a call in one step (RuntimeEngine has the steps), answers a    *)
(* key it has recorded from the record, and loses all in a crash.  So is   *)
(* the breaker, of a library: its window of 20 calls is left out, so that  *)
(* any failure may open it.  Paths a stub or a seed serves are left out.   *)
(***************************************************************************)
EXTENDS Integers

CONSTANTS
  Request, Version, FirstVersion, NoVersion,   \* as in RouteDiscovery
  Keyed,        \* requests with an Idempotency-Key
  Always,       \* requests to a path that every version owns
  Some,         \* versions that own the paths of the other requests
  MaxAttempts,      \* ResilienceConfig.forwarderMaxRetries
  HalfOpenPermits,  \* calls the breaker permits while half open: 3
  MaxEvents     \* bound: how often the engine gets slow, crashes or is reloaded

ASSUME RequestAssumption ==
  /\ Keyed \subseteq Request /\ Always \subseteq Request /\ Some \subseteq Version
  /\ MaxAttempts \in Nat \ {0} /\ HalfOpenPermits \in Nat \ {0} /\ MaxEvents \in Nat

VARIABLES
  engine, served, cache, everPopulated, stale, fetches,   \* RouteDiscovery
  breaker,    \* state of the circuit breaker
  waited,     \* it has been open long enough
  permits,    \* calls it still permits while half open
  results,    \* outcomes it has recorded while half open
  calls,      \* what the plugin is doing for each request
  copies,     \* external: calls the engine has not executed: request, attempt
  commits,    \* external: how often the engine holds the request's effect
  recorded,   \* external: keys the engine has recorded
  events

discovery == <<engine, served, cache, everPopulated, stale, fetches>>
circuit   == <<breaker, waited, permits, results>>
store     == <<commits, recorded>>
vars == <<discovery, circuit, calls, copies, store, events>>

Discovery == INSTANCE RouteDiscovery

ASSUME VersionAssumption == Discovery!VersionsDiffer

Answers == {"engine", "unavailable", "circuitOpen", "notOwned"}

TypeOK ==
  /\ Discovery!TypeOK
  /\ breaker \in {"closed", "open", "halfOpen"}
  /\ waited \in BOOLEAN
  /\ permits \in 0..HalfOpenPermits
  /\ results \in [failed : 0..HalfOpenPermits, ok : 0..HalfOpenPermits]
  /\ calls \in [Request -> [pc : {"idle", "routing", "cold", "fetching", "matching", "admission",
                                   "calling", "waiting"},
                             attempt : 0..MaxAttempts,
                             answer : Answers \cup {"none"},
                             warm : BOOLEAN]]
  /\ copies \subseteq Request \X (1..MaxAttempts)
  /\ commits \in [Request -> 0..MaxAttempts]
  /\ recorded \subseteq Keyed
  /\ events \in 0..MaxEvents

NoResults == [failed |-> 0, ok |-> 0]

Init ==
  /\ Discovery!Init
  /\ breaker = "closed"
  /\ waited = FALSE
  /\ permits = 0
  /\ results = NoResults
  /\ calls = [r \in Request |-> [pc |-> "idle", attempt |-> 0, answer |-> "none", warm |-> FALSE]]
  /\ copies = {}
  /\ commits = [r \in Request |-> 0]
  /\ recorded = {}
  /\ events = 0

-----------------------------------------------------------------------------
(* Is the path the engine's?                                               *)

Goes(r, pc) == calls' = [calls EXCEPT ![r].pc = pc]
Ends(r, answer) == calls' = [calls EXCEPT ![r].pc = "idle", ![r].answer = answer]

\* Another request takes the place of one the engine has done with.
Arrive(r) ==
  /\ calls[r].pc = "idle"
  /\ \A c \in copies : c[1] # r
  /\ calls' = [calls EXCEPT ![r] = [pc |-> "routing", attempt |-> 0, answer |-> "none", warm |-> everPopulated]]
  /\ commits' = [commits EXCEPT ![r] = 0]
  /\ recorded' = recorded \ {r}
  /\ UNCHANGED <<discovery, circuit, copies, events>>

\* isStateful.
Route(r) ==
  /\ calls[r].pc = "routing"
  /\ IF everPopulated
     THEN Discovery!TriggerRefresh /\ Goes(r, "matching")
     ELSE UNCHANGED discovery /\ Goes(r, IF stale THEN "cold" ELSE "matching")
  /\ UNCHANGED <<circuit, copies, store, events>>

\* A request that waited for the lock fetches whatever was fetched meanwhile.
EnterColdFetchUnchecked(r) ==
  /\ calls[r].pc = "cold"
  /\ \A q \in Request : calls[q].pc # "fetching"
  /\ Goes(r, "fetching")
  /\ Discovery!Send("cold")
  /\ UNCHANGED <<engine, served, cache, everPopulated, stale, circuit, copies, store, events>>

\* blockingColdFetchIfStale, once coldFetchLock is free: it looks again.
EnterColdFetch(r) ==
  /\ calls[r].pc = "cold"
  /\ \A q \in Request : calls[q].pc # "fetching"
  /\ IF everPopulated \/ ~stale
     THEN Goes(r, "matching") /\ UNCHANGED discovery
     ELSE Goes(r, "fetching") /\ Discovery!ColdFetch
  /\ UNCHANGED <<circuit, copies, store, events>>

FetchStep(f) ==
  /\ \/ f = "background" /\ Discovery!BackgroundRefresh
     \/ Discovery!Answer(f) \/ Discovery!Fail(f) \/ Discovery!Finish(f)
  /\ UNCHANGED <<circuit, calls, copies, store, events>>

\* The request that waited for the fetch goes on.
LeaveColdFetch(r) ==
  /\ calls[r].pc = "fetching"
  /\ fetches["cold"].pc = "none"
  /\ Goes(r, "matching")
  /\ UNCHANGED <<discovery, circuit, copies, store, events>>

Owned(r) == cache.routes # NoVersion /\ (r \in Always \/ cache.routes \in Some)

\* A path that is not owned is left to the fallback policy or to Specmatic.
Match(r) ==
  /\ calls[r].pc = "matching"
  /\ IF Owned(r) THEN Goes(r, "admission") ELSE Ends(r, "notOwned")
  /\ UNCHANGED <<discovery, circuit, copies, store, events>>

HandlerRefreshes ==
  /\ Discovery!ForceRefresh
  /\ UNCHANGED <<circuit, calls, copies, store, events>>

-----------------------------------------------------------------------------
(* The circuit breaker, and the retries inside it.                         *)

\* External: open for 10 s.
Wait ==
  /\ breaker = "open" /\ ~waited
  /\ waited' = TRUE
  /\ UNCHANGED <<discovery, breaker, permits, results, calls, copies, store, events>>

Permitted ==
  \/ breaker = "closed" /\ UNCHANGED circuit
  \/ breaker = "halfOpen" /\ permits > 0 /\ permits' = permits - 1 /\ UNCHANGED <<breaker, waited, results>>
  \/ /\ breaker = "open" /\ waited
     /\ breaker' = "halfOpen" /\ waited' = FALSE
     /\ permits' = HalfOpenPermits - 1 /\ results' = NoResults

Refuses == (breaker = "open" /\ ~waited) \/ (breaker = "halfOpen" /\ permits = 0)

Admit(r) ==
  /\ calls[r].pc = "admission"
  /\ \/ Permitted /\ calls' = [calls EXCEPT ![r].pc = "calling", ![r].attempt = 1]
     \/ Refuses /\ Ends(r, "circuitOpen") /\ UNCHANGED circuit
  /\ UNCHANGED <<discovery, copies, store, events>>

Opens  == breaker' = "open" /\ waited' = FALSE /\ permits' = 0 /\ results' = NoResults
Closes == breaker' = "closed" /\ waited' = FALSE /\ permits' = 0 /\ results' = NoResults

\* External: half open it decides after three outcomes, whoever called.
Record(outcome) ==
  \/ /\ breaker = "halfOpen"
     /\ LET now == [results EXCEPT ![outcome] = @ + 1]
        IN  IF now.failed + now.ok < HalfOpenPermits
            THEN results' = now /\ UNCHANGED <<breaker, waited, permits>>
            ELSE IF 2 * now.failed >= HalfOpenPermits THEN Opens ELSE Closes
  \/ breaker = "closed" /\ outcome = "failed" /\ Opens
  \/ breaker # "halfOpen" /\ UNCHANGED circuit

\* Every retry is admitted anew: the breaker is inside the retries.
RetryOutside(r) ==
  \/ calls[r].attempt < MaxAttempts /\ Goes(r, "admission") /\ Record("failed")
  \/ calls[r].attempt = MaxAttempts /\ Ends(r, "unavailable") /\ Record("failed")

\* forward returned null.
Retry(r) ==
  \/ /\ calls[r].attempt < MaxAttempts
     /\ calls' = [calls EXCEPT ![r].pc = "calling", ![r].attempt = @ + 1]
     /\ UNCHANGED circuit
  \/ calls[r].attempt = MaxAttempts /\ Ends(r, "unavailable") /\ Record("failed")

\* forward: the call goes out, or the connection is refused.
Call(r) ==
  /\ calls[r].pc = "calling"
  /\ \/ engine # "down" /\ copies' = copies \cup {<<r, calls[r].attempt>>} /\ Goes(r, "waiting") /\ UNCHANGED circuit
     \/ engine # "up" /\ UNCHANGED copies /\ Retry(r)
  /\ UNCHANGED <<discovery, store, events>>

\* forwardTimeoutMs have passed, or the connection is lost.
TimeOut(r) ==
  /\ calls[r].pc = "waiting"
  /\ engine # "up" \/ <<r, calls[r].attempt>> \notin copies
  /\ Retry(r)
  /\ UNCHANGED <<discovery, copies, store, events>>

\* External: executed, or answered from the record.
Effect(r) ==
  IF r \in recorded THEN UNCHANGED store
  ELSE /\ commits' = [commits EXCEPT ![r] = @ + 1]
       /\ recorded' = recorded \cup ({r} \cap Keyed)

\* External: the engine executes a call; its answer arrives if it is still
\* waited for, or is lost.
Execute(c) ==
  /\ engine # "down"
  /\ copies' = copies \ {c}
  /\ Effect(c[1])
  /\ \/ calls[c[1]].pc = "waiting" /\ calls[c[1]].attempt = c[2] /\ Ends(c[1], "engine") /\ Record("ok")
     \/ engine = "slow" /\ UNCHANGED <<calls, circuit>>
     \/ ~(calls[c[1]].pc = "waiting" /\ calls[c[1]].attempt = c[2]) /\ UNCHANGED <<calls, circuit>>
  /\ UNCHANGED <<discovery, events>>

\* External: what is in memory dies with the engine.
EngineChanges ==
  /\ \/ engine' = "up" /\ engine # "up" /\ UNCHANGED <<served, events>>
     \/ /\ events < MaxEvents /\ events' = events + 1
        /\ \/ engine' \in {"slow", "down"} \ {engine} /\ UNCHANGED served
           \/ served' \in Version \ {served} /\ UNCHANGED engine
  /\ IF engine' = "down"
     THEN copies' = {} /\ commits' = [r \in Request |-> 0] /\ recorded' = {}
     ELSE UNCHANGED <<copies, store>>
  /\ UNCHANGED <<cache, everPopulated, stale, fetches, circuit, calls>>

Expires == Discovery!Expire /\ UNCHANGED <<circuit, calls, copies, store, events>>

RequestStep(r) ==
  Route(r) \/ EnterColdFetch(r) \/ LeaveColdFetch(r) \/ Match(r) \/ Admit(r) \/ Call(r) \/ TimeOut(r)

Next ==
  \/ \E r \in Request : Arrive(r) \/ RequestStep(r)
  \/ \E f \in Discovery!Fetcher : FetchStep(f)
  \/ \E c \in copies : Execute(c)
  \/ HandlerRefreshes \/ Wait \/ Expires \/ EngineChanges

Spec == Init /\ [][Next]_vars

\* Threads run, calls time out, the engine executes what it has, time passes.
FairSpec ==
  /\ Spec
  /\ \A r \in Request : WF_vars(RequestStep(r))
  /\ \A r \in Request : SF_vars(EnterColdFetch(r))
  /\ \A f \in Discovery!Fetcher : WF_vars(FetchStep(f))
  /\ \A r \in Request : WF_vars(\E c \in copies : c[1] = r /\ Execute(c))
  /\ WF_vars(Wait)
  /\ WF_vars(Expires)

-----------------------------------------------------------------------------
(* Properties.                                                             *)

(***************************************************************************)
(* Requests and handlers use the cache as RouteDiscovery says: one of them *)
(* at a time waits for a fetch, and only while the cache is cold and its   *)
(* back-off is over (RoutesDiscoveryClient.kt:42), and at most one refresh *)
(* is in the background.                                                   *)
(***************************************************************************)
DiscoversAsSpecified == Discovery!Spec

(***************************************************************************)
(* A request to a path the engine always owns is never left to Specmatic   *)
(* once discovery has succeeded, while refreshes fail, are late or are     *)
(* overtaken (RoutesDiscoveryClient.kt:94): Specmatic would make up an     *)
(* answer.  The cache stays consistent in every use that is made of it.    *)
(***************************************************************************)
OwnedPathsAreForwarded ==
  /\ Discovery!ETagDescribesRoutes /\ Discovery!WarmStaysWarm
  /\ \A r \in Always : calls[r].answer = "notOwned" => ~calls[r].warm

KeyedTakesEffectOnce == \A r \in Keyed : commits[r] <= 1

RefusedHasNoEffect ==
  \A r \in Request : calls[r].answer \in {"circuitOpen", "notOwned"}
                       => commits[r] = 0 /\ \A c \in copies : c[1] # r

(***************************************************************************)
(* A client knows what its request did.  With an Idempotency-Key it takes  *)
(* effect at most once, however many of its calls timed out and were       *)
(* executed all the same; and if the circuit was open, no call of it took  *)
(* effect and none is on its way, so that it may be repeated.              *)
(***************************************************************************)
EffectsFitAnswers == TypeOK /\ KeyedTakesEffectOnce /\ RefusedHasNoEffect

(***************************************************************************)
(* When the engine stays up and requests keep coming, the breaker closes   *)
(* for good; and the plugin ends up with the engine's routes, once the     *)
(* handlers let it: their fetches and the background's can go on undoing   *)
(* each other for as long as both are made.                                *)
(***************************************************************************)
Recovers ==
  <>[](engine = "up") /\ []<>(\E r \in Always : calls[r].pc = "routing")
    => /\ <>[](breaker = "closed")
       /\ <>[](fetches["handler"].pc = "none") => <>[](cache.routes = served)
=============================================================================
