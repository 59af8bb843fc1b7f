--------------------------- MODULE RouteDiscovery ---------------------------
(***************************************************************************)
(* RoutesDiscoveryClient.kt: the routes the engine owns, cached with their *)
(* ETag and an expiry.  A cold cache is filled by a request that waits, a  *)
(* warm one in the background; the handlers of ControlServer.kt refresh it *)
(* whenever they like.  Every fetch reads the ETag, calls the engine and   *)
(* writes the cache in three steps, and none of them excludes the others.  *)
(*                                                                         *)
(* The engine is external: its routes have a version, of which the ETag is *)
(* a checksum (runtimeGateway.ts:969-979), and none is without routes.     *)
(***************************************************************************)
EXTENDS Integers

CONSTANTS
  Version,      \* contents of the engine's route list
  FirstVersion, \* of the engine the plugin boots with
  NoVersion     \* before the first answer: no routes, no ETag

\* Assumed where the module is used.
VersionsDiffer == FirstVersion \in Version /\ NoVersion \notin Version

VARIABLES
  engine,        \* external: up, slow (answers are late or lost) or down
  served,        \* external: the version the engine serves
  cache,         \* the version of the cached routes and of the cached ETag
  everPopulated,
  stale,         \* the expiry has passed
  fetches        \* what each fetcher is doing

vars == <<engine, served, cache, everPopulated, stale, fetches>>

\* A request that waits for its fetch, the background thread, a handler.
Fetcher == {"cold", "background", "handler"}

CacheState == [routes : Version \cup {NoVersion}, etag : Version \cup {NoVersion}]
Empty   == [routes |-> NoVersion, etag |-> NoVersion]
All(v)  == [routes |-> v, etag |-> v]
NoFetch == [pc |-> "none", etag |-> NoVersion, got |-> Empty]

TypeOK ==
  /\ engine \in {"up", "slow", "down"}
  /\ served \in Version
  /\ cache \in CacheState
  /\ everPopulated \in BOOLEAN
  /\ stale \in BOOLEAN
  /\ fetches \in [Fetcher -> [pc : {"none", "queued", "sent", "answered", "failed"},
                              etag : Version \cup {NoVersion}, got : CacheState]]

\* The constructor has fetched, or failed to.
Init ==
  /\ engine \in {"up", "down"}
  /\ served = FirstVersion
  /\ cache = IF engine = "up" THEN All(served) ELSE Empty
  /\ everPopulated = (engine = "up")
  /\ stale = (engine = "down")
  /\ fetches = [f \in Fetcher |-> NoFetch]

\* doFetch begins with the ETag of now.
Send(f) == fetches' = [fetches EXCEPT ![f].pc = "sent", ![f].etag = cache.etag]

\* A warm cache is not refreshed.
TriggerNothing == UNCHANGED vars

\* triggerRefreshIfStale: backgroundRefreshPending admits one at a time.
TriggerRefresh ==
  IF stale /\ fetches["background"].pc = "none"
  THEN /\ fetches' = [fetches EXCEPT !["background"].pc = "queued"]
       /\ UNCHANGED <<engine, served, cache, everPopulated, stale>>
  ELSE UNCHANGED vars

\* The task of the executor.
BackgroundRefresh ==
  /\ fetches["background"].pc = "queued"
  /\ Send("background")
  /\ UNCHANGED <<engine, served, cache, everPopulated, stale>>

\* blockingColdFetchIfStale, under coldFetchLock.
ColdFetch ==
  /\ ~everPopulated /\ stale
  /\ fetches["cold"].pc = "none"
  /\ Send("cold")
  /\ UNCHANGED <<engine, served, cache, everPopulated, stale>>

\* forceRefresh.
ForceRefresh ==
  /\ fetches["handler"].pc = "none"
  /\ Send("handler")
  /\ UNCHANGED <<engine, served, cache, everPopulated, stale>>

\* 304: a copy of the cache as it is now, whoever has written it since.
NotModified(f) == cache

Answer(f) ==
  /\ fetches[f].pc = "sent"
  /\ engine # "down"
  /\ fetches' = [fetches EXCEPT ![f].pc = "answered",
                                ![f].got = IF fetches[f].etag = served THEN NotModified(f) ELSE All(served)]
  /\ UNCHANGED <<engine, served, cache, everPopulated, stale>>

Fail(f) ==
  /\ fetches[f].pc = "sent"
  /\ engine # "up"
  /\ fetches' = [fetches EXCEPT ![f].pc = "failed"]
  /\ UNCHANGED <<engine, served, cache, everPopulated, stale>>

\* A failed fetch empties the cache.
KeepNothing == Empty
Keep == cache

Finish(f) ==
  /\ fetches[f].pc \in {"answered", "failed"}
  /\ \/ /\ fetches[f].pc = "answered"
        /\ cache' = fetches[f].got
        /\ everPopulated' = (everPopulated \/ cache'.routes # NoVersion)
        /\ stale' = FALSE
     \/ /\ fetches[f].pc = "failed"
        /\ cache' = Keep
        /\ stale' = (stale /\ f = "handler")    \* the others back off
        /\ UNCHANGED everPopulated
  /\ fetches' = [fetches EXCEPT ![f] = NoFetch]
  /\ UNCHANGED <<engine, served>>

\* Time passes.
Expire ==
  /\ ~stale
  /\ stale' = TRUE
  /\ UNCHANGED <<engine, served, cache, everPopulated, fetches>>

\* External: the engine comes and goes, and is reloaded.
EngineChanges ==
  /\ engine' \in {"up", "slow", "down"}
  /\ served' \in Version
  /\ UNCHANGED <<cache, everPopulated, stale, fetches>>

Next ==
  \/ ColdFetch \/ TriggerRefresh \/ BackgroundRefresh \/ ForceRefresh
  \/ \E f \in Fetcher : Answer(f) \/ Fail(f) \/ Finish(f)
  \/ Expire \/ EngineChanges

Spec == Init /\ [][Next]_vars

-----------------------------------------------------------------------------
(* Properties.                                                             *)

(***************************************************************************)
(* The cached ETag is that of the cached routes, whatever order fetches    *)
(* are answered and written in: otherwise a 304 would confirm routes the   *)
(* engine does not have.                                                   *)
(***************************************************************************)
ETagDescribesRoutes == cache.routes = cache.etag

(***************************************************************************)
(* Once populated the cache keeps routes: a failed refresh keeps the stale *)
(* list (plugin/README.md:94), and a fetch that began cold cannot bring    *)
(* the empty list back.                                                    *)
(***************************************************************************)
WarmStaysWarm == everPopulated => cache.routes # NoVersion
=============================================================================
