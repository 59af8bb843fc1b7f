-------------------------- MODULE ForwardingProofs --------------------------
(***************************************************************************)
(* Proofs about Forwarding for any requests, versions and bounds: the      *)
(* composition uses the cache as RouteDiscovery says; the cache stays      *)
(* consistent, so that a warm plugin forwards what the engine owns; and    *)
(* calls that are retried, late or lost do not add to a keyed request.     *)
(***************************************************************************)
EXTENDS Forwarding, FiniteSetTheorems, TLAPS

-----------------------------------------------------------------------------
(* The cache.                                                              *)

\* What a fetch that is under way may write.
FetchOK(f) ==
  /\ fetches[f].got.routes = fetches[f].got.etag
  /\ fetches[f].etag # NoVersion => cache.routes # NoVersion
  /\ fetches[f].pc = "answered" => fetches[f].got.routes # NoVersion

CacheTypes ==
  /\ engine \in {"up", "slow", "down"}
  /\ served \in Version
  /\ cache \in Discovery!CacheState
  /\ fetches \in [Discovery!Fetcher -> [pc : {"none", "queued", "sent", "answered", "failed"},
                              etag : Version \cup {NoVersion}, got : Discovery!CacheState]]

CacheFlags == everPopulated \in BOOLEAN /\ stale \in BOOLEAN

CacheOK ==
  /\ cache.routes = cache.etag
  /\ everPopulated => cache.routes # NoVersion
  /\ \A g \in Discovery!Fetcher : FetchOK(g)

CacheInv == CacheTypes /\ CacheFlags /\ CacheOK

LEMMA CacheInit == Discovery!Init => CacheInv
<1> SUFFICES ASSUME Discovery!Init
             PROVE  CacheInv
  OBVIOUS
<1> USE VersionAssumption DEF Discovery!VersionsDiffer
<1>1. CacheTypes
  BY DEF Discovery!Init, CacheTypes, Discovery!CacheState, Discovery!All, Discovery!Empty, Discovery!NoFetch
<1>2. CacheFlags
  BY Zenon DEF Discovery!Init, CacheFlags
<1>3. CacheOK
  <2>1. cache.routes = cache.etag /\ (engine = "up" => cache.routes # NoVersion)
    BY DEF Discovery!Init, Discovery!All, Discovery!Empty
  <2>2. everPopulated => engine = "up"
    BY Zenon DEF Discovery!Init
  <2>3. \A f \in Discovery!Fetcher : FetchOK(f)
    BY DEF Discovery!Init, FetchOK, Discovery!NoFetch, Discovery!Empty
  <2> QED
    BY <2>1, <2>2, <2>3 DEF CacheOK
<1> QED
  BY <1>1, <1>2, <1>3 DEF CacheInv

LEMMA CacheSame ==
  ASSUME CacheOK, UNCHANGED <<cache, everPopulated>>,
         \A g \in Discovery!Fetcher : FetchOK(g)'
  PROVE  CacheOK'
BY Zenon DEF CacheOK

\* A fetch that begins remembers the ETag of now.
LEMMA SendStep ==
  ASSUME CacheInv, NEW f \in Discovery!Fetcher, Discovery!Send(f),
         UNCHANGED <<engine, served, cache, everPopulated, stale>>
  PROVE  CacheInv'
<1> USE DEF CacheInv
<1>0. cache.etag \in Version \cup {NoVersion}
  BY DEF CacheTypes, Discovery!CacheState
<1>1. CacheTypes'
  BY <1>0 DEF CacheTypes, Discovery!Send
<1>2. CacheFlags'
  BY Zenon DEF CacheFlags
<1>3. \A g \in Discovery!Fetcher : FetchOK(g)'
  BY DEF CacheTypes, CacheOK, FetchOK, Discovery!Send
<1>4. CacheOK'
  BY <1>3, Zenon DEF CacheOK
<1> QED
  BY <1>1, <1>2, <1>4

\* The answer is a copy of a consistent cache, or what the engine serves.
LEMMA AnswerStep ==
  ASSUME CacheInv, NEW f \in Discovery!Fetcher, Discovery!Answer(f)
  PROVE  CacheInv'
<1> USE VersionAssumption DEF CacheInv, Discovery!VersionsDiffer
<1> DEFINE got == IF fetches[f].etag = served THEN Discovery!NotModified(f) ELSE Discovery!All(served)
<1>1. /\ got \in Discovery!CacheState
      /\ got.routes = got.etag
      /\ got.routes # NoVersion
  BY DEF CacheTypes, CacheOK, FetchOK, Discovery!NotModified, Discovery!All, Discovery!CacheState
<1>2. /\ UNCHANGED <<engine, served, cache, everPopulated, stale>>
      /\ fetches' = [fetches EXCEPT ![f].pc = "answered", ![f].got = got]
  BY Zenon DEF Discovery!Answer
<1> HIDE DEF got
<1>3. CacheTypes'
  BY <1>1, <1>2 DEF CacheTypes
<1>4. CacheFlags'
  BY <1>2, Zenon DEF CacheFlags
<1>5. \A g \in Discovery!Fetcher : FetchOK(g)'
  BY <1>1, <1>2 DEF CacheTypes, CacheOK, FetchOK
<1>6. CacheOK'
  <2>1. UNCHANGED <<cache, everPopulated>>
    BY <1>2
  <2> QED
    BY <1>5, <2>1, CacheSame
<1> QED
  BY <1>3, <1>4, <1>6

\* What is written was consistent when it was answered, and is not empty.
LEMMA FinishStep ==
  ASSUME CacheInv, NEW f \in Discovery!Fetcher, Discovery!Finish(f)
  PROVE  CacheInv'
<1> USE DEF CacheInv
<1>1. /\ UNCHANGED <<engine, served>>
      /\ fetches' = [fetches EXCEPT ![f] = Discovery!NoFetch]
      /\ \/ fetches[f].pc = "answered" /\ cache' = fetches[f].got
         \/ UNCHANGED <<cache, everPopulated>>
  BY DEF Discovery!Finish, Discovery!Keep
<1>2. /\ cache' \in Discovery!CacheState
      /\ cache'.routes = cache'.etag
      /\ cache'.routes # NoVersion \/ UNCHANGED <<cache, everPopulated>>
  BY <1>1 DEF CacheTypes, CacheOK, FetchOK
<1>3. CacheTypes'
  BY <1>1, <1>2 DEF CacheTypes, Discovery!NoFetch, Discovery!Empty, Discovery!CacheState
<1>4. CacheFlags'
  BY Zenon DEF Discovery!Finish, CacheFlags
<1>5. \A g \in Discovery!Fetcher : FetchOK(g)'
  BY <1>1, <1>2 DEF CacheTypes, CacheOK, FetchOK, Discovery!NoFetch, Discovery!Empty
<1>6. CacheOK'
  <2>1. everPopulated' => cache'.routes # NoVersion
    BY <1>2, Zenon DEF CacheOK
  <2> QED
    BY <1>2, <1>5, <2>1, Zenon DEF CacheOK
<1> QED
  BY <1>3, <1>4, <1>6

LEMMA CacheStep ==
  ASSUME CacheInv, Discovery!Next
  PROVE  CacheInv'
<1> USE DEF CacheInv
<1>1. CASE Discovery!ColdFetch
  BY <1>1, SendStep, Zenon DEF Discovery!ColdFetch, Discovery!Fetcher
<1>2. CASE Discovery!BackgroundRefresh
  BY <1>2, SendStep, Zenon DEF Discovery!BackgroundRefresh, Discovery!Fetcher
<1>3. CASE Discovery!ForceRefresh
  BY <1>3, SendStep, Zenon DEF Discovery!ForceRefresh, Discovery!Fetcher
<1>4. ASSUME NEW f \in Discovery!Fetcher, NEW pc \in {"queued", "failed"},
             fetches' = [fetches EXCEPT ![f].pc = pc],
             UNCHANGED <<engine, served, cache, everPopulated, stale>>
      PROVE  CacheInv'
  <2>1. CacheTypes'
    BY <1>4 DEF CacheTypes
  <2>2. CacheFlags'
    BY <1>4, Zenon DEF CacheFlags
  <2>3. \A g \in Discovery!Fetcher : FetchOK(g)'
    BY <1>4 DEF CacheTypes, CacheOK, FetchOK
  <2>4. CacheOK'
    BY <1>4, <2>3, Zenon DEF CacheOK
  <2> QED
    BY <2>1, <2>2, <2>4
<1>5. CASE UNCHANGED Discovery!vars
  <2>1. CacheTypes' /\ CacheFlags' /\ CacheOK'
    BY <1>5, Zenon DEF Discovery!vars, CacheTypes, CacheFlags, CacheOK, FetchOK
  <2> QED
    BY <2>1
<1>6. CASE Discovery!TriggerRefresh
  BY <1>4, <1>5, <1>6, Zenon DEF Discovery!TriggerRefresh, Discovery!Fetcher, Discovery!vars
<1>7. CASE \E f \in Discovery!Fetcher : Discovery!Answer(f) \/ Discovery!Fail(f) \/ Discovery!Finish(f)
  BY <1>4, <1>7, AnswerStep, FinishStep, Zenon DEF Discovery!Fail
<1>8. CASE Discovery!Expire \/ Discovery!EngineChanges
  <2>1. CacheTypes'
    BY <1>8 DEF Discovery!Expire, Discovery!EngineChanges, CacheTypes
  <2>2. UNCHANGED <<cache, everPopulated, fetches>>
    BY <1>8, Zenon DEF Discovery!Expire, Discovery!EngineChanges
  <2>3. CacheFlags'
    BY <1>8, Zenon DEF Discovery!Expire, Discovery!EngineChanges, CacheFlags
  <2>4. \A f \in Discovery!Fetcher : FetchOK(f)'
    BY <2>2 DEF CacheOK, FetchOK
  <2> QED
    BY <2>1, <2>2, <2>3, <2>4, CacheSame
<1> QED
  BY <1>1, <1>2, <1>3, <1>6, <1>7, <1>8, Zenon DEF Discovery!Next

-----------------------------------------------------------------------------
(* The composition uses the cache as specified.                            *)

\* What a step of a request does to the cache.
LEMMA RequestSteps ==
  ASSUME NEW r \in Request, Arrive(r) \/ RequestStep(r)
  PROVE  Discovery!Next \/ UNCHANGED discovery
<1>1. CASE Arrive(r)
  BY <1>1, Zenon DEF Arrive
<1>2. CASE Route(r)
  BY <1>2, Zenon DEF Route, Discovery!Next
<1>3. CASE EnterColdFetch(r)
  BY <1>3, Zenon DEF EnterColdFetch, Discovery!Next
<1>4. CASE LeaveColdFetch(r)
  BY <1>4, Zenon DEF LeaveColdFetch
<1>5. CASE Match(r)
  BY <1>5, Zenon DEF Match
<1>6. CASE Admit(r)
  BY <1>6, Zenon DEF Admit
<1>7. CASE Call(r)
  BY <1>7, Zenon DEF Call
<1>8. CASE TimeOut(r)
  BY <1>8, Zenon DEF TimeOut
<1> QED
  BY <1>1, <1>2, <1>3, <1>4, <1>5, <1>6, <1>7, <1>8, Zenon DEF RequestStep

LEMMA DiscoverySteps ==
  ASSUME CacheInv, [Next]_vars
  PROVE  Discovery!Next \/ UNCHANGED discovery
<1>1. CASE \E r \in Request : Arrive(r) \/ RequestStep(r)
  BY <1>1, RequestSteps, Zenon
<1>2. CASE \E f \in Discovery!Fetcher : FetchStep(f)
  BY <1>2, Zenon DEF FetchStep, Discovery!Next
<1>3. CASE \E c \in copies : Execute(c)
  BY <1>3, Zenon DEF Execute
<1>4. CASE HandlerRefreshes
  BY <1>4, Zenon DEF HandlerRefreshes, Discovery!Next
<1>5. CASE Wait
  BY <1>5, Zenon DEF Wait
<1>6. CASE Expires
  BY <1>6, Zenon DEF Expires, Discovery!Next
<1>7. CASE EngineChanges
  <2>1. engine' \in {"up", "slow", "down"} /\ served' \in Version
    <3>1. CASE engine' = "up" /\ UNCHANGED served
      BY <3>1 DEF CacheInv, CacheTypes
    <3>2. CASE engine' \in {"slow", "down"} \ {engine} /\ UNCHANGED served
      BY <3>2 DEF CacheInv, CacheTypes
    <3>3. CASE served' \in Version \ {served} /\ UNCHANGED engine
      BY <3>3 DEF CacheInv, CacheTypes
    <3> QED
      BY <1>7, <3>1, <3>2, <3>3, Zenon DEF EngineChanges
  <2>2. UNCHANGED <<cache, everPopulated, stale, fetches>>
    BY <1>7, Zenon DEF EngineChanges
  <2> QED
    BY <2>1, <2>2, Zenon DEF Discovery!EngineChanges, Discovery!Next
<1>8. CASE UNCHANGED vars
  BY <1>8, Zenon DEF vars
<1> QED
  BY <1>1, <1>2, <1>3, <1>4, <1>5, <1>6, <1>7, <1>8, Zenon DEF Next

LEMMA CacheKept ==
  ASSUME CacheInv, [Next]_vars
  PROVE  CacheInv'
<1>1. CASE UNCHANGED discovery
  BY <1>1, Zenon DEF discovery, CacheInv, CacheTypes, CacheFlags, CacheOK, FetchOK
<1> QED
  BY <1>1, CacheStep, DiscoverySteps

(***************************************************************************)
(* Requests, the background thread and the handlers together use the cache *)
(* as RouteDiscovery specifies: every step is one of its steps or none.    *)
(***************************************************************************)
THEOREM RefinesDiscovery == Spec => DiscoversAsSpecified
<1>1. Init => CacheInv /\ Discovery!Init
  BY CacheInit DEF Init
<1>2. CacheInv /\ [Next]_vars => CacheInv'
  BY CacheKept
<1>3. CacheInv /\ [Next]_vars => [Discovery!Next]_(Discovery!vars)
  BY DiscoverySteps DEF discovery, Discovery!vars
<1> QED
  BY <1>1, <1>2, <1>3, PTL DEF Spec, DiscoversAsSpecified, Discovery!Spec

-----------------------------------------------------------------------------
(* Owned paths.                                                            *)

Pcs == {"idle", "routing", "cold", "fetching", "matching", "admission", "calling", "waiting"}

Calls == [Request -> [pc : Pcs, attempt : 0..MaxAttempts, answer : Answers \cup {"none"}, warm : BOOLEAN]]

\* A request that arrived warm was not turned away from a path that is owned.
WarmCall(r) ==
  /\ calls[r].warm => cache.routes # NoVersion
  /\ r \in Always /\ calls[r].answer = "notOwned" => ~calls[r].warm

\* The cache does not become empty again.
LEMMA RoutesStay ==
  ASSUME CacheInv, [Next]_vars, cache.routes # NoVersion
  PROVE  cache'.routes # NoVersion
<1>1. CASE UNCHANGED cache
  BY <1>1
<1>2. ASSUME NEW f \in Discovery!Fetcher, Discovery!Finish(f)
      PROVE  cache'.routes # NoVersion
  BY <1>2 DEF Discovery!Finish, Discovery!Keep, CacheInv, CacheOK, FetchOK
<1>3. CASE Discovery!Next
  BY <1>1, <1>2, <1>3, Zenon DEF Discovery!Next, Discovery!ColdFetch, Discovery!TriggerRefresh,
     Discovery!BackgroundRefresh, Discovery!ForceRefresh, Discovery!Answer, Discovery!Fail,
     Discovery!Expire, Discovery!EngineChanges, Discovery!vars
<1>4. CASE UNCHANGED discovery
  BY <1>1, <1>4, Zenon DEF discovery
<1> QED
  BY <1>3, <1>4, DiscoverySteps

\* One call moves: what it becomes.
Moved(r, pc, attempt, answer, warm) ==
  /\ calls' \in Calls
  /\ calls'[r].pc = pc /\ calls'[r].attempt = attempt
  /\ calls'[r].answer = answer /\ calls'[r].warm = warm
  /\ \A q \in Request \ {r} : calls'[q] = calls[q]

LEMMA GoesMoves ==
  ASSUME calls \in Calls, NEW r \in Request, NEW pc \in Pcs, Goes(r, pc)
  PROVE  Moved(r, pc, calls[r].attempt, calls[r].answer, calls[r].warm)
BY DEF Goes, Moved, Calls

LEMMA EndsMoves ==
  ASSUME calls \in Calls, NEW r \in Request, NEW answer \in Answers, Ends(r, answer)
  PROVE  Moved(r, "idle", calls[r].attempt, answer, calls[r].warm)
BY DEF Ends, Moved, Calls, Pcs

LEMMA TriesMoves ==
  ASSUME calls \in Calls, NEW r \in Request, NEW n \in 0..MaxAttempts,
         calls' = [calls EXCEPT ![r].pc = "calling", ![r].attempt = n]
  PROVE  Moved(r, "calling", n, calls[r].answer, calls[r].warm)
BY DEF Moved, Calls, Pcs

LEMMA ArriveMoves ==
  ASSUME calls \in Calls, CacheFlags, NEW r \in Request, Arrive(r)
  PROVE  Moved(r, "routing", 0, "none", everPopulated)
<1>1. calls' = [calls EXCEPT ![r] = [pc |-> "routing", attempt |-> 0, answer |-> "none", warm |-> everPopulated]]
  BY Zenon DEF Arrive
<1>2. 0 \in 0..MaxAttempts
  BY RequestAssumption
<1>3. [pc |-> "routing", attempt |-> 0, answer |-> "none", warm |-> everPopulated]
        \in [pc : Pcs, attempt : 0..MaxAttempts, answer : Answers \cup {"none"}, warm : BOOLEAN]
  BY <1>2, Zenon DEF CacheFlags, Pcs
<1> QED
  BY <1>1, <1>3 DEF Moved, Calls

LEMMA RetryMoves ==
  ASSUME calls \in Calls, NEW r \in Request, Retry(r)
  PROVE  \/ /\ calls[r].attempt + 1 \in 0..MaxAttempts
            /\ Moved(r, "calling", calls[r].attempt + 1, calls[r].answer, calls[r].warm)
         \/ Moved(r, "idle", calls[r].attempt, "unavailable", calls[r].warm)
<1>1. CASE calls[r].attempt = MaxAttempts /\ Ends(r, "unavailable")
  BY <1>1, EndsMoves DEF Answers
<1>2. CASE /\ calls[r].attempt < MaxAttempts
           /\ calls' = [calls EXCEPT ![r].pc = "calling", ![r].attempt = @ + 1]
  <2>1. calls[r].attempt + 1 \in 0..MaxAttempts
    BY <1>2, RequestAssumption DEF Calls
  <2>2. calls' = [calls EXCEPT ![r].pc = "calling", ![r].attempt = calls[r].attempt + 1]
    BY <1>2 DEF Calls
  <2> QED
    BY <2>1, <2>2, TriesMoves
<1> QED
  BY <1>1, <1>2, Zenon DEF Retry

-----------------------------------------------------------------------------
(* Effects.                                                                *)

\* The request has not been sent.
Early == {"routing", "cold", "fetching", "matching", "admission"}

\* Calls of the request that the engine has not executed.
Mine(r) == {c \in copies : c[1] = r}

\* How many calls went out at most.
Sent(pc, attempt) == IF pc = "calling" THEN attempt - 1 ELSE attempt

EffectTypes ==
  /\ copies \subseteq Request \X (1..MaxAttempts)
  /\ commits \in [Request -> Nat]
  /\ recorded \subseteq Keyed

\* Every effect of a request was one of its calls, executed or on its way.
EffectOK(r) ==
  /\ IsFiniteSet(Mine(r))
  /\ commits[r] + Cardinality(Mine(r)) <= Sent(calls[r].pc, calls[r].attempt)
  /\ calls[r].pc \in Early => calls[r].attempt = 0
  /\ calls[r].pc # "idle" => calls[r].answer = "none"
  /\ calls[r].answer \in {"circuitOpen", "notOwned"} => calls[r].attempt = 0
  /\ r \in Keyed => commits[r] <= 1 /\ (commits[r] = 1 => r \in recorded)

EffectInv == calls \in Calls /\ EffectTypes /\ \A r \in Request : EffectOK(r)

\* The plugin moves and the engine does not.
LEMMA PluginStep ==
  ASSUME EffectInv, UNCHANGED <<copies, store>>,
         NEW r \in Request, NEW pc, NEW attempt \in 0..MaxAttempts, NEW answer, NEW warm,
         Moved(r, pc, attempt, answer, warm),
         Sent(calls[r].pc, calls[r].attempt) <= Sent(pc, attempt),
         pc \in Early => attempt = 0,
         pc # "idle" => answer = "none",
         answer \in {"circuitOpen", "notOwned"} => attempt = 0
  PROVE  EffectInv'
<1>1. calls' \in Calls /\ EffectTypes'
  BY DEF Moved, EffectInv, EffectTypes, store
<1>2. EffectOK(r)'
  <2>1. Mine(r)' = Mine(r) /\ commits'[r] = commits[r] /\ recorded' = recorded
    BY DEF Mine, store
  <2>2. commits[r] \in Nat /\ Cardinality(Mine(r)) \in Nat
    BY FS_CardinalityType DEF EffectInv, EffectTypes, EffectOK
  <2>3. commits[r] + Cardinality(Mine(r)) <= Sent(pc, attempt)
    <3>1. Sent(pc, attempt) \in Int /\ Sent(calls[r].pc, calls[r].attempt) \in Int
      BY RequestAssumption DEF Sent, EffectInv, Calls
    <3> QED
      BY <2>2, <3>1 DEF EffectInv, EffectOK
  <2> QED
    BY <2>1, <2>3 DEF EffectInv, EffectOK, Moved
<1>3. ASSUME NEW q \in Request \ {r}
      PROVE  EffectOK(q)'
  BY DEF EffectInv, EffectOK, Moved, Mine, store
<1> QED
  BY <1>1, <1>2, <1>3 DEF EffectInv

LEMMA EarlyStep ==
  ASSUME EffectInv, NEW r \in Request,
         Route(r) \/ EnterColdFetch(r) \/ LeaveColdFetch(r) \/ Match(r) \/ Admit(r)
  PROVE  EffectInv'
<1>1. UNCHANGED <<copies, store>>
  BY Zenon DEF Route, EnterColdFetch, LeaveColdFetch, Match, Admit
<1>2. calls[r].pc \in Early
  BY Zenon DEF Route, EnterColdFetch, LeaveColdFetch, Match, Admit, Early
<1>3. /\ calls \in Calls /\ calls[r].attempt = 0 /\ calls[r].answer = "none"
      /\ Sent(calls[r].pc, calls[r].attempt) = 0
      /\ 0 \in 0..MaxAttempts /\ 1 \in 0..MaxAttempts
  BY <1>2, RequestAssumption DEF EffectInv, EffectOK, Early, Sent
<1>4. \/ \E pc \in Early : Goes(r, pc)
      \/ \E answer \in {"circuitOpen", "notOwned"} : Ends(r, answer)
      \/ calls' = [calls EXCEPT ![r].pc = "calling", ![r].attempt = 1]
  BY Zenon DEF Route, EnterColdFetch, LeaveColdFetch, Match, Admit, Early
<1>5. CASE \E pc \in Early : Goes(r, pc)
  <2>1. PICK pc \in Early : Goes(r, pc)
    BY <1>5
  <2>2. Moved(r, pc, 0, "none", calls[r].warm)
    BY <1>3, <2>1, GoesMoves DEF Early, Pcs
  <2>3. Sent(pc, 0) = 0
    BY DEF Early, Sent
  <2> QED
    BY <1>1, <1>3, <2>2, <2>3, PluginStep
<1>6. CASE \E answer \in {"circuitOpen", "notOwned"} : Ends(r, answer)
  <2>1. PICK answer \in {"circuitOpen", "notOwned"} : Ends(r, answer)
    BY <1>6
  <2>2. Moved(r, "idle", 0, answer, calls[r].warm)
    BY <1>3, <2>1, EndsMoves DEF Answers
  <2>3. Sent("idle", 0) = 0 /\ "idle" \notin Early
    BY DEF Early, Sent
  <2> QED
    BY <1>1, <1>3, <2>2, <2>3, PluginStep
<1>7. CASE calls' = [calls EXCEPT ![r].pc = "calling", ![r].attempt = 1]
  <2>1. Moved(r, "calling", 1, "none", calls[r].warm)
    BY <1>3, <1>7, TriesMoves
  <2>2. Sent("calling", 1) = 0 /\ "calling" \notin Early
    BY DEF Early, Sent
  <2> QED
    BY <1>1, <1>3, <2>1, <2>2, PluginStep
<1> QED
  BY <1>4, <1>5, <1>6, <1>7

LEMMA RetryStep ==
  ASSUME EffectInv, NEW r \in Request, calls[r].pc \in {"calling", "waiting"}, Retry(r),
         UNCHANGED <<copies, store>>
  PROVE  EffectInv'
<1>1. /\ calls \in Calls /\ calls[r].answer = "none"
      /\ calls[r].attempt \in 0..MaxAttempts
  BY DEF EffectInv, EffectOK, Calls
<1>2. /\ Sent(calls[r].pc, calls[r].attempt) <= Sent("calling", calls[r].attempt + 1)
      /\ Sent(calls[r].pc, calls[r].attempt) <= Sent("idle", calls[r].attempt)
      /\ "calling" \notin Early /\ "idle" \notin Early
  BY <1>1, RequestAssumption DEF Sent, Early
<1>3. CASE /\ calls[r].attempt + 1 \in 0..MaxAttempts
           /\ Moved(r, "calling", calls[r].attempt + 1, calls[r].answer, calls[r].warm)
  BY <1>1, <1>2, <1>3, PluginStep
<1>4. CASE Moved(r, "idle", calls[r].attempt, "unavailable", calls[r].warm)
  BY <1>1, <1>2, <1>4, PluginStep
<1> QED
  BY <1>1, <1>3, <1>4, RetryMoves

\* What a request does not touch stays as it was.
LEMMA OthersKept ==
  ASSUME EffectInv, NEW q \in Request, calls'[q] = calls[q], Mine(q)' = Mine(q),
         commits'[q] = commits[q], q \in recorded => q \in recorded'
  PROVE  EffectOK(q)'
BY DEF EffectInv, EffectOK

\* A call goes out.
LEMMA SendCallStep ==
  ASSUME EffectInv, NEW r \in Request, calls[r].pc = "calling", Goes(r, "waiting"),
         copies' = copies \cup {<<r, calls[r].attempt>>}, UNCHANGED store
  PROVE  EffectInv'
<1> DEFINE n == calls[r].attempt
           sent == <<r, n>>
<1>1. /\ calls \in Calls /\ n \in 0..MaxAttempts /\ commits[r] \in Nat
      /\ IsFiniteSet(Mine(r)) /\ Cardinality(Mine(r)) \in Nat
      /\ commits[r] + Cardinality(Mine(r)) <= n - 1
      /\ calls[r].answer = "none"
  BY FS_CardinalityType DEF EffectInv, EffectOK, EffectTypes, Calls, Sent
<1>2. Moved(r, "waiting", n, "none", calls[r].warm)
  BY <1>1, GoesMoves DEF Pcs
<1>3. EffectTypes'
  <2>1. n \in 1..MaxAttempts
    BY <1>1, RequestAssumption
  <2> QED
    BY <2>1 DEF EffectInv, EffectTypes, store
<1>4. EffectOK(r)'
  <2>1. Mine(r)' = Mine(r) \cup {sent}
    BY DEF Mine
  <2>2. /\ IsFiniteSet(Mine(r)')
        /\ Cardinality(Mine(r)') \in {Cardinality(Mine(r)), Cardinality(Mine(r)) + 1}
    <3>1. /\ IsFiniteSet(Mine(r) \cup {sent})
          /\ sent \in Mine(r) => Cardinality(Mine(r) \cup {sent}) = Cardinality(Mine(r))
          /\ sent \notin Mine(r) => Cardinality(Mine(r) \cup {sent}) = Cardinality(Mine(r)) + 1
      BY <1>1, FS_AddElement
    <3> QED
      BY <2>1, <3>1, Zenon
  <2>3. commits'[r] + Cardinality(Mine(r)') <= Sent(calls'[r].pc, calls'[r].attempt)
    BY <1>1, <1>2, <2>2 DEF Sent, Moved, store
  <2> QED
    BY <1>2, <2>2, <2>3 DEF EffectInv, EffectOK, Moved, Early, store
<1>5. ASSUME NEW q \in Request \ {r}
      PROVE  EffectOK(q)'
  <2>1. Mine(q)' = Mine(q)
    BY DEF Mine
  <2> QED
    BY <1>2, <2>1, OthersKept DEF Moved, store
<1> QED
  BY <1>2, <1>3, <1>4, <1>5 DEF EffectInv, Moved

\* A call is executed: it is not on its way any more.
LEMMA ExecuteStep ==
  ASSUME EffectInv, NEW c \in copies, Execute(c)
  PROVE  EffectInv'
<1> DEFINE r == c[1]
           n == calls[r].attempt
<1>1. /\ r \in Request /\ c \in Mine(r) /\ calls \in Calls /\ commits[r] \in Nat
      /\ n \in 0..MaxAttempts
      /\ IsFiniteSet(Mine(r)) /\ Cardinality(Mine(r)) \in Nat
      /\ commits[r] + Cardinality(Mine(r)) <= Sent(calls[r].pc, n)
  BY FS_CardinalityType DEF EffectInv, EffectOK, EffectTypes, Calls, Mine
<1>2. copies' = copies \ {c} /\ Effect(r)
  BY Zenon DEF Execute
<1>3. \/ Moved(r, "idle", n, "engine", calls[r].warm) /\ calls[r].pc = "waiting"
      \/ UNCHANGED calls
  BY <1>1, EndsMoves, Zenon DEF Execute, Answers
<1>4. /\ commits' \in [Request -> Nat] /\ commits'[r] \in {commits[r], commits[r] + 1}
      /\ \A q \in Request \ {r} : commits'[q] = commits[q]
      /\ recorded \subseteq recorded' /\ recorded' \subseteq Keyed
      /\ r \in Keyed => r \in recorded' /\ (r \in recorded => commits'[r] = commits[r])
  BY <1>1, <1>2 DEF Effect, store, EffectInv, EffectTypes
<1>5. EffectTypes' /\ calls' \in Calls
  BY <1>2, <1>3, <1>4 DEF EffectInv, EffectTypes, Moved
<1>6. EffectOK(r)'
  <2>1. Mine(r)' = Mine(r) \ {c}
    BY <1>2 DEF Mine
  <2>2. IsFiniteSet(Mine(r)') /\ Cardinality(Mine(r)') = Cardinality(Mine(r)) - 1
    BY <1>1, <2>1, FS_RemoveElement
  <2>3. commits'[r] + Cardinality(Mine(r)') <= Sent(calls'[r].pc, calls'[r].attempt)
    BY <1>1, <1>3, <1>4, <2>2 DEF Sent, Moved
  <2>4. r \in Keyed => commits'[r] <= 1 /\ (commits'[r] = 1 => r \in recorded')
    BY <1>1, <1>4 DEF EffectInv, EffectOK
  <2>5. /\ calls'[r].pc \in Early => calls'[r].attempt = 0
        /\ calls'[r].pc # "idle" => calls'[r].answer = "none"
        /\ calls'[r].answer \in {"circuitOpen", "notOwned"} => calls'[r].attempt = 0
    BY <1>1, <1>3 DEF EffectInv, EffectOK, Moved, Early
  <2> QED
    BY <2>2, <2>3, <2>4, <2>5 DEF EffectOK
<1>7. ASSUME NEW q \in Request \ {r}
      PROVE  EffectOK(q)'
  <2>1. Mine(q)' = Mine(q)
    BY <1>2 DEF Mine
  <2>2. calls'[q] = calls[q]
    BY <1>3 DEF Moved
  <2> QED
    BY <1>4, <2>1, <2>2, OthersKept
<1> QED
  BY <1>5, <1>6, <1>7 DEF EffectInv

\* Another request takes the place of one whose calls are all done with.
LEMMA ArriveStep ==
  ASSUME EffectInv, CacheFlags, NEW r \in Request, Arrive(r)
  PROVE  EffectInv'
<1>1. Moved(r, "routing", 0, "none", everPopulated)
  BY ArriveMoves DEF EffectInv
<1>2. /\ \A c \in copies : c[1] # r
      /\ commits' = [commits EXCEPT ![r] = 0] /\ recorded' = recorded \ {r}
      /\ UNCHANGED copies
  BY Zenon DEF Arrive
<1>3. EffectTypes'
  BY <1>2 DEF EffectInv, EffectTypes
<1>4. EffectOK(r)'
  <2>1. Mine(r)' = {}
    BY <1>2 DEF Mine
  <2>2. IsFiniteSet(Mine(r)') /\ Cardinality(Mine(r)') = 0
    BY <2>1, FS_EmptySet
  <2> QED
    BY <1>1, <1>2, <2>2 DEF EffectInv, EffectTypes, EffectOK, Moved, Sent
<1>5. ASSUME NEW q \in Request \ {r}
      PROVE  EffectOK(q)'
  <2>1. Mine(q)' = Mine(q)
    BY <1>2 DEF Mine
  <2> QED
    BY <1>1, <1>2, <2>1, OthersKept DEF Moved, EffectInv, EffectTypes
<1> QED
  BY <1>1, <1>3, <1>4, <1>5 DEF EffectInv, Moved

\* A crash takes the effects and the calls that are on their way.
LEMMA CrashStep ==
  ASSUME EffectInv, UNCHANGED calls,
         copies' = {}, commits' = [r \in Request |-> 0], recorded' = {}
  PROVE  EffectInv'
<1>1. calls' \in Calls /\ EffectTypes'
  BY DEF EffectInv, EffectTypes
<1>2. ASSUME NEW r \in Request
      PROVE  EffectOK(r)'
  <2>1. Mine(r)' = {}
    BY DEF Mine
  <2>2. IsFiniteSet(Mine(r)') /\ Cardinality(Mine(r)') = 0
    BY <2>1, FS_EmptySet
  <2>3. 0 <= Sent(calls[r].pc, calls[r].attempt)
    <3>1. commits[r] \in Nat /\ Cardinality(Mine(r)) \in Nat
      BY FS_CardinalityType DEF EffectInv, EffectTypes, EffectOK
    <3>2. Sent(calls[r].pc, calls[r].attempt) \in Int
      BY RequestAssumption DEF EffectInv, Calls, Sent
    <3> QED
      BY <3>1, <3>2 DEF EffectInv, EffectOK
  <2> QED
    BY <2>2, <2>3 DEF EffectInv, EffectOK
<1> QED
  BY <1>1, <1>2 DEF EffectInv

LEMMA EffectStep ==
  ASSUME EffectInv, CacheFlags, [Next]_vars
  PROVE  EffectInv'
<1>1. ASSUME UNCHANGED <<calls, copies, store>>
      PROVE  EffectInv'
  BY <1>1 DEF EffectInv, EffectTypes, EffectOK, Mine, store
<1>2. ASSUME NEW r \in Request, RequestStep(r)
      PROVE  EffectInv'
  <2>1. CASE Call(r) /\ Retry(r) /\ UNCHANGED copies
    BY <2>1, RetryStep, Zenon DEF Call
  <2>2. CASE Call(r) /\ copies' = copies \cup {<<r, calls[r].attempt>>} /\ Goes(r, "waiting")
    BY <2>2, SendCallStep, Zenon DEF Call
  <2>3. CASE TimeOut(r)
    BY <2>3, RetryStep, Zenon DEF TimeOut
  <2>4. Call(r) => (Retry(r) /\ UNCHANGED copies)
                   \/ (copies' = copies \cup {<<r, calls[r].attempt>>} /\ Goes(r, "waiting"))
    BY Zenon DEF Call
  <2> QED
    BY <1>2, <2>1, <2>2, <2>3, <2>4, EarlyStep, Zenon DEF RequestStep
<1>3. CASE \E r \in Request : Arrive(r) \/ RequestStep(r)
  BY <1>2, <1>3, ArriveStep, Zenon
<1>4. CASE \E f \in Discovery!Fetcher : FetchStep(f)
  BY <1>1, <1>4, Zenon DEF FetchStep
<1>5. CASE \E c \in copies : Execute(c)
  BY <1>5, ExecuteStep
<1>6. CASE HandlerRefreshes \/ Wait \/ Expires
  BY <1>1, <1>6, Zenon DEF HandlerRefreshes, Wait, Expires
<1>7. CASE EngineChanges
  BY <1>1, <1>7, CrashStep, Zenon DEF EngineChanges
<1>8. CASE UNCHANGED vars
  BY <1>1, <1>8, Zenon DEF vars
<1> QED
  BY <1>3, <1>4, <1>5, <1>6, <1>7, <1>8, Zenon DEF Next

LEMMA EffectInit == Init => EffectInv
<1> SUFFICES ASSUME Init
             PROVE  EffectInv
  OBVIOUS
<1>1. calls \in Calls /\ EffectTypes
  <2>1. 0 \in 0..MaxAttempts
    BY RequestAssumption
  <2>2. [pc |-> "idle", attempt |-> 0, answer |-> "none", warm |-> FALSE]
          \in [pc : Pcs, attempt : 0..MaxAttempts, answer : Answers \cup {"none"}, warm : BOOLEAN]
    BY <2>1, Zenon DEF Pcs
  <2> QED
    BY <2>2 DEF Init, Calls, EffectTypes
<1>2. ASSUME NEW r \in Request
      PROVE  EffectOK(r)
  <2>1. Mine(r) = {}
    BY DEF Init, Mine
  <2>2. IsFiniteSet(Mine(r)) /\ Cardinality(Mine(r)) = 0
    BY <2>1, FS_EmptySet
  <2> QED
    BY <2>2 DEF Init, EffectOK, Sent, Early
<1> QED
  BY <1>1, <1>2 DEF EffectInv

-----------------------------------------------------------------------------
(* The circuit breaker.                                                    *)

CircuitTypes ==
  /\ breaker \in {"closed", "open", "halfOpen"}
  /\ permits \in 0..HalfOpenPermits
  /\ results \in [failed : 0..HalfOpenPermits, ok : 0..HalfOpenPermits]

BreakerInv == CircuitTypes /\ waited \in BOOLEAN /\ events \in 0..MaxEvents

LEMMA NoResultsTypes ==
  /\ NoResults \in [failed : 0..HalfOpenPermits, ok : 0..HalfOpenPermits]
  /\ 0 \in 0..HalfOpenPermits
BY RequestAssumption DEF NoResults

LEMMA PermittedTypes ==
  ASSUME CircuitTypes, waited \in BOOLEAN, Permitted
  PROVE  CircuitTypes' /\ waited' \in BOOLEAN
<1>1. waited' \in BOOLEAN
  BY Zenon DEF Permitted, circuit
<1>2. CASE UNCHANGED circuit
  BY <1>1, <1>2, Zenon DEF circuit, CircuitTypes
<1>3. CASE permits > 0 /\ permits' = permits - 1 /\ UNCHANGED <<breaker, results>>
  <2>1. permits' \in 0..HalfOpenPermits
    BY <1>3, RequestAssumption DEF CircuitTypes
  <2> QED
    BY <1>1, <1>3, <2>1, Zenon DEF CircuitTypes
<1>4. CASE breaker' = "halfOpen" /\ permits' = HalfOpenPermits - 1 /\ results' = NoResults
  <2>1. permits' \in 0..HalfOpenPermits
    BY <1>4, RequestAssumption
  <2> QED
    BY <1>1, <1>4, <2>1, NoResultsTypes, Zenon DEF CircuitTypes
<1> QED
  BY <1>1, <1>2, <1>3, <1>4, Zenon DEF Permitted

LEMMA RecordTypes ==
  ASSUME CircuitTypes, waited \in BOOLEAN, NEW outcome \in {"failed", "ok"}, Record(outcome)
  PROVE  CircuitTypes' /\ waited' \in BOOLEAN
<1> DEFINE now == [results EXCEPT ![outcome] = @ + 1]
<1>1. CASE Opens \/ Closes
  <2>1. CircuitTypes'
    BY <1>1, NoResultsTypes DEF Opens, Closes, CircuitTypes
  <2> QED
    BY <1>1, <2>1, Zenon DEF Opens, Closes
<1>2. CASE UNCHANGED circuit
  BY <1>2, Zenon DEF circuit, CircuitTypes
<1>3. CASE /\ now.failed + now.ok < HalfOpenPermits
           /\ results' = now /\ UNCHANGED <<breaker, waited, permits>>
  <2>1. now \in [failed : Nat, ok : Nat]
    BY RequestAssumption DEF CircuitTypes
  <2>2. now \in [failed : 0..HalfOpenPermits, ok : 0..HalfOpenPermits]
    <3> HIDE DEF now
    <3> QED
      BY <1>3, <2>1, RequestAssumption
  <2> QED
    BY <1>3, <2>2, Zenon DEF CircuitTypes
<1> QED
  BY <1>1, <1>2, <1>3, Zenon DEF Record

LEMMA RetryTypes ==
  ASSUME CircuitTypes, waited \in BOOLEAN, NEW r, Retry(r)
  PROVE  CircuitTypes' /\ waited' \in BOOLEAN
<1>1. CASE UNCHANGED circuit
  BY <1>1, Zenon DEF circuit, CircuitTypes
<1>2. CASE Record("failed")
  BY <1>2, RecordTypes
<1> QED
  BY <1>1, <1>2, Zenon DEF Retry

LEMMA BreakerStep ==
  ASSUME BreakerInv, [Next]_vars
  PROVE  BreakerInv'
<1> DEFINE Kept == CircuitTypes' /\ waited' \in BOOLEAN
<1> USE DEF BreakerInv
<1>1. UNCHANGED circuit => Kept
  BY Zenon DEF circuit, CircuitTypes
<1>2. Kept
  <2>1. CASE \E r \in Request : Arrive(r) \/ Route(r) \/ EnterColdFetch(r) \/ LeaveColdFetch(r) \/ Match(r)
    BY <1>1, <2>1, Zenon DEF Arrive, Route, EnterColdFetch, LeaveColdFetch, Match
  <2>2. CASE \E r \in Request : Admit(r)
    BY <1>1, <2>2, PermittedTypes, Zenon DEF Admit
  <2>3. CASE \E r \in Request : Call(r) \/ TimeOut(r)
    BY <1>1, <2>3, RetryTypes, Zenon DEF Call, TimeOut
  <2>4. CASE \E c \in copies : Execute(c)
    <3>1. UNCHANGED circuit \/ Record("ok")
      BY <2>4, Zenon DEF Execute
    <3> QED
      BY <1>1, <3>1, RecordTypes
  <2>5. CASE Wait
    BY <2>5, Zenon DEF Wait, CircuitTypes
  <2>6. CASE (\E f \in Discovery!Fetcher : FetchStep(f)) \/ HandlerRefreshes \/ Expires \/ EngineChanges \/ UNCHANGED vars
    BY <1>1, <2>6, Zenon DEF FetchStep, HandlerRefreshes, Expires, EngineChanges, vars
  <2> QED
    BY <2>1, <2>2, <2>3, <2>4, <2>5, <2>6, Zenon DEF Next, RequestStep
<1>3. events' \in 0..MaxEvents
  <2>1. UNCHANGED events \/ EngineChanges
    BY Zenon DEF Next, RequestStep, Arrive, Route, EnterColdFetch, LeaveColdFetch, Match, Admit, Call, TimeOut,
       Execute, FetchStep, HandlerRefreshes, Wait, Expires, vars
  <2>2. UNCHANGED events \/ (events < MaxEvents /\ events' = events + 1)
    BY <2>1, Zenon DEF EngineChanges
  <2> QED
    BY <2>2, RequestAssumption
<1> QED
  BY <1>2, <1>3, Zenon

LEMMA BreakerInit == Init => BreakerInv
<1> SUFFICES ASSUME Init
             PROVE  BreakerInv
  OBVIOUS
<1>1. CircuitTypes /\ events \in 0..MaxEvents
  BY NoResultsTypes, RequestAssumption DEF Init, CircuitTypes
<1> QED
  BY <1>1, Zenon DEF Init, BreakerInv

\* The parts of the invariant give the type invariant the runs check.
LEMMA ForwardingTypes ==
  ASSUME CacheInv, EffectInv, BreakerInv
  PROVE  TypeOK
<1>1. Discovery!TypeOK
  BY Zenon DEF CacheInv, CacheTypes, CacheFlags, Discovery!TypeOK
<1>2. calls \in [Request -> [pc : {"idle", "routing", "cold", "fetching", "matching", "admission",
                                   "calling", "waiting"},
                             attempt : 0..MaxAttempts, answer : Answers \cup {"none"}, warm : BOOLEAN]]
  BY Zenon DEF EffectInv, Calls, Pcs
<1>3. commits \in [Request -> 0..MaxAttempts]
  <2>1. ASSUME NEW r \in Request
        PROVE  commits[r] \in 0..MaxAttempts
    <3>1. commits[r] \in Nat /\ Cardinality(Mine(r)) \in Nat /\ calls[r].attempt \in 0..MaxAttempts
      BY FS_CardinalityType DEF EffectInv, EffectTypes, EffectOK, Calls
    <3> QED
      BY <3>1, RequestAssumption DEF EffectInv, EffectOK, Sent
  <2> QED
    BY <2>1 DEF EffectInv, EffectTypes
<1> QED
  BY <1>1, <1>2, <1>3, Zenon DEF EffectInv, EffectTypes, BreakerInv, CircuitTypes, TypeOK

ForwardingInv == CacheInv /\ EffectInv /\ BreakerInv

LEMMA ForwardingInvariant == Spec => []ForwardingInv
<1>1. Init => ForwardingInv
  BY CacheInit, EffectInit, BreakerInit DEF Init, ForwardingInv
<1>2. ForwardingInv /\ [Next]_vars => ForwardingInv'
  BY CacheKept, EffectStep, BreakerStep DEF ForwardingInv, CacheInv
<1> QED
  BY <1>1, <1>2, PTL DEF Spec

(***************************************************************************)
(* With a key a request takes effect at most once, and a request that was  *)
(* refused has no effect and no call on its way, however calls time out.   *)
(***************************************************************************)
THEOREM EffectsFit == Spec => []EffectsFitAnswers
<1>1. ForwardingInv => EffectsFitAnswers
  <2> SUFFICES ASSUME ForwardingInv
               PROVE  EffectsFitAnswers
    OBVIOUS
  <2>1. TypeOK
    BY ForwardingTypes DEF ForwardingInv
  <2>2. KeyedTakesEffectOnce
    BY RequestAssumption DEF ForwardingInv, EffectInv, EffectOK, KeyedTakesEffectOnce
  <2>3. RefusedHasNoEffect
    <3> SUFFICES ASSUME NEW r \in Request, calls[r].answer \in {"circuitOpen", "notOwned"}
                 PROVE  commits[r] = 0 /\ \A c \in copies : c[1] # r
      BY DEF RefusedHasNoEffect
    <3>1. /\ commits[r] \in Nat /\ IsFiniteSet(Mine(r)) /\ Cardinality(Mine(r)) \in Nat
          /\ commits[r] + Cardinality(Mine(r)) <= Sent(calls[r].pc, calls[r].attempt)
          /\ Sent(calls[r].pc, calls[r].attempt) \in {-1, 0}
      BY FS_CardinalityType DEF ForwardingInv, EffectInv, EffectTypes, EffectOK, Sent
    <3>2. commits[r] = 0 /\ Cardinality(Mine(r)) = 0
      BY <3>1
    <3>3. Mine(r) = {}
      BY <3>1, <3>2, FS_EmptySet
    <3> QED
      BY <3>2, <3>3 DEF Mine
  <2> QED
    BY <2>1, <2>2, <2>3 DEF EffectsFitAnswers
<1> QED
  BY ForwardingInvariant, <1>1, PTL

-----------------------------------------------------------------------------
(* Owned paths are forwarded.                                              *)

OwnedInv == CacheInv /\ calls \in Calls /\ \A r \in Request : WarmCall(r)

LEMMA WarmStep ==
  ASSUME OwnedInv, calls' \in Calls, [Next]_vars, NEW r \in Request
  PROVE  WarmCall(r)'
<1>1. ASSUME calls'[r].warm = calls[r].warm,
             calls'[r].answer = "notOwned" => calls[r].answer = "notOwned" \/ ~Owned(r)
      PROVE  WarmCall(r)'
  BY <1>1, RoutesStay DEF OwnedInv, WarmCall, Owned
<1> DEFINE Same == /\ calls'[r].warm = calls[r].warm
                   /\ calls'[r].answer = "notOwned" => calls[r].answer = "notOwned" \/ ~Owned(r)
<1>2. CASE UNCHANGED calls
  BY <1>1, <1>2
<1>3. ASSUME NEW q \in Request, RequestStep(q)
      PROVE  WarmCall(r)'
  <2>1. \/ \E pc \in Pcs : Goes(q, pc)
        \/ \E answer \in Answers : Ends(q, answer) /\ (answer = "notOwned" => ~Owned(q))
        \/ \E n \in 0..MaxAttempts : calls' = [calls EXCEPT ![q].pc = "calling", ![q].attempt = n]
        \/ Retry(q)
    <3>1. 1 \in 0..MaxAttempts
      BY RequestAssumption
    <3> QED
      BY <1>3, <3>1, Zenon DEF RequestStep, Route, EnterColdFetch, LeaveColdFetch, Match, Admit, Call, TimeOut,
         Pcs, Answers
  <2>2. CASE \E pc \in Pcs : Goes(q, pc)
    <3>1. PICK pc \in Pcs : Goes(q, pc)
      BY <2>2
    <3>2. Moved(q, pc, calls[q].attempt, calls[q].answer, calls[q].warm)
      BY <3>1, GoesMoves DEF OwnedInv
    <3>3. Same
      BY <3>2 DEF Moved
    <3> QED
      BY <1>1, <3>3
  <2>3. CASE \E answer \in Answers : Ends(q, answer) /\ (answer = "notOwned" => ~Owned(q))
    <3>1. PICK answer \in Answers : Ends(q, answer) /\ (answer = "notOwned" => ~Owned(q))
      BY <2>3
    <3>2. Moved(q, "idle", calls[q].attempt, answer, calls[q].warm)
      BY <3>1, EndsMoves DEF OwnedInv
    <3>3. Same
      BY <3>1, <3>2 DEF Moved
    <3> QED
      BY <1>1, <3>3
  <2>4. CASE \E n \in 0..MaxAttempts : calls' = [calls EXCEPT ![q].pc = "calling", ![q].attempt = n]
    <3>1. PICK n \in 0..MaxAttempts : calls' = [calls EXCEPT ![q].pc = "calling", ![q].attempt = n]
      BY <2>4
    <3>2. Moved(q, "calling", n, calls[q].answer, calls[q].warm)
      BY <3>1, TriesMoves DEF OwnedInv
    <3>3. Same
      BY <3>2 DEF Moved
    <3> QED
      BY <1>1, <3>3
  <2>5. CASE Retry(q)
    <3>1. Same
      BY <2>5, RetryMoves DEF OwnedInv, Moved
    <3> QED
      BY <1>1, <3>1
  <2> QED
    BY <2>1, <2>2, <2>3, <2>4, <2>5
<1>4. ASSUME NEW q \in Request, Arrive(q)
      PROVE  WarmCall(r)'
  <2>1. Moved(q, "routing", 0, "none", everPopulated)
    BY <1>4, ArriveMoves DEF OwnedInv, CacheInv
  <2>2. CASE q = r
    <3>1. calls'[r].warm = everPopulated /\ calls'[r].answer = "none"
      BY <2>1, <2>2 DEF Moved
    <3>2. UNCHANGED cache
      BY <1>4, Zenon DEF Arrive, discovery
    <3>3. everPopulated => cache.routes # NoVersion
      BY Zenon DEF OwnedInv, CacheInv, CacheOK
    <3> QED
      BY <3>1, <3>2, <3>3 DEF WarmCall
  <2>3. CASE q # r
    BY <1>1, <2>1, <2>3 DEF Moved
  <2> QED
    BY <2>2, <2>3
<1>5. ASSUME NEW c \in copies, Execute(c)
      PROVE  WarmCall(r)'
  <2>1. UNCHANGED calls \/ (c[1] \in Request /\ Ends(c[1], "engine")) \/ (c[1] \notin Request /\ Ends(c[1], "engine"))
    BY <1>5, Zenon DEF Execute
  <2>2. CASE c[1] \in Request /\ Ends(c[1], "engine")
    <3>1. Moved(c[1], "idle", calls[c[1]].attempt, "engine", calls[c[1]].warm)
      BY <2>2, EndsMoves DEF OwnedInv, Answers
    <3>2. Same
      BY <2>2, <3>1 DEF Moved
    <3> QED
      BY <1>1, <3>2
  <2>3. CASE c[1] \notin Request /\ Ends(c[1], "engine")
    <3>1. Same
      BY <2>3 DEF Ends, OwnedInv, Calls
    <3> QED
      BY <1>1, <3>1
  <2> QED
    BY <1>2, <2>1, <2>2, <2>3
<1>6. UNCHANGED calls \/ (\E q \in Request : Arrive(q) \/ RequestStep(q)) \/ (\E c \in copies : Execute(c))
  BY Zenon DEF Next, FetchStep, HandlerRefreshes, Wait, Expires, EngineChanges, vars
<1> QED
  BY <1>2, <1>3, <1>4, <1>5, <1>6

(***************************************************************************)
(* A warm plugin forwards the paths the engine owns, and its ETag is that  *)
(* of its routes.                                                          *)
(***************************************************************************)
THEOREM OwnedAreForwarded == Spec => []OwnedPathsAreForwarded
<1>1. Init => OwnedInv
  <2>1. Init => \A r \in Request : WarmCall(r)
    <3> SUFFICES ASSUME Init, NEW r \in Request
                 PROVE  WarmCall(r)
      OBVIOUS
    <3>1. calls[r].answer = "none" /\ calls[r].warm = FALSE
      BY DEF Init
    <3>2. "none" # "notOwned"
      OBVIOUS
    <3> QED
      BY <3>1, <3>2, Zenon DEF WarmCall
  <2> QED
    BY <2>1, CacheInit, EffectInit DEF Init, EffectInv, OwnedInv
<1>2. ForwardingInv' /\ OwnedInv /\ [Next]_vars => OwnedInv'
  BY WarmStep DEF ForwardingInv, EffectInv, OwnedInv
<1>3. OwnedInv => OwnedPathsAreForwarded
  BY RequestAssumption, Zenon DEF OwnedInv, WarmCall, CacheInv, CacheOK, OwnedPathsAreForwarded,
     Discovery!ETagDescribesRoutes, Discovery!WarmStaysWarm
<1> QED
  BY <1>1, <1>2, <1>3, ForwardingInvariant, PTL DEF Spec
=============================================================================
