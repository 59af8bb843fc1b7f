------------------------------- MODULE Expiry -------------------------------
(***************************************************************************)
(* What expires in a runtime: idempotency records and their fingerprints,  *)
(* sessions and dynamic faults.  All of them end by the base clock, which  *)
(* an administrator moves forward and back; a request reads them by a      *)
(* clock of its own (X-Potemkin-Clock-Offset), which must not end anything *)
(* for others.  Requests come one at a time (the barrier), administrators, *)
(* the sweep of the sessions and the clock at any moment.                  *)
(***************************************************************************)
EXTENDS Integers

CONSTANTS
  IdempotencyKey, Body, Session, Fault,
  Nothing,       \* no record, no fingerprint, no session, nobody's turn
  Offset,        \* the values of X-Potemkin-Clock-Offset
  Advance,       \* by how much an administrator moves the clock, signed
  RecordTtl, SessionTtl, FaultTtl,
  MaxWall,       \* bound on the time that passes
  MaxSkew        \* bound on what administrators add up to

ASSUME TimesAssumption ==
  /\ Offset \subseteq Int /\ Advance \subseteq Int
  /\ {RecordTtl, SessionTtl, FaultTtl} \subseteq Nat \ {0}
  /\ MaxWall \in Nat /\ MaxSkew \in Nat
ASSUME NothingAssumption == Nothing \notin Int \cup Body

VARIABLES
  wall, skew,    \* Date.now(), and what administrators added to it
  records,       \* the idempotency store: the body that was executed, its end
  fingerprints,  \* the bodies the keys were used with
  sessions,      \* when a session ends; Nothing: there is none
  loggedIn,      \* the sessions that were ever created: identifiers are fresh
  faults,        \* when a dynamic fault ends
  phase,         \* how far the request that holds the barrier is
  request,       \* what it carries
  answer,        \* what the last request was answered with: result and body
  \* History, which no action reads:
  promised,      \* the entries nobody removed: <<table, id, end>>
  foundExpired   \* keys that somebody has found expired, since they were used

clock == <<wall, skew>>
tables == <<records, fingerprints, sessions, loggedIn, faults>>
turn == <<phase, request, answer>>
history == <<promised, foundExpired>>
expiryVars == <<clock, tables, turn, history>>

Call == [key : IdempotencyKey, body : Body, session : Session, offset : Offset]
ASSUME RequestAssumption == Nothing \notin Call
NoRecord == [of |-> Nothing, end |-> Nothing]
Result == {"none", "denied", "faulted", "conflict", "replayed", "executed", "failed"}

ExpiryTypeOK ==
  /\ wall \in 0..MaxWall /\ skew \in -MaxSkew..MaxSkew
  /\ records \in [IdempotencyKey -> [of : Body, end : Int] \cup {NoRecord}]
  /\ fingerprints \in [IdempotencyKey -> Body \cup {Nothing}]
  /\ sessions \in [Session -> Int \cup {Nothing}] /\ loggedIn \subseteq Session
  /\ faults \in [Fault -> Int \cup {Nothing}]
  /\ phase \in {"free", "authenticated", "executing"}
  /\ request \in Call \cup {Nothing} /\ (request = Nothing <=> phase = "free")
  /\ answer \in [result : Result, of : Body \cup {Nothing}, to : Body \cup {Nothing}]

ExpiryInit ==
  /\ wall = 0 /\ skew = 0
  /\ records = [k \in IdempotencyKey |-> NoRecord]
  /\ fingerprints = [k \in IdempotencyKey |-> Nothing]
  /\ sessions = [s \in Session |-> Nothing] /\ loggedIn = {}
  /\ faults = [f \in Fault |-> Nothing]
  /\ phase = "free" /\ request = Nothing
  /\ answer = [result |-> "none", of |-> Nothing, to |-> Nothing]
  /\ promised = {} /\ foundExpired = {}

-----------------------------------------------------------------------------
\* The base clock, and that of the request.
NowMs == wall + skew
NowMsFor(call) == NowMs + call.offset

Lives(end, at) == end # Nothing /\ end > at

\* A record is found by a clock; the store forgets none that it finds expired.
Found(k, at) == Lives(records[k].end, at)
EvictFoundExpired(call) ==
  IF Found(call.key, NowMsFor(call)) THEN records ELSE [records EXCEPT ![call.key] = NoRecord]
RecordsAfterLookup(call) == records

\* The record of a fingerprint has expired for the request that compares it.
OutdatedAtBase(call) == fingerprints[call.key] # Nothing /\ ~Found(call.key, NowMs)
Outdated(call) == fingerprints[call.key] # Nothing /\ ~Found(call.key, NowMsFor(call))

Conflicts(call) ==
  /\ fingerprints[call.key] # Nothing
  /\ ~Outdated(call)
  /\ fingerprints[call.key] # call.body

FingerprintsAfterCheck(call) ==
  IF Outdated(call) THEN [fingerprints EXCEPT ![call.key] = Nothing] ELSE fingerprints

Leave(result, of, to) ==
  /\ phase' = "free" /\ request' = Nothing
  /\ answer' = [result |-> result, of |-> of, to |-> to]

-----------------------------------------------------------------------------
(* A request: authentication, faults, the idempotency key, its execution.  *)

\* It is its turn, and its session lives by its own clock, or not: then it
\* has no actor, and whatever it asks for is refused.
Authenticate(call) ==
  /\ phase = "free"
  /\ \/ /\ Lives(sessions[call.session], NowMsFor(call))
        /\ phase' = "authenticated" /\ request' = call
        /\ UNCHANGED answer
     \/ /\ ~Lives(sessions[call.session], NowMsFor(call))
        /\ Leave("denied", Nothing, Nothing)
  /\ UNCHANGED <<clock, tables, history>>

\* A dynamic fault that lives by this clock answers instead; it need not match.
AnswerFault ==
  /\ phase = "authenticated"
  /\ \E f \in Fault : Lives(faults[f], NowMsFor(request))
  /\ Leave("faulted", Nothing, Nothing)
  /\ UNCHANGED <<clock, tables, history>>

\* The request compares the fingerprint of its key and looks for its record.
LookUp ==
  /\ phase = "authenticated"
  /\ records' = RecordsAfterLookup(request)
  /\ fingerprints' = FingerprintsAfterCheck(request)
  /\ foundExpired' = foundExpired \cup
                       {k \in {request.key} : ~Lives(records[k].end, NowMs + request.offset)}
  /\ UNCHANGED <<clock, sessions, loggedIn, faults, promised>>

RefuseOtherBody ==
  /\ LookUp
  /\ Conflicts(request)
  /\ Leave("conflict", Nothing, Nothing)

Replay ==
  /\ LookUp
  /\ ~Conflicts(request) /\ Found(request.key, NowMsFor(request))
  /\ Leave("replayed", records[request.key].of, request.body)

BeginExecution ==
  /\ LookUp
  /\ ~Conflicts(request) /\ ~Found(request.key, NowMsFor(request))
  /\ phase' = "executing"
  /\ UNCHANGED <<request, answer>>

\* The command throws, or was a dry run: nothing is stored.
EndWithoutRecord ==
  /\ phase = "executing"
  /\ Leave("failed", Nothing, Nothing)
  /\ UNCHANGED <<clock, tables, history>>

\* A record lives from now on, by the base clock.
RecordEnd(call) == NowMs + RecordTtl

Entries(table, id) == {e \in promised : e[1] = table /\ e[2] = id}

StoreRecord ==
  /\ phase = "executing"
  /\ records' = [records EXCEPT ![request.key] = [of |-> request.body, end |-> RecordEnd(request)]]
  /\ fingerprints' = [fingerprints EXCEPT ![request.key] = request.body]
  /\ promised' = (promised \ Entries("record", request.key))
                   \cup {<<"record", request.key, NowMs + RecordTtl>>}
  /\ foundExpired' = foundExpired \ {request.key}
  /\ Leave("executed", request.body, request.body)
  /\ UNCHANGED <<clock, sessions, loggedIn, faults>>

-----------------------------------------------------------------------------
(* Sessions and faults.                                                    *)

\* POST on the login path, behind the barrier as any request.
Login(s) ==
  /\ phase = "free" /\ s \notin loggedIn
  /\ sessions' = [sessions EXCEPT ![s] = NowMs + SessionTtl]
  /\ loggedIn' = loggedIn \cup {s}
  /\ promised' = promised \cup {<<"session", s, NowMs + SessionTtl>>}
  /\ UNCHANGED <<clock, records, fingerprints, faults, turn, foundExpired>>

Logout(s) ==
  /\ phase = "free" /\ sessions[s] # Nothing
  /\ sessions' = [sessions EXCEPT ![s] = Nothing]
  /\ promised' = promised \ Entries("session", s)
  /\ UNCHANGED <<clock, records, fingerprints, loggedIn, faults, turn, foundExpired>>

Unexpired(table) == [x \in DOMAIN table |-> IF Lives(table[x], NowMs) THEN table[x] ELSE Nothing]

\* The timer that nobody's clock but the runtime's drives.
Sweep ==
  /\ sessions' = Unexpired(sessions)
  /\ sessions' # sessions
  /\ UNCHANGED <<clock, records, fingerprints, loggedIn, faults, turn, history>>

\* An administrator adds, removes or lists faults; adding and listing prune.
AddFault(f) ==
  /\ faults[f] = Nothing
  /\ faults' = [Unexpired(faults) EXCEPT ![f] = NowMs + FaultTtl]
  /\ promised' = promised \cup {<<"fault", f, NowMs + FaultTtl>>}
  /\ UNCHANGED <<clock, records, fingerprints, sessions, loggedIn, turn, foundExpired>>

RemoveFault(f) ==
  /\ faults[f] # Nothing
  /\ faults' = [faults EXCEPT ![f] = Nothing]
  /\ promised' = promised \ Entries("fault", f)
  /\ UNCHANGED <<clock, records, fingerprints, sessions, loggedIn, turn, foundExpired>>

ListFaults ==
  /\ faults' = Unexpired(faults)
  /\ faults' # faults
  /\ UNCHANGED <<clock, records, fingerprints, sessions, loggedIn, turn, history>>

-----------------------------------------------------------------------------
(* The clock and the reset.                                                *)

\* What the base clock has ended may be gone: nobody has a right to it.
EndedBy(time) == {e \in promised : e[1] # "record" /\ e[3] <= time}

MoveTo(newWall, newSkew) ==
  /\ wall' = newWall /\ skew' = newSkew
  /\ promised' = promised \ EndedBy(newWall + newSkew)
  /\ UNCHANGED <<tables, turn, foundExpired>>

Tick == wall < MaxWall /\ MoveTo(wall + 1, skew)

AdvanceClock(ms) == skew + ms \in -MaxSkew..MaxSkew /\ MoveTo(wall, skew + ms)

ResetClock == skew # 0 /\ MoveTo(wall, 0)

\* reset() clears all of it at once; a request may be executing.
Reset ==
  /\ records' = [k \in IdempotencyKey |-> NoRecord]
  /\ fingerprints' = [k \in IdempotencyKey |-> Nothing]
  /\ sessions' = [s \in Session |-> Nothing]
  /\ faults' = [f \in Fault |-> Nothing]
  /\ skew' = 0
  /\ promised' = {}
  /\ foundExpired' = {}
  /\ UNCHANGED <<wall, loggedIn, turn>>

-----------------------------------------------------------------------------
RequestStep ==
  \/ \E call \in Call : Authenticate(call)
  \/ AnswerFault \/ RefuseOtherBody \/ Replay \/ BeginExecution
  \/ EndWithoutRecord \/ StoreRecord

ExpiryNext ==
  \/ RequestStep
  \/ \E s \in Session : Login(s) \/ Logout(s)
  \/ \E f \in Fault : AddFault(f) \/ RemoveFault(f)
  \/ \E ms \in Advance : AdvanceClock(ms)
  \/ Sweep \/ ListFaults \/ Tick \/ ResetClock \/ Reset

ExpirySpec == ExpiryInit /\ [][ExpiryNext]_expiryVars

-----------------------------------------------------------------------------
(* Properties.                                                             *)

Stored ==
  {<<"record", k, records[k].end>> : k \in IdempotencyKey}
    \cup {<<"session", s, sessions[s]>> : s \in Session}
    \cup {<<"fault", f, faults[f]>> : f \in Fault}

(***************************************************************************)
(* A clock offset ends nothing for others (engine.ts:356, storage.ts:64):  *)
(* an entry is there for everybody until it is removed or the base clock   *)
(* has reached its end.  And a key executes again only for a request whose *)
(* own clock is past the end of the record of its last execution, which    *)
(* counts from the base clock at its end (docs/dsl.md:608).                *)
(***************************************************************************)
LifetimesAreShared ==
  [][/\ ExpiryTypeOK' /\ promised' \subseteq Stored'
     /\ phase = "authenticated" /\ phase' = "executing" =>
          \A e \in Entries("record", request.key) : e[3] <= NowMsFor(request)]_expiryVars

(***************************************************************************)
(* With hashIncludesBody a key answers only for the body it was executed   *)
(* with (engine.ts:3252), across expiries, resets and clocks; unless       *)
(* somebody has found it expired while the record was there for others.    *)
(***************************************************************************)
ReplaysFitBodies ==
  [][phase = "authenticated" /\ phase' = "free" /\ answer'.result = "replayed"
       => answer'.of = answer'.to \/ request.key \in foundExpired]_expiryVars
=============================================================================
