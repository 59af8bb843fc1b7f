---------------------------- MODULE HealthMonitor ----------------------------
(***************************************************************************)
(* HealthMonitor.kt of the Specmatic plugin: Up, Degraded or Down, moved   *)
(* by the probe loop and by the notifications the ControlServer receives.  *)
(*                                                                         *)
(* A probe is on the wire without the state lock; its result is applied    *)
(* later, under the lock, whatever the handlers have done in between.  The *)
(* two counters are only compared with a threshold, at which they stop     *)
(* here.  Probe intervals and upSince decide when and not what: left out.  *)
(***************************************************************************)
EXTENDS Integers

VARIABLES
  reachable,   \* external: the engine answers GET /_engine/health
  health,
  failures,    \* consecutiveFailures, up to DownAfter
  successes,   \* consecutiveSuccesses, up to UpAfter
  probe,       \* the answer to the only probe, until it is applied
  overtaken    \* history: a shutdown arrived since the engine answered

vars == <<reachable, health, failures, successes, probe, overtaken>>

DownAfter == 3
UpAfter   == 2

HealthState == {"Up", "Degraded", "Down"}

AtMost(bound, n) == IF n < bound THEN n ELSE bound

TypeOK ==
  /\ reachable \in BOOLEAN
  /\ health \in HealthState
  /\ failures \in 0..DownAfter
  /\ successes \in 0..UpAfter
  /\ probe \in {"none", "ok", "failed"}
  /\ overtaken \in BOOLEAN

\* The monitor assumes that the engine is up.
Init ==
  /\ reachable \in BOOLEAN
  /\ health = "Up"
  /\ failures = 0
  /\ successes = 0
  /\ probe = "none"
  /\ overtaken = FALSE

\* doProbe: the call returns or times out; nothing is locked meanwhile.
AnswerProbe ==
  /\ probe = "none"
  /\ probe' = IF reachable THEN "ok" ELSE "failed"
  /\ UNCHANGED <<reachable, health, failures, successes, overtaken>>

\* Every success is counted as the first.
ProbeSucceededFirst ==
  /\ failures' = 0
  /\ successes' = 1
  /\ health' = IF health = "Down" /\ successes' < UpAfter THEN "Down" ELSE "Up"

ProbeSucceeded ==
  /\ failures' = 0
  /\ successes' = AtMost(UpAfter, successes + 1)
  /\ health' = IF health = "Down" /\ successes' < UpAfter THEN "Down" ELSE "Up"

ProbeFailed ==
  /\ successes' = 0
  /\ failures' = AtMost(DownAfter, failures + 1)
  /\ health' = CASE health = "Up"       -> "Degraded"
                 [] health = "Degraded" -> IF failures' >= DownAfter THEN "Down" ELSE "Degraded"
                 [] health = "Down"     -> "Down"

\* runProbe after the call returned: one critical section.
ApplyProbe ==
  /\ \/ probe = "ok" /\ ProbeSucceeded
     \/ probe = "failed" /\ ProbeFailed
  /\ probe' = "none"
  /\ overtaken' = FALSE
  /\ UNCHANGED reachable

\* A shutdown that only moves the state.
MarkDownStateOnly ==
  /\ health' = "Down"
  /\ overtaken' = (probe # "none")
  /\ UNCHANGED <<reachable, failures, successes, probe>>

\* markDownExternal, for POST /shutdown.
MarkDown ==
  /\ health' = "Down"
  /\ failures' = DownAfter
  /\ successes' = 0
  /\ overtaken' = (probe # "none")
  /\ UNCHANGED <<reachable, probe>>

\* markUpExternal, for POST /_potemkin/ready.
MarkUp ==
  /\ health' = "Up"
  /\ failures' = 0
  /\ successes' = UpAfter
  /\ UNCHANGED <<reachable, probe, overtaken>>

\* External: the engine comes and goes.
EngineFlips ==
  /\ reachable' = ~reachable
  /\ UNCHANGED <<health, failures, successes, probe, overtaken>>

Next == AnswerProbe \/ ApplyProbe \/ MarkDown \/ MarkUp \/ EngineFlips

Spec == Init /\ [][Next]_vars

\* The probe loop sleeps for a bounded time and its calls time out.
Fairness == WF_vars(AnswerProbe \/ ApplyProbe)

-----------------------------------------------------------------------------
(* Properties.                                                             *)

(***************************************************************************)
(* State and counters are never torn, although probe loop and handlers     *)
(* change them from different threads (HealthMonitor.kt:43): no failures   *)
(* are counted while Up, and Down still has a success to wait for.         *)
(***************************************************************************)
CountersFitState ==
  /\ health = "Up" => failures = 0
  /\ health = "Degraded" => failures \in 1..(DownAfter - 1) /\ successes = 0
  /\ health = "Down" => successes < UpAfter /\ (successes = 0 \/ failures = 0)

(***************************************************************************)
(* After a shutdown was announced, a probe that the engine had answered    *)
(* before never brings it back Up by itself.                               *)
(***************************************************************************)
StaleProbeRevivesNot ==
  health = "Down" /\ overtaken /\ probe' = "none" => health' = "Down"
=============================================================================
