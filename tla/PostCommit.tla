----------------------------- MODULE PostCommit -----------------------------
(***************************************************************************)
(* What a commit causes outside the stores (RuntimeEngine.runPostCommit):  *)
(* the hook, derived projections and webhooks of its events, in this order *)
(* and awaited.  Sagas come after it (module Saga), and the commands of    *)
(* their steps have post-commit work of their own.                         *)
(*                                                                         *)
(* One derived projection, which is the sequence of the events it was      *)
(* reduced from, and one webhook.                                          *)
(***************************************************************************)
EXTENDS Naturals, Sequences, SequencesExt

CONSTANTS
  Event,
  Announced,     \* the events that trigger the webhook
  MaxAttempts    \* of its delivery

VARIABLES
  log,           \* the committed events, without those sagas append themselves
  stage,         \* how far the post-commit work is
  fresh,         \* the events of the commit it belongs to
  outbox,        \* those whose webhook is still to be delivered
  attempts,      \* deliveries of a webhook that failed
  rows,          \* events a derived projection was reduced from
  delivered,     \* events whose webhook was delivered
  \* History, which no action reads:
  unprojected,   \* events whose projection was skipped or thrown away
  unannounced    \* events whose webhook was skipped or never tried

Stages == {"none", "hook", "project", "deliver"}

OutsideTypeOK ==
  /\ {log, fresh, outbox, rows, delivered} \subseteq Seq(Event)
  /\ stage \in Stages
  /\ attempts \in [Event -> 0..MaxAttempts]
  /\ {unprojected, unannounced} \subseteq SUBSET Event

\* Events were committed, and nothing else has happened yet.
InitOutside(events) ==
  /\ log = events /\ fresh = events /\ stage = "hook"
  /\ outbox = <<>> /\ attempts = [e \in Event |-> 0]
  /\ rows = <<>> /\ delivered = <<>>
  /\ unprojected = {} /\ unannounced = {}

\* Another unit of work is committed.
CommitEvents(events) ==
  /\ stage = "none"
  /\ log' = log \o events /\ fresh' = events /\ stage' = "hook"
  /\ UNCHANGED <<outbox, attempts, rows, delivered, unprojected, unannounced>>

\* The postCommit hook returns.
HookReturns ==
  /\ stage = "hook"
  /\ stage' = "project"
  /\ UNCHANGED <<log, fresh, outbox, attempts, rows, delivered, unprojected, unannounced>>

\* The events that a loop does not pass over, in their order.
Among(s, S) ==
  LET taken[n \in 0..Len(s)] ==
        IF n = 0 THEN <<>>
        ELSE IF s[n] \in S THEN Append(taken[n - 1], s[n]) ELSE taken[n - 1]
  IN taken[Len(s)]

\* Every event in turn; a reducer or a hook that throws leaves out its own.
Reduce(failing) == Among(fresh, Event \ failing)

\* The header of the request skips some of it.
Project(failing, skipped) ==
  LET lost == IF "projections" \in skipped THEN Range(fresh) ELSE failing
  IN /\ stage = "project"
     /\ rows' = rows \o Reduce(lost)
     /\ unprojected' = unprojected \cup lost
     /\ outbox' = IF "webhooks" \in skipped THEN <<>> ELSE Among(fresh, Announced)
     /\ unannounced' = unannounced \cup (IF "webhooks" \in skipped THEN Range(fresh) ELSE {})
     /\ stage' = "deliver"
     /\ UNCHANGED <<log, fresh, attempts, delivered>>

Deliver ==
  /\ stage = "deliver" /\ outbox # <<>>
  /\ delivered' = Append(delivered, Head(outbox))
  /\ outbox' = Tail(outbox)
  /\ UNCHANGED <<log, stage, fresh, attempts, rows, unprojected, unannounced>>

\* One attempt too few.
GivesUpEarly(n) == n + 1 >= MaxAttempts

GivesUp(n) == n >= MaxAttempts

\* The endpoint refuses, or the attempt runs into its timeout.
DeliveryFails ==
  /\ stage = "deliver" /\ outbox # <<>>
  /\ attempts' = [attempts EXCEPT ![Head(outbox)] = @ + 1]
  /\ outbox' = IF GivesUp(attempts'[Head(outbox)]) THEN Tail(outbox) ELSE outbox
  /\ UNCHANGED <<log, stage, fresh, rows, delivered, unprojected, unannounced>>

AllDelivered == stage = "deliver" /\ outbox = <<>>

\* Everything was delivered or given up: runPostCommit goes on to the sagas.
EndPostCommit ==
  /\ AllDelivered
  /\ stage' = "none"
  /\ UNCHANGED <<log, fresh, outbox, attempts, rows, delivered, unprojected, unannounced>>

\* The hook throws, or the trigger, the url or the payload of a webhook: what
\* was to follow does not.
PostCommitThrows(skipped) ==
  /\ \/ stage = "hook"
     \/ /\ stage = "deliver" /\ "webhooks" \notin skipped
        /\ outbox # <<>> => attempts[Head(outbox)] = 0
  /\ stage' = "none"
  /\ outbox' = <<>>
  /\ unprojected' = unprojected \cup (IF stage = "hook" THEN Range(fresh) ELSE {})
  /\ unannounced' = unannounced \cup (IF stage = "hook" THEN Range(fresh) ELSE Range(outbox))
  /\ UNCHANGED <<log, fresh, attempts, rows, delivered>>

-----------------------------------------------------------------------------
(* Properties.                                                             *)

\* What is committed and not yet projected, and not yet announced.
Unprojected == unprojected \cup (IF stage \in {"hook", "project"} THEN Range(fresh) ELSE {})
Unannounced == unannounced \cup (IF stage \in {"hook", "project"} THEN Range(fresh) ELSE Range(outbox))

(***************************************************************************)
(* What the outside has seen follows the log: the projection has every     *)
(* committed event once and in the order of the log, so that initialize()  *)
(* or a reload would build the same (engine.ts:1049, 872), and webhooks    *)
(* are delivered once and in this order, unless the endpoint refused as    *)
(* often as the retry policy allows.  Skipped and thrown away is only what *)
(* the header skips or an expression throws at.                            *)
(***************************************************************************)
OutsideFollowsLog ==
  /\ OutsideTypeOK
  /\ rows = Among(log, Event \ Unprojected)
  /\ delivered = Among(log, {e \in Announced : e \notin Unannounced /\ attempts[e] < MaxAttempts})
=============================================================================
