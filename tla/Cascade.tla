------------------------------ MODULE Cascade ------------------------------
(***************************************************************************)
(* One unit of work from the inside: RuntimeEngine.runCommands and         *)
(* enqueueReactions of engine.ts.  A queue of commands is worked off;      *)
(* each event a command emits is projected into a private copy of the      *)
(* state and answered by reactions, depth first, whose events are answered *)
(* in their turn; then the command's own dispatches join the queue.  Two   *)
(* mechanisms end the cascade: a cap on the depth of dispatches, and for   *)
(* reactions a set of fired keys and a budget.  Anything that throws       *)
(* abandons the unit as a whole (RuntimeEngine has what happens outside).  *)
(*                                                                         *)
(* Boundaries are numbered in the order of their names.  A state is the    *)
(* set of the event types projected into it, and an expression a condition *)
(* on it.  Aggregates that a command or a reaction generates are numbers.  *)
(***************************************************************************)
EXTENDS Integers, Sequences, FiniteSets, SequencesExt

CONSTANTS
  Boundary,          \* numbers, in the order of the names
  AnyBoundary,       \* of a subscription to a bare event type
  Type,              \* of events
  GenericUpdate,     \* System.GenericUpdateEvent
  Aggregate,         \* that requests and expressions name
  Generated,         \* target: a new aggregate
  Same,              \* target: the aggregate of the command or event at hand
  Operation,
  Programs,          \* definitions, with the first command and its controls
  MaxReactionEvents, \* MAX_REACTION_EVENTS
  None

Intent == {"creation", "mutation"}
Condition == [has : SUBSET Type, lacks : SUBSET Type]
Always == [has |-> {}, lacks |-> {}]
Target == Aggregate \cup {Generated, Same}

Rule == [on : [boundary : Boundary \cup {AnyBoundary}, type : Type], when : Condition,
         boundary : Boundary, emit : Type, target : Target, intent : Intent]

Behavior ==
  [boundary : Boundary, intent : Intent,
   when  : Condition,                                          \* condition
   guard : Condition,                                          \* requires
   emits : Seq([type : Type, when : Condition]),               \* emit, emitWhen
   dispatches : Seq([op : Operation, target : Target, when : Condition]),
   post  : Condition,                                          \* postcondition
   fallback : BOOLEAN]                                         \* the boundary's fallbackOverride

\* A command names its aggregate or has one generated.
Command == [op : Operation, target : Aggregate \cup {Generated}, depth : Nat]

ASSUME BoundaryAssumption == Boundary \subseteq Nat /\ AnyBoundary \notin Boundary
ASSUME TargetAssumption   == Generated # Same /\ Generated \notin Aggregate \cup Nat /\ Same \notin Aggregate \cup Nat
ASSUME AggregateAssumption == Aggregate \cap Nat = {}   \* a uuid is no name
ASSUME TypeAssumption     == GenericUpdate \in Type
ASSUME OperationAssumption == IsFiniteSet(Operation)
ASSUME BudgetAssumption   == MaxReactionEvents \in Nat
ASSUME NoneAssumption     == None \notin Rule

ASSUME ProgramsAssumption ==
  \A p \in Programs :
    /\ p.operations \in [Operation -> Behavior]
    /\ p.global \in Seq(Rule)                    \* policies.reactions
    /\ p.own \in [Boundary -> Seq(Rule)]         \* reactions of a boundary
    /\ p.states \in UNION {[S -> SUBSET Type] : S \in SUBSET Aggregate}
    /\ p.first \in Command /\ p.first.depth = 0
    /\ p.maxDepth \in Nat                        \* MAX_DEPTH or maxCascadeDepth
    /\ p.skipReactions \in BOOLEAN /\ p.skipDispatch \in BOOLEAN
    /\ p.invalid \subseteq Type                  \* events that fail validation

VARIABLES
  program,
  queue,          \* commands to run
  current,        \* the command that is run, with the state it found; empty between commands
  toEmit,         \* types it has yet to emit
  frames,         \* calls of enqueueReactions: the event and the reactions left
  states,         \* tx.states
  events,         \* tx.events, each with its trigger, rule and command (history)
  reactionKeys,   \* tx.reactionKeys
  reactionEvents, \* tx.reactionEvents
  response,       \* firstResponse; empty until there is one
  outcome,        \* of the unit: running, done, or why it was abandoned
  commands        \* commands taken from the queue (history)

tx == <<states, events, reactionKeys, reactionEvents>>
vars == <<program, queue, current, toEmit, frames, tx, response, outcome, commands>>

Event == [type : Type, boundary : Boundary, aggregate : Aggregate \cup Nat, depth : Nat,
          by : Nat, rule : Rule \cup {None}, of : Nat]

TypeOK ==
  /\ program \in Programs
  /\ queue \in Seq(Command)
  /\ current \in Seq([command : Command, found : SUBSET Type, fallback : BOOLEAN, emits : Nat]) /\ Len(current) <= 1
  /\ toEmit \in Seq(Type)
  /\ frames \in Seq([event : Nat, rules : Seq(Rule)])
  /\ DOMAIN states \subseteq Aggregate \cup Nat
  /\ \A a \in DOMAIN states : states[a] \subseteq Type
  /\ events \in Seq(Event)
  /\ reactionKeys \subseteq [boundary : Boundary, on : [boundary : Boundary \cup {AnyBoundary}, type : Type],
                             emit : Type, target : Aggregate \cup Nat]
  /\ reactionEvents \in 0..MaxReactionEvents
  /\ response \in Seq([body : SUBSET Type, events : Seq(Event)]) /\ Len(response) <= 1
  /\ outcome \in {"running", "done", "depth", "absence", "conflict", "unmatched", "guard",
                  "budget", "target", "invalid", "postcondition"}
  /\ commands \in Nat

Init ==
  /\ program \in Programs
  /\ queue = <<program.first>>
  /\ current = <<>>
  /\ toEmit = <<>> /\ frames = <<>>
  /\ states = program.states
  /\ events = <<>>
  /\ reactionKeys = {} /\ reactionEvents = 0
  /\ response = <<>>
  /\ outcome = "running"
  /\ commands = 0

-----------------------------------------------------------------------------
(* Expressions and projections.                                            *)

Holds(condition, s) == condition.has \subseteq s /\ condition.lacks \cap s = {}

Present(a) == a \in DOMAIN states

\* A state that is absent satisfies what asks for nothing.
Known(a) == IF Present(a) THEN states[a] ELSE {}

\* uuid: no event has been recorded for this aggregate.
Fresh == Len(events) + 1

Resolve(target, same) == CASE target = Same -> same [] target = Generated -> Fresh [] OTHER -> target

\* applyEvent.
Project(e) == [a \in DOMAIN states \cup {e.aggregate} |->
                 IF a = e.aggregate THEN Known(a) \cup {e.type} ELSE states[a]]

Matches(rule, e) == rule.on.type = e.type /\ rule.on.boundary \in {AnyBoundary, e.boundary}

\* Reactions of the policies, then those of the boundary of the event.
Listed(e) == program.global \o program.own[e.boundary]

\* The elements of s at the indices I by their rank, those of equal rank as they
\* come: each has as many before it as its place says.
Sorted(s, I, rank) ==
  LET Before(i) == {j \in I : rank[j] < rank[i] \/ (rank[j] = rank[i] /\ j < i)}
  IN [k \in 1..Cardinality(I) |-> s[CHOOSE i \in I : Cardinality(Before(i)) = k - 1]]

Filtered(s, I) == Sorted(s, I, [i \in I |-> 0])

MatchingAt(e) == {i \in DOMAIN Listed(e) : Matches(Listed(e)[i], e)}

\* In the order in which they are listed.
MatchingAsListed(e) == Filtered(Listed(e), MatchingAt(e))

\* The sort by reacting boundary is stable.
Matching(e) == Sorted(Listed(e), MatchingAt(e), [i \in MatchingAt(e) |-> Listed(e)[i].boundary])

Key(rule, target) == [boundary |-> rule.boundary, on |-> rule.on, emit |-> rule.emit, target |-> target]

Abandon(why) ==
  /\ outcome' = why
  /\ UNCHANGED <<program, queue, current, toEmit, frames, tx, response, commands>>

\* Only the events of commands are reacted to.
StageOnce(e, calls) ==
  /\ events' = Append(events, e)
  /\ states' = Project(e)
  /\ frames' = IF program.skipReactions \/ calls # <<>> THEN calls
               ELSE <<[event |-> Len(events) + 1, rules |-> Matching(e)]>>

\* createEvent, applyEvent and the call of enqueueReactions.
Stage(e, calls) ==
  /\ events' = Append(events, e)
  /\ states' = Project(e)
  /\ frames' = IF program.skipReactions THEN calls
               ELSE <<[event |-> Len(events) + 1, rules |-> Matching(e)]>> \o calls

-----------------------------------------------------------------------------
(* Commands.                                                               *)

BehaviorOf(c) == program.operations[c.op]

\* findBehavior: a behavior none of whose events would be emitted matches
\* only if a guard of it fails.
Selects(b, s) ==
  /\ Holds(b.when, s)
  /\ b.emits = <<>> \/ (\E i \in DOMAIN b.emits : Holds(b.emits[i].when, s)) \/ ~Holds(b.guard, s)

\* What becomes of the command at the head of the queue; the first reason counts.
Verdict(c) ==
  LET b == BehaviorOf(c)
      s == Known(c.target)
  IN IF c.depth > program.maxDepth THEN "depth"
     ELSE IF c.target # Generated /\ b.intent = "mutation" /\ ~Present(c.target) THEN "absence"
     ELSE IF c.target # Generated /\ b.intent = "creation" /\ Present(c.target) THEN "conflict"
     ELSE IF ~Selects(b, s) THEN IF b.fallback THEN "fallback" ELSE "unmatched"
     ELSE IF ~Holds(b.guard, s) THEN "guard"
     ELSE "run"

\* eventsForBehavior: every condition is evaluated before the first event.
EmittedBy(b, s) ==
  LET chosen == Filtered(b.emits, {i \in DOMAIN b.emits : Holds(b.emits[i].when, s)})
  IN [i \in DOMAIN chosen |-> chosen[i].type]

Begin(c, types, fallback) ==
  /\ current' = <<[command |-> c, found |-> Known(c.target), fallback |-> fallback, emits |-> Len(types)]>>
  /\ toEmit' = types
  /\ queue' = Tail(queue)
  /\ commands' = commands + 1
  /\ UNCHANGED <<program, frames, tx, response, outcome>>

Dequeue ==
  /\ outcome = "running" /\ current = <<>> /\ queue # <<>>
  /\ LET c == Head(queue)
         verdict == Verdict(c)
     IN CASE verdict = "run" -> Begin(c, EmittedBy(BehaviorOf(c), Known(c.target)), FALSE)
          [] verdict = "fallback" -> Begin(c, <<GenericUpdate>>, TRUE)
          [] OTHER -> Abandon(verdict)

Emit ==
  /\ outcome = "running" /\ current # <<>> /\ frames = <<>> /\ toEmit # <<>>
  /\ LET c == current[1].command
     IN IF Head(toEmit) \in program.invalid
        THEN Abandon("invalid")
        ELSE /\ Stage([type |-> Head(toEmit), boundary |-> BehaviorOf(c).boundary,
                       aggregate |-> Resolve(c.target, c.target), depth |-> c.depth,
                       by |-> 0, rule |-> None, of |-> commands], <<>>)
             /\ toEmit' = Tail(toEmit)
             /\ UNCHANGED <<program, queue, current, reactionKeys, reactionEvents, response, outcome, commands>>

-----------------------------------------------------------------------------
(* Reactions.                                                              *)

Trigger == events[frames[1].event]
Next1   == frames[1].rules[1]

InReaction == outcome = "running" /\ frames # <<>> /\ frames[1].rules # <<>>

\* The calls once the reaction at hand has been dealt with.
Rest == <<[frames[1] EXCEPT !.rules = Tail(@)]>> \o Tail(frames)

ReactionTarget == Resolve(Next1.target, Trigger.aggregate)

BudgetSpent == reactionEvents >= MaxReactionEvents

\* Why a reaction that is due abandons the unit, or none; the first reason counts.
Refusal ==
  IF BudgetSpent THEN "budget"
  ELSE IF ~Holds(Next1.when, Known(Trigger.aggregate)) THEN "no"
  ELSE IF Next1.target = Generated /\ Next1.intent = "mutation" THEN "target"
  ELSE IF Next1.intent = "mutation" /\ ~Present(ReactionTarget) THEN "absence"
  ELSE IF Next1.intent = "creation" /\ Present(ReactionTarget) THEN "conflict"
  ELSE IF Key(Next1, ReactionTarget) \notin reactionKeys /\ Next1.emit \in program.invalid THEN "invalid"
  ELSE "no"

Due == Holds(Next1.when, Known(Trigger.aggregate)) /\ Key(Next1, ReactionTarget) \notin reactionKeys

RefuseReaction == InReaction /\ Refusal # "no" /\ Abandon(Refusal)

SkipReaction ==
  /\ InReaction /\ Refusal = "no" /\ ~Due
  /\ frames' = Rest
  /\ UNCHANGED <<program, queue, current, toEmit, tx, response, outcome, commands>>

\* The key of the reaction is not remembered.
RememberNothing == reactionKeys' = reactionKeys /\ reactionEvents' = reactionEvents + 1

Remember ==
  /\ reactionKeys' = reactionKeys \cup {Key(Next1, ReactionTarget)}
  /\ reactionEvents' = reactionEvents + 1

Fire ==
  /\ InReaction /\ Refusal = "no" /\ Due
  /\ Remember
  /\ Stage([type |-> Next1.emit, boundary |-> Next1.boundary, aggregate |-> ReactionTarget,
            depth |-> Trigger.depth, by |-> frames[1].event, rule |-> Next1, of |-> commands], Rest)
  /\ UNCHANGED <<program, queue, current, toEmit, response, outcome, commands>>

ReactionsEnd ==
  /\ outcome = "running" /\ frames # <<>> /\ frames[1].rules = <<>>
  /\ frames' = Tail(frames)
  /\ UNCHANGED <<program, queue, current, toEmit, tx, response, outcome, commands>>

-----------------------------------------------------------------------------
(* Dispatches and the response.                                            *)

\* A dispatched command counts as deep as the one that dispatches it.
DispatchedLevel(c, d) == [op |-> d.op, target |-> IF d.target = Same THEN c.target ELSE d.target, depth |-> c.depth]

Dispatched(c, d) ==
  [op |-> d.op, target |-> IF d.target = Same THEN c.target ELSE d.target, depth |-> c.depth + 1]

\* Conditions and targets see the state that the command found.
Dispatches ==
  LET listed == BehaviorOf(current[1].command).dispatches
      chosen == Filtered(listed, {i \in DOMAIN listed : Holds(listed[i].when, current[1].found)})
  IN IF program.skipDispatch \/ current[1].fallback THEN <<>>
     ELSE [i \in DOMAIN chosen |-> Dispatched(current[1].command, chosen[i])]

Enqueue(commandSeq) == queue' = queue \o commandSeq

\* applyResponse is given as many of the last events as the command emitted;
\* the fallback answers without it.
ResponseOf(c) ==
  [body |-> IF c.target # Generated THEN Known(c.target)
            ELSE IF current[1].fallback THEN Known(Last(SelectSeq(events, LAMBDA e : e.rule = None)).aggregate)
            ELSE IF current[1].emits = 0 THEN {} ELSE {Last(events).type},
   events |-> IF current[1].fallback THEN <<>>
              ELSE SubSeq(events, Len(events) - current[1].emits + 1, Len(events))]

\* The response of the last command.
KeepLast(r) == response' = <<r>>

KeepFirst(r) == response' = IF response = <<>> THEN <<r>> ELSE response

Respond ==
  /\ outcome = "running" /\ current # <<>> /\ frames = <<>> /\ toEmit = <<>>
  /\ IF ~current[1].fallback /\ ~Holds(BehaviorOf(current[1].command).post, Known(current[1].command.target))
     THEN Abandon("postcondition")
     ELSE /\ Enqueue(Dispatches)
          /\ KeepFirst(ResponseOf(current[1].command))
          /\ current' = <<>>
          /\ UNCHANGED <<program, toEmit, frames, tx, outcome, commands>>

Finish ==
  /\ outcome = "running" /\ current = <<>> /\ queue = <<>>
  /\ outcome' = "done"
  /\ UNCHANGED <<program, queue, current, toEmit, frames, tx, response, commands>>

\* Nothing of a unit waits for anyone: it stops when it has an outcome.
Stopped == outcome # "running" /\ UNCHANGED vars

Next ==
  \/ Dequeue \/ Emit
  \/ RefuseReaction \/ SkipReaction \/ Fire \/ ReactionsEnd
  \/ Respond \/ Finish \/ Stopped

Spec == Init /\ [][Next]_vars

-----------------------------------------------------------------------------
(* Properties.                                                             *)

Reactions == {i \in DOMAIN events : events[i].by # 0}
KeyOf(i) == Key(events[i].rule, events[i].aggregate)

(***************************************************************************)
(* A reaction fires at most once for an aggregate, however its triggers    *)
(* reach it: what ends cycles of reactions (docs/dsl.md:1887).             *)
(***************************************************************************)
OncePerTarget == \A i, j \in Reactions : KeyOf(i) = KeyOf(j) => i = j

\* The number of commands a cascade of this depth can run.
Largest(S) == CHOOSE x \in S \cup {0} : \A y \in S \cup {0} : y <= x
FanOut == Largest({Len(program.operations[o].dispatches) : o \in Operation})
Emits  == Largest({Len(program.operations[o].emits) : o \in Operation} \cup {1})
RunnableTo[depth \in Nat] == IF depth = 0 THEN 1 ELSE 1 + FanOut * RunnableTo[depth - 1]

\* The budget counts the events of reactions, and no others.
WithinBudget == Cardinality(Reactions) = reactionEvents /\ reactionEvents <= MaxReactionEvents

(***************************************************************************)
(* Whatever the definitions ask for, cycles included, the work of a unit   *)
(* is bounded by the depth of dispatches, and by the budget for reactions. *)
(***************************************************************************)
WorkIsBounded ==
  /\ TypeOK
  /\ commands <= RunnableTo[program.maxDepth]
  /\ Len(events) - Cardinality(Reactions) <= Emits * RunnableTo[program.maxDepth]
  /\ WithinBudget

(***************************************************************************)
(* In a finished unit nothing is left to react to: each event has had the  *)
(* unconditional reactions to it, also the events of reactions; or others  *)
(* with an equal key, as the code takes reactions with equal keys for one. *)
(***************************************************************************)
FanOutIsComplete ==
  outcome = "done" /\ ~program.skipReactions =>
    \A i \in DOMAIN events : \A rule \in Range(Listed(events[i])) :
      Matches(rule, events[i]) /\ rule.when = Always =>
        \E j \in Reactions :
          IF rule.target = Generated
          THEN events[j].by = i /\ events[j].rule = rule
          ELSE KeyOf(j) = Key(rule, IF rule.target = Same THEN events[i].aggregate ELSE rule.target)

(***************************************************************************)
(* The order of events is that of the definitions, so that a replay takes  *)
(* the same way (docs/dsl.md:1894): between an event and a reaction to it  *)
(* there are only events that it caused, directly or through reactions,    *)
(* and the reactions to it come in the order of the boundary names; and    *)
(* dispatched commands run level by level, so that no command sees the     *)
(* events of a deeper one.                                                 *)
(***************************************************************************)
StableOrder ==
  /\ \A j \in Reactions :
       LET i == events[j].by IN
       /\ i \in 1..(j - 1)
       /\ \A k \in (i + 1)..(j - 1) :
            /\ events[k].by >= i
            /\ events[k].by = i => events[k].rule.boundary <= events[j].rule.boundary
  /\ \A i, j \in DOMAIN events : i < j => events[i].depth <= events[j].depth

\* The state that the first command and the reactions to it leave.
OwnState(target) ==
  (IF target \in DOMAIN program.states THEN program.states[target] ELSE {})
    \cup {events[i].type : i \in {i \in DOMAIN events : events[i].of = 1 /\ events[i].aggregate = target}}

(***************************************************************************)
(* The caller is answered with the state its own command left, reactions   *)
(* to its events included, and nothing of the commands dispatched since.   *)
(***************************************************************************)
AnswerIsOwn ==
  response # <<>> /\ program.first.target # Generated => response[1].body = OwnState(program.first.target)
=============================================================================
