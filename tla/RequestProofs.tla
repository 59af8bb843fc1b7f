---------------------------- MODULE RequestProofs ----------------------------
(***************************************************************************)
(* Proofs about a request: about the unit of work it causes (Cascade), for *)
(* any definitions, and about what it finds that may have expired (Expiry).*)
(*                                                                         *)
(* What ends cycles of reactions is that the fired keys are those of the   *)
(* events of the unit, so that no reaction fires twice for an aggregate,   *)
(* and that their number is that of the budget.  What the caller is told   *)
(* is what the first command left, since nothing of a dispatched command   *)
(* happens before it.  Nothing is left to react to, since each reaction    *)
(* that is owed for an event has fired or stands in a call to come; and    *)
(* the events keep the order of the definitions, since the calls are       *)
(* nested and the queue holds no more than two levels.  The work is        *)
(* bounded, since what has run and what the queue may still come to are    *)
(* together no more than the first command could come to.  An entry that   *)
(* expires is promised to everybody until the base clock has reached its   *)
(* end, whoever looks at it before.                                        *)
(***************************************************************************)
EXTENDS Cascade, Expiry, TLAPS, FiniteSetTheorems, SequenceTheorems

\* The events are a sequence, of whatever there is.
EventsOK == \E S : events \in Seq(S)

\* A reaction that has fired is remembered.
Remembered == \A i \in Reactions : KeyOf(i) \in reactionKeys

OnceInv == EventsOK /\ Remembered /\ OncePerTarget

\* One more event.
LEMMA AppendOne ==
  ASSUME EventsOK, NEW e, events' = Append(events, e)
  PROVE  /\ EventsOK'
         /\ Len(events) + 1 \notin DOMAIN events
         /\ DOMAIN events' = DOMAIN events \cup {Len(events) + 1}
         /\ events'[Len(events) + 1] = e
         /\ \A i \in DOMAIN events : events'[i] = events[i]
<1>1. PICK S : events \in Seq(S)
  BY DEF EventsOK
<1> DEFINE T == S \cup {e}
<1>2. events \in Seq(T) /\ e \in T
  <2>1. /\ events \in [1..Len(events) -> T]
        /\ Len(events) \in Nat
    BY <1>1
  <2> QED
    BY <1>1, <2>1
<1> HIDE DEF T
<1>3. /\ events' \in Seq(T)
      /\ Len(events') = Len(events) + 1 /\ Len(events) \in Nat
      /\ DOMAIN events = 1..Len(events) /\ DOMAIN events' = 1..Len(events')
  BY <1>2
<1>4. /\ \A i \in 1..Len(events) : events'[i] = events[i]
      /\ events'[Len(events) + 1] = e
  BY <1>2
<1>5. 1..(Len(events) + 1) = (1..Len(events)) \cup {Len(events) + 1}
  BY <1>3
<1> QED
  BY <1>3, <1>4, <1>5 DEF EventsOK

\* The event of a command, which no event triggers.
LEMMA EmitStep ==
  ASSUME OnceInv, Emit
  PROVE  OnceInv'
<1>1. CASE UNCHANGED <<events, reactionKeys>>
  BY <1>1 DEF OnceInv, EventsOK, Remembered, OncePerTarget, Reactions, KeyOf
<1>2. ASSUME NEW e, e.by = 0, events' = Append(events, e), UNCHANGED reactionKeys
      PROVE  OnceInv'
  <2>1. Reactions' = Reactions /\ \A i \in Reactions : KeyOf(i)' = KeyOf(i)
    BY <1>2, AppendOne DEF OnceInv, Reactions, KeyOf, Key
  <2> QED
    BY <1>2, <2>1, AppendOne DEF OnceInv, Remembered, OncePerTarget
<1>3. \/ UNCHANGED <<events, reactionKeys>>
      \/ \E e : e.by = 0 /\ events' = Append(events, e) /\ UNCHANGED reactionKeys
  BY DEF Emit, Abandon, Stage, tx
<1> QED
  BY <1>1, <1>2, <1>3

\* A reaction fires when its key is not remembered, and is remembered.
LEMMA FireStep ==
  ASSUME OnceInv, Fire
  PROVE  OnceInv'
<1> DEFINE key == Key(Next1, ReactionTarget)
           e == [type |-> Next1.emit, boundary |-> Next1.boundary, aggregate |-> ReactionTarget,
                 depth |-> Trigger.depth, by |-> frames[1].event, rule |-> Next1, of |-> commands]
<1>0. PICK n : n = Len(events) + 1
  OBVIOUS
<1>1. /\ key \notin reactionKeys
      /\ reactionKeys' = reactionKeys \cup {key}
      /\ events' = Append(events, e)
  BY Zenon DEF Fire, Due, Remember, Stage
<1>2. e.rule = Next1 /\ e.aggregate = ReactionTarget
  OBVIOUS
<1> HIDE DEF e
<1>3. /\ EventsOK' /\ n \notin DOMAIN events
      /\ DOMAIN events' = DOMAIN events \cup {n} /\ events'[n] = e
      /\ \A i \in DOMAIN events : events'[i] = events[i]
  BY <1>0, <1>1, AppendOne DEF OnceInv
<1>4. /\ Reactions' \subseteq Reactions \cup {n} /\ n \notin Reactions
      /\ \A i \in Reactions : KeyOf(i)' = KeyOf(i)
  BY <1>3 DEF Reactions, KeyOf, Key
<1>5. KeyOf(n)' = Key(e.rule, e.aggregate)
  BY <1>3 DEF KeyOf, Key
<1>6. KeyOf(n)' = key
  BY <1>2, <1>5
<1> HIDE DEF key
<1> QED
  BY <1>1, <1>3, <1>4, <1>6 DEF OnceInv, Remembered, OncePerTarget

(***************************************************************************)
(* A reaction fires at most once for an aggregate, in any program.         *)
(***************************************************************************)
THEOREM ReactionsFireOnce == Spec => []OncePerTarget
<1>1. Init => OnceInv
  <2> SUFFICES ASSUME Init
               PROVE  OnceInv
    OBVIOUS
  <2>1. events = <<>>
    BY DEF Init
  <2>2. EventsOK
    BY <2>1 DEF EventsOK
  <2>3. Reactions = {}
    BY <2>1 DEF Reactions
  <2> QED
    BY <2>2, <2>3 DEF OnceInv, Remembered, OncePerTarget
<1>2. OnceInv /\ [Next]_vars => OnceInv'
  <2> SUFFICES ASSUME OnceInv, [Next]_vars
               PROVE  OnceInv'
    OBVIOUS
  <2>1. CASE UNCHANGED <<events, reactionKeys>>
    BY <2>1 DEF OnceInv, EventsOK, Remembered, OncePerTarget, Reactions, KeyOf
  <2>2. CASE Dequeue
    <3>1. UNCHANGED tx
      BY <2>2 DEF Dequeue, Begin, Abandon
    <3> QED
      BY <2>1, <3>1 DEF tx
  <2>3. CASE RefuseReaction \/ SkipReaction \/ ReactionsEnd \/ Respond \/ Finish \/ Stopped \/ UNCHANGED vars
    <3>1. UNCHANGED tx
      BY <2>3, Zenon DEF RefuseReaction, SkipReaction, ReactionsEnd, Respond, Finish, Stopped, Abandon, vars
    <3> QED
      BY <2>1, <3>1 DEF tx
  <2> QED
    BY <2>2, <2>3, EmitStep, FireStep DEF Next
<1>3. OnceInv => OncePerTarget
  BY DEF OnceInv
<1> QED
  BY <1>1, <1>2, <1>3, PTL DEF Spec

-----------------------------------------------------------------------------
(* The budget.                                                             *)

\* Calls of enqueueReactions, each for an event.
CallsOK(calls) == \E R : calls \in Seq([event : Nat \ {0}, rules : R])

BudgetInv ==
  /\ EventsOK
  /\ CallsOK(frames)
  /\ IsFiniteSet(Reactions)
  /\ reactionEvents \in 0..MaxReactionEvents
  /\ Cardinality(Reactions) = reactionEvents

\* One more call.
LEMMA CallPushed ==
  ASSUME NEW calls, CallsOK(calls), NEW n \in Nat \ {0}, NEW rules
  PROVE  CallsOK(<<[event |-> n, rules |-> rules]>> \o calls)
<1>1. PICK R : calls \in Seq([event : Nat \ {0}, rules : R])
  BY DEF CallsOK
<1> DEFINE Q == R \cup {rules}
           Old == [event : Nat \ {0}, rules : R]
           All == [event : Nat \ {0}, rules : Q]
<1>2. [event |-> n, rules |-> rules] \in All /\ Old \subseteq All
  OBVIOUS
<1> HIDE DEF Old, All
<1>3. calls \in Seq(All)
  <2>1. calls \in Seq(Old)
    BY <1>1 DEF Old
  <2> QED
    BY <1>2, <2>1
<1>4. <<[event |-> n, rules |-> rules]>> \o calls \in Seq(All)
  BY <1>2, <1>3
<1> QED
  BY <1>4 DEF CallsOK, All

\* One call less, or less to do in it.
LEMMA CallPopped ==
  ASSUME NEW calls, CallsOK(calls), calls # <<>>
  PROVE  /\ CallsOK(Tail(calls))
         /\ calls[1].event \in Nat \ {0}
         /\ \A rules : CallsOK(<<[calls[1] EXCEPT !.rules = rules]>> \o Tail(calls))
<1>1. PICK R : calls \in Seq([event : Nat \ {0}, rules : R])
  BY DEF CallsOK
<1> DEFINE Old == [event : Nat \ {0}, rules : R]
<1>2. calls \in Seq(Old)
  BY <1>1
<1>3. \A call \in Old : /\ call.event \in Nat \ {0}
                       /\ \A rules : [call EXCEPT !.rules = rules] = [event |-> call.event, rules |-> rules]
  OBVIOUS
<1> HIDE DEF Old
<1>4. Tail(calls) \in Seq(Old) /\ calls[1] \in Old
  BY <1>2
<1>5. CallsOK(Tail(calls))
  BY <1>4 DEF CallsOK, Old
<1> QED
  BY <1>3, <1>4, <1>5, CallPushed

\* A step that stages an event.
LEMMA StagePushes ==
  ASSUME EventsOK, NEW e, NEW calls, CallsOK(calls), Stage(e, calls)
  PROVE  CallsOK(frames')
<1>1. Len(events) + 1 \in Nat \ {0}
  <2>1. PICK S : events \in Seq(S)
    BY DEF EventsOK
  <2> QED
    BY <2>1
<1>2. CASE program.skipReactions
  BY <1>2 DEF Stage
<1>3. CASE ~program.skipReactions
  <2>1. frames' = <<[event |-> Len(events) + 1, rules |-> Matching(e)]>> \o calls
    BY <1>3, Zenon DEF Stage
  <2> QED
    BY <1>1, <2>1, CallPushed
<1> QED
  BY <1>2, <1>3

(***************************************************************************)
(* The budget counts the events of reactions, and they keep within it.     *)
(***************************************************************************)
THEOREM ReactionsKeepWithinBudget == Spec => []WithinBudget
<1>1. Init => BudgetInv
  <2> SUFFICES ASSUME Init
               PROVE  BudgetInv
    OBVIOUS
  <2>1. events = <<>> /\ reactionEvents = 0 /\ frames = <<>>
    BY DEF Init
  <2>2. EventsOK /\ CallsOK(frames)
    BY <2>1 DEF EventsOK, CallsOK
  <2>3. Reactions = {}
    BY <2>1 DEF Reactions
  <2> QED
    BY <2>1, <2>2, <2>3, BudgetAssumption, FS_EmptySet DEF BudgetInv
<1>2. BudgetInv /\ [Next]_vars => BudgetInv'
  <2> SUFFICES ASSUME BudgetInv, [Next]_vars
               PROVE  BudgetInv'
    OBVIOUS
  <2>1. ASSUME UNCHANGED <<events, reactionEvents>>, CallsOK(frames')
        PROVE  BudgetInv'
    BY <2>1 DEF BudgetInv, EventsOK, Reactions, CallsOK
  <2>2. CASE Dequeue \/ RefuseReaction \/ Respond \/ Finish \/ Stopped \/ UNCHANGED vars
    <3>1. UNCHANGED <<tx, frames>>
      BY <2>2, Zenon DEF Dequeue, Begin, RefuseReaction, Respond, Finish, Stopped, Abandon, vars
    <3> QED
      BY <2>1, <3>1 DEF tx, BudgetInv
  <2>3. CASE SkipReaction
    BY <2>1, <2>3, CallPopped DEF SkipReaction, InReaction, Rest, tx, BudgetInv
  <2>4. CASE ReactionsEnd
    BY <2>1, <2>4, CallPopped DEF ReactionsEnd, tx, BudgetInv
  <2>5. CASE Emit
    <3>1. CASE UNCHANGED <<tx, frames>>
      BY <2>1, <3>1 DEF tx, BudgetInv
    <3>2. ASSUME NEW e, e.by = 0, Stage(e, <<>>), UNCHANGED reactionEvents
          PROVE  BudgetInv'
      <4>1. Reactions' = Reactions /\ EventsOK'
        BY <3>2, AppendOne DEF BudgetInv, Reactions, Stage
      <4>2. CallsOK(<<>>)
        BY DEF CallsOK
      <4>3. CallsOK(frames')
        BY <3>2, <4>2, StagePushes DEF BudgetInv
      <4> QED
        BY <3>2, <4>1, <4>3 DEF BudgetInv, CallsOK
    <3>3. \/ UNCHANGED <<tx, frames>>
          \/ \E e : e.by = 0 /\ Stage(e, <<>>) /\ UNCHANGED reactionEvents
      BY <2>5 DEF Emit, Abandon
    <3> QED
      BY <3>1, <3>2, <3>3
  <2>6. CASE Fire
    <3>0. PICK n : n = Len(events) + 1
      OBVIOUS
    <3> DEFINE staged == [type |-> Next1.emit, boundary |-> Next1.boundary, aggregate |-> ReactionTarget,
                          depth |-> Trigger.depth, by |-> frames[1].event, rule |-> Next1, of |-> commands]
    <3>1. PICK e : Stage(e, Rest) /\ e.by = frames[1].event
      <4>1. Stage(staged, Rest)
        BY <2>6, Zenon DEF Fire
      <4>2. staged.by = frames[1].event
        OBVIOUS
      <4> HIDE DEF staged
      <4> QED
        BY <4>1, <4>2
    <3> HIDE DEF staged
    <3>2. events' = Append(events, e)
      BY <3>1 DEF Stage
    <3>3. /\ EventsOK' /\ n \notin DOMAIN events
          /\ DOMAIN events' = DOMAIN events \cup {n} /\ events'[n] = e
          /\ \A i \in DOMAIN events : events'[i] = events[i]
      BY <3>0, <3>2, AppendOne DEF BudgetInv
    <3>4. frames # <<>> /\ Refusal = "no" /\ reactionEvents' = reactionEvents + 1
      BY <2>6, Zenon DEF Fire, Remember, InReaction
    <3>5. e.by # 0 /\ CallsOK(Rest)
      BY <3>1, <3>4, CallPopped DEF BudgetInv, Rest
    <3>6. CallsOK(frames')
      BY <3>1, <3>5, StagePushes DEF BudgetInv
    <3>7. Reactions' = Reactions \cup {n} /\ n \notin Reactions
      BY <3>3, <3>5 DEF Reactions
    <3>8. /\ IsFiniteSet(Reactions \cup {n})
          /\ Cardinality(Reactions \cup {n}) = Cardinality(Reactions) + 1
      BY <3>7, FS_AddElement DEF BudgetInv
    <3>9. ~BudgetSpent
      BY <3>4 DEF Refusal
    <3>10. reactionEvents + 1 \in 0..MaxReactionEvents
      BY <3>9, BudgetAssumption DEF BudgetInv, BudgetSpent
    <3>11. IsFiniteSet(Reactions') /\ Cardinality(Reactions') = reactionEvents'
      BY <3>4, <3>7, <3>8 DEF BudgetInv
    <3>12. EventsOK' /\ CallsOK(frames)' /\ reactionEvents' \in (0..MaxReactionEvents)'
      BY <3>3, <3>4, <3>6, <3>10 DEF CallsOK
    <3> QED
      BY <3>11, <3>12, Zenon DEF BudgetInv
  <2> QED
    BY <2>2, <2>3, <2>4, <2>5, <2>6, Zenon DEF Next
<1>3. BudgetInv => WithinBudget
  BY BudgetAssumption DEF BudgetInv, WithinBudget
<1> QED
  BY <1>1, <1>2, <1>3, PTL DEF Spec

-----------------------------------------------------------------------------
(* The answer.                                                             *)

First == program.first.target

\* Nothing is answered before the first command has run, and nothing else has
\* run before it is answered.
AnswerInv ==
  /\ EventsOK
  /\ commands \in Nat
  /\ commands = 0 =>
       /\ current = <<>> /\ response = <<>> /\ queue = <<program.first>>
       /\ events = <<>> /\ states = program.states
  /\ current = <<>> => frames = <<>>
  /\ response = <<>> /\ commands # 0 =>
       commands = 1 /\ current # <<>> /\ current[1].command = program.first
  /\ response # <<>> /\ current # <<>> => commands # 1
  /\ response = <<>> => Known(First) = OwnState(First)
  /\ AnswerIsOwn

\* An event of the first command or of the reactions to it is projected as it
\* is recorded; one of a later command is none of its own.
LEMMA StagedIsOwn ==
  ASSUME EventsOK, NEW e, NEW calls, Stage(e, calls), UNCHANGED program, NEW a
  PROVE  /\ EventsOK'
         /\ e.of = 1 /\ Known(a) = OwnState(a) => Known(a)' = OwnState(a)'
         /\ e.of # 1 => OwnState(a)' = OwnState(a)
<1> DEFINE Own   == {i \in DOMAIN events : events[i].of = 1 /\ events[i].aggregate = a}
           Types == {events[i].type : i \in Own}
           Before == IF a \in DOMAIN program.states THEN program.states[a] ELSE {}
<1>0. PICK n : n = Len(events) + 1
  OBVIOUS
<1>1. /\ EventsOK' /\ n \notin DOMAIN events
      /\ DOMAIN events' = DOMAIN events \cup {n} /\ events'[n] = e
      /\ \A i \in DOMAIN events : events'[i] = events[i]
  BY <1>0, AppendOne DEF Stage
<1>2. Own' = Own \cup (IF e.of = 1 /\ e.aggregate = a THEN {n} ELSE {})
  BY <1>1
<1>3. /\ \A i \in Own : events'[i].type = events[i].type
      /\ events'[n].type = e.type
  BY <1>1
<1> HIDE DEF Own
<1>4. Types' = Types \cup (IF e.of = 1 /\ e.aggregate = a THEN {e.type} ELSE {})
  BY <1>2, <1>3
<1>5. OwnState(a) = Before \cup Types /\ OwnState(a)' = Before \cup Types'
  BY DEF OwnState, Own
<1>6. Known(a)' = IF a = e.aggregate THEN Known(a) \cup {e.type} ELSE Known(a)
  <2>1. states' = Project(e)
    BY DEF Stage
  <2> QED
    BY <2>1 DEF Known, Present, Project
<1> HIDE DEF Types, Before
<1> QED
  BY <1>1, <1>4, <1>5, <1>6

\* Where nothing is staged, what is known and what is own remain.
LEMMA UnstagedIsOwn ==
  ASSUME UNCHANGED <<program, states, events>>
  PROVE  /\ EventsOK => EventsOK'
         /\ First' = First
         /\ Known(First)' = Known(First) /\ OwnState(First)' = OwnState(First)
BY DEF First, Known, Present, OwnState, EventsOK

\* A step that stages an event while a command runs.
LEMMA AnswerStage ==
  ASSUME AnswerInv, NEW e, NEW calls, Stage(e, calls), e.of = commands, current # <<>>,
         UNCHANGED <<program, current, response, commands>>
  PROVE  AnswerInv'
<1>1. commands # 0 /\ (response = <<>> => commands = 1) /\ (response # <<>> => commands # 1)
  BY DEF AnswerInv
<1>2. /\ EventsOK' /\ First' = First
      /\ e.of = 1 /\ Known(First) = OwnState(First) => Known(First)' = OwnState(First)'
      /\ e.of # 1 => OwnState(First)' = OwnState(First)
  <2>1. First' = First
    BY DEF First
  <2>2. ASSUME NEW a, a = First
        PROVE  /\ EventsOK'
               /\ e.of = 1 /\ Known(a) = OwnState(a) => Known(a)' = OwnState(a)'
               /\ e.of # 1 => OwnState(a)' = OwnState(a)
    BY StagedIsOwn DEF AnswerInv
  <2>3. /\ \A a : a = First => Known(a)' = Known(First)' /\ OwnState(a)' = OwnState(First)'
        /\ \A a : a = First => Known(a) = Known(First) /\ OwnState(a) = OwnState(First)
    BY <2>1 DEF Known, Present, OwnState
  <2> QED
    BY <2>1, <2>2, <2>3
<1>3. response = <<>> => Known(First)' = OwnState(First)'
  BY <1>1, <1>2 DEF AnswerInv
<1>4. AnswerIsOwn'
  BY <1>1, <1>2 DEF AnswerInv, AnswerIsOwn, First
<1> QED
  BY <1>1, <1>2, <1>3, <1>4 DEF AnswerInv

\* The first command starts first.
LEMMA AnswerDequeue ==
  ASSUME AnswerInv, Dequeue
  PROVE  AnswerInv'
<1>1. CASE UNCHANGED <<program, queue, current, frames, states, events, response, commands>>
  BY <1>1, UnstagedIsOwn, Zenon DEF AnswerInv, AnswerIsOwn, First
<1>2. ASSUME NEW c, c = Head(queue), NEW types, NEW fallback, Begin(c, types, fallback)
      PROVE  AnswerInv'
  <2>1. /\ UNCHANGED <<program, states, events, frames, response>>
        /\ commands' = commands + 1
        /\ current' # <<>> /\ current'[1].command = c
    BY <1>2 DEF Begin, tx
  <2>2. commands = 0 => c = program.first
    BY <1>2 DEF AnswerInv
  <2>3. /\ EventsOK' /\ First' = First
        /\ Known(First)' = Known(First) /\ OwnState(First)' = OwnState(First)
    BY <2>1, UnstagedIsOwn DEF AnswerInv
  <2>4. current = <<>>
    BY DEF Dequeue
  <2>5. AnswerIsOwn'
    BY <2>1, <2>3 DEF AnswerInv, AnswerIsOwn, First
  <2>6. commands' \in Nat /\ commands' # 0 /\ (response # <<>> => commands' # 1)
    BY <2>1 DEF AnswerInv
  <2>7. response = <<>> => commands' = 1 /\ c = program.first
    BY <2>1, <2>2, <2>4 DEF AnswerInv
  <2> QED
    BY <2>1, <2>3, <2>5, <2>6, <2>7 DEF AnswerInv
<1>3. \/ UNCHANGED <<program, queue, current, frames, states, events, response, commands>>
      \/ \E c, types, fallback : c = Head(queue) /\ Begin(c, types, fallback)
  BY Zenon DEF Dequeue, Abandon, tx
<1> QED
  BY <1>1, <1>2, <1>3

\* The first answer is that of the first command.
LEMMA AnswerRespond ==
  ASSUME AnswerInv, Respond
  PROVE  AnswerInv'
<1>1. CASE UNCHANGED <<program, queue, current, frames, states, events, response, commands>>
  BY <1>1, UnstagedIsOwn, Zenon DEF AnswerInv, AnswerIsOwn, First
<1>2. ASSUME KeepFirst(ResponseOf(current[1].command)), current' = <<>>, current # <<>>, frames = <<>>,
             UNCHANGED <<program, frames, states, events, commands>>
      PROVE  AnswerInv'
  <2>1. /\ EventsOK' /\ First' = First
        /\ Known(First)' = Known(First) /\ OwnState(First)' = OwnState(First)
    BY <1>2, UnstagedIsOwn DEF AnswerInv
  <2>2. commands # 0
    BY <1>2 DEF AnswerInv
  <2>3. PICK r : r = ResponseOf(current[1].command)
    OBVIOUS
  <2>4. response' = IF response = <<>> THEN <<r>> ELSE response
    BY <1>2, <2>3 DEF KeepFirst
  <2>5. response' # <<>>
    BY <2>4
  <2>6. ASSUME response = <<>>, First # Generated
        PROVE  r.body = OwnState(First)
    <3>1. current[1].command.target = First /\ Known(First) = OwnState(First)
      BY <2>2, <2>6 DEF AnswerInv, First
    <3> QED
      BY <2>3, <2>6, <3>1 DEF ResponseOf
  <2>7. AnswerIsOwn'
    <3>1. CASE response = <<>>
      BY <1>2, <2>1, <2>4, <2>6, <3>1 DEF AnswerIsOwn, First
    <3>2. CASE response # <<>>
      BY <1>2, <2>1, <2>4, <3>2 DEF AnswerInv, AnswerIsOwn, First
    <3> QED
      BY <3>1, <3>2
  <2> QED
    BY <1>2, <2>1, <2>2, <2>5, <2>7 DEF AnswerInv
<1>3. \/ UNCHANGED <<program, queue, current, frames, states, events, response, commands>>
      \/ /\ KeepFirst(ResponseOf(current[1].command)) /\ current' = <<>>
         /\ current # <<>> /\ frames = <<>>
         /\ UNCHANGED <<program, frames, states, events, commands>>
  BY Zenon DEF Respond, Abandon, tx
<1> QED
  BY <1>1, <1>2, <1>3

\* Reactions run while a command does.
LEMMA AnswerFrames ==
  ASSUME AnswerInv, frames # <<>>, UNCHANGED <<program, queue, current, states, events, response, commands>>
  PROVE  AnswerInv'
<1>1. current # <<>>
  BY DEF AnswerInv
<1> QED
  BY <1>1, UnstagedIsOwn, Zenon DEF AnswerInv, AnswerIsOwn, First

(***************************************************************************)
(* The answer is the state that the command of the request left, reactions *)
(* included, and nothing of the commands dispatched since.                 *)
(***************************************************************************)
THEOREM TheAnswerIsOwn == Spec => []AnswerIsOwn
<1>1. Init => AnswerInv
  BY DEF Init, AnswerInv, AnswerIsOwn, EventsOK, Known, Present, OwnState, First
<1>2. AnswerInv /\ [Next]_vars => AnswerInv'
  <2> SUFFICES ASSUME AnswerInv, [Next]_vars
               PROVE  AnswerInv'
    OBVIOUS
  <2>1. CASE UNCHANGED <<program, queue, current, frames, states, events, response, commands>>
    BY <2>1, UnstagedIsOwn, Zenon DEF AnswerInv, AnswerIsOwn, First
  <2>2. CASE RefuseReaction \/ Finish \/ Stopped \/ UNCHANGED vars
    <3>1. UNCHANGED <<program, queue, current, frames, states, events, response, commands>>
      BY <2>2, Zenon DEF RefuseReaction, Finish, Stopped, Abandon, vars, tx
    <3> QED
      BY <2>1, <3>1
  <2>3. CASE Emit
    <3>1. ASSUME NEW e, e.of = commands, Stage(e, <<>>), current # <<>>,
                 UNCHANGED <<program, current, response, commands>>
          PROVE  AnswerInv'
      BY <3>1, AnswerStage
    <3>2. \/ UNCHANGED <<program, queue, current, frames, states, events, response, commands>>
          \/ /\ \E e : e.of = commands /\ Stage(e, <<>>)
             /\ current # <<>> /\ UNCHANGED <<program, current, response, commands>>
      BY <2>3 DEF Emit, Abandon, tx
    <3> QED
      BY <2>1, <3>1, <3>2
  <2>4. CASE Fire
    <3> DEFINE staged == [type |-> Next1.emit, boundary |-> Next1.boundary, aggregate |-> ReactionTarget,
                          depth |-> Trigger.depth, by |-> frames[1].event, rule |-> Next1, of |-> commands]
    <3>1. Stage(staged, Rest) /\ frames # <<>> /\ UNCHANGED <<program, current, response, commands>>
      BY <2>4, Zenon DEF Fire, InReaction
    <3>2. staged.of = commands
      OBVIOUS
    <3> HIDE DEF staged
    <3>3. current # <<>>
      BY <3>1 DEF AnswerInv
    <3> QED
      BY <3>1, <3>2, <3>3, AnswerStage
  <2>5. CASE SkipReaction \/ ReactionsEnd
    <3>1. frames # <<>> /\ UNCHANGED <<program, queue, current, states, events, response, commands>>
      BY <2>5, Zenon DEF SkipReaction, ReactionsEnd, InReaction, tx
    <3> QED
      BY <3>1, AnswerFrames
  <2> QED
    BY <2>2, <2>3, <2>4, <2>5, AnswerDequeue, AnswerRespond, Zenon DEF Next
<1>3. AnswerInv => AnswerIsOwn
  BY DEF AnswerInv
<1> QED
  BY <1>1, <1>2, <1>3, PTL DEF Spec

-----------------------------------------------------------------------------
(* What is chosen of a sequence, in which order.                           *)

LEMMA FiniteUpTo ==
  ASSUME NEW m \in Nat
  PROVE  IsFiniteSet(1..m) /\ Cardinality(1..m) = m
<1>1. IsFiniteSet(1..m) /\ Cardinality(1..m) = IF 1 > m THEN 0 ELSE m - 1 + 1
  BY FS_Interval
<1> QED
  BY <1>1

\* What stands before an index of I.
Preceding(I, rank, i) == {j \in I : rank[j] < rank[i] \/ (rank[j] = rank[i] /\ j < i)}

\* Each place from 1 to the number of indices is that of one index, and places
\* do not come before lower ranks.
LEMMA Places ==
  ASSUME NEW I, IsFiniteSet(I), I \subseteq Int, NEW rank \in [I -> Int]
  PROVE  /\ \A i \in I : Cardinality(Preceding(I, rank, i)) + 1 \in 1..Cardinality(I)
         /\ \A i, j \in I : Cardinality(Preceding(I, rank, i)) = Cardinality(Preceding(I, rank, j)) => i = j
         /\ \A i, j \in I : Cardinality(Preceding(I, rank, i)) < Cardinality(Preceding(I, rank, j))
                              => rank[i] <= rank[j]
         /\ \A k \in 1..Cardinality(I) : \E i \in I : Cardinality(Preceding(I, rank, i)) = k - 1
<1> DEFINE P(i) == Preceding(I, rank, i)
           C(i) == Cardinality(P(i))
           n == Cardinality(I)
<1>1. \A i \in I : /\ IsFiniteSet(P(i)) /\ C(i) \in Nat /\ i \notin P(i) /\ P(i) \subseteq I
  BY FS_Subset, FS_CardinalityType DEF Preceding
<1>2. n \in Nat
  BY FS_CardinalityType
<1>3. ASSUME NEW i \in I
      PROVE  C(i) < n
  <2>1. C(i) <= n /\ (n = C(i) => I = P(i))
    BY <1>1, FS_Subset
  <2> QED
    BY <1>1, <1>2, <2>1
<1>4. ASSUME NEW i \in I, NEW j \in I, rank[j] < rank[i] \/ (rank[j] = rank[i] /\ j < i)
      PROVE  C(j) < C(i)
  <2>1. j \in P(i)
    BY <1>4 DEF Preceding
  <2>2. ASSUME NEW k \in P(j)
        PROVE  k \in P(i)
    <3>1. /\ k \in I
          /\ rank[k] < rank[j] \/ (rank[k] = rank[j] /\ k < j)
      BY DEF Preceding
    <3>2. {rank[i], rank[j], rank[k], i, j, k} \subseteq Int
      BY <3>1
    <3>3. rank[k] < rank[i] \/ (rank[k] = rank[i] /\ k < i)
      BY <1>4, <3>1, <3>2
    <3> QED
      BY <3>1, <3>3 DEF Preceding
  <2>3. C(j) <= C(i) /\ (C(i) = C(j) => P(i) = P(j))
    <3>1. P(j) \in SUBSET P(i)
      BY <2>2
    <3> QED
      BY <1>1, <3>1, FS_Subset
  <2>4. C(i) \in Nat /\ C(j) \in Nat /\ P(i) # P(j)
    BY <1>1, <2>1
  <2> HIDE DEF P, C
  <2> QED
    BY <2>3, <2>4
<1>5. \A i, j \in I : i # j => \/ rank[j] < rank[i] \/ (rank[j] = rank[i] /\ j < i)
                              \/ rank[i] < rank[j] \/ (rank[i] = rank[j] /\ i < j)
  OBVIOUS
<1>6. \A i, j \in I : C(i) = C(j) => i = j
  BY <1>1, <1>4, <1>5
<1>7. \A i, j \in I : C(i) < C(j) => rank[i] <= rank[j]
  BY <1>1, <1>4
<1> HIDE DEF P, C, n
<1>8. ASSUME NEW k \in 1..n
      PROVE  \E i \in I : C(i) = k - 1
  <2> DEFINE f == [i \in I |-> C(i) + 1]
  <2>1. f \in Injection(I, 1..n)
    BY <1>1, <1>2, <1>3, <1>6 DEF Injection, IsInjective
  <2>2. IsFiniteSet(1..n) /\ Cardinality(1..n) = n
    BY <1>2, FiniteUpTo
  <2>3. f \in Surjection(I, 1..n)
    BY <2>1, <2>2, FS_Injection DEF n
  <2>4. PICK i \in I : f[i] = k
    BY <2>3 DEF Surjection
  <2> QED
    BY <1>1, <1>2, <2>4
<1> QED
  BY <1>1, <1>2, <1>3, <1>6, <1>7, <1>8 DEF P, C, n

\* What is chosen of a sequence, and its order.
LEMMA SortedElements ==
  ASSUME NEW R, NEW s \in Seq(R), NEW I \in SUBSET DOMAIN s, NEW rank \in [I -> Int]
  PROVE  /\ Sorted(s, I, rank) \in Seq(R)
         /\ Len(Sorted(s, I, rank)) <= Len(s)
         /\ \A i \in I : \E k \in DOMAIN Sorted(s, I, rank) : Sorted(s, I, rank)[k] = s[i]
         /\ \A k, l \in DOMAIN Sorted(s, I, rank) : k < l =>
              \E i, j \in I : /\ Sorted(s, I, rank)[k] = s[i] /\ Sorted(s, I, rank)[l] = s[j]
                              /\ rank[i] <= rank[j]
<1> SUFFICES ASSUME NEW t, t = Sorted(s, I, rank)
             PROVE  /\ t \in Seq(R) /\ Len(t) <= Len(s)
                    /\ \A i \in I : \E k \in DOMAIN t : t[k] = s[i]
                    /\ \A k, l \in DOMAIN t : k < l =>
                         \E i, j \in I : t[k] = s[i] /\ t[l] = s[j] /\ rank[i] <= rank[j]
  OBVIOUS
<1> DEFINE C(i) == Cardinality(Preceding(I, rank, i))
           n == Cardinality(I)
           At(k) == CHOOSE i \in I : C(i) = k - 1
<1>1. t = [k \in 1..n |-> s[At(k)]]
  BY DEF Sorted, Preceding
<1>2. /\ IsFiniteSet(I) /\ I \subseteq Int /\ n <= Len(s)
      /\ DOMAIN s = 1..Len(s) /\ Len(s) \in Nat
  <2>1. DOMAIN s = 1..Len(s) /\ Len(s) \in Nat
    OBVIOUS
  <2>2. IsFiniteSet(1..Len(s)) /\ Cardinality(1..Len(s)) = Len(s)
    BY <2>1, FiniteUpTo
  <2>3. IsFiniteSet(I) /\ n <= Len(s)
    <3>1. I \in SUBSET (1..Len(s))
      BY <2>1
    <3>2. IsFiniteSet(I) /\ Cardinality(I) <= Cardinality(1..Len(s))
      BY <2>2, <3>1, FS_Subset
    <3> QED
      BY <2>2, <3>2
  <2> QED
    BY <2>1, <2>3
<1>3. n \in Nat
  BY <1>2, FS_CardinalityType
<1>4. /\ \A i \in I : C(i) + 1 \in 1..n
      /\ \A i, j \in I : C(i) = C(j) => i = j
      /\ \A i, j \in I : C(i) < C(j) => rank[i] <= rank[j]
      /\ \A k \in 1..n : \E i \in I : C(i) = k - 1
  BY <1>2, Places
<1>5. \A i \in I : C(i) \in Int
  BY <1>2, FS_Subset, FS_CardinalityType DEF Preceding
<1> HIDE DEF C, n
<1>6. \A k \in 1..n : At(k) \in I /\ C(At(k)) = k - 1
  BY <1>4
<1> HIDE DEF At
<1>7. t \in [1..n -> R]
  BY <1>1, <1>2, <1>6
<1>8. t \in Seq(R) /\ Len(t) = n /\ DOMAIN t = 1..n
  BY <1>3, <1>7
<1>9. \A i \in I : \E k \in DOMAIN t : t[k] = s[i]
  <2> TAKE i \in I
  <2> DEFINE k == C(i) + 1
  <2>1. k \in 1..n /\ C(At(k)) = C(i) /\ At(k) \in I
    BY <1>4, <1>5, <1>6
  <2>2. At(k) = i
    BY <1>4, <2>1
  <2>3. k \in DOMAIN t /\ t[k] = s[i]
    BY <1>1, <1>8, <2>1, <2>2
  <2> QED
    BY <2>3
<1>10. \A k, l \in DOMAIN t : k < l =>
         \E i, j \in I : t[k] = s[i] /\ t[l] = s[j] /\ rank[i] <= rank[j]
  <2> TAKE k, l \in DOMAIN t
  <2> HAVE k < l
  <2>1. /\ k \in 1..n /\ l \in 1..n
        /\ t[k] = s[At(k)] /\ t[l] = s[At(l)]
    BY <1>1, <1>8
  <2>2. At(k) \in I /\ At(l) \in I /\ C(At(k)) = k - 1 /\ C(At(l)) = l - 1
    BY <1>6, <2>1
  <2>3. rank[At(k)] <= rank[At(l)]
    BY <1>3, <1>4, <2>1, <2>2
  <2> QED
    BY <2>1, <2>2, <2>3
<1>11. Len(t) <= Len(s)
  BY <1>2, <1>8
<1> QED
  BY <1>8, <1>9, <1>10, <1>11

\* What is filtered.
LEMMA FilteredElements ==
  ASSUME NEW R, NEW s \in Seq(R), NEW I \in SUBSET DOMAIN s
  PROVE  Filtered(s, I) \in Seq(R) /\ Len(Filtered(s, I)) <= Len(s)
<1>1. [i \in I |-> 0] \in [I -> Int]
  OBVIOUS
<1> QED
  BY <1>1, SortedElements DEF Filtered

\* What definitions are.
LEMMA ProgramTyped ==
  ASSUME program \in Programs
  PROVE  /\ program.operations \in [Operation -> Behavior]
         /\ program.global \in Seq(Rule) /\ program.own \in [Boundary -> Seq(Rule)]
         /\ program.first \in Command /\ program.first.depth = 0
         /\ DOMAIN program.states \subseteq Aggregate
         /\ \A a \in DOMAIN program.states : program.states[a] \subseteq Type
         /\ program.maxDepth \in Nat
<1>1. \A p \in Programs : /\ p.operations \in [Operation -> Behavior]
                          /\ p.global \in Seq(Rule) /\ p.own \in [Boundary -> Seq(Rule)]
                          /\ p.first \in Command /\ p.first.depth = 0
                          /\ p.states \in UNION {[S -> SUBSET Type] : S \in SUBSET Aggregate}
                          /\ p.maxDepth \in Nat
  BY ProgramsAssumption
<1>2. PICK S \in SUBSET Aggregate : program.states \in [S -> SUBSET Type]
  BY <1>1
<1>3. DOMAIN program.states = S /\ \A a \in S : program.states[a] \subseteq Type
  BY <1>2
<1> QED
  BY <1>1, <1>3

\* The reactions to an event: all that are listed and match, in the order of
\* the names of the boundaries.
LEMMA MatchingElements ==
  ASSUME program \in Programs, NEW e, e.boundary \in Boundary
  PROVE  /\ Matching(e) \in Seq(Rule)
         /\ \A i \in DOMAIN Listed(e) : Matches(Listed(e)[i], e) =>
              \E k \in DOMAIN Matching(e) : Matching(e)[k] = Listed(e)[i]
         /\ \A k, l \in DOMAIN Matching(e) : k < l => Matching(e)[k].boundary <= Matching(e)[l].boundary
<1> DEFINE s == Listed(e)
           I == MatchingAt(e)
           rank == [i \in I |-> s[i].boundary]
<1>1. s \in Seq(Rule)
  BY ProgramTyped DEF Listed
<1>2. I \in SUBSET DOMAIN s
  BY DEF MatchingAt
<1>3. \A i \in DOMAIN s : s[i].boundary \in Int
  <2>1. \A i \in DOMAIN s : s[i] \in Rule
    BY <1>1
  <2>2. \A rule \in Rule : rule.boundary \in Boundary
    BY DEF Rule
  <2>3. Boundary \subseteq Int
    BY BoundaryAssumption
  <2> QED
    BY <2>1, <2>2, <2>3, Zenon
<1>4. rank \in [I -> Int]
  BY <1>2, <1>3
<1>5. Matching(e) = Sorted(s, I, rank)
  BY DEF Matching
<1>6. \A i \in DOMAIN s : i \in I <=> Matches(s[i], e)
  BY DEF MatchingAt
<1>7. \A i \in I : rank[i] = s[i].boundary
  OBVIOUS
<1> HIDE DEF s, I, rank
<1>8. /\ Matching(e) \in Seq(Rule)
      /\ \A i \in I : \E k \in DOMAIN Matching(e) : Matching(e)[k] = s[i]
      /\ \A k, l \in DOMAIN Matching(e) : k < l =>
           \E i, j \in I : Matching(e)[k] = s[i] /\ Matching(e)[l] = s[j] /\ rank[i] <= rank[j]
  BY <1>1, <1>2, <1>4, <1>5, SortedElements
<1>9. \A k, l \in DOMAIN Matching(e) : k < l => Matching(e)[k].boundary <= Matching(e)[l].boundary
  BY <1>7, <1>8
<1> QED
  BY <1>6, <1>8, <1>9 DEF s

-----------------------------------------------------------------------------
(* The types of a unit of work.                                            *)

ReactionCall == [event : Nat, rules : Seq(Rule)]

\* Calls are for events that are there.
FramesOK == \A f \in DOMAIN frames : frames[f].event \in 1..Len(events)

\* Between commands nothing is left to do; a command has emitted what it no
\* longer has to.
CurrentOK ==
  /\ current = <<>> => toEmit = <<>> /\ frames = <<>>
  /\ current # <<>> => Len(toEmit) <= current[1].emits /\ current[1].emits - Len(toEmit) <= Len(events)

TypedInv == TypeOK /\ FramesOK /\ CurrentOK

\* What is known of any aggregate.
LEMMA KnownTyped ==
  ASSUME TypeOK, NEW a
  PROVE  Known(a) \subseteq Type
BY DEF TypeOK, Known, Present

\* A command at hand, and its behavior.
LEMMA CommandTyped ==
  ASSUME TypeOK, NEW c \in Command
  PROVE  /\ BehaviorOf(c) \in Behavior
         /\ c.target \in Aggregate \cup {Generated} /\ c.depth \in Nat
<1>1. program.operations \in [Operation -> Behavior]
  BY ProgramTyped DEF TypeOK
<1>2. c.op \in Operation
  BY DEF Command
<1> QED
  BY <1>1, <1>2 DEF Command, BehaviorOf

\* The command that runs.
LEMMA CurrentTyped ==
  ASSUME TypeOK, current # <<>>
  PROVE  /\ current[1].command \in Command /\ current[1].found \subseteq Type
         /\ current[1].fallback \in BOOLEAN /\ current[1].emits \in Nat
<1> DEFINE Running == [command : Command, found : SUBSET Type, fallback : BOOLEAN, emits : Nat]
<1>1. current \in Seq(Running)
  BY DEF TypeOK
<1> HIDE DEF Running
<1>2. current[1] \in Running
  BY <1>1
<1> QED
  BY <1>2 DEF Running

\* A step that stages an event.
LEMMA StageTyped ==
  ASSUME TypeOK, NEW e \in Event, NEW calls \in Seq(ReactionCall),
         \A f \in DOMAIN calls : calls[f].event \in 1..Len(events),
         Stage(e, calls), UNCHANGED program
  PROVE  /\ events' \in Seq(Event) /\ Len(events') = Len(events) + 1
         /\ DOMAIN states' \subseteq Aggregate \cup Nat
         /\ \A a \in DOMAIN states' : states'[a] \subseteq Type
         /\ frames' \in Seq(ReactionCall) /\ FramesOK'
<1>1. events \in Seq(Event) /\ Len(events) \in Nat
  BY DEF TypeOK
<1>2. events' \in Seq(Event) /\ Len(events') = Len(events) + 1
  BY <1>1 DEF Stage
<1>3. e.aggregate \in Aggregate \cup Nat /\ e.type \in Type /\ e.boundary \in Boundary
  BY DEF Event
<1>4. /\ DOMAIN states' = DOMAIN states \cup {e.aggregate}
      /\ \A a \in DOMAIN states' : states'[a] = IF a = e.aggregate THEN Known(a) \cup {e.type} ELSE states[a]
  <2>1. states' = Project(e)
    BY DEF Stage
  <2> QED
    BY <2>1 DEF Project
<1>5. /\ DOMAIN states' \subseteq Aggregate \cup Nat
      /\ \A a \in DOMAIN states' : states'[a] \subseteq Type
  <2>1. Known(e.aggregate) \subseteq Type
    BY KnownTyped
  <2> QED
    BY <1>3, <1>4, <2>1 DEF TypeOK
<1>6. frames' \in Seq(ReactionCall) /\ FramesOK'
  <2>1. CASE program.skipReactions
    <3>1. frames' = calls
      BY <2>1 DEF Stage
    <3> QED
      BY <1>1, <1>2, <3>1 DEF FramesOK
  <2>2. CASE ~program.skipReactions
    <3> DEFINE call == [event |-> Len(events) + 1, rules |-> Matching(e)]
    <3>1. frames' = <<call>> \o calls
      BY <2>2, Zenon DEF Stage
    <3>2. Matching(e) \in Seq(Rule)
      BY <1>3, MatchingElements DEF TypeOK
    <3>3. call \in ReactionCall /\ call.event = Len(events) + 1
      BY <1>1, <3>2 DEF ReactionCall
    <3> HIDE DEF call
    <3>4. <<call>> \o calls \in Seq(ReactionCall)
      BY <3>3
    <3>5. \A f \in DOMAIN (<<call>> \o calls) :
            (<<call>> \o calls)[f].event \in 1..(Len(events) + 1)
      <4>1. \A f \in DOMAIN (<<call>> \o calls) :
              (<<call>> \o calls)[f] = IF f = 1 THEN call ELSE calls[f - 1]
        BY <3>3
      <4>2. \A f \in DOMAIN (<<call>> \o calls) : f # 1 => f - 1 \in DOMAIN calls
        BY <3>3
      <4> QED
        BY <1>1, <3>3, <4>1, <4>2
    <3> QED
      BY <1>2, <3>1, <3>4, <3>5 DEF FramesOK
  <2> QED
    BY <2>1, <2>2
<1> QED
  BY <1>2, <1>5, <1>6

LEMMA EmittedTyped ==
  ASSUME NEW b \in Behavior, NEW s
  PROVE  EmittedBy(b, s) \in Seq(Type)
<1> DEFINE Entry == [type : Type, when : Condition]
           I == {i \in DOMAIN b.emits : Holds(b.emits[i].when, s)}
           chosen == Filtered(b.emits, I)
<1>1. b.emits \in Seq(Entry) /\ I \in SUBSET DOMAIN b.emits
  BY DEF Behavior
<1>2. EmittedBy(b, s) = [i \in DOMAIN chosen |-> chosen[i].type]
  BY DEF EmittedBy
<1>3. \A entry \in Entry : entry.type \in Type
  OBVIOUS
<1> HIDE DEF Entry, I
<1>4. chosen \in Seq(Entry)
  BY <1>1, FilteredElements
<1> HIDE DEF chosen
<1>5. [i \in DOMAIN chosen |-> chosen[i].type] \in [1..Len(chosen) -> Type] /\ Len(chosen) \in Nat
  BY <1>3, <1>4
<1> QED
  BY <1>2, <1>5

\* Dispatched commands are one level deeper than the command that dispatches them.
LEMMA DispatchesTyped ==
  ASSUME TypeOK, current # <<>>
  PROVE  /\ Dispatches \in Seq(Command)
         /\ \A i \in DOMAIN Dispatches : Dispatches[i].depth = current[1].command.depth + 1
<1> DEFINE c == current[1].command
           Entry == [op : Operation, target : Target, when : Condition]
           listed == BehaviorOf(c).dispatches
           I == {i \in DOMAIN listed : Holds(listed[i].when, current[1].found)}
           chosen == Filtered(listed, I)
           all == [i \in DOMAIN chosen |-> Dispatched(c, chosen[i])]
<1>1. c \in Command
  BY CurrentTyped
<1>2. BehaviorOf(c) \in Behavior /\ c.target \in Aggregate \cup {Generated} /\ c.depth \in Nat
  BY <1>1, CommandTyped
<1>3. listed \in Seq(Entry) /\ I \in SUBSET DOMAIN listed
  BY <1>2 DEF Behavior
<1>4. Dispatches = IF program.skipDispatch \/ current[1].fallback THEN <<>> ELSE all
  BY DEF Dispatches
<1>5. \A d \in Entry : Dispatched(c, d) \in Command /\ Dispatched(c, d).depth = c.depth + 1
  BY <1>2 DEF Dispatched, Command, Target
<1> HIDE DEF c, Entry, listed, I
<1>6. chosen \in Seq(Entry)
  BY <1>3, FilteredElements
<1> HIDE DEF chosen
<1>7. all \in [1..Len(chosen) -> Command] /\ Len(chosen) \in Nat
  BY <1>5, <1>6
<1>8. all \in Seq(Command) /\ \A i \in DOMAIN all : all[i].depth = c.depth + 1
  BY <1>5, <1>6, <1>7
<1>9. <<>> \in Seq(Command) /\ DOMAIN <<>> = {}
  OBVIOUS
<1> HIDE DEF all
<1> QED
  BY <1>4, <1>8, <1>9 DEF c

LEMMA ResponseTyped ==
  ASSUME TypedInv, current # <<>>, toEmit = <<>>
  PROVE  ResponseOf(current[1].command) \in [body : SUBSET Type, events : Seq(Event)]
<1> DEFINE c == current[1].command
           n == current[1].emits
           r == ResponseOf(c)
<1>1. /\ n \in Nat /\ n <= Len(events)
      /\ events \in Seq(Event) /\ Len(events) \in Nat
  BY CurrentTyped DEF TypedInv, CurrentOK, TypeOK
<1>2. \A a : Known(a) \subseteq Type
  BY KnownTyped DEF TypedInv
<1>3. SubSeq(events, Len(events) - n + 1, Len(events)) \in Seq(Event)
  BY <1>1
<1>4. n # 0 => Last(events).type \in Type
  <2>1. n # 0 => Last(events) \in Event
    BY <1>1 DEF Last
  <2>2. \A e \in Event : e.type \in Type
    BY DEF Event
  <2> QED
    BY <2>1, <2>2
<1> HIDE DEF n
<1> DEFINE body == IF c.target # Generated THEN Known(c.target)
                   ELSE IF current[1].fallback THEN Known(Last(SelectSeq(events, LAMBDA e : e.rule = None)).aggregate)
                   ELSE IF n = 0 THEN {} ELSE {Last(events).type}
           told == IF current[1].fallback THEN <<>> ELSE SubSeq(events, Len(events) - n + 1, Len(events))
<1>5. ResponseOf(c) = [body |-> body, events |-> told]
  BY Zenon DEF ResponseOf, n
<1>6. body \in SUBSET Type
  BY <1>2, <1>4
<1>7. told \in Seq(Event)
  BY <1>3
<1> HIDE DEF body, told
<1> QED
  BY <1>5, <1>6, <1>7

LEMMA TypedInit == Init => TypedInv
<1> SUFFICES ASSUME Init
             PROVE  TypedInv
  OBVIOUS
<1>1. program \in Programs /\ queue = <<program.first>> /\ states = program.states
  BY DEF Init
<1>2. queue \in Seq(Command)
  BY <1>1, ProgramTyped
<1>3. DOMAIN states \subseteq Aggregate \cup Nat /\ \A a \in DOMAIN states : states[a] \subseteq Type
  BY <1>1, ProgramTyped
<1>4. TypeOK
  BY <1>1, <1>2, <1>3, BudgetAssumption DEF Init, TypeOK
<1>5. FramesOK /\ CurrentOK
  BY DEF Init, FramesOK, CurrentOK
<1> QED
  BY <1>4, <1>5 DEF TypedInv

\* A step that leaves the unit's data alone.
LEMMA TypedUntouched ==
  ASSUME TypedInv, UNCHANGED <<program, queue, current, toEmit, tx, response, commands>>,
         outcome' \in {"running", "done", "depth", "absence", "conflict", "unmatched", "guard",
                       "budget", "target", "invalid", "postcondition"},
         frames' = frames \/ (current # <<>> /\ frames' \in Seq(ReactionCall) /\ FramesOK')
  PROVE  TypedInv'
<1>1. frames \in Seq(ReactionCall)
  BY DEF TypedInv, TypeOK, ReactionCall
<1>2. frames' \in Seq(ReactionCall)
  BY <1>1
<1>3. TypeOK'
  BY <1>2 DEF TypedInv, TypeOK, ReactionCall, tx
<1>4. FramesOK' /\ CurrentOK'
  BY DEF TypedInv, FramesOK, CurrentOK, tx
<1> QED
  BY <1>3, <1>4 DEF TypedInv

LEMMA TypedAbandon ==
  ASSUME TypedInv, NEW why \in {"depth", "absence", "conflict", "unmatched", "guard",
                                "budget", "target", "invalid", "postcondition"},
         Abandon(why)
  PROVE  TypedInv'
BY TypedUntouched DEF Abandon

LEMMA TypedDequeue ==
  ASSUME TypedInv, Dequeue
  PROVE  TypedInv'
<1> DEFINE c == Head(queue)
<1>0. queue # <<>> /\ current = <<>> /\ frames = <<>>
  BY DEF Dequeue, TypedInv, CurrentOK
<1>1. c \in Command /\ queue \in Seq(Command) /\ Tail(queue) \in Seq(Command)
  BY <1>0 DEF TypedInv, TypeOK
<1>2. Verdict(c) \in {"depth", "absence", "conflict", "fallback", "unmatched", "guard", "run"}
  BY DEF Verdict
<1>3. ASSUME NEW types \in Seq(Type), NEW fallback \in BOOLEAN, Begin(c, types, fallback)
      PROVE  TypedInv'
  <2> DEFINE Running == [command : Command, found : SUBSET Type, fallback : BOOLEAN, emits : Nat]
             now == [command |-> c, found |-> Known(c.target), fallback |-> fallback, emits |-> Len(types)]
  <2>1. /\ UNCHANGED <<program, frames, tx, response, outcome>>
        /\ current' = <<now>> /\ toEmit' = types /\ queue' = Tail(queue) /\ commands' = commands + 1
    BY <1>3, Zenon DEF Begin
  <2>2. Known(c.target) \in SUBSET Type /\ Len(types) \in Nat
    BY KnownTyped DEF TypedInv
  <2>3. now \in Running /\ now.emits = Len(types)
    BY <1>1, <2>2
  <2> HIDE DEF now, Running
  <2>4. current' \in Seq(Running) /\ Len(current') = 1 /\ current' # <<>> /\ current'[1] = now
    BY <2>1, <2>3
  <2>5. TypeOK'
    BY <1>1, <2>1, <2>4 DEF TypedInv, TypeOK, tx, Running
  <2>6. FramesOK'
    BY <2>1 DEF TypedInv, FramesOK, tx
  <2>7. CurrentOK'
    <3>1. events' = events /\ Len(events) \in Nat
      BY <2>1 DEF TypedInv, TypeOK, tx
    <3> QED
      BY <2>1, <2>2, <2>3, <2>4, <3>1 DEF CurrentOK
  <2> QED
    BY <2>5, <2>6, <2>7 DEF TypedInv
<1>4. CASE Verdict(c) = "run"
  <2>1. Begin(c, EmittedBy(BehaviorOf(c), Known(c.target)), FALSE)
    BY <1>4 DEF Dequeue
  <2>2. EmittedBy(BehaviorOf(c), Known(c.target)) \in Seq(Type)
    BY <1>1, CommandTyped, EmittedTyped DEF TypedInv
  <2> QED
    BY <1>3, <2>1, <2>2
<1>5. CASE Verdict(c) = "fallback"
  <2>1. Begin(c, <<GenericUpdate>>, TRUE)
    BY <1>5 DEF Dequeue
  <2>2. <<GenericUpdate>> \in Seq(Type)
    BY TypeAssumption
  <2> QED
    BY <1>3, <2>1, <2>2
<1>6. CASE Verdict(c) \notin {"run", "fallback"}
  <2>1. Abandon(Verdict(c))
    BY <1>6 DEF Dequeue
  <2> QED
    BY <1>2, <1>6, <2>1, TypedAbandon
<1> QED
  BY <1>4, <1>5, <1>6

\* Whom an event is about.
LEMMA ResolveTyped ==
  ASSUME TypeOK, NEW target \in Target, NEW same \in Aggregate \cup Nat
  PROVE  Resolve(target, same) \in Aggregate \cup Nat
<1>1. Fresh \in Nat
  BY DEF Fresh, TypeOK
<1> QED
  BY <1>1, TargetAssumption DEF Resolve, Target

\* The event that a command emits.
Emitted ==
  LET c == current[1].command
  IN [type |-> Head(toEmit), boundary |-> BehaviorOf(c).boundary, aggregate |-> Resolve(c.target, c.target),
      depth |-> c.depth, by |-> 0, rule |-> None, of |-> commands]

LEMMA EmittedIsEvent ==
  ASSUME TypeOK, current # <<>>, toEmit # <<>>
  PROVE  Emitted \in Event
<1> DEFINE c == current[1].command
<1>1. c \in Command /\ BehaviorOf(c) \in Behavior /\ c.depth \in Nat /\ c.target \in Aggregate \cup {Generated}
  BY CurrentTyped, CommandTyped
<1>2. Resolve(c.target, c.target) \in Aggregate \cup Nat
  <2>1. Fresh \in Nat
    BY DEF Fresh, TypeOK
  <2> QED
    BY <1>1, <2>1, TargetAssumption DEF Resolve
<1>3. Head(toEmit) \in Type /\ BehaviorOf(c).boundary \in Boundary /\ commands \in Nat
  BY <1>1 DEF TypeOK, Behavior
<1> HIDE DEF c
<1>4. [type |-> Head(toEmit), boundary |-> BehaviorOf(c).boundary, aggregate |-> Resolve(c.target, c.target),
       depth |-> c.depth, by |-> 0, rule |-> None, of |-> commands] \in Event
  BY <1>1, <1>2, <1>3 DEF Event
<1> QED
  BY <1>4, Zenon DEF Emitted, c

LEMMA TypedEmit ==
  ASSUME TypedInv, Emit
  PROVE  TypedInv'
<1>1. current # <<>> /\ toEmit # <<>> /\ frames = <<>>
  BY DEF Emit
<1>2. CASE Abandon("invalid")
  BY <1>2, TypedAbandon
<1>3. ASSUME Stage(Emitted, <<>>), toEmit' = Tail(toEmit),
             UNCHANGED <<program, queue, current, reactionKeys, reactionEvents, response, outcome, commands>>
      PROVE  TypedInv'
  <2>1. Emitted \in Event /\ <<>> \in Seq(ReactionCall) /\ DOMAIN <<>> = {}
    BY <1>1, EmittedIsEvent DEF TypedInv
  <2>2. /\ events' \in Seq(Event) /\ Len(events') = Len(events) + 1
        /\ DOMAIN states' \subseteq Aggregate \cup Nat
        /\ \A a \in DOMAIN states' : states'[a] \subseteq Type
        /\ frames' \in Seq(ReactionCall) /\ FramesOK'
    BY <1>3, <2>1, StageTyped DEF TypedInv
  <2>3. toEmit' \in Seq(Type) /\ Len(toEmit') = Len(toEmit) - 1
    BY <1>1, <1>3 DEF TypedInv, TypeOK
  <2>4. TypeOK'
    BY <1>3, <2>2, <2>3 DEF TypedInv, TypeOK, ReactionCall
  <2>5. current[1].emits \in Nat /\ Len(events) \in Nat /\ Len(toEmit) \in Nat
    BY <1>1, CurrentTyped DEF TypedInv, TypeOK
  <2>6. CurrentOK'
    BY <1>1, <1>3, <2>2, <2>3, <2>5 DEF TypedInv, CurrentOK
  <2> QED
    BY <2>2, <2>4, <2>6 DEF TypedInv
<1> QED
  BY <1>2, <1>3, Zenon DEF Emit, Emitted

\* The calls that are left, once the reaction at hand has been dealt with.
LEMMA RestTyped ==
  ASSUME TypedInv, frames # <<>>, frames[1].rules # <<>>
  PROVE  /\ Rest \in Seq(ReactionCall) /\ Rest # <<>> /\ DOMAIN Rest = DOMAIN frames
         /\ \A f \in DOMAIN Rest : Rest[f].event = frames[f].event
         /\ Rest[1].rules = Tail(frames[1].rules)
         /\ \A f \in DOMAIN Rest : f # 1 => Rest[f] = frames[f]
<1>1. frames \in Seq(ReactionCall) /\ frames[1] \in ReactionCall
  <2>1. frames \in Seq(ReactionCall)
    BY DEF TypedInv, TypeOK, ReactionCall
  <2> QED
    BY <2>1
<1>2. PICK now : now = [frames[1] EXCEPT !.rules = Tail(@)]
  OBVIOUS
<1>3. now \in ReactionCall /\ now.event = frames[1].event /\ now.rules = Tail(frames[1].rules)
  <2>1. \A call \in ReactionCall : /\ call.event \in Nat /\ call.rules \in Seq(Rule)
                           /\ \A rules : [call EXCEPT !.rules = rules] = [event |-> call.event, rules |-> rules]
    BY DEF ReactionCall
  <2>2. now = [event |-> frames[1].event, rules |-> Tail(frames[1].rules)]
    BY <1>1, <1>2, <2>1
  <2>3. Tail(frames[1].rules) \in Seq(Rule)
    BY <1>1, <2>1
  <2> QED
    BY <1>1, <2>1, <2>2, <2>3 DEF ReactionCall
<1>4. Rest = <<now>> \o Tail(frames)
  BY <1>2, Zenon DEF Rest
<1>5. /\ Rest \in Seq(ReactionCall) /\ Rest # <<>> /\ DOMAIN Rest = DOMAIN frames
      /\ Rest[1] = now
      /\ \A f \in DOMAIN Rest : f # 1 => Rest[f] = frames[f]
  BY <1>1, <1>3, <1>4
<1> QED
  BY <1>3, <1>5

\* The reaction at hand.
LEMMA NextTyped ==
  ASSUME TypedInv, frames # <<>>, frames[1].rules # <<>>
  PROVE  /\ Next1 \in Rule /\ Trigger \in Event
         /\ frames[1].event \in 1..Len(events) /\ Len(events) \in Nat
         /\ ReactionTarget \in Aggregate \cup Nat
<1>1. frames \in Seq(ReactionCall) /\ frames[1] \in ReactionCall /\ 1 \in DOMAIN frames /\ events \in Seq(Event)
  <2>1. frames \in Seq(ReactionCall) /\ events \in Seq(Event)
    BY DEF TypedInv, TypeOK, ReactionCall
  <2> QED
    BY <2>1
<1>2. frames[1].event \in 1..Len(events) /\ Len(events) \in Nat
  BY <1>1 DEF TypedInv, FramesOK
<1>3. Next1 \in Rule
  <2>1. frames[1].rules \in Seq(Rule)
    BY <1>1 DEF ReactionCall
  <2> QED
    BY <2>1 DEF Next1
<1>4. Trigger \in Event
  BY <1>1, <1>2 DEF Trigger
<1>5. Next1.target \in Target /\ Trigger.aggregate \in Aggregate \cup Nat
  BY <1>3, <1>4 DEF Rule, Event
<1> QED
  BY <1>2, <1>3, <1>4, <1>5, ResolveTyped DEF ReactionTarget, TypedInv

\* The event of the reaction at hand.
Reacted ==
  [type |-> Next1.emit, boundary |-> Next1.boundary, aggregate |-> ReactionTarget,
   depth |-> Trigger.depth, by |-> frames[1].event, rule |-> Next1, of |-> commands]

LEMMA ReactedIsEvent ==
  ASSUME TypedInv, frames # <<>>, frames[1].rules # <<>>
  PROVE  Reacted \in Event
<1>1. /\ Next1.emit \in Type /\ Next1.boundary \in Boundary /\ Next1 \in Rule /\ Trigger.depth \in Nat
      /\ frames[1].event \in Nat /\ ReactionTarget \in Aggregate \cup Nat /\ commands \in Nat
  <2>1. \A rule \in Rule : rule.emit \in Type /\ rule.boundary \in Boundary
    BY DEF Rule
  <2>2. \A e \in Event : e.depth \in Nat
    BY DEF Event
  <2> QED
    BY <2>1, <2>2, NextTyped DEF TypedInv, TypeOK
<1> QED
  BY <1>1 DEF Reacted, Event

LEMMA TypedFire ==
  ASSUME TypedInv, Fire
  PROVE  TypedInv'
<1>1. frames # <<>> /\ frames[1].rules # <<>> /\ Refusal = "no"
  BY DEF Fire, InReaction
<1>2. /\ Remember /\ Stage(Reacted, Rest)
      /\ UNCHANGED <<program, queue, current, toEmit, response, outcome, commands>>
  BY Zenon DEF Fire, Reacted
<1>3. current # <<>>
  BY <1>1 DEF TypedInv, CurrentOK
<1>4. /\ events' \in Seq(Event) /\ Len(events') = Len(events) + 1
      /\ DOMAIN states' \subseteq Aggregate \cup Nat
      /\ \A a \in DOMAIN states' : states'[a] \subseteq Type
      /\ frames' \in Seq(ReactionCall) /\ FramesOK'
  <2>1. Rest \in Seq(ReactionCall) /\ \A f \in DOMAIN Rest : Rest[f].event \in 1..Len(events)
    BY <1>1, RestTyped DEF TypedInv, FramesOK
  <2>2. Reacted \in Event
    BY <1>1, ReactedIsEvent
  <2> QED
    BY <1>2, <2>1, <2>2, StageTyped DEF TypedInv
<1>5. reactionEvents' \in 0..MaxReactionEvents
  <2>1. ~BudgetSpent /\ reactionEvents' = reactionEvents + 1
    BY <1>1, <1>2 DEF Refusal, Remember
  <2> QED
    BY <2>1, BudgetAssumption DEF TypedInv, TypeOK, BudgetSpent
<1>6. reactionKeys' \subseteq [boundary : Boundary, on : [boundary : Boundary \cup {AnyBoundary}, type : Type],
                               emit : Type, target : Aggregate \cup Nat]
  <2>1. reactionKeys' = reactionKeys \cup {Key(Next1, ReactionTarget)}
    BY <1>2 DEF Remember
  <2>2. Next1 \in Rule /\ ReactionTarget \in Aggregate \cup Nat
    BY <1>1, NextTyped
  <2>3. \A rule \in Rule : /\ rule.boundary \in Boundary /\ rule.emit \in Type
                           /\ rule.on \in [boundary : Boundary \cup {AnyBoundary}, type : Type]
    BY DEF Rule
  <2>4. Key(Next1, ReactionTarget)
          \in [boundary : Boundary, on : [boundary : Boundary \cup {AnyBoundary}, type : Type],
               emit : Type, target : Aggregate \cup Nat]
    BY <2>2, <2>3 DEF Key
  <2> QED
    BY <2>1, <2>4 DEF TypedInv, TypeOK
<1>7. TypeOK'
  BY <1>2, <1>4, <1>5, <1>6 DEF TypedInv, TypeOK, ReactionCall
<1>8. CurrentOK'
  <2>1. current[1].emits \in Nat /\ Len(events) \in Nat /\ Len(toEmit) \in Nat
    BY <1>3, CurrentTyped DEF TypedInv, TypeOK
  <2> QED
    BY <1>2, <1>3, <1>4, <2>1 DEF TypedInv, CurrentOK
<1> QED
  BY <1>4, <1>7, <1>8 DEF TypedInv

LEMMA TypedSkip ==
  ASSUME TypedInv, SkipReaction
  PROVE  TypedInv'
<1>1. /\ frames # <<>> /\ frames[1].rules # <<>> /\ frames' = Rest
      /\ UNCHANGED <<program, queue, current, toEmit, tx, response, outcome, commands>>
  BY Zenon DEF SkipReaction, InReaction
<1>2. Rest \in Seq(ReactionCall) /\ \A f \in DOMAIN Rest : Rest[f].event \in 1..Len(events)
  BY <1>1, RestTyped DEF TypedInv, FramesOK
<1>3. frames' \in Seq(ReactionCall) /\ FramesOK' /\ current # <<>>
  BY <1>1, <1>2 DEF TypedInv, CurrentOK, FramesOK, tx
<1> QED
  BY <1>1, <1>3, TypedUntouched DEF TypedInv, TypeOK

LEMMA TypedReactionsEnd ==
  ASSUME TypedInv, ReactionsEnd
  PROVE  TypedInv'
<1>1. /\ frames # <<>> /\ frames' = Tail(frames)
      /\ UNCHANGED <<program, queue, current, toEmit, tx, response, outcome, commands>>
  BY DEF ReactionsEnd
<1>2. frames \in Seq(ReactionCall)
  BY DEF TypedInv, TypeOK, ReactionCall
<1>3. /\ Tail(frames) \in Seq(ReactionCall)
      /\ \A f \in DOMAIN Tail(frames) : f + 1 \in DOMAIN frames /\ Tail(frames)[f] = frames[f + 1]
  BY <1>1, <1>2
<1>4. frames' \in Seq(ReactionCall) /\ FramesOK' /\ current # <<>>
  BY <1>1, <1>3 DEF TypedInv, CurrentOK, FramesOK, tx
<1> QED
  BY <1>1, <1>4, TypedUntouched DEF TypedInv, TypeOK

LEMMA TypedRespond ==
  ASSUME TypedInv, Respond
  PROVE  TypedInv'
<1>1. current # <<>> /\ frames = <<>> /\ toEmit = <<>>
  BY DEF Respond
<1>2. CASE Abandon("postcondition")
  BY <1>2, TypedAbandon
<1>3. ASSUME Enqueue(Dispatches), KeepFirst(ResponseOf(current[1].command)), current' = <<>>,
             UNCHANGED <<program, toEmit, frames, tx, outcome, commands>>
      PROVE  TypedInv'
  <2> DEFINE Told == [body : SUBSET Type, events : Seq(Event)]
             told == ResponseOf(current[1].command)
  <2>1. queue' \in Seq(Command)
    BY <1>1, <1>3, DispatchesTyped DEF Enqueue, TypedInv, TypeOK
  <2>2. told \in Told
    BY <1>1, ResponseTyped
  <2>3. response \in Seq(Told) /\ Len(response) <= 1 /\ response' = IF response = <<>> THEN <<told>> ELSE response
    BY <1>3, Zenon DEF KeepFirst, TypedInv, TypeOK
  <2> HIDE DEF Told, told
  <2>4. response' \in Seq(Told) /\ Len(response') <= 1
    BY <2>2, <2>3
  <2>5. TypeOK'
    BY <1>3, <2>1, <2>4 DEF TypedInv, TypeOK, tx, Told
  <2> QED
    BY <1>1, <1>3, <2>5 DEF TypedInv, FramesOK, CurrentOK, tx
<1> QED
  BY <1>2, <1>3 DEF Respond

LEMMA TypedStep == TypedInv /\ [Next]_vars => TypedInv'
<1> SUFFICES ASSUME TypedInv, [Next]_vars
             PROVE  TypedInv'
  OBVIOUS
<1>1. CASE RefuseReaction
  <2>1. Refusal \in {"budget", "target", "absence", "conflict", "invalid"} /\ Abandon(Refusal)
    BY <1>1 DEF RefuseReaction, Refusal
  <2> QED
    BY <2>1, TypedAbandon
<1>2. CASE Finish
  <2>1. /\ UNCHANGED <<program, queue, current, toEmit, frames, tx, response, commands>>
        /\ outcome' = "done"
    BY <1>2 DEF Finish
  <2> QED
    BY <2>1, TypedUntouched
<1>3. CASE UNCHANGED vars
  BY <1>3, TypedUntouched DEF vars, TypedInv, TypeOK
<1> QED
  BY <1>1, <1>2, <1>3, TypedDequeue, TypedEmit, TypedSkip, TypedFire, TypedReactionsEnd, TypedRespond,
     Zenon DEF Next, Stopped

(***************************************************************************)
(* Every variable of a unit of work keeps its type, in any program.        *)
(***************************************************************************)
THEOREM CascadeTyping == Spec => []TypeOK
<1>1. TypedInv => TypeOK
  BY DEF TypedInv
<1> QED
  BY TypedInit, TypedStep, <1>1, PTL DEF Spec

-----------------------------------------------------------------------------
(* The fan-out.                                                            *)

\* A reaction that has fired for an event, or before for the same aggregate.
Answered(i, rule) ==
  \E j \in Reactions :
    IF rule.target = Generated
    THEN events[j].by = i /\ events[j].rule = rule
    ELSE KeyOf(j) = Key(rule, IF rule.target = Same THEN events[i].aggregate ELSE rule.target)

\* A reaction whose turn is yet to come.
AwaitedIn(calls, i, rule) ==
  \E f \in DOMAIN calls : calls[f].event = i /\ \E k \in DOMAIN calls[f].rules : calls[f].rules[k] = rule

\* The reactions that nothing but the fired keys keeps from firing for an event.
Claims(e) == {rule \in Range(Listed(e)) : Matches(rule, e) /\ rule.when = Always}

\* Each of them has been dealt with, or is awaited.
OwedOK ==
  ~program.skipReactions =>
    \A i \in DOMAIN events : \A rule \in Claims(events[i]) : Answered(i, rule) \/ AwaitedIn(frames, i, rule)

\* A key is that of an event; an event is about one that was named, or about
\* one that was generated no later.
FiredOK == \A key \in reactionKeys : \E j \in Reactions : KeyOf(j) = key
NamesOK == \A i \in DOMAIN events : events[i].aggregate \in Aggregate \cup 1..i

FanOutInv == OwedOK /\ FiredOK /\ NamesOK /\ (outcome = "done" => current = <<>>)

\* What has been answered stays so.
LEMMA AnsweredStays ==
  ASSUME TypedInv, NEW e, events' = Append(events, e)
  PROVE  /\ \A i \in DOMAIN events : \A rule : Answered(i, rule) => Answered(i, rule)'
         /\ \A j \in Reactions : j \in Reactions' /\ KeyOf(j)' = KeyOf(j)
<1>1. \E S : events \in Seq(S)
  BY DEF TypedInv, TypeOK
<1>2. DOMAIN events \subseteq DOMAIN events' /\ \A i \in DOMAIN events : events'[i] = events[i]
  BY <1>1, AppendOne DEF EventsOK
<1>3. \A j \in Reactions : j \in Reactions' /\ KeyOf(j)' = KeyOf(j) /\ events'[j] = events[j]
  BY <1>2 DEF Reactions, KeyOf, Key
<1>4. ASSUME NEW i \in DOMAIN events, NEW rule, Answered(i, rule)
      PROVE  Answered(i, rule)'
  <2>1. PICK j \in Reactions :
          IF rule.target = Generated
          THEN events[j].by = i /\ events[j].rule = rule
          ELSE KeyOf(j) = Key(rule, IF rule.target = Same THEN events[i].aggregate ELSE rule.target)
    BY <1>4 DEF Answered
  <2>2. events'[i] = events[i]
    BY <1>2
  <2>3. j \in Reactions' /\ KeyOf(j)' = KeyOf(j) /\ events'[j] = events[j]
    BY <1>3
  <2> QED
    BY <2>1, <2>2, <2>3 DEF Answered, Key
<1> QED
  BY <1>3, <1>4

\* A step that stages an event owes its reactions, and what is awaited still.
LEMMA StageOwes ==
  ASSUME TypedInv, NEW e \in Event, NEW calls \in Seq(ReactionCall), Stage(e, calls), UNCHANGED program,
         ~program.skipReactions =>
           \A i \in DOMAIN events : \A rule \in Claims(events[i]) :
             Answered(i, rule)' \/ AwaitedIn(calls, i, rule)
  PROVE  OwedOK'
<1> SUFFICES ASSUME ~program.skipReactions, NEW i \in DOMAIN events', NEW rule, rule \in Claims(events[i])'
             PROVE  Answered(i, rule)' \/ AwaitedIn(frames', i, rule)
  BY DEF OwedOK, AwaitedIn
<1> DEFINE n == Len(events) + 1
           call == [event |-> n, rules |-> Matching(e)]
<1>1. events \in Seq(Event) /\ events' = Append(events, e) /\ frames' = <<call>> \o calls
  BY Zenon DEF TypedInv, TypeOK, Stage
<1>2. /\ DOMAIN events' = DOMAIN events \cup {n} /\ events'[n] = e
      /\ \A k \in DOMAIN events : events'[k] = events[k]
  BY <1>1, AppendOne DEF EventsOK
<1>3. \A x : Claims(x)' = Claims(x)
  BY DEF Claims, Listed
<1>4. call.event = n /\ call.rules = Matching(e)
  OBVIOUS
<1>5. e.boundary \in Boundary /\ program \in Programs
  BY DEF Event, TypedInv, TypeOK
<1>6. Matching(e) \in Seq(Rule)
  BY <1>5, MatchingElements
<1>7. call \in ReactionCall
  BY <1>1, <1>6 DEF ReactionCall
<1> HIDE DEF call
<1>8. /\ 1 \in DOMAIN frames' /\ frames'[1] = call
      /\ \A f \in DOMAIN calls : f + 1 \in DOMAIN frames' /\ frames'[f + 1] = calls[f]
  BY <1>1, <1>7
<1>9. CASE i \in DOMAIN events
  <2>1. rule \in Claims(events[i])
    BY <1>2, <1>3, <1>9 DEF Claims, Listed
  <2>2. Answered(i, rule)' \/ AwaitedIn(calls, i, rule)
    BY <1>9, <2>1
  <2>3. AwaitedIn(calls, i, rule) => AwaitedIn(frames', i, rule)
    BY <1>8 DEF AwaitedIn
  <2> QED
    BY <2>2, <2>3
<1>10. CASE i \notin DOMAIN events
  <2>1. i = n /\ events'[i] = e
    BY <1>2, <1>10
  <2>2. rule \in Claims(e)
    BY <2>1 DEF Claims, Listed
  <2>3. PICK l \in DOMAIN Listed(e) : rule = Listed(e)[l] /\ Matches(rule, e)
    BY <2>2 DEF Claims, Range
  <2>4. PICK k \in DOMAIN Matching(e) : Matching(e)[k] = rule
    BY <1>5, <2>3, MatchingElements
  <2>5. AwaitedIn(frames', i, rule)
    BY <1>4, <1>8, <2>1, <2>4 DEF AwaitedIn
  <2> QED
    BY <2>5
<1> QED
  BY <1>9, <1>10

\* Whom the event that is staged is about.
LEMMA StageNames ==
  ASSUME TypedInv, NamesOK, NEW e, events' = Append(events, e), e.aggregate \in Aggregate \cup 1..(Len(events) + 1)
  PROVE  NamesOK'
<1>1. events \in Seq(Event) /\ Len(events) \in Nat
  BY DEF TypedInv, TypeOK
<1>2. /\ DOMAIN events' = DOMAIN events \cup {Len(events) + 1} /\ events'[Len(events) + 1] = e
      /\ \A i \in DOMAIN events : events'[i] = events[i]
  BY <1>1, AppendOne DEF EventsOK
<1> QED
  BY <1>2 DEF NamesOK

\* A step that stages nothing.
LEMMA FanOutUntouched ==
  ASSUME FanOutInv, UNCHANGED <<program, events, reactionKeys, frames>>, outcome' = "done" => current' = <<>>
  PROVE  FanOutInv'
<1>1. Reactions' = Reactions /\ \A j : KeyOf(j)' = KeyOf(j)
  BY DEF Reactions, KeyOf, Key
<1>2. \A i, rule : Answered(i, rule)' <=> Answered(i, rule)
  BY <1>1 DEF Answered, Key
<1>3. \A e : Claims(e)' = Claims(e)
  BY DEF Claims, Listed
<1>4. \A i : Claims(events[i])' = Claims(events[i])
  BY <1>3 DEF Claims, Listed
<1>5. OwedOK'
  BY <1>2, <1>4 DEF FanOutInv, OwedOK, AwaitedIn
<1>6. FiredOK' /\ NamesOK'
  BY <1>1 DEF FanOutInv, FiredOK, NamesOK
<1> QED
  BY <1>5, <1>6 DEF FanOutInv

\* A step that stages nothing, and leaves what it does not deal with.
LEMMA FanOutFrames ==
  ASSUME TypedInv, FanOutInv, frames # <<>>, UNCHANGED <<program, current, tx, outcome>>,
         ~program.skipReactions =>
           \A i \in DOMAIN events : \A rule \in Claims(events[i]) :
             AwaitedIn(frames, i, rule) => Answered(i, rule) \/ AwaitedIn(frames', i, rule)
  PROVE  FanOutInv'
<1>1. Reactions' = Reactions /\ \A j : KeyOf(j)' = KeyOf(j)
  BY DEF Reactions, KeyOf, Key, tx
<1>2. \A i, rule : Answered(i, rule)' <=> Answered(i, rule)
  BY <1>1 DEF Answered, Key, tx
<1>3. \A i : Claims(events[i])' = Claims(events[i])
  BY DEF Claims, Listed, tx
<1>4. OwedOK'
  <2> SUFFICES ASSUME ~program.skipReactions, NEW i \in DOMAIN events, NEW rule \in Claims(events[i])
               PROVE  Answered(i, rule) \/ AwaitedIn(frames', i, rule)
    BY <1>2, <1>3 DEF OwedOK, AwaitedIn, tx
  <2>1. Answered(i, rule) \/ AwaitedIn(frames, i, rule)
    BY DEF FanOutInv, OwedOK
  <2> QED
    BY <2>1
<1>5. FiredOK' /\ NamesOK'
  BY <1>1 DEF FanOutInv, FiredOK, NamesOK, tx
<1> QED
  BY <1>4, <1>5 DEF FanOutInv

LEMMA FanOutEmit ==
  ASSUME TypedInv, FanOutInv, Emit
  PROVE  FanOutInv'
<1>1. current # <<>> /\ toEmit # <<>> /\ frames = <<>>
  BY DEF Emit
<1>2. CASE Abandon("invalid")
  BY <1>2, FanOutUntouched DEF Abandon, tx
<1>3. ASSUME Stage(Emitted, <<>>), UNCHANGED <<program, current, reactionKeys, outcome>>
      PROVE  FanOutInv'
  <2>1. Emitted \in Event /\ events' = Append(events, Emitted)
    BY <1>1, <1>3, EmittedIsEvent DEF TypedInv, Stage
  <2>2. /\ \A i \in DOMAIN events : \A rule : Answered(i, rule) => Answered(i, rule)'
        /\ \A j \in Reactions : j \in Reactions' /\ KeyOf(j)' = KeyOf(j)
    BY <2>1, AnsweredStays
  <2>3. \A i, rule : ~AwaitedIn(frames, i, rule)
    BY <1>1 DEF AwaitedIn
  <2>4. OwedOK'
    <3>1. <<>> \in Seq(ReactionCall)
      OBVIOUS
    <3> QED
      BY <1>3, <2>1, <2>2, <2>3, <3>1, StageOwes DEF FanOutInv, OwedOK
  <2>5. Emitted.aggregate \in Aggregate \cup 1..(Len(events) + 1)
    <3>1. current[1].command.target \in Aggregate \cup {Generated}
      BY <1>1, CurrentTyped, CommandTyped DEF TypedInv
    <3>2. Emitted.aggregate = Resolve(current[1].command.target, current[1].command.target)
      BY DEF Emitted
    <3>3. Fresh \in 1..(Len(events) + 1)
      BY DEF Fresh, TypedInv, TypeOK
    <3> QED
      BY <3>1, <3>2, <3>3, TargetAssumption DEF Resolve
  <2>6. NamesOK'
    BY <2>1, <2>5, StageNames DEF FanOutInv
  <2>7. FiredOK'
    BY <1>3, <2>2 DEF FanOutInv, FiredOK
  <2> QED
    BY <1>3, <2>4, <2>6, <2>7 DEF FanOutInv
<1> QED
  BY <1>2, <1>3, Zenon DEF Emit, Emitted

\* The reaction at hand, and what is awaited besides.
LEMMA AwaitedRest ==
  ASSUME TypedInv, frames # <<>>, frames[1].rules # <<>>, NEW i, NEW rule, AwaitedIn(frames, i, rule)
  PROVE  (i = frames[1].event /\ rule = Next1) \/ AwaitedIn(Rest, i, rule)
<1>1. /\ DOMAIN Rest = DOMAIN frames
      /\ \A f \in DOMAIN Rest : Rest[f].event = frames[f].event
      /\ Rest[1].rules = Tail(frames[1].rules)
      /\ \A f \in DOMAIN Rest : f # 1 => Rest[f] = frames[f]
  BY RestTyped
<1>2. PICK f \in DOMAIN frames : frames[f].event = i /\ \E k \in DOMAIN frames[f].rules : frames[f].rules[k] = rule
  BY DEF AwaitedIn
<1>3. PICK k \in DOMAIN frames[f].rules : frames[f].rules[k] = rule
  BY <1>2
<1>4. CASE f # 1
  BY <1>1, <1>2, <1>3, <1>4 DEF AwaitedIn
<1>5. CASE f = 1 /\ k = 1
  BY <1>2, <1>3, <1>5 DEF Next1
<1>6. CASE f = 1 /\ k # 1
  <2>1. frames[1].rules \in Seq(Rule)
    <3>1. frames \in Seq(ReactionCall) /\ 1 \in DOMAIN frames
      BY <1>2, <1>6 DEF TypedInv, TypeOK, ReactionCall
    <3>2. frames[1] \in ReactionCall
      BY <3>1
    <3> QED
      BY <3>2 DEF ReactionCall
  <2>2. k - 1 \in DOMAIN Tail(frames[1].rules) /\ Tail(frames[1].rules)[k - 1] = frames[1].rules[k]
    BY <1>3, <1>6, <2>1
  <2> QED
    BY <1>1, <1>2, <1>3, <1>6, <2>2 DEF AwaitedIn
<1> QED
  BY <1>4, <1>5, <1>6

\* An unconditional reaction whose key is remembered has fired.
LEMMA SkippedIsAnswered ==
  ASSUME TypedInv, FanOutInv, SkipReaction, Next1 \in Claims(Trigger)
  PROVE  Answered(frames[1].event, Next1)
<1> DEFINE i == frames[1].event
<1>1. frames # <<>> /\ frames[1].rules # <<>> /\ ~Due
  BY DEF SkipReaction, InReaction
<1>2. Next1.when = Always
  BY DEF Claims
<1>3. Holds(Next1.when, Known(Trigger.aggregate))
  BY <1>2 DEF Holds, Always
<1>4. Key(Next1, ReactionTarget) \in reactionKeys
  BY <1>1, <1>3 DEF Due
<1>5. PICK j \in Reactions : KeyOf(j) = Key(Next1, ReactionTarget)
  BY <1>4 DEF FanOutInv, FiredOK
<1>6. events[j].aggregate = ReactionTarget
  BY <1>5 DEF KeyOf, Key
<1>7. events[j].aggregate \in Aggregate \cup 1..Len(events) /\ Fresh \in Nat /\ Fresh \notin 1..Len(events)
  <2>1. j \in 1..Len(events) /\ Len(events) \in Nat
    BY DEF Reactions, TypedInv, TypeOK
  <2>2. events[j].aggregate \in Aggregate \cup 1..j
    BY <2>1 DEF FanOutInv, NamesOK, TypedInv, TypeOK
  <2> QED
    BY <2>1, <2>2 DEF Fresh
<1>8. Fresh \notin Aggregate
  BY <1>7, AggregateAssumption
<1>9. Next1.target # Generated
  BY <1>6, <1>7, <1>8, TargetAssumption DEF ReactionTarget, Resolve
<1>10. ReactionTarget = IF Next1.target = Same THEN events[i].aggregate ELSE Next1.target
  BY <1>9 DEF ReactionTarget, Resolve, Trigger
<1> QED
  BY <1>5, <1>9, <1>10 DEF Answered

LEMMA FanOutSkip ==
  ASSUME TypedInv, FanOutInv, SkipReaction
  PROVE  FanOutInv'
<1>1. /\ frames # <<>> /\ frames[1].rules # <<>> /\ frames' = Rest
      /\ UNCHANGED <<program, current, tx, outcome>>
  BY Zenon DEF SkipReaction, InReaction
<1>2. ASSUME NEW i \in DOMAIN events, NEW rule \in Claims(events[i]), AwaitedIn(frames, i, rule)
      PROVE  Answered(i, rule) \/ AwaitedIn(frames', i, rule)
  <2>1. (i = frames[1].event /\ rule = Next1) \/ AwaitedIn(Rest, i, rule)
    BY <1>1, <1>2, AwaitedRest
  <2>2. i = frames[1].event /\ rule = Next1 => Answered(i, rule)
    BY <1>2, SkippedIsAnswered DEF Trigger
  <2>3. AwaitedIn(Rest, i, rule) => AwaitedIn(frames', i, rule)
    BY <1>1
  <2> QED
    BY <2>1, <2>2, <2>3
<1> QED
  BY <1>1, <1>2, FanOutFrames

LEMMA FanOutEnd ==
  ASSUME TypedInv, FanOutInv, ReactionsEnd
  PROVE  FanOutInv'
<1>1. /\ frames # <<>> /\ frames[1].rules = <<>> /\ frames' = Tail(frames)
      /\ UNCHANGED <<program, current, tx, outcome>>
  BY DEF ReactionsEnd
<1>2. frames \in Seq(ReactionCall)
  BY DEF TypedInv, TypeOK, ReactionCall
<1>3. ASSUME NEW i \in DOMAIN events, NEW rule \in Claims(events[i]), AwaitedIn(frames, i, rule)
      PROVE  AwaitedIn(frames', i, rule)
  <2>1. PICK f \in DOMAIN frames : frames[f].event = i /\ \E k \in DOMAIN frames[f].rules : frames[f].rules[k] = rule
    BY <1>3 DEF AwaitedIn
  <2>2. f # 1
    BY <1>1, <2>1
  <2>3. f - 1 \in DOMAIN frames' /\ frames'[f - 1] = frames[f]
    BY <1>1, <1>2, <2>2
  <2> QED
    BY <2>1, <2>3 DEF AwaitedIn
<1> QED
  BY <1>1, <1>3, FanOutFrames

LEMMA FanOutFire ==
  ASSUME TypedInv, FanOutInv, Fire
  PROVE  FanOutInv'
<1>0. PICK n, i1, fired : n = Len(events) + 1 /\ i1 = frames[1].event /\ fired = Next1
  OBVIOUS
<1>1. /\ frames # <<>> /\ frames[1].rules # <<>>
      /\ reactionKeys' = reactionKeys \cup {Key(Next1, ReactionTarget)} /\ Stage(Reacted, Rest)
      /\ UNCHANGED <<program, current, outcome>>
  BY Zenon DEF Fire, InReaction, Remember, Reacted
<1>2. Reacted \in Event /\ events' = Append(events, Reacted) /\ events \in Seq(Event)
  BY <1>1, ReactedIsEvent DEF Stage, TypedInv, TypeOK
<1>3. /\ \A i \in DOMAIN events : \A rule : Answered(i, rule) => Answered(i, rule)'
      /\ \A j \in Reactions : j \in Reactions' /\ KeyOf(j)' = KeyOf(j)
  BY <1>2, AnsweredStays
<1>4. /\ DOMAIN events' = DOMAIN events \cup {n} /\ events'[n] = Reacted
      /\ \A i \in DOMAIN events : events'[i] = events[i]
  BY <1>0, <1>2, AppendOne DEF EventsOK
<1>5. i1 \in DOMAIN events /\ i1 # 0
  BY <1>0, <1>1, <1>2, NextTyped
<1>6. Reacted.rule = fired /\ Reacted.by = i1 /\ Reacted.aggregate = ReactionTarget
  BY <1>0 DEF Reacted
<1>7. n \in Reactions' /\ KeyOf(n)' = Key(fired, ReactionTarget)
  BY <1>4, <1>5, <1>6 DEF Reactions, KeyOf, Key
<1>8. Answered(i1, fired)'
  <2>1. ReactionTarget = IF fired.target = Same THEN events[i1].aggregate
                         ELSE IF fired.target = Generated THEN Fresh ELSE fired.target
    BY <1>0, TargetAssumption DEF ReactionTarget, Resolve, Trigger
  <2>2. events'[n].by = i1 /\ events'[n].rule = fired /\ events'[i1] = events[i1]
    BY <1>4, <1>5, <1>6
  <2>3. IF fired.target = Generated
        THEN events'[n].by = i1 /\ events'[n].rule = fired
        ELSE KeyOf(n)' = Key(fired, IF fired.target = Same THEN events'[i1].aggregate ELSE fired.target)
    BY <1>7, <2>1, <2>2
  <2> QED
    BY <1>7, <2>3 DEF Answered, Key
<1>9. OwedOK'
  <2>1. Rest \in Seq(ReactionCall)
    BY <1>1, RestTyped
  <2>2. ASSUME ~program.skipReactions, NEW i \in DOMAIN events, NEW rule \in Claims(events[i])
        PROVE  Answered(i, rule)' \/ AwaitedIn(Rest, i, rule)
    <3>1. Answered(i, rule) \/ AwaitedIn(frames, i, rule)
      BY <2>2 DEF FanOutInv, OwedOK
    <3>2. AwaitedIn(frames, i, rule) => (i = i1 /\ rule = fired) \/ AwaitedIn(Rest, i, rule)
      BY <1>0, <1>1, AwaitedRest
    <3>3. i = i1 /\ rule = fired => Answered(i, rule)'
      BY <1>8
    <3> QED
      BY <1>3, <3>1, <3>2, <3>3
  <2> QED
    BY <1>1, <1>2, <2>1, <2>2, StageOwes
<1>10. FiredOK'
  <2>1. reactionKeys' = reactionKeys \cup {Key(fired, ReactionTarget)}
    BY <1>0, <1>1
  <2> DEFINE key == Key(fired, ReactionTarget)
  <2> HIDE DEF key
  <2>2. reactionKeys' = reactionKeys \cup {key} /\ KeyOf(n)' = key
    BY <1>7, <2>1 DEF key
  <2> QED
    BY <1>3, <1>7, <2>2 DEF FanOutInv, FiredOK
<1>11. NamesOK'
  <2>1. ReactionTarget \in Aggregate \cup 1..n
    <3>1. Next1 \in Rule /\ Trigger.aggregate \in Aggregate \cup 1..n
      <4>1. Next1 \in Rule /\ i1 \in 1..Len(events) /\ Len(events) \in Nat
        BY <1>0, <1>1, NextTyped
      <4>2. Trigger.aggregate \in Aggregate \cup 1..i1
        BY <1>0, <1>5 DEF FanOutInv, NamesOK, Trigger
      <4> QED
        BY <1>0, <4>1, <4>2
    <3>2. Next1.target \in Aggregate \cup {Generated, Same}
      BY <3>1 DEF Rule, Target
    <3>3. Fresh \in 1..n
      BY <1>0, <1>2 DEF Fresh
    <3> QED
      BY <3>1, <3>2, <3>3, TargetAssumption DEF ReactionTarget, Resolve
  <2> QED
    BY <1>0, <1>2, <1>6, <2>1, StageNames DEF FanOutInv
<1> QED
  BY <1>1, <1>9, <1>10, <1>11 DEF FanOutInv

LEMMA FanOutStep == TypedInv /\ FanOutInv /\ [Next]_vars => FanOutInv'
<1> SUFFICES ASSUME TypedInv, FanOutInv, [Next]_vars
             PROVE  FanOutInv'
  OBVIOUS
<1>1. CASE Dequeue \/ RefuseReaction \/ Respond \/ Finish \/ Stopped \/ UNCHANGED vars
  <2>1. UNCHANGED <<program, events, reactionKeys, frames>>
    BY <1>1, Zenon DEF Dequeue, Begin, RefuseReaction, Respond, Finish, Stopped, Abandon, vars, tx
  <2>2. outcome' = "done" => current' = <<>>
    <3>1. CASE Dequeue \/ RefuseReaction
      <4>1. outcome = "running" /\ (outcome' = "running" \/ outcome' \in {Verdict(Head(queue)), Refusal})
        BY <3>1 DEF Dequeue, Begin, RefuseReaction, Abandon, InReaction
      <4>2. Verdict(Head(queue)) # "done" /\ Refusal # "done"
        BY DEF Verdict, Refusal
      <4> QED
        BY <4>1, <4>2
    <3>2. CASE Respond
      BY <3>2 DEF Respond, Abandon
    <3>3. CASE Finish
      BY <3>3 DEF Finish
    <3>4. CASE Stopped \/ UNCHANGED vars
      BY <3>4 DEF Stopped, vars, FanOutInv
    <3> QED
      BY <1>1, <3>1, <3>2, <3>3, <3>4
  <2> QED
    BY <2>1, <2>2, FanOutUntouched
<1> QED
  BY <1>1, FanOutEmit, FanOutSkip, FanOutFire, FanOutEnd, Zenon DEF Next

LEMMA FanOutInit == Init => FanOutInv
<1> SUFFICES ASSUME Init
             PROVE  FanOutInv
  OBVIOUS
<1>1. events = <<>> /\ reactionKeys = {} /\ outcome = "running"
  BY DEF Init
<1> QED
  BY <1>1 DEF FanOutInv, OwedOK, FiredOK, NamesOK

(***************************************************************************)
(* A finished unit has had the reactions to each of its events that had    *)
(* nothing but the fired keys to keep them from firing, in any program:    *)
(* those to the events of reactions too.  For a key that was taken the     *)
(* reaction that took it stands, be it the same or another with an equal   *)
(* key.                                                                    *)
(***************************************************************************)
THEOREM NothingIsLeft == Spec => []FanOutIsComplete
<1>1. TypedInv /\ FanOutInv => FanOutIsComplete
  <2> SUFFICES ASSUME TypedInv, FanOutInv, outcome = "done", ~program.skipReactions,
                      NEW i \in DOMAIN events, NEW rule \in Range(Listed(events[i])),
                      Matches(rule, events[i]), rule.when = Always
               PROVE  Answered(i, rule)
    BY Zenon DEF FanOutIsComplete, Answered
  <2>1. frames = <<>>
    BY DEF FanOutInv, TypedInv, CurrentOK
  <2>2. rule \in Claims(events[i])
    BY DEF Claims
  <2>3. Answered(i, rule) \/ AwaitedIn(frames, i, rule)
    BY <2>2 DEF FanOutInv, OwedOK
  <2> QED
    BY <2>1, <2>3 DEF AwaitedIn
<1>2. TypedInv /\ FanOutInv /\ [Next]_vars => (TypedInv /\ FanOutInv)'
  BY TypedStep, FanOutStep
<1> QED
  BY TypedInit, FanOutInit, <1>1, <1>2, PTL DEF Spec

-----------------------------------------------------------------------------
(* The order of the events.                                                *)

\* Calls are nested: that for the later event is further inside; what each has
\* left to do comes after what it has done, by the names of the boundaries.
CallsOrdered(calls, log) ==
  /\ \A f, g \in DOMAIN calls : f < g => calls[g].event < calls[f].event
  /\ \A f \in DOMAIN calls : \A k, l \in DOMAIN calls[f].rules :
       k < l => calls[f].rules[k].boundary <= calls[f].rules[l].boundary
  /\ \A f \in DOMAIN calls : \A k \in (calls[f].event + 1)..Len(log) :
       /\ log[k].by >= calls[f].event
       /\ log[k].by = calls[f].event =>
            \A l \in DOMAIN calls[f].rules : log[k].rule.boundary <= calls[f].rules[l].boundary

LogOrdered(log) ==
  /\ \A j \in DOMAIN log : log[j].by # 0 =>
       /\ log[j].by \in 1..(j - 1)
       /\ \A k \in (log[j].by + 1)..(j - 1) :
            /\ log[k].by >= log[j].by
            /\ log[k].by = log[j].by => log[k].rule.boundary <= log[j].rule.boundary
  /\ \A i, j \in DOMAIN log : i < j => log[i].depth <= log[j].depth

Level == current[1].command.depth

\* The queue has commands of one level, and behind them some of the next.
LevelsOK ==
  /\ \A a, b \in DOMAIN queue : a < b => queue[a].depth <= queue[b].depth /\ queue[b].depth <= queue[a].depth + 1
  /\ current # <<>> =>
       /\ \A a \in DOMAIN queue : Level <= queue[a].depth /\ queue[a].depth <= Level + 1
       /\ \A i \in DOMAIN events : events[i].depth <= Level
       /\ \A f \in DOMAIN frames : events[frames[f].event].depth = Level
  /\ current = <<>> => \A i \in DOMAIN events, a \in DOMAIN queue : events[i].depth <= queue[a].depth

OrderInv == CallsOrdered(frames, events) /\ LogOrdered(events) /\ LevelsOK

\* One more event, that belongs to the innermost calls.
LEMMA CallsGrow ==
  ASSUME NEW log \in Seq(Event), NEW e \in Event, NEW calls \in Seq(ReactionCall),
         \A f \in DOMAIN calls : calls[f].event \in 1..Len(log),
         CallsOrdered(calls, log),
         \A f \in DOMAIN calls :
           /\ e.by >= calls[f].event
           /\ e.by = calls[f].event =>
                \A l \in DOMAIN calls[f].rules : e.rule.boundary <= calls[f].rules[l].boundary
  PROVE  CallsOrdered(calls, Append(log, e))
<1> DEFINE longer == Append(log, e)
<1>1. /\ Len(log) \in Nat /\ Len(longer) = Len(log) + 1
      /\ \A k \in 1..Len(log) : longer[k] = log[k]
      /\ longer[Len(log) + 1] = e
  OBVIOUS
<1>2. \A f \in DOMAIN calls : calls[f].event \in Nat
  BY <1>1
<1> HIDE DEF longer
<1>3. ASSUME NEW f \in DOMAIN calls, NEW k \in (calls[f].event + 1)..Len(longer)
      PROVE  /\ longer[k].by >= calls[f].event
             /\ longer[k].by = calls[f].event =>
                  \A l \in DOMAIN calls[f].rules : longer[k].rule.boundary <= calls[f].rules[l].boundary
  <2>1. CASE k = Len(log) + 1
    BY <1>1, <2>1
  <2>2. CASE k # Len(log) + 1
    <3>1. k \in (calls[f].event + 1)..Len(log) /\ longer[k] = log[k]
      BY <1>1, <1>2, <2>2
    <3> QED
      BY <3>1 DEF CallsOrdered
  <2> QED
    BY <2>1, <2>2
<1>4. CallsOrdered(calls, longer)
  BY <1>3 DEF CallsOrdered
<1> QED
  BY <1>4 DEF longer

\* A call for the last event.
LEMMA CallsNest ==
  ASSUME NEW log \in Seq(Event), NEW calls \in Seq(ReactionCall), NEW call \in ReactionCall,
         \A f \in DOMAIN calls : calls[f].event < Len(log),
         CallsOrdered(calls, log), call.event = Len(log),
         \A k, l \in DOMAIN call.rules : k < l => call.rules[k].boundary <= call.rules[l].boundary
  PROVE  CallsOrdered(<<call>> \o calls, log)
<1>1. PICK all : all = <<call>> \o calls
  OBVIOUS
<1>2. /\ \A f \in DOMAIN all : f = 1 \/ (f # 1 /\ f - 1 \in DOMAIN calls /\ all[f] = calls[f - 1])
      /\ all[1] = call /\ DOMAIN all \subseteq Nat /\ Len(log) \in Nat
  BY <1>1
<1>3. \A f, g \in DOMAIN all : f < g => all[g].event < all[f].event
  <2> TAKE f, g \in DOMAIN all
  <2> HAVE f < g
  <2>1. g # 1 /\ g - 1 \in DOMAIN calls /\ all[g] = calls[g - 1] /\ f \in Nat /\ g \in Nat
    <3>1. g # 1
      BY <1>1
    <3> QED
      BY <1>2, <3>1
  <2>2. CASE f = 1
    BY <1>2, <2>1, <2>2
  <2>3. CASE f # 1
    <3>1. f - 1 \in DOMAIN calls /\ all[f] = calls[f - 1] /\ f - 1 < g - 1
      BY <1>2, <2>1, <2>3
    <3> QED
      BY <2>1, <3>1 DEF CallsOrdered
  <2> QED
    BY <2>2, <2>3
<1>4. ASSUME NEW f \in DOMAIN all
      PROVE  /\ \A k, l \in DOMAIN all[f].rules : k < l => all[f].rules[k].boundary <= all[f].rules[l].boundary
             /\ \A k \in (all[f].event + 1)..Len(log) :
                  /\ log[k].by >= all[f].event
                  /\ log[k].by = all[f].event =>
                       \A l \in DOMAIN all[f].rules : log[k].rule.boundary <= all[f].rules[l].boundary
  <2>1. CASE f = 1
    <3>1. (all[f].event + 1)..Len(log) = {}
      BY <1>2, <2>1
    <3> QED
      BY <1>2, <2>1, <3>1
  <2>2. CASE f # 1
    <3>1. f - 1 \in DOMAIN calls /\ all[f] = calls[f - 1]
      BY <1>2, <2>2
    <3> QED
      BY <3>1 DEF CallsOrdered
  <2> QED
    BY <2>1, <2>2
<1>5. CallsOrdered(all, log)
  BY <1>3, <1>4 DEF CallsOrdered
<1> QED
  BY <1>1, <1>5

\* A step that stages an event.
LEMMA StageOrders ==
  ASSUME TypedInv, NEW e \in Event, NEW calls \in Seq(ReactionCall), Stage(e, calls), UNCHANGED program,
         \A f \in DOMAIN calls : calls[f].event \in 1..Len(events),
         CallsOrdered(calls, events),
         \A f \in DOMAIN calls :
           /\ e.by >= calls[f].event
           /\ e.by = calls[f].event =>
                \A l \in DOMAIN calls[f].rules : e.rule.boundary <= calls[f].rules[l].boundary
  PROVE  CallsOrdered(frames', events')
<1> DEFINE call == [event |-> Len(events) + 1, rules |-> Matching(e)]
<1>1. events \in Seq(Event) /\ events' = Append(events, e)
  BY DEF TypedInv, TypeOK, Stage
<1>2. events' \in Seq(Event) /\ Len(events') = Len(events) + 1 /\ Len(events) \in Nat
  BY <1>1
<1>3. CallsOrdered(calls, events')
  BY <1>1, CallsGrow
<1>4. CASE program.skipReactions
  BY <1>3, <1>4 DEF Stage
<1>5. CASE ~program.skipReactions
  <2>1. frames' = <<call>> \o calls
    BY <1>5, Zenon DEF Stage
  <2>2. e.boundary \in Boundary /\ program \in Programs
    BY DEF Event, TypedInv, TypeOK
  <2>3. /\ Matching(e) \in Seq(Rule)
        /\ \A k, l \in DOMAIN Matching(e) : k < l => Matching(e)[k].boundary <= Matching(e)[l].boundary
    BY <2>2, MatchingElements
  <2>4. call.event = Len(events') /\ call.rules = Matching(e) /\ call \in ReactionCall
    BY <1>2, <2>3 DEF ReactionCall
  <2>5. \A f \in DOMAIN calls : calls[f].event < Len(events')
    BY <1>2
  <2> HIDE DEF call
  <2>6. \A k, l \in DOMAIN call.rules : k < l => call.rules[k].boundary <= call.rules[l].boundary
    BY <2>3, <2>4
  <2> QED
    BY <1>2, <1>3, <2>1, <2>4, <2>5, <2>6, CallsNest
<1> QED
  BY <1>4, <1>5

\* The calls without the reaction at hand, or without the innermost one.
LEMMA RestOrdered ==
  ASSUME TypedInv, CallsOrdered(frames, events), frames # <<>>, frames[1].rules # <<>>
  PROVE  CallsOrdered(Rest, events)
<1> PICK calls : calls = Rest
  OBVIOUS
<1>1. /\ DOMAIN calls = DOMAIN frames
      /\ \A f \in DOMAIN calls : calls[f].event = frames[f].event
      /\ calls[1].rules = Tail(frames[1].rules)
      /\ \A f \in DOMAIN calls : f # 1 => calls[f] = frames[f]
  BY RestTyped
<1>2. frames[1].rules \in Seq(Rule) /\ 1 \in DOMAIN frames
  <2>1. frames \in Seq(ReactionCall)
    BY DEF TypedInv, TypeOK, ReactionCall
  <2>2. frames[1] \in ReactionCall /\ 1 \in DOMAIN frames
    BY <2>1
  <2> QED
    BY <2>2 DEF ReactionCall
<1>3. \A l \in DOMAIN calls[1].rules :
        /\ l \in Nat
        /\ l + 1 \in DOMAIN frames[1].rules
        /\ calls[1].rules[l] = frames[1].rules[l + 1]
  BY <1>1, <1>2
<1>4. ASSUME NEW f \in DOMAIN calls
      PROVE  /\ \A k, l \in DOMAIN calls[f].rules : k < l => calls[f].rules[k].boundary <= calls[f].rules[l].boundary
             /\ \A k \in (calls[f].event + 1)..Len(events) :
                  /\ events[k].by >= calls[f].event
                  /\ events[k].by = calls[f].event =>
                       \A l \in DOMAIN calls[f].rules : events[k].rule.boundary <= calls[f].rules[l].boundary
  <2>1. CASE f = 1
    <3>1. \A k, l \in DOMAIN calls[1].rules : k < l => calls[1].rules[k].boundary <= calls[1].rules[l].boundary
      <4> TAKE k, l \in DOMAIN calls[1].rules
      <4> HAVE k < l
      <4>1. k + 1 < l + 1
        BY <1>3
      <4> QED
        BY <1>2, <1>3, <4>1 DEF CallsOrdered
    <3>2. ASSUME NEW k \in (frames[1].event + 1)..Len(events)
          PROVE  /\ events[k].by >= frames[1].event
                 /\ events[k].by = frames[1].event =>
                      \A l \in DOMAIN calls[1].rules : events[k].rule.boundary <= calls[1].rules[l].boundary
      BY <1>2, <1>3 DEF CallsOrdered
    <3>3. calls[1].event = frames[1].event
      BY <1>1, <1>2
    <3> QED
      BY <2>1, <3>1, <3>2, <3>3
  <2>2. CASE f # 1
    BY <1>1, <2>2 DEF CallsOrdered
  <2> QED
    BY <2>1, <2>2
<1>5. \A f, g \in DOMAIN calls : f < g => calls[g].event < calls[f].event
  BY <1>1 DEF CallsOrdered
<1> QED
  BY <1>4, <1>5 DEF CallsOrdered

LEMMA TailOrdered ==
  ASSUME TypedInv, CallsOrdered(frames, events), frames # <<>>
  PROVE  /\ CallsOrdered(Tail(frames), events)
         /\ \A f \in DOMAIN Tail(frames) : f + 1 \in DOMAIN frames /\ Tail(frames)[f] = frames[f + 1]
<1> PICK calls : calls = Tail(frames)
  OBVIOUS
<1>1. frames \in Seq(ReactionCall)
  BY DEF TypedInv, TypeOK, ReactionCall
<1>2. \A f \in DOMAIN calls : f \in Nat /\ f + 1 \in DOMAIN frames /\ calls[f] = frames[f + 1]
  BY <1>1
<1>3. \A f, g \in DOMAIN calls : f < g => calls[g].event < calls[f].event
  <2> TAKE f, g \in DOMAIN calls
  <2> HAVE f < g
  <2>1. f + 1 < g + 1
    BY <1>2
  <2> QED
    BY <1>2, <2>1 DEF CallsOrdered
<1>4. CallsOrdered(calls, events)
  BY <1>2, <1>3 DEF CallsOrdered
<1> QED
  BY <1>2, <1>4

\* One more event of the level of the last one, or of a deeper one.
LEMMA LogGrows ==
  ASSUME NEW log \in Seq(Event), NEW e \in Event, LogOrdered(log),
         \A i \in DOMAIN log : log[i].depth <= e.depth,
         e.by # 0 =>
           /\ e.by \in 1..Len(log)
           /\ \A k \in (e.by + 1)..Len(log) :
                /\ log[k].by >= e.by
                /\ log[k].by = e.by => log[k].rule.boundary <= e.rule.boundary
  PROVE  LogOrdered(Append(log, e))
<1> PICK n, longer : n = Len(log) + 1 /\ longer = Append(log, e)
  OBVIOUS
<1>1. /\ Len(log) \in Nat /\ DOMAIN log = 1..Len(log) /\ n = Len(log) + 1
      /\ DOMAIN longer = 1..n /\ longer[n] = e
      /\ \A k \in 1..Len(log) : longer[k] = log[k]
  OBVIOUS
<1>2. \A j \in 1..n : j # n => j \in 1..Len(log)
  BY <1>1
<1>3. ASSUME NEW j \in 1..n, longer[j].by # 0
      PROVE  /\ longer[j].by \in 1..(j - 1)
             /\ \A k \in (longer[j].by + 1)..(j - 1) :
                  /\ longer[k].by >= longer[j].by
                  /\ longer[k].by = longer[j].by => longer[k].rule.boundary <= longer[j].rule.boundary
  <2>1. CASE j = n
    <3>1. longer[j] = e /\ e.by \in 1..Len(log) /\ j - 1 = Len(log)
      BY <1>1, <1>3, <2>1
    <3>2. \A k \in (e.by + 1)..Len(log) : longer[k] = log[k]
      BY <1>1, <3>1
    <3> QED
      BY <3>1, <3>2
  <2>2. CASE j # n
    <3>1. j \in DOMAIN log /\ longer[j] = log[j]
      BY <1>1, <1>2, <2>2
    <3>2. log[j].by \in 1..(j - 1)
      BY <1>3, <3>1 DEF LogOrdered
    <3>3. \A k \in (log[j].by + 1)..(j - 1) : longer[k] = log[k]
      BY <1>1, <3>1, <3>2
    <3> QED
      BY <1>3, <3>1, <3>2, <3>3 DEF LogOrdered
  <2> QED
    BY <2>1, <2>2
<1>4. ASSUME NEW i \in 1..n, NEW j \in 1..n, i < j
      PROVE  longer[i].depth <= longer[j].depth
  <2>1. i \in DOMAIN log /\ longer[i] = log[i]
    BY <1>1, <1>4
  <2>2. CASE j = n
    BY <1>1, <2>1, <2>2
  <2>3. CASE j # n
    <3>1. j \in DOMAIN log /\ longer[j] = log[j]
      BY <1>1, <1>2, <2>3
    <3> QED
      BY <1>4, <2>1, <3>1 DEF LogOrdered
  <2> QED
    BY <2>2, <2>3
<1>5. LogOrdered(longer)
  BY <1>1, <1>3, <1>4 DEF LogOrdered
<1> QED
  BY <1>5

\* A step that stages an event of the command that runs.
LEMMA OrderStage ==
  ASSUME TypedInv, OrderInv, current # <<>>, NEW e \in Event, NEW calls \in Seq(ReactionCall), Stage(e, calls),
         UNCHANGED <<program, queue, current>>, e.depth = Level,
         DOMAIN calls \subseteq DOMAIN frames, \A f \in DOMAIN calls : calls[f].event = frames[f].event,
         CallsOrdered(calls, events),
         \A f \in DOMAIN calls :
           /\ e.by >= calls[f].event
           /\ e.by = calls[f].event =>
                \A l \in DOMAIN calls[f].rules : e.rule.boundary <= calls[f].rules[l].boundary,
         e.by # 0 =>
           /\ e.by \in 1..Len(events)
           /\ \A k \in (e.by + 1)..Len(events) :
                /\ events[k].by >= e.by
                /\ events[k].by = e.by => events[k].rule.boundary <= e.rule.boundary
  PROVE  OrderInv'
<1>1. \A f \in DOMAIN calls : calls[f].event \in 1..Len(events) /\ events[calls[f].event].depth = Level
  BY DEF TypedInv, FramesOK, OrderInv, LevelsOK
<1>2. CallsOrdered(frames', events')
  BY <1>1, StageOrders
<1>3. events \in Seq(Event) /\ events' = Append(events, e) /\ Len(events) \in Nat
  BY DEF TypedInv, TypeOK, Stage
<1>4. \A i \in DOMAIN events : events[i].depth <= Level
  BY DEF OrderInv, LevelsOK
<1>5. LogOrdered(events')
  BY <1>3, <1>4, LogGrows DEF OrderInv
<1>6. PICK n : n = Len(events) + 1
  OBVIOUS
<1>7. /\ DOMAIN events' = DOMAIN events \cup {n} /\ events'[n] = e
      /\ \A i \in DOMAIN events : events'[i] = events[i]
      /\ DOMAIN events = 1..Len(events)
  BY <1>3, <1>6, AppendOne DEF EventsOK
<1>8. Level' = Level /\ Level \in Nat
  BY CurrentTyped, CommandTyped DEF Level, TypedInv
<1>9. \A i \in DOMAIN events' : events'[i].depth <= Level
  BY <1>4, <1>7, <1>8
<1>10. \A f \in DOMAIN frames' : events'[frames'[f].event].depth = Level
  <2>1. CASE program.skipReactions
    <3>1. frames' = calls
      BY <2>1 DEF Stage
    <3> QED
      BY <1>1, <1>7, <3>1
  <2>2. CASE ~program.skipReactions
    <3> DEFINE call == [event |-> Len(events) + 1, rules |-> Matching(e)]
    <3>1. frames' = <<call>> \o calls /\ call.event = n
      BY <1>6, <2>2, Zenon DEF Stage
    <3> HIDE DEF call
    <3>2. \A f \in DOMAIN frames' : frames'[f] = call \/ \E g \in DOMAIN calls : frames'[f] = calls[g]
      BY <3>1
    <3> QED
      BY <1>1, <1>7, <3>1, <3>2
  <2> QED
    BY <2>1, <2>2
<1>11. LevelsOK'
  BY <1>8, <1>9, <1>10 DEF OrderInv, LevelsOK
<1> QED
  BY <1>2, <1>5, <1>11 DEF OrderInv

LEMMA OrderEmit ==
  ASSUME TypedInv, OrderInv, Emit
  PROVE  OrderInv'
<1>1. current # <<>> /\ toEmit # <<>> /\ frames = <<>>
  BY DEF Emit
<1>2. CASE Abandon("invalid")
  BY <1>2 DEF Abandon, OrderInv, LevelsOK, Level, tx
<1>3. ASSUME Stage(Emitted, <<>>), UNCHANGED <<program, queue, current>>
      PROVE  OrderInv'
  <2>1. Emitted \in Event
    BY <1>1, EmittedIsEvent DEF TypedInv
  <2>2. Emitted.depth = Level /\ Emitted.by = 0
    BY DEF Emitted, Level
  <2>3. <<>> \in Seq(ReactionCall) /\ DOMAIN <<>> = {} /\ CallsOrdered(<<>>, events)
    BY DEF CallsOrdered
  <2> QED
    BY <1>1, <1>3, <2>1, <2>2, <2>3, OrderStage
<1> QED
  BY <1>2, <1>3, Zenon DEF Emit, Emitted

\* What the reaction at hand comes after.
LEMMA FireOrdered ==
  ASSUME TypedInv, OrderInv, frames # <<>>, frames[1].rules # <<>>
  PROVE  /\ \A f \in DOMAIN Rest :
              /\ frames[1].event >= Rest[f].event
              /\ frames[1].event = Rest[f].event =>
                   \A l \in DOMAIN Rest[f].rules : Next1.boundary <= Rest[f].rules[l].boundary
         /\ \A k \in (frames[1].event + 1)..Len(events) :
              /\ events[k].by >= frames[1].event
              /\ events[k].by = frames[1].event => events[k].rule.boundary <= Next1.boundary
<1>1. /\ DOMAIN Rest = DOMAIN frames
      /\ \A f \in DOMAIN Rest : Rest[f].event = frames[f].event
      /\ Rest[1].rules = Tail(frames[1].rules)
  BY RestTyped
<1>2. /\ frames[1].rules \in Seq(Rule) /\ 1 \in DOMAIN frames /\ DOMAIN frames \subseteq Nat \ {0}
      /\ \A f \in DOMAIN frames : frames[f].event \in Nat
  <2>1. frames \in Seq(ReactionCall)
    BY DEF TypedInv, TypeOK, ReactionCall
  <2>2. frames[1] \in ReactionCall /\ 1 \in DOMAIN frames /\ DOMAIN frames \subseteq Nat \ {0}
    BY <2>1
  <2>3. \A f \in DOMAIN frames : frames[f] \in ReactionCall
    BY <2>1
  <2> QED
    BY <2>2, <2>3 DEF ReactionCall
<1>3. 1 \in DOMAIN frames[1].rules /\ Next1 = frames[1].rules[1]
  BY <1>2 DEF Next1
<1>4. CallsOrdered(frames, events)
  BY DEF OrderInv
<1>5. ASSUME NEW f \in DOMAIN Rest
      PROVE  /\ frames[1].event >= Rest[f].event
             /\ frames[1].event = Rest[f].event =>
                  \A l \in DOMAIN Rest[f].rules : Next1.boundary <= Rest[f].rules[l].boundary
  <2>1. CASE f = 1
    <3>1. \A l \in DOMAIN Rest[1].rules : /\ l + 1 \in DOMAIN frames[1].rules /\ 1 < l + 1
                                          /\ Rest[1].rules[l] = frames[1].rules[l + 1]
      BY <1>1, <1>2
    <3>2. \A l \in DOMAIN Rest[1].rules : Next1.boundary <= Rest[1].rules[l].boundary
      BY <1>2, <1>3, <1>4, <3>1 DEF CallsOrdered
    <3>3. Rest[1].event = frames[1].event /\ frames[1].event \in Nat
      BY <1>1, <1>2
    <3>4. frames[1].event >= Rest[f].event
      BY <2>1, <3>3
    <3> QED
      BY <2>1, <3>2, <3>4, Zenon
  <2>2. CASE f # 1
    <3>1. f \in DOMAIN frames /\ 1 < f /\ Rest[f].event = frames[f].event
      BY <1>1, <1>2, <2>2
    <3>2. frames[f].event < frames[1].event
      BY <1>2, <1>4, <3>1 DEF CallsOrdered
    <3> QED
      BY <1>2, <3>1, <3>2
  <2> QED
    BY <2>1, <2>2
<1>6. \A k \in (frames[1].event + 1)..Len(events) :
        /\ events[k].by >= frames[1].event
        /\ events[k].by = frames[1].event => events[k].rule.boundary <= Next1.boundary
  BY <1>2, <1>3, <1>4 DEF CallsOrdered
<1> QED
  BY <1>5, <1>6

LEMMA OrderFire ==
  ASSUME TypedInv, OrderInv, Fire
  PROVE  OrderInv'
<1>1. /\ frames # <<>> /\ frames[1].rules # <<>> /\ Stage(Reacted, Rest)
      /\ UNCHANGED <<program, queue, current>>
  BY Zenon DEF Fire, InReaction, Reacted
<1>2. current # <<>>
  BY <1>1 DEF TypedInv, CurrentOK
<1>3. /\ Rest \in Seq(ReactionCall) /\ DOMAIN Rest = DOMAIN frames
      /\ \A f \in DOMAIN Rest : Rest[f].event = frames[f].event
      /\ CallsOrdered(Rest, events)
  BY <1>1, RestTyped, RestOrdered DEF OrderInv
<1>4. Reacted \in Event /\ frames[1].event \in 1..Len(events) /\ 1 \in DOMAIN frames
  <2>1. frames \in Seq(ReactionCall)
    BY DEF TypedInv, TypeOK, ReactionCall
  <2> QED
    BY <1>1, <2>1, ReactedIsEvent, NextTyped
<1>5. Reacted.by = frames[1].event /\ Reacted.rule = Next1 /\ Reacted.depth = Level
  BY <1>2, <1>4 DEF Reacted, Trigger, OrderInv, LevelsOK
<1>6. PICK e : e = Reacted
  OBVIOUS
<1>7. \A f \in DOMAIN Rest :
        /\ e.by >= Rest[f].event
        /\ e.by = Rest[f].event => \A l \in DOMAIN Rest[f].rules : e.rule.boundary <= Rest[f].rules[l].boundary
  BY <1>1, <1>5, <1>6, FireOrdered
<1>8. /\ e.by \in 1..Len(events)
      /\ \A k \in (e.by + 1)..Len(events) :
           /\ events[k].by >= e.by
           /\ events[k].by = e.by => events[k].rule.boundary <= e.rule.boundary
  BY <1>1, <1>4, <1>5, <1>6, FireOrdered
<1>9. e \in Event /\ Stage(e, Rest) /\ e.depth = Level
  BY <1>1, <1>4, <1>5, <1>6
<1> QED
  BY <1>1, <1>2, <1>3, <1>7, <1>8, <1>9, OrderStage

\* A step that leaves the events and the commands, and stays in calls that there were.
LEMMA OrderFrames ==
  ASSUME TypedInv, OrderInv, UNCHANGED <<queue, current, events>>, CallsOrdered(frames', events),
         \A f \in DOMAIN frames' : \E g \in DOMAIN frames : frames'[f].event = frames[g].event
  PROVE  OrderInv'
<1>1. LevelsOK'
  BY DEF OrderInv, LevelsOK, Level
<1> QED
  BY <1>1 DEF OrderInv

LEMMA OrderSkip ==
  ASSUME TypedInv, OrderInv, SkipReaction
  PROVE  OrderInv'
<1>1. /\ frames # <<>> /\ frames[1].rules # <<>> /\ frames' = Rest
      /\ UNCHANGED <<queue, current, events>>
  BY Zenon DEF SkipReaction, InReaction, tx
<1>2. /\ CallsOrdered(Rest, events)
      /\ \A f \in DOMAIN Rest : \E g \in DOMAIN frames : Rest[f].event = frames[g].event
  BY <1>1, RestTyped, RestOrdered DEF OrderInv
<1> QED
  BY <1>1, <1>2, OrderFrames

LEMMA OrderEnd ==
  ASSUME TypedInv, OrderInv, ReactionsEnd
  PROVE  OrderInv'
<1>1. frames # <<>> /\ frames' = Tail(frames) /\ UNCHANGED <<queue, current, events>>
  BY DEF ReactionsEnd, tx
<1>2. /\ CallsOrdered(Tail(frames), events)
      /\ \A f \in DOMAIN Tail(frames) : \E g \in DOMAIN frames : Tail(frames)[f].event = frames[g].event
  BY <1>1, TailOrdered DEF OrderInv
<1> QED
  BY <1>1, <1>2, OrderFrames

\* The command at the head of the queue is of the level that comes next.
LEMMA OrderBegin ==
  ASSUME TypedInv, OrderInv, current = <<>>, queue # <<>>, NEW types, NEW fallback, Begin(Head(queue), types, fallback)
  PROVE  OrderInv'
<1>1. /\ queue \in Seq(Command) /\ \A a \in DOMAIN queue : queue[a].depth \in Nat
      /\ \A i \in DOMAIN events : events[i].depth \in Nat
      /\ frames = <<>>
  <2>1. queue \in Seq(Command) /\ events \in Seq(Event)
    BY DEF TypedInv, TypeOK
  <2>2. (\A c \in Command : c.depth \in Nat) /\ (\A e \in Event : e.depth \in Nat)
    BY DEF Command, Event
  <2> QED
    BY <2>1, <2>2 DEF TypedInv, CurrentOK
<1>2. /\ queue' = Tail(queue) /\ UNCHANGED <<frames, events>>
      /\ current' # <<>> /\ current'[1].command = Head(queue)
  BY DEF Begin, tx
<1>3. Level' = queue[1].depth /\ 1 \in DOMAIN queue
  BY <1>1, <1>2 DEF Level
<1>4. \A a \in DOMAIN queue' : a \in Nat /\ 1 < a + 1 /\ a + 1 \in DOMAIN queue /\ queue'[a] = queue[a + 1]
  BY <1>1, <1>2
<1>5. /\ \A a, b \in DOMAIN queue : a < b => queue[a].depth <= queue[b].depth /\ queue[b].depth <= queue[a].depth + 1
      /\ \A i \in DOMAIN events, a \in DOMAIN queue : events[i].depth <= queue[a].depth
  BY DEF OrderInv, LevelsOK
<1>6. \A a, b \in DOMAIN queue' : a < b => queue'[a].depth <= queue'[b].depth /\ queue'[b].depth <= queue'[a].depth + 1
  <2> TAKE a, b \in DOMAIN queue'
  <2> HAVE a < b
  <2>1. a + 1 < b + 1
    BY <1>4
  <2> QED
    BY <1>4, <1>5, <2>1
<1>7. \A a \in DOMAIN queue' : Level' <= queue'[a].depth /\ queue'[a].depth <= Level' + 1
  BY <1>3, <1>4, <1>5
<1>8. \A i \in DOMAIN events' : events'[i].depth <= Level'
  BY <1>2, <1>3, <1>5
<1>9. \A f \in DOMAIN frames' : events'[frames'[f].event].depth = Level'
  BY <1>1, <1>2
<1>10. LevelsOK'
  BY <1>2, <1>6, <1>7, <1>8, <1>9 DEF LevelsOK
<1> QED
  BY <1>2, <1>10 DEF OrderInv

\* Dispatched commands join the queue behind those of their level.
LEMMA OrderEnqueue ==
  ASSUME TypedInv, OrderInv, current # <<>>, frames = <<>>, Enqueue(Dispatches), current' = <<>>,
         UNCHANGED <<frames, events>>
  PROVE  OrderInv'
<1>1. PICK more : more = Dispatches
  OBVIOUS
<1>2. queue \in Seq(Command) /\ more \in Seq(Command) /\ \A i \in DOMAIN more : more[i].depth = Level + 1
  BY <1>1, DispatchesTyped DEF TypedInv, TypeOK, Level
<1>3. Level \in Nat /\ \A a \in DOMAIN queue : queue[a].depth \in Nat
  <2>1. \A c \in Command : c.depth \in Nat
    BY DEF Command
  <2>2. current[1].command \in Command
    BY CurrentTyped DEF TypedInv
  <2> QED
    BY <1>2, <2>1, <2>2 DEF Level
<1>4. queue' = queue \o more
  BY <1>1 DEF Enqueue
<1>5. \A a \in DOMAIN queue' :
        \/ a \in DOMAIN queue /\ queue'[a] = queue[a]
        \/ a > Len(queue) /\ \E i \in DOMAIN more : queue'[a] = more[i]
  <2> TAKE a \in DOMAIN queue'
  <2>1. a \in 1..(Len(queue) + Len(more)) /\ DOMAIN queue = 1..Len(queue) /\ DOMAIN more = 1..Len(more)
        /\ Len(queue) \in Nat /\ Len(more) \in Nat
    BY <1>2, <1>4
  <2>2. CASE a <= Len(queue)
    BY <1>2, <1>4, <2>1, <2>2
  <2>3. CASE a > Len(queue)
    <3>1. a - Len(queue) \in DOMAIN more /\ queue'[a] = more[a - Len(queue)]
      BY <1>2, <1>4, <2>1, <2>3
    <3> QED
      BY <2>3, <3>1
  <2> QED
    BY <2>1, <2>2, <2>3
<1>6. /\ \A a, b \in DOMAIN queue : a < b => queue[a].depth <= queue[b].depth /\ queue[b].depth <= queue[a].depth + 1
      /\ \A a \in DOMAIN queue : Level <= queue[a].depth /\ queue[a].depth <= Level + 1
      /\ \A i \in DOMAIN events : events[i].depth <= Level
  BY DEF OrderInv, LevelsOK
<1>7. \A a \in DOMAIN queue' : /\ queue'[a].depth \in Nat /\ Level <= queue'[a].depth /\ queue'[a].depth <= Level + 1
                               /\ a \in DOMAIN queue \/ queue'[a].depth = Level + 1
  BY <1>2, <1>3, <1>5, <1>6
<1>8. \A a, b \in DOMAIN queue' : a < b => queue'[a].depth <= queue'[b].depth /\ queue'[b].depth <= queue'[a].depth + 1
  <2> TAKE a, b \in DOMAIN queue'
  <2> HAVE a < b
  <2>1. CASE b \in DOMAIN queue
    <3>1. a \in DOMAIN queue /\ queue'[a] = queue[a] /\ queue'[b] = queue[b]
      <4>1. a \in Nat /\ b \in 1..Len(queue) /\ Len(queue) \in Nat
        BY <1>2, <1>4, <2>1
      <4> QED
        BY <1>5, <4>1
    <3> QED
      BY <1>6, <2>1, <3>1
  <2>2. CASE b \notin DOMAIN queue
    BY <1>3, <1>7, <2>2
  <2> QED
    BY <2>1, <2>2
<1>9. \A i \in DOMAIN events', a \in DOMAIN queue' : events'[i].depth <= queue'[a].depth
  <2>1. \A i \in DOMAIN events : events[i].depth \in Nat
    <3>1. \A e \in Event : e.depth \in Nat
      BY DEF Event
    <3>2. events \in Seq(Event)
      BY DEF TypedInv, TypeOK
    <3> QED
      BY <3>1, <3>2
  <2> QED
    BY <1>3, <1>6, <1>7, <2>1
<1>10. LevelsOK'
  BY <1>8, <1>9 DEF LevelsOK
<1> QED
  BY <1>10 DEF OrderInv

LEMMA OrderStep == TypedInv /\ OrderInv /\ [Next]_vars => OrderInv'
<1> SUFFICES ASSUME TypedInv, OrderInv, [Next]_vars
             PROVE  OrderInv'
  OBVIOUS
<1>1. ASSUME UNCHANGED <<queue, current, frames, events>>
      PROVE  OrderInv'
  BY <1>1 DEF OrderInv, LevelsOK, Level
<1>2. CASE Dequeue
  <2>1. current = <<>> /\ queue # <<>>
    BY <1>2 DEF Dequeue
  <2>2. \/ \E types, fallback : Begin(Head(queue), types, fallback)
        \/ \E why : Abandon(why)
    BY <1>2, Zenon DEF Dequeue
  <2>3. ASSUME NEW types, NEW fallback, Begin(Head(queue), types, fallback)
        PROVE  OrderInv'
    BY <2>1, <2>3, OrderBegin
  <2>4. ASSUME NEW why, Abandon(why)
        PROVE  OrderInv'
    BY <1>1, <2>4 DEF Abandon, tx
  <2> QED
    BY <2>2, <2>3, <2>4
<1>3. CASE Respond
  <2>1. current # <<>> /\ frames = <<>>
    BY <1>3 DEF Respond
  <2>2. CASE Abandon("postcondition")
    BY <1>1, <2>2 DEF Abandon, tx
  <2>3. CASE ~Abandon("postcondition")
    <3>1. Enqueue(Dispatches) /\ current' = <<>> /\ UNCHANGED <<frames, events>>
      BY <1>3, <2>3, Zenon DEF Respond, tx
    <3> QED
      BY <2>1, <3>1, OrderEnqueue
  <2> QED
    BY <2>2, <2>3
<1>4. CASE RefuseReaction \/ Finish \/ Stopped \/ UNCHANGED vars
  BY <1>1, <1>4 DEF RefuseReaction, Abandon, Finish, Stopped, vars, tx
<1> QED
  BY <1>2, <1>3, <1>4, OrderEmit, OrderSkip, OrderFire, OrderEnd, Zenon DEF Next

LEMMA OrderInit == Init => OrderInv
<1> SUFFICES ASSUME Init
             PROVE  OrderInv
  OBVIOUS
<1>1. events = <<>> /\ frames = <<>> /\ current = <<>> /\ queue = <<program.first>>
  BY DEF Init
<1>2. \A a, b \in DOMAIN queue : ~(a < b)
  BY <1>1
<1> QED
  BY <1>1, <1>2 DEF OrderInv, CallsOrdered, LogOrdered, LevelsOK

(***************************************************************************)
(* In any program the reactions to an event stand behind it, with nothing  *)
(* between that it did not cause and in the order of the boundary names,   *)
(* and no command is run before one that is less deep.                     *)
(***************************************************************************)
THEOREM OrderIsStable == Spec => []StableOrder
<1>1. TypedInv /\ OrderInv => StableOrder
  <2> SUFFICES ASSUME TypedInv, OrderInv
               PROVE  StableOrder
    OBVIOUS
  <2>1. LogOrdered(events)
    BY DEF OrderInv
  <2> QED
    BY <2>1 DEF LogOrdered, StableOrder, Reactions
<1>2. TypedInv /\ OrderInv /\ [Next]_vars => (TypedInv /\ OrderInv)'
  BY TypedStep, OrderStep
<1> QED
  BY TypedInit, OrderInit, <1>1, <1>2, PTL DEF Spec

-----------------------------------------------------------------------------
(* How much work a request may come to.                                     *)

\* A set of numbers that is not empty has a least one: induction is the absence of a least counterexample.
LEMMA LeastNat ==
  ASSUME NEW T \in SUBSET Nat, T # {}
  PROVE  \E n \in T : \A m \in T : n <= m
<1>1. PICK x \in T : \A y \in T : ~(<<y, x>> \in OpToRel(<, Nat))
  BY WFMin, NatLessThanWellFounded, Zenon
<1>2. \A y \in T : ~(y < x)
  BY <1>1, Zenon DEF OpToRel
<1> QED
  BY <1>2

\* A finite set of numbers has a largest one.
LEMMA LargestIs ==
  ASSUME NEW S \in SUBSET Nat, IsFiniteSet(S)
  PROVE  Largest(S) \in Nat /\ \A y \in S : y <= Largest(S)
<1> DEFINE Bound(A, b) == \A y \in A : y <= b
           T == {n \in Nat : \E A \in SUBSET Nat : /\ IsFiniteSet(A) /\ Cardinality(A) = n
                                                   /\ \A b \in Nat : ~Bound(A, b)}
<1>1. T = {}
  <2> SUFFICES ASSUME T # {}
               PROVE  FALSE
    OBVIOUS
  <2>1. PICK n \in T : \A m \in T : n <= m
    BY LeastNat
  <2>2. PICK A \in SUBSET Nat : IsFiniteSet(A) /\ Cardinality(A) = n /\ \A b \in Nat : ~Bound(A, b)
    BY <2>1
  <2>3. A # {}
    BY <2>2
  <2>4. PICK x \in A : TRUE
    BY <2>3
  <2>5. IsFiniteSet(A \ {x}) /\ Cardinality(A \ {x}) = n - 1 /\ n \in Nat
    BY <2>2, <2>4, FS_RemoveElement
  <2>6. n - 1 \in Nat
    BY <2>5, FS_CardinalityType
  <2>7. n - 1 \notin T
    BY <2>1, <2>5
  <2>8. PICK b \in Nat : Bound(A \ {x}, b)
    BY <2>5, <2>6, <2>7
  <2>9. x \in Nat /\ Bound(A, IF x <= b THEN b ELSE x)
    BY <2>4, <2>8
  <2> QED
    BY <2>2, <2>9
<1>2. PICK b \in Nat : Bound(S, b)
  <2>1. Cardinality(S) \in Nat /\ Cardinality(S) \notin T
    BY <1>1, FS_CardinalityType
  <2> QED
    BY <2>1
<1> DEFINE U == {n \in Nat : Bound(S \cup {0}, n)}
<1>3. b \in U
  BY <1>2
<1>4. PICK n \in U : \A m \in U : n <= m
  BY <1>3, LeastNat
<1>5. n \in S \cup {0}
  <2> SUFFICES ASSUME n \notin S \cup {0}
               PROVE  FALSE
    OBVIOUS
  <2>1. n \in Nat /\ n # 0 /\ \A y \in S \cup {0} : y \in Nat /\ y <= n /\ y # n
    BY <1>4
  <2>2. n - 1 \in Nat /\ Bound(S \cup {0}, n - 1)
    BY <2>1
  <2> QED
    BY <1>4, <2>2
<1>6. \A y \in S \cup {0} : y <= n
  BY <1>4
<1> HIDE DEF T, U
<1>7. Largest(S) \in S \cup {0} /\ \A y \in S \cup {0} : y <= Largest(S)
  <2> DEFINE Is(x) == x \in S \cup {0} /\ \A y \in S \cup {0} : y <= x
  <2>1. Is(n)
    BY <1>5, <1>6
  <2>2. Largest(S) = CHOOSE x : Is(x)
    BY DEF Largest
  <2> HIDE DEF Is
  <2>3. Is(Largest(S))
    BY <2>1, <2>2
  <2> QED
    BY <2>3 DEF Is
<1>8. PICK x : x = Largest(S)
  OBVIOUS
<1>9. x \in S \cup {0} /\ \A y \in S : y <= x
  BY <1>7, <1>8, Zenon
<1>10. x \in Nat
  BY <1>9
<1> QED
  BY <1>8, <1>9, <1>10, Zenon

\* What the recursion of RunnableTo says of a function of the depths up to n.
Steps(F, n, g) == g \in [0..n -> Nat] /\ g[0] = 1 /\ \A k \in 1..n : g[k] = 1 + F * g[k - 1]

\* There is such a function for every depth,
LEMMA StepsExist ==
  ASSUME NEW F \in Nat, NEW n \in Nat
  PROVE  \E g : Steps(F, n, g)
<1> DEFINE T == {m \in Nat : ~\E g : Steps(F, m, g)}
<1> SUFFICES ASSUME T # {}
             PROVE  FALSE
  OBVIOUS
<1>1. PICK m \in T : \A l \in T : m <= l
  BY LeastNat
<1>2. m # 0
  <2>1. Steps(F, 0, [k \in 0..0 |-> 1])
    BY DEF Steps
  <2> QED
    BY <2>1
<1>3. m - 1 \in Nat /\ m - 1 \notin T
  BY <1>1, <1>2
<1>4. PICK g : Steps(F, m - 1, g)
  BY <1>3
<1> DEFINE h == [k \in 0..m |-> IF k = m THEN 1 + F * g[m - 1] ELSE g[k]]
<1>5. g \in [0..(m - 1) -> Nat] /\ g[0] = 1 /\ \A k \in 1..(m - 1) : g[k] = 1 + F * g[k - 1]
  BY <1>4 DEF Steps
<1>6. g[m - 1] \in Nat
  BY <1>3, <1>5
<1>7. 1 + F * g[m - 1] \in Nat
  BY <1>6
<1>8. h \in [0..m -> Nat]
  BY <1>1, <1>5, <1>7
<1>9. h[0] = 1 /\ h[m] = 1 + F * h[m - 1]
  BY <1>1, <1>2, <1>3, <1>5
<1>10. \A k \in 1..m : h[k] = 1 + F * h[k - 1]
  <2> TAKE k \in 1..m
  <2>1. CASE k = m
    BY <1>9, <2>1
  <2>2. CASE k # m
    <3>1. k \in 1..(m - 1) /\ k - 1 \in 0..m /\ k - 1 # m /\ k \in 0..m
      BY <1>1, <2>2
    <3> QED
      BY <1>5, <2>2, <3>1
  <2> QED
    BY <2>1, <2>2
<1>11. Steps(F, m, h)
  BY <1>8, <1>9, <1>10 DEF Steps
<1> QED
  BY <1>1, <1>11

\* two of them agree as far as both go,
LEMMA StepsAgree ==
  ASSUME NEW F \in Nat, NEW m \in Nat, NEW n \in Nat, NEW g, NEW h, Steps(F, m, g), Steps(F, n, h),
         NEW k \in Nat, k <= m, k <= n
  PROVE  g[k] = h[k]
<1> DEFINE T == {l \in Nat : l <= m /\ l <= n /\ g[l] # h[l]}
<1> SUFFICES ASSUME T # {}
             PROVE  FALSE
  OBVIOUS
<1>1. PICK l \in T : \A i \in T : l <= i
  BY LeastNat
<1>2. l # 0
  BY <1>1 DEF Steps
<1>3. l - 1 \in Nat /\ l - 1 \notin T
  BY <1>1, <1>2
<1>4. g[l - 1] = h[l - 1]
  BY <1>1, <1>3
<1>5. l \in 1..m /\ l \in 1..n
  BY <1>1, <1>2
<1> QED
  BY <1>1, <1>4, <1>5 DEF Steps

\* so the recursion defines a function on all depths,
LEMMA RecursionExists ==
  ASSUME NEW F \in Nat
  PROVE  \E r : r = [depth \in Nat |-> IF depth = 0 THEN 1 ELSE 1 + F * r[depth - 1]]
<1> DEFINE G(n) == CHOOSE g : Steps(F, n, g)
           r == [n \in Nat |-> G(n)[n]]
           R(f, depth) == IF depth = 0 THEN 1 ELSE 1 + F * f[depth - 1]
<1>1. \A n \in Nat : Steps(F, n, G(n))
  BY StepsExist
<1> HIDE DEF G
<1>2. \A depth \in Nat : r[depth] = R(r, depth)
  <2> TAKE depth \in Nat
  <2>1. CASE depth = 0
    BY <1>1, <2>1 DEF Steps
  <2>2. CASE depth # 0
    <3>1. depth - 1 \in Nat /\ depth \in 1..depth
      BY <2>2
    <3>2. G(depth)[depth] = 1 + F * G(depth)[depth - 1]
      BY <1>1, <3>1 DEF Steps
    <3>3. G(depth)[depth - 1] = G(depth - 1)[depth - 1]
      BY <1>1, <3>1, StepsAgree
    <3> QED
      BY <2>2, <3>1, <3>2, <3>3
  <2> QED
    BY <2>1, <2>2
<1>3. r = [depth \in Nat |-> R(r, depth)]
  BY <1>2
<1> QED
  BY <1>3

\* which is RunnableTo.
LEMMA RunnableIs ==
  ASSUME FanOut \in Nat
  PROVE  /\ RunnableTo[0] = 1
         /\ \A d \in Nat : RunnableTo[d + 1] = 1 + FanOut * RunnableTo[d]
         /\ \A d \in Nat : RunnableTo[d] \in Nat
<1>1. RunnableTo = [depth \in Nat |-> IF depth = 0 THEN 1 ELSE 1 + FanOut * RunnableTo[depth - 1]]
  BY RecursionExists, Zenon DEF RunnableTo
<1>2. /\ RunnableTo[0] = 1
      /\ \A d \in Nat : RunnableTo[d + 1] = 1 + FanOut * RunnableTo[d]
  BY <1>1
<1> DEFINE T == {d \in Nat : RunnableTo[d] \notin Nat}
<1>3. T = {}
  <2> SUFFICES ASSUME T # {}
               PROVE  FALSE
    OBVIOUS
  <2>1. PICK n \in T : \A m \in T : n <= m
    BY LeastNat
  <2>2. n # 0
    BY <1>2, <2>1
  <2>3. n - 1 \in Nat /\ n - 1 \notin T
    BY <2>1, <2>2
  <2>4. RunnableTo[n - 1] \in Nat /\ RunnableTo[n] = 1 + FanOut * RunnableTo[n - 1]
    BY <1>2, <2>3
  <2> QED
    BY <2>1, <2>4
<1> QED
  BY <1>2, <1>3

\* The bounds depend on the program alone.
LEMMA BoundsRemain ==
  ASSUME UNCHANGED program
  PROVE  FanOut' = FanOut /\ Emits' = Emits /\ RunnableTo' = RunnableTo
BY DEF FanOut, Emits, RunnableTo

\* The numbers that bound the commands and events of a command.
LEMMA BoundsAre ==
  ASSUME program \in Programs
  PROVE  /\ FanOut \in Nat /\ Emits \in Nat /\ 1 <= Emits
         /\ \A o \in Operation : /\ Len(program.operations[o].dispatches) <= FanOut
                                 /\ Len(program.operations[o].emits) <= Emits
<1> DEFINE d == [o \in Operation |-> Len(program.operations[o].dispatches)]
           e == [o \in Operation |-> Len(program.operations[o].emits)]
           D == {Len(program.operations[o].dispatches) : o \in Operation}
           E == {Len(program.operations[o].emits) : o \in Operation}
<1>1. \A o \in Operation : d[o] \in Nat /\ e[o] \in Nat
  <2>1. program.operations \in [Operation -> Behavior]
    BY ProgramTyped
  <2>2. \A b \in Behavior : Len(b.dispatches) \in Nat /\ Len(b.emits) \in Nat
    BY DEF Behavior
  <2> QED
    BY <2>1, <2>2
<1>2. D \in SUBSET Nat /\ E \in SUBSET Nat
  BY <1>1
<1>3. d \in Surjection(Operation, D) /\ e \in Surjection(Operation, E)
  BY DEF Surjection
<1>4. IsFiniteSet(D) /\ IsFiniteSet(E)
  BY <1>3, OperationAssumption, FS_Surjection
<1>5. E \cup {1} \in SUBSET Nat /\ IsFiniteSet(E \cup {1})
  BY <1>2, <1>4, FS_AddElement
<1>6. FanOut \in Nat /\ \A x \in D : x <= FanOut
  BY <1>2, <1>4, LargestIs DEF FanOut
<1>7. Emits \in Nat /\ \A x \in E \cup {1} : x <= Emits
  BY <1>5, LargestIs DEF Emits
<1> QED
  BY <1>6, <1>7

\* A command emits no more events than the most that any operation lists.
LEMMA EmitsFew ==
  ASSUME TypeOK, NEW c \in Command, NEW s
  PROVE  Len(EmittedBy(BehaviorOf(c), s)) <= Emits
<1> DEFINE b == BehaviorOf(c)
           Entry == [type : Type, when : Condition]
           I == {i \in DOMAIN b.emits : Holds(b.emits[i].when, s)}
           chosen == Filtered(b.emits, I)
<1>1. b.emits \in Seq(Entry) /\ I \in SUBSET DOMAIN b.emits
  BY CommandTyped DEF Behavior
<1>2. EmittedBy(b, s) = [i \in DOMAIN chosen |-> chosen[i].type]
  BY DEF EmittedBy
<1> HIDE DEF Entry, I
<1>3. chosen \in Seq(Entry) /\ Len(chosen) <= Len(b.emits)
  BY <1>1, FilteredElements
<1>4. Len(b.emits) <= Emits
  BY BoundsAre DEF TypeOK, Command, BehaviorOf
<1> HIDE DEF chosen
<1>5. Len(EmittedBy(b, s)) = Len(chosen)
  BY <1>2, <1>3
<1>6. Len(chosen) \in Nat /\ Len(b.emits) \in Nat /\ Emits \in Nat
  BY <1>1, <1>3, BoundsAre DEF TypeOK
<1> QED
  BY <1>3, <1>4, <1>5, <1>6

\* A command dispatches no more commands than the most that any operation lists.
LEMMA DispatchesFew ==
  ASSUME TypeOK, current # <<>>
  PROVE  Len(Dispatches) <= FanOut
<1> DEFINE c == current[1].command
           Entry == [op : Operation, target : Target, when : Condition]
           listed == BehaviorOf(c).dispatches
           I == {i \in DOMAIN listed : Holds(listed[i].when, current[1].found)}
           chosen == Filtered(listed, I)
           all == [i \in DOMAIN chosen |-> Dispatched(c, chosen[i])]
<1>1. c \in Command /\ listed \in Seq(Entry) /\ I \in SUBSET DOMAIN listed
  BY CurrentTyped, CommandTyped DEF Behavior
<1>2. Dispatches = IF program.skipDispatch \/ current[1].fallback THEN <<>> ELSE all
  BY DEF Dispatches
<1>3. Len(listed) <= FanOut /\ FanOut \in Nat
  BY <1>1, BoundsAre DEF TypeOK, Command, BehaviorOf
<1> HIDE DEF Entry, I, listed
<1>4. chosen \in Seq(Entry) /\ Len(chosen) <= Len(listed) /\ Len(listed) \in Nat
  BY <1>1, FilteredElements
<1> HIDE DEF chosen
<1>5. Len(all) = Len(chosen) /\ Len(chosen) \in Nat /\ Len(<<>>) = 0
  BY <1>4
<1> HIDE DEF all
<1> QED
  BY <1>2, <1>3, <1>4, <1>5

\* What a command of some depth may come to, itself included.
WorkAt(depth) == IF depth > program.maxDepth THEN 0 ELSE RunnableTo[program.maxDepth - depth]

\* It is itself and all that it may dispatch.
LEMMA WorkIs ==
  ASSUME TypeOK, NEW depth \in Nat
  PROVE  /\ WorkAt(depth) \in Nat
         /\ depth <= program.maxDepth => WorkAt(depth) = 1 + FanOut * WorkAt(depth + 1)
<1> DEFINE m == program.maxDepth
<1>1. m \in Nat /\ FanOut \in Nat
  BY ProgramTyped, BoundsAre DEF TypeOK
<1>2. /\ RunnableTo[0] = 1
      /\ \A d \in Nat : RunnableTo[d + 1] = 1 + FanOut * RunnableTo[d]
      /\ \A d \in Nat : RunnableTo[d] \in Nat
  BY <1>1, RunnableIs
<1> DEFINE W(d) == IF d > m THEN 0 ELSE RunnableTo[m - d]
<1>3. \A d \in Nat : W(d) \in Nat
  BY <1>1, <1>2
<1>4. ASSUME depth <= m
      PROVE  W(depth) = 1 + FanOut * W(depth + 1)
  <2>1. CASE depth = m
    <3>1. W(depth) = 1 /\ W(depth + 1) = 0
      BY <1>1, <1>2, <2>1
    <3> QED
      BY <1>1, <3>1
  <2>2. CASE depth # m
    <3>1. PICK d \in Nat : d = m - (depth + 1)
      BY <1>1, <1>4, <2>2
    <3>2. W(depth + 1) = RunnableTo[d] /\ W(depth) = RunnableTo[d + 1]
      <4>1. m - depth = d + 1 /\ ~(depth > m) /\ ~(depth + 1 > m)
        BY <1>1, <1>4, <2>2, <3>1
      <4> QED
        BY <3>1, <4>1
    <3> QED
      BY <1>2, <3>2
  <2> QED
    BY <2>1, <2>2
<1> QED
  BY <1>3, <1>4 DEF WorkAt

\* What the commands that the current one dispatches may come to.
WorkToDispatch == IF current = <<>> THEN 0 ELSE FanOut * WorkAt(current[1].command.depth + 1)

\* Running totals over the queue keep within the bound.
QueueFits ==
  \E total \in [0..Len(queue) -> Int] :
    /\ total[0] >= commands + WorkToDispatch
    /\ \A i \in 1..Len(queue) : total[i] >= total[i - 1] + WorkAt(queue[i].depth)
    /\ total[Len(queue)] <= RunnableTo[program.maxDepth]

\* No command has emitted more than the most of any.
EmitsFit == Len(events) - reactionEvents + Len(toEmit) <= Emits * commands

WorkInv == QueueFits /\ EmitsFit

\* Totals do not decrease.
LEMMA TotalsGrow ==
  ASSUME NEW n \in Nat, NEW total \in [0..n -> Int], \A i \in 1..n : total[i] >= total[i - 1]
  PROVE  total[0] <= total[n]
<1> DEFINE T == {i \in Nat : i <= n /\ total[i] < total[0]}
<1> SUFFICES ASSUME T # {}
             PROVE  FALSE
  OBVIOUS
<1>1. PICK i \in T : \A j \in T : i <= j
  BY LeastNat
<1>2. i # 0
  BY <1>1
<1>3. i - 1 \in Nat /\ i - 1 <= n /\ i - 1 \notin T /\ i \in 1..n /\ i - 1 \in 0..n /\ i \in 0..n
  BY <1>1, <1>2
<1>4. total[i - 1] >= total[0] /\ total[i] >= total[i - 1] /\ total[i] < total[0]
  BY <1>1, <1>3
<1>5. total[i] \in Int /\ total[i - 1] \in Int /\ total[0] \in Int
  BY <1>3
<1> QED
  BY <1>4, <1>5

\* Multiplication keeps the order.
LEMMA TimesGrows ==
  ASSUME NEW a \in Nat, NEW b \in Nat, NEW k \in Nat, a <= b
  PROVE  a * k <= b * k /\ k * a <= k * b
OBVIOUS

\* What the invariant says of the budget.
LEMMA WorkFits ==
  ASSUME TypedInv, WorkInv
  PROVE  /\ commands <= RunnableTo[program.maxDepth]
         /\ Len(events) - reactionEvents <= Emits * RunnableTo[program.maxDepth]
<1> DEFINE most == RunnableTo[program.maxDepth]
<1>1. /\ queue \in Seq(Command) /\ Len(queue) \in Nat /\ commands \in Nat
      /\ \A i \in 1..Len(queue) : queue[i].depth \in Nat
      /\ program \in Programs /\ reactionEvents \in Nat /\ Len(events) \in Nat /\ Len(toEmit) \in Nat
  <2>1. queue \in Seq(Command) /\ commands \in Nat /\ program \in Programs /\ reactionEvents \in 0..MaxReactionEvents
        /\ events \in Seq(Event) /\ toEmit \in Seq(Type)
    BY DEF TypedInv, TypeOK
  <2>2. \A c \in Command : c.depth \in Nat
    BY DEF Command
  <2> QED
    BY <2>1, <2>2
<1>2. \A d \in Nat : WorkAt(d) \in Nat
  BY WorkIs DEF TypedInv
<1>3. FanOut \in Nat /\ Emits \in Nat /\ program.maxDepth \in Nat
  BY <1>1, BoundsAre, ProgramTyped
<1>4. most \in Nat
  BY <1>3, RunnableIs
<1>5. WorkToDispatch \in Nat
  <2>1. current # <<>> => current[1].command.depth + 1 \in Nat
    BY CurrentTyped, CommandTyped DEF TypedInv
  <2>2. \A w \in Nat : FanOut * w \in Nat
    BY <1>3
  <2> QED
    BY <1>2, <2>1, <2>2 DEF WorkToDispatch
<1>6. PICK total \in [0..Len(queue) -> Int] :
        /\ total[0] >= commands + WorkToDispatch
        /\ \A i \in 1..Len(queue) : total[i] >= total[i - 1] + WorkAt(queue[i].depth)
        /\ total[Len(queue)] <= most
  BY DEF WorkInv, QueueFits
<1>7. \A i \in 1..Len(queue) : total[i] >= total[i - 1]
  <2> TAKE i \in 1..Len(queue)
  <2>1. WorkAt(queue[i].depth) \in Nat
    BY <1>1, <1>2, Zenon
  <2>2. total[i] \in Int /\ total[i - 1] \in Int
    BY <1>1
  <2> QED
    BY <1>6, <2>1, <2>2
<1>8. total[0] <= total[Len(queue)]
  BY <1>1, <1>7, TotalsGrow
<1> HIDE DEF most
<1>9. commands <= most
  <2>1. total[0] \in Int /\ total[Len(queue)] \in Int
    BY <1>1
  <2> QED
    BY <1>1, <1>4, <1>5, <1>6, <1>8, <2>1
<1>10. Len(events) - reactionEvents <= Emits * most
  <2>1. Emits * commands <= Emits * most /\ Emits * commands \in Int /\ Emits * most \in Int
    BY <1>1, <1>3, <1>4, <1>9, TimesGrows
  <2> QED
    BY <1>1, <2>1 DEF WorkInv, EmitsFit
<1> QED
  BY <1>9, <1>10 DEF most

\* A step that leaves the commands alone.
LEMMA QueueFitsStill ==
  ASSUME QueueFits, UNCHANGED <<program, queue, current, commands>>
  PROVE  QueueFits'
<1>1. WorkToDispatch' = WorkToDispatch /\ \A d : WorkAt(d)' = WorkAt(d)
  BY BoundsRemain DEF WorkToDispatch, WorkAt
<1>2. \A i \in 1..Len(queue) : WorkAt(queue[i].depth)' = WorkAt(queue[i].depth)
  BY <1>1
<1> QED
  BY <1>1, <1>2, BoundsRemain DEF QueueFits

\* The command at the head of the queue runs: it counts for itself, and what
\* it may dispatch for what it was to come to besides.
LEMMA QueueFitsBegin ==
  ASSUME TypedInv, QueueFits, queue # <<>>, Head(queue).depth <= program.maxDepth, current = <<>>,
         NEW types, NEW fallback, Begin(Head(queue), types, fallback)
  PROVE  QueueFits'
<1> DEFINE c == Head(queue)
           most == RunnableTo[program.maxDepth]
<1>1. /\ queue' = Tail(queue) /\ commands' = commands + 1 /\ program' = program
      /\ current' # <<>> /\ current'[1].command = c
  BY DEF Begin
<1>2. PICK n : n = Len(queue)
  OBVIOUS
<1>3. /\ queue \in Seq(Command) /\ n \in Nat \ {0} /\ commands \in Nat /\ queue[1] = c
      /\ Len(queue') = n - 1
      /\ \A i \in 1..(n - 1) : queue'[i] = queue[i + 1]
  BY <1>1, <1>2 DEF TypedInv, TypeOK
<1>4. c \in Command /\ c.depth \in Nat
  <2>1. c \in Command
    BY <1>3
  <2>2. \A x \in Command : x.depth \in Nat
    BY DEF Command
  <2> QED
    BY <2>1, <2>2, Zenon
<1>5. /\ \A d \in Nat : WorkAt(d) \in Nat
      /\ WorkAt(c.depth) = 1 + FanOut * WorkAt(c.depth + 1)
      /\ FanOut \in Nat
  BY <1>4, WorkIs, BoundsAre DEF TypedInv, TypeOK
<1>6. WorkToDispatch' = FanOut * WorkAt(c.depth + 1) /\ \A d : WorkAt(d)' = WorkAt(d)
  BY <1>1, BoundsRemain DEF WorkToDispatch, WorkAt
<1>7. FanOut * WorkAt(c.depth + 1) \in Nat
  <2>1. WorkAt(c.depth + 1) \in Nat
    BY <1>4, <1>5
  <2>2. \A w \in Nat : FanOut * w \in Nat
    BY <1>5
  <2> QED
    BY <2>1, <2>2, Zenon
<1>8. PICK total \in [0..n -> Int] :
        /\ total[0] >= commands
        /\ \A i \in 1..n : total[i] >= total[i - 1] + WorkAt(queue[i].depth)
        /\ total[n] <= most
  <2>1. commands + WorkToDispatch = commands
    BY <1>2, <1>3 DEF WorkToDispatch
  <2>2. PICK total \in [0..Len(queue) -> Int] :
          /\ total[0] >= commands + WorkToDispatch
          /\ \A i \in 1..Len(queue) : total[i] >= total[i - 1] + WorkAt(queue[i].depth)
          /\ total[Len(queue)] <= most
    BY Zenon DEF QueueFits
  <2>3. total[0] >= commands
    BY <2>1, <2>2, Zenon
  <2>4. /\ total \in [0..n -> Int] /\ total[n] <= most
        /\ \A i \in 1..n : total[i] >= total[i - 1] + WorkAt(queue[i].depth)
    BY <1>2, <2>2, Zenon
  <2> QED
    BY <2>3, <2>4, Zenon
<1> DEFINE totals == [i \in 0..(n - 1) |-> total[i + 1]]
<1>9. totals \in [0..(n - 1) -> Int] /\ \A i \in 0..(n - 1) : totals[i] = total[i + 1]
  BY <1>3
<1> HIDE DEF c, most, totals
<1>10. totals[0] >= commands' + WorkToDispatch'
  <2>1. totals[0] = total[1] /\ total[1] \in Int /\ total[0] \in Int
    BY <1>3, <1>9
  <2>2. PICK own, rest : own = WorkAt(c.depth) /\ rest = FanOut * WorkAt(c.depth + 1)
    OBVIOUS
  <2>3. own = 1 + rest /\ rest \in Nat /\ WorkToDispatch' = rest
    BY <1>5, <1>6, <1>7, <2>2, Zenon
  <2>4. total[1] >= total[0] + own
    <3>1. 1 \in 1..n /\ 1 - 1 = 0 /\ queue[1].depth = c.depth
      BY <1>3
    <3>2. total[1] >= total[1 - 1] + WorkAt(queue[1].depth)
      BY <1>8, <3>1
    <3> QED
      BY <2>2, <3>1, <3>2
  <2> QED
    BY <1>1, <1>3, <1>8, <2>1, <2>3, <2>4
<1>11. \A i \in 1..(n - 1) : totals[i] >= totals[i - 1] + WorkAt(queue'[i].depth)
  <2> TAKE i \in 1..(n - 1)
  <2>1. /\ totals[i] = total[i + 1] /\ totals[i - 1] = total[i] /\ i + 1 \in 1..n
        /\ queue'[i] = queue[i + 1] /\ (i + 1) - 1 = i
    BY <1>3, <1>9
  <2> QED
    BY <1>8, <2>1
<1>12. totals[n - 1] <= most
  BY <1>3, <1>8, <1>9
<1>13. \A i \in 1..(n - 1) : WorkAt(queue[i].depth)' = WorkAt(queue'[i].depth)
  BY <1>6
<1>14. RunnableTo[program.maxDepth]' = most
  BY <1>1, BoundsRemain DEF most
<1> QED
  BY <1>3, <1>9, <1>10, <1>11, <1>12, <1>13, <1>14 DEF QueueFits

\* Totals of what n commands need, between two bounds.
Totals(n, need, least, most, total) ==
  /\ total \in [0..n -> Int]
  /\ total[0] >= least /\ total[n] <= most
  /\ \A i \in 1..n : total[i] >= total[i - 1] + need[i]

\* What k more commands need, at w each, after n whose needs are given.
Followed(n, need, k, w) == [i \in 1..(n + k) |-> IF i <= n THEN need[i] ELSE w]

\* Totals over k more, each of the same weight, when there was room for them.
LEMMA TotalsExtend ==
  ASSUME NEW n \in Nat, NEW k \in Nat, NEW w \in Nat, NEW f \in Nat, k * w <= f, NEW base \in Nat, NEW most \in Nat,
         NEW need \in [1..n -> Nat], NEW total, Totals(n, need, base + f, most, total)
  PROVE  \E totals : Totals(n + k, Followed(n, need, k, w), base, most, totals)
<1>0. /\ total \in [0..n -> Int] /\ total[0] >= base + f /\ total[n] <= most
      /\ \A i \in 1..n : total[i] >= total[i - 1] + need[i]
  BY DEF Totals
<1>1. PICK mul : mul = [j \in Nat |-> j * w]
  OBVIOUS
<1>2. mul \in [Nat -> Nat] /\ mul[0] = 0
  BY <1>1
<1>3. mul[k] <= f
  BY <1>1
<1>4. \A j \in Nat : mul[j + 1] = mul[j] + w
  <2> TAKE j \in Nat
  <2>1. mul[j + 1] = (j + 1) * w /\ mul[j] = j * w
    BY <1>1
  <2>2. (j + 1) * w = j * w + w
    OBVIOUS
  <2> QED
    BY <2>1, <2>2
<1>5. total[0] \in Int /\ total[n] \in Int
  BY <1>0
<1> DEFINE At(i) == IF i <= n THEN total[i] - f ELSE total[n] - f + mul[i - n]
           totals == [i \in 0..(n + k) |-> At(i)]
<1>6. \A i \in 0..n : totals[i] = total[i] - f
  OBVIOUS
<1>7. \A j \in 0..k : totals[n + j] = total[n] - f + mul[j]
  <2> TAKE j \in 0..k
  <2>1. CASE j = 0
    BY <1>0, <1>2, <1>5, <2>1
  <2>2. CASE j # 0
    <3>1. n + j \in 0..(n + k) /\ ~(n + j <= n) /\ (n + j) - n = j
      BY <2>2
    <3> QED
      BY <3>1
  <2> QED
    BY <2>1, <2>2
<1>8. totals \in [0..(n + k) -> Int]
  <2> SUFFICES ASSUME NEW i \in 0..(n + k)
               PROVE  At(i) \in Int
    OBVIOUS
  <2>1. CASE i <= n
    BY <1>0, <1>2, <2>1
  <2>2. CASE ~(i <= n)
    <3>1. mul[i - n] \in Nat
      <4>1. i - n \in Nat
        BY <2>2
      <4> QED
        BY <1>2, <4>1
    <3> QED
      BY <1>0, <1>2, <1>5, <2>2, <3>1
  <2> QED
    BY <2>1, <2>2
<1> HIDE DEF totals
<1>9. totals[0] >= base
  <2>1. totals[0] = total[0] - f
    BY <1>6
  <2> QED
    BY <1>0, <1>2, <1>5, <2>1
<1>10. totals[n + k] <= most
  <2>1. mul[k] \in Nat
    BY <1>2
  <2>2. totals[n + k] = total[n] - f + mul[k]
    BY <1>7
  <2>3. total[n] - f + mul[k] <= most
    <3>1. PICK a, b : a = total[n] /\ b = mul[k]
      OBVIOUS
    <3>2. a \in Int /\ b \in Nat /\ a <= most /\ b <= f
      BY <1>0, <1>3, <1>5, <2>1, <3>1, Zenon
    <3>3. a - f + b <= most
      BY <3>2
    <3> QED
      BY <3>1, <3>3, Zenon
  <2> QED
    BY <2>2, <2>3, Zenon
<1>11. \A i \in 1..n : totals[i] >= totals[i - 1] + need[i]
  <2> TAKE i \in 1..n
  <2>1. totals[i] = total[i] - f /\ totals[i - 1] = total[i - 1] - f
    BY <1>6
  <2>2. total[i] \in Int /\ total[i - 1] \in Int /\ need[i] \in Nat /\ total[i] >= total[i - 1] + need[i]
    BY <1>0
  <2>3. total[i] - f >= (total[i - 1] - f) + need[i]
    <3>1. PICK a, b, c : a = total[i] /\ b = total[i - 1] /\ c = need[i]
      OBVIOUS
    <3>2. a \in Int /\ b \in Int /\ c \in Nat /\ a >= b + c
      BY <2>2, <3>1, Zenon
    <3>3. a - f >= (b - f) + c
      BY <3>2
    <3> QED
      BY <3>1, <3>3, Zenon
  <2> QED
    BY <2>1, <2>3, Zenon
<1>12. \A i \in (n + 1)..(n + k) : totals[i] >= totals[i - 1] + w
  <2> TAKE i \in (n + 1)..(n + k)
  <2>1. PICK j \in Nat : j = i - n - 1
    OBVIOUS
  <2>2. i = n + (j + 1) /\ i - 1 = n + j /\ j \in 0..k /\ j + 1 \in 0..k
    BY <2>1
  <2>3. totals[i] = total[n] - f + mul[j + 1] /\ totals[i - 1] = total[n] - f + mul[j]
    BY <1>7, <2>2
  <2>4. mul[j + 1] = mul[j] + w
    BY <1>4
  <2>5. PICK a, b : a = total[n] - f /\ b = mul[j]
    OBVIOUS
  <2>6. a \in Int /\ b \in Int
    BY <1>0, <1>2, <1>5, <2>5
  <2>7. totals[i] = a + (b + w) /\ totals[i - 1] = a + b
    BY <2>3, <2>4, <2>5
  <2> QED
    BY <2>6, <2>7
<1>13. \A i \in 1..(n + k) : totals[i] >= totals[i - 1] + Followed(n, need, k, w)[i]
  <2> TAKE i \in 1..(n + k)
  <2>1. CASE i <= n
    BY <1>11, <2>1 DEF Followed
  <2>2. CASE ~(i <= n)
    <3>1. i \in (n + 1)..(n + k)
      BY <2>2
    <3> QED
      BY <1>12, <2>2, <3>1 DEF Followed
  <2> QED
    BY <2>1, <2>2
<1> QED
  BY <1>8, <1>9, <1>10, <1>13 DEF Totals

\* Dispatched commands are what may have been dispatched.
Enqueues == current # <<>> /\ Enqueue(Dispatches) /\ current' = <<>> /\ UNCHANGED <<program, commands>>

LEMMA QueueFitsEnqueue ==
  ASSUME TypedInv, QueueFits, Enqueues
  PROVE  QueueFits'
<1>1. PICK n, more, w, most, k :
        /\ n = Len(queue) /\ more = Dispatches /\ k = Len(more)
        /\ w = WorkAt(current[1].command.depth + 1) /\ most = RunnableTo[program.maxDepth]
  OBVIOUS
<1>2. /\ queue \in Seq(Command) /\ n \in Nat /\ more \in Seq(Command) /\ commands \in Nat
      /\ \A i \in DOMAIN more : more[i].depth = current[1].command.depth + 1
      /\ k <= FanOut /\ k \in Nat
  BY <1>1, DispatchesTyped, DispatchesFew DEF Enqueues, TypedInv, TypeOK
<1>3. FanOut \in Nat /\ w \in Nat /\ WorkToDispatch = FanOut * w /\ most \in Nat
  <2>1. current[1].command.depth + 1 \in Nat
    BY CurrentTyped, CommandTyped DEF Enqueues, TypedInv
  <2>2. FanOut \in Nat /\ w \in Nat /\ WorkToDispatch = FanOut * w
    BY <1>1, <2>1, WorkIs, BoundsAre DEF Enqueues, TypedInv, TypeOK, WorkToDispatch
  <2>3. most \in Nat
    BY <1>1, RunnableIs, BoundsAre, ProgramTyped DEF TypedInv, TypeOK
  <2> QED
    BY <2>2, <2>3
<1>4. Len(queue') = n + k /\ \A i \in 1..n : queue'[i] = queue[i]
  BY <1>1, <1>2 DEF Enqueues, Enqueue
<1>5. \A i \in (n + 1)..(n + k) : WorkAt(queue'[i].depth) = w
  <2> TAKE i \in (n + 1)..(n + k)
  <2>1. i - n \in DOMAIN more /\ queue'[i] = more[i - n]
    BY <1>1, <1>2 DEF Enqueues, Enqueue
  <2> QED
    BY <1>1, <1>2, <2>1
<1> DEFINE need == [i \in 1..n |-> WorkAt(queue[i].depth)]
<1>6. need \in [1..n -> Nat]
  <2> SUFFICES ASSUME NEW i \in 1..n
               PROVE  WorkAt(queue[i].depth) \in Nat
    OBVIOUS
  <2>1. queue[i] \in Command
    BY <1>1, <1>2, ElementOfSeq, Zenon
  <2>2. queue[i].depth \in Nat
    BY <2>1 DEF Command
  <2>3. TypeOK
    BY DEF TypedInv
  <2> QED
    BY <2>2, <2>3, WorkIs, Zenon
<1>7. \A i \in 1..n : need[i] = WorkAt(queue'[i].depth)
  BY <1>4
<1>15. PICK f : f = FanOut * w
  OBVIOUS
<1>16. f \in Nat /\ k * w <= f
  BY <1>2, <1>3, <1>15, TimesGrows
<1>8. PICK total : Totals(n, need, commands + f, most, total)
  BY <1>1, <1>3, <1>15 DEF QueueFits, Totals
<1> HIDE DEF need
<1> DEFINE needs == Followed(n, need, k, w)
<1>9. PICK totals : Totals(n + k, needs, commands, most, totals)
  BY <1>2, <1>3, <1>6, <1>8, <1>16, TotalsExtend
<1>10. \A i \in 1..(n + k) : needs[i] = WorkAt(queue'[i].depth)
  <2> TAKE i \in 1..(n + k)
  <2>1. CASE i <= n
    <3>1. i \in 1..n /\ needs[i] = need[i]
      BY <1>2, <2>1 DEF Followed
    <3> QED
      BY <1>7, <3>1
  <2>2. CASE ~(i <= n)
    <3>1. i \in (n + 1)..(n + k) /\ needs[i] = w
      BY <1>2, <2>2 DEF Followed
    <3> QED
      BY <1>5, <3>1
  <2> QED
    BY <2>1, <2>2
<1> HIDE DEF needs
<1>17. /\ totals \in [0..(n + k) -> Int] /\ totals[0] >= commands /\ totals[n + k] <= most
       /\ \A i \in 1..(n + k) : totals[i] >= totals[i - 1] + WorkAt(queue'[i].depth)
  BY <1>9, <1>10 DEF Totals
<1>11. /\ WorkToDispatch' = 0 /\ commands' = commands /\ RunnableTo[program.maxDepth]' = most
       /\ \A d : WorkAt(d)' = WorkAt(d)
  BY <1>1, BoundsRemain DEF Enqueues, WorkToDispatch, WorkAt
<1>12. \A i \in 1..(n + k) : WorkAt(queue[i].depth)' = WorkAt(queue'[i].depth)
  BY <1>11
<1>13. totals[0] >= commands' + WorkToDispatch'
  BY <1>2, <1>11, <1>17
<1>14. \A i \in 1..(n + k) : totals[i] >= totals[i - 1] + WorkAt(queue[i].depth)'
  BY <1>12, <1>17
<1> QED
  BY <1>4, <1>11, <1>13, <1>14, <1>17 DEF QueueFits

LEMMA QueueFitsStep == TypedInv /\ QueueFits /\ [Next]_vars => QueueFits'
<1> SUFFICES ASSUME TypedInv, QueueFits, [Next]_vars
             PROVE  QueueFits'
  OBVIOUS
<1>1. ASSUME UNCHANGED <<program, queue, current, commands>>
      PROVE  QueueFits'
  BY <1>1, QueueFitsStill
<1>2. CASE Dequeue
  <2> DEFINE c == Head(queue)
  <2>1. current = <<>> /\ queue # <<>>
    BY <1>2 DEF Dequeue
  <2>2. \/ Verdict(c) \in {"run", "fallback"} /\ \E types, fallback : Begin(c, types, fallback)
        \/ \E why : Abandon(why)
    BY <1>2, Zenon DEF Dequeue
  <2>3. ASSUME Verdict(c) \in {"run", "fallback"}, NEW types, NEW fallback, Begin(c, types, fallback)
        PROVE  QueueFits'
    <3>1. ~(c.depth > program.maxDepth)
      BY <2>3 DEF Verdict
    <3>2. c.depth \in Nat /\ program.maxDepth \in Nat
      <4>1. c \in Command
        BY <2>1 DEF TypedInv, TypeOK
      <4> QED
        BY <4>1, ProgramTyped DEF Command, TypedInv, TypeOK
    <3>3. c.depth <= program.maxDepth
      BY <3>1, <3>2
    <3> QED
      BY <2>1, <2>3, <3>3, QueueFitsBegin
  <2>4. ASSUME NEW why, Abandon(why)
        PROVE  QueueFits'
    BY <1>1, <2>4 DEF Abandon
  <2> QED
    BY <2>2, <2>3, <2>4
<1>3. CASE Respond
  <2>1. CASE Abandon("postcondition")
    BY <1>1, <2>1 DEF Abandon
  <2>2. CASE ~Abandon("postcondition")
    <3>1. current # <<>> /\ Enqueue(Dispatches) /\ current' = <<>> /\ UNCHANGED <<program, commands>>
      BY <1>3, <2>2, Zenon DEF Respond
    <3> QED
      BY <3>1, QueueFitsEnqueue DEF Enqueues
  <2> QED
    BY <2>1, <2>2
<1>4. CASE Emit
  BY <1>1, <1>4, Zenon DEF Emit, Abandon
<1>5. CASE RefuseReaction \/ SkipReaction \/ Fire \/ ReactionsEnd \/ Finish \/ Stopped \/ UNCHANGED vars
  <2>1. UNCHANGED <<program, queue, current, commands>>
    BY <1>5, Zenon DEF RefuseReaction, Abandon, SkipReaction, Fire, ReactionsEnd, Finish, Stopped, vars
  <2> QED
    BY <1>1, <2>1
<1> QED
  BY <1>2, <1>3, <1>4, <1>5, Zenon DEF Next

LEMMA EmitsFitStep == TypedInv /\ EmitsFit /\ [Next]_vars => EmitsFit'
<1> SUFFICES ASSUME TypedInv, EmitsFit, [Next]_vars
             PROVE  EmitsFit'
  OBVIOUS
<1>1. /\ Emits \in Nat /\ 1 <= Emits /\ commands \in Nat /\ reactionEvents \in Nat
      /\ Len(events) \in Nat /\ Len(toEmit) \in Nat
  BY BoundsAre, BudgetAssumption DEF TypedInv, TypeOK
<1>2. ASSUME UNCHANGED <<program, events, reactionEvents, toEmit, commands>>
      PROVE  EmitsFit'
  BY <1>2, BoundsRemain DEF EmitsFit
<1>3. CASE Dequeue
  <2> DEFINE c == Head(queue)
  <2>1. current = <<>> /\ toEmit = <<>> /\ c \in Command
    BY <1>3 DEF Dequeue, TypedInv, TypeOK, CurrentOK
  <2>2. \/ \E types, fallback : Begin(c, types, fallback) /\ Len(types) <= Emits
        \/ \E why : Abandon(why)
    <3>1. Len(EmittedBy(BehaviorOf(c), Known(c.target))) <= Emits
      BY <2>1, EmitsFew DEF TypedInv
    <3>2. Len(<<GenericUpdate>>) <= Emits
      BY <1>1
    <3>3. \/ Begin(c, EmittedBy(BehaviorOf(c), Known(c.target)), FALSE)
          \/ Begin(c, <<GenericUpdate>>, TRUE)
          \/ \E why : Abandon(why)
      BY <1>3, Zenon DEF Dequeue
    <3> QED
      BY <3>1, <3>2, <3>3, Zenon
  <2>3. ASSUME NEW types, NEW fallback, Begin(c, types, fallback), Len(types) <= Emits
        PROVE  EmitsFit'
    <3>1. /\ UNCHANGED <<program, events, reactionEvents>> /\ toEmit' = types /\ commands' = commands + 1
      BY <2>3, Zenon DEF Begin, tx
    <3>2. Len(events) - reactionEvents <= Emits * commands /\ Emits * commands \in Int
      <4>1. Len(toEmit) = 0
        BY <2>1
      <4> QED
        BY <1>1, <4>1 DEF EmitsFit
    <3>3. Emits * (commands + 1) = Emits * commands + Emits
      BY <1>1
    <3>4. toEmit' \in Seq(Type)'
      BY <3>1, TypedStep DEF TypedInv, TypeOK
    <3>5. Len(types) \in Nat
      BY <3>1, <3>4
    <3>6. Len(events) - reactionEvents + Len(types) <= Emits * (commands + 1)
      BY <1>1, <2>3, <3>2, <3>3, <3>5
    <3> QED
      BY <3>1, <3>6, BoundsRemain DEF EmitsFit
  <2>4. ASSUME NEW why, Abandon(why)
        PROVE  EmitsFit'
    BY <1>2, <2>4 DEF Abandon, tx
  <2> QED
    BY <2>2, <2>3, <2>4
<1>4. CASE Emit
  <2>1. CASE Abandon("invalid")
    BY <1>2, <2>1 DEF Abandon, tx
  <2>2. CASE ~Abandon("invalid")
    <3>1. /\ Stage(Emitted, <<>>) /\ toEmit' = Tail(toEmit) /\ toEmit # <<>>
          /\ UNCHANGED <<program, reactionEvents, commands>>
      BY <1>4, <2>2, Zenon DEF Emit, Emitted
    <3>2. Len(events') = Len(events) + 1 /\ Len(toEmit') = Len(toEmit) - 1
      BY <3>1 DEF Stage, TypedInv, TypeOK
    <3>3. Len(events') - reactionEvents' + Len(toEmit') = Len(events) - reactionEvents + Len(toEmit)
      BY <1>1, <3>1, <3>2
    <3> QED
      BY <3>1, <3>3, BoundsRemain DEF EmitsFit
  <2> QED
    BY <2>1, <2>2
<1>5. CASE Fire
  <2>1. /\ Stage(Reacted, Rest) /\ reactionEvents' = reactionEvents + 1 /\ UNCHANGED <<program, toEmit, commands>>
    BY <1>5, Zenon DEF Fire, Remember, Reacted
  <2>2. Len(events') = Len(events) + 1
    BY <2>1 DEF Stage, TypedInv, TypeOK
  <2>3. Len(events') - reactionEvents' + Len(toEmit') = Len(events) - reactionEvents + Len(toEmit)
    BY <1>1, <2>1, <2>2
  <2> QED
    BY <2>1, <2>3, BoundsRemain DEF EmitsFit
<1>6. CASE Respond
  <2>1. UNCHANGED <<program, events, reactionEvents, toEmit, commands>>
    BY <1>6, Zenon DEF Respond, Abandon, tx
  <2> QED
    BY <1>2, <2>1
<1>7. CASE RefuseReaction \/ SkipReaction \/ ReactionsEnd \/ Finish \/ Stopped \/ UNCHANGED vars
  <2>1. UNCHANGED <<program, events, reactionEvents, toEmit, commands>>
    BY <1>7, Zenon DEF RefuseReaction, Abandon, SkipReaction, ReactionsEnd, Finish, Stopped, vars, tx
  <2> QED
    BY <1>2, <2>1
<1> QED
  BY <1>3, <1>4, <1>5, <1>6, <1>7, Zenon DEF Next

LEMMA WorkInit == Init => WorkInv
<1> SUFFICES ASSUME Init
             PROVE  WorkInv
  OBVIOUS
<1>1. /\ queue = <<program.first>> /\ current = <<>> /\ toEmit = <<>> /\ events = <<>>
      /\ reactionEvents = 0 /\ commands = 0 /\ program \in Programs
  BY DEF Init
<1>2. program.first.depth = 0 /\ program.maxDepth \in Nat /\ FanOut \in Nat /\ Emits \in Nat
  BY <1>1, ProgramTyped, BoundsAre
<1>3. RunnableTo[program.maxDepth] \in Nat
  BY <1>2, RunnableIs
<1>4. WorkAt(0) = RunnableTo[program.maxDepth]
  BY <1>2 DEF WorkAt
<1>5. PICK most : most = RunnableTo[program.maxDepth]
  OBVIOUS
<1> DEFINE total == [i \in 0..1 |-> IF i = 0 THEN 0 ELSE most]
<1>6. total \in [0..1 -> Int] /\ total[0] = 0 /\ total[1] = most
  BY <1>3, <1>5
<1> HIDE DEF total
<1>7. Len(queue) = 1 /\ queue[1].depth = 0 /\ WorkToDispatch = 0
  BY <1>1, <1>2 DEF WorkToDispatch
<1>8. \A i \in 1..1 : total[i] >= total[i - 1] + WorkAt(queue[i].depth)
  <2> TAKE i \in 1..1
  <2>1. i = 1 /\ i - 1 = 0
    OBVIOUS
  <2>2. most >= 0 + most
    BY <1>3, <1>5
  <2> QED
    BY <1>4, <1>5, <1>6, <1>7, <2>1, <2>2
<1>9. QueueFits
  BY <1>1, <1>3, <1>5, <1>6, <1>7, <1>8 DEF QueueFits
<1>10. EmitsFit
  BY <1>1, <1>2 DEF EmitsFit
<1> QED
  BY <1>9, <1>10 DEF WorkInv

(***************************************************************************)
(* Whatever the definitions ask for, the commands of a unit of work and    *)
(* the events they emit are no more than the depth of dispatches allows,   *)
(* and its reactions no more than the budget.                              *)
(***************************************************************************)
THEOREM WorkKeepsWithinBounds == Spec => []WorkIsBounded
<1>1. TypedInv /\ WorkInv /\ WithinBudget => WorkIsBounded
  BY WorkFits DEF TypedInv, WithinBudget, WorkIsBounded
<1>2. TypedInv /\ WorkInv /\ [Next]_vars => (TypedInv /\ WorkInv)'
  BY TypedStep, QueueFitsStep, EmitsFitStep DEF WorkInv
<1> QED
  BY TypedInit, WorkInit, ReactionsKeepWithinBudget, <1>1, <1>2, PTL DEF Spec

-----------------------------------------------------------------------------
(* What expires.                                                           *)

\* A session that was never created is not there.
FreshSessions == \A s \in Session : s \notin loggedIn => sessions[s] = Nothing

\* What is promised is there: a record until somebody replaces it, a session
\* or a fault until the base clock has reached its end.
PromisedRecord(e)  == \E k \in IdempotencyKey : e = <<"record", k, records[k].end>> /\ records[k].end \in Int
PromisedSession(e) == \E s \in Session : e = <<"session", s, sessions[s]>> /\ sessions[s] \in Int /\ sessions[s] > NowMs
PromisedFault(e)   == \E f \in Fault : e = <<"fault", f, faults[f]>> /\ faults[f] \in Int /\ faults[f] > NowMs

PromisesKept == \A e \in promised : PromisedRecord(e) \/ PromisedSession(e) \/ PromisedFault(e)

\* A record has the fingerprint of the body it was stored for, unless
\* somebody has found it expired.
FingerprintsFit ==
  \A k \in IdempotencyKey :
    records[k].end # Nothing /\ k \notin foundExpired => fingerprints[k] = records[k].of

ExpiryInv == ExpiryTypeOK /\ FreshSessions /\ PromisesKept /\ FingerprintsFit

\* The clock is a number, also the one a request reads.
LEMMA ClockTyped ==
  ASSUME ExpiryTypeOK
  PROVE  NowMs \in Int /\ \A call \in Call : NowMsFor(call) \in Int
<1>1. NowMs \in Int
  BY TimesAssumption DEF ExpiryTypeOK, NowMs
<1>2. \A call \in Call : call.offset \in Int
  BY TimesAssumption DEF Call
<1> QED
  BY <1>1, <1>2 DEF NowMsFor

\* A record is there with its end, or not at all.
LEMMA RecordTyped ==
  ASSUME ExpiryTypeOK, NEW k \in IdempotencyKey
  PROVE  /\ records[k].end \in Int \cup {Nothing}
         /\ records[k].end # Nothing => records[k].of \in Body
<1>1. records[k] \in [of : Body, end : Int] \cup {NoRecord}
  BY DEF ExpiryTypeOK
<1> QED
  BY <1>1 DEF NoRecord

LEMMA ExpiryInvInit ==
  ExpiryInit => ExpiryInv
<1> SUFFICES ASSUME ExpiryInit PROVE ExpiryInv
  OBVIOUS
<1>1. /\ wall \in 0..MaxWall /\ skew \in -MaxSkew..MaxSkew
      /\ records \in [IdempotencyKey -> {NoRecord}] /\ fingerprints \in [IdempotencyKey -> {Nothing}]
      /\ sessions \in [Session -> {Nothing}] /\ faults \in [Fault -> {Nothing}] /\ loggedIn = {}
  BY TimesAssumption DEF ExpiryInit
<1>2. /\ phase = "free" /\ request = Nothing /\ answer \in [result : Result, of : {Nothing}, to : {Nothing}]
      /\ promised = {} /\ foundExpired = {}
  BY DEF ExpiryInit, Result
<1>3. ExpiryTypeOK
  BY <1>1, <1>2 DEF ExpiryTypeOK
<1>4. \A k \in IdempotencyKey : records[k].end = Nothing
  BY <1>1 DEF NoRecord
<1> QED
  BY <1>1, <1>2, <1>3, <1>4 DEF ExpiryInv, FreshSessions, PromisesKept, FingerprintsFit

\* Steps of the request that is under way, but the one that stores its record.
LEMMA LookUpStep ==
  ASSUME ExpiryInv, LookUp
  PROVE  /\ records' = records /\ fingerprints' \in [IdempotencyKey -> Body \cup {Nothing}]
         /\ UNCHANGED <<clock, sessions, loggedIn, faults, promised>>
         /\ FreshSessions' /\ PromisesKept' /\ FingerprintsFit'
<1>0. ExpiryTypeOK /\ phase = "authenticated" /\ request \in Call /\ request.key \in IdempotencyKey
  BY DEF ExpiryInv, ExpiryTypeOK, LookUp, Call
<1>1. /\ records' = records /\ UNCHANGED <<clock, sessions, loggedIn, faults, promised>>
  BY DEF LookUp, RecordsAfterLookup
<1>2. /\ \/ fingerprints' = fingerprints
         \/ Outdated(request) /\ fingerprints' = [fingerprints EXCEPT ![request.key] = Nothing]
      /\ ~Outdated(request) => fingerprints' = fingerprints
  BY DEF LookUp, FingerprintsAfterCheck
<1>3. /\ foundExpired \subseteq foundExpired'
      /\ ~Lives(records[request.key].end, NowMsFor(request)) => request.key \in foundExpired'
  BY DEF LookUp, NowMsFor
<1>4. fingerprints' \in [IdempotencyKey -> Body \cup {Nothing}]
  BY <1>0, <1>2 DEF ExpiryTypeOK
<1>5. Outdated(request) => request.key \in foundExpired'
  BY <1>3 DEF Outdated, Found
<1>6. ASSUME NEW k \in IdempotencyKey, records[k].end # Nothing, k \notin foundExpired'
      PROVE  fingerprints'[k] = records[k].of
  <2>1. fingerprints[k] = records[k].of
    BY <1>6, <1>3 DEF ExpiryInv, FingerprintsFit
  <2>2. fingerprints'[k] = fingerprints[k]
    <3>1. CASE Outdated(request)
      <4>1. k # request.key
        BY <1>5, <1>6, <3>1
      <4> QED
        BY <1>0, <1>2, <4>1 DEF ExpiryTypeOK
    <3>2. CASE ~Outdated(request)
      BY <1>2, <3>2
    <3> QED
      BY <3>1, <3>2
  <2> QED
    BY <2>1, <2>2
<1>7. FreshSessions' /\ PromisesKept'
  BY <1>1 DEF ExpiryInv, FreshSessions, PromisesKept, PromisedRecord, PromisedSession, PromisedFault, clock, NowMs
<1>8. FingerprintsFit'
  BY <1>1, <1>6 DEF FingerprintsFit
<1> QED
  BY <1>1, <1>4, <1>7, <1>8

\* Steps that leave the tables and the clock as they are.
LEMMA TablesRemain ==
  ASSUME ExpiryInv, UNCHANGED <<clock, tables, history>>
  PROVE  FreshSessions' /\ PromisesKept' /\ FingerprintsFit'
BY DEF ExpiryInv, FreshSessions, PromisesKept, PromisedRecord, PromisedSession, PromisedFault, FingerprintsFit,
       clock, tables, history, NowMs

\* A request stores the record of what it has executed.
LEMMA StoreStep ==
  ASSUME ExpiryInv, StoreRecord
  PROVE  ExpiryInv'
<1>0. /\ ExpiryTypeOK /\ phase = "executing" /\ request \in Call /\ request.key \in IdempotencyKey
      /\ request.body \in Body
  BY DEF ExpiryInv, ExpiryTypeOK, StoreRecord, Call
<1> DEFINE k == request.key
           end == NowMs + RecordTtl
<1>1. end \in Int
  BY <1>0, ClockTyped, TimesAssumption
<1>2. /\ records' = [records EXCEPT ![k] = [of |-> request.body, end |-> end]]
      /\ fingerprints' = [fingerprints EXCEPT ![k] = request.body]
      /\ promised' = (promised \ Entries("record", k)) \cup {<<"record", k, end>>}
      /\ foundExpired' = foundExpired \ {k}
      /\ UNCHANGED <<clock, sessions, loggedIn, faults>>
      /\ phase' = "free" /\ request' = Nothing
      /\ answer' = [result |-> "executed", of |-> request.body, to |-> request.body]
  BY DEF StoreRecord, RecordEnd, Leave
<1>3. ExpiryTypeOK'
  BY <1>0, <1>1, <1>2 DEF ExpiryTypeOK, clock, Result
<1>4. FreshSessions'
  BY <1>2 DEF ExpiryInv, FreshSessions
<1>5. records'[k].end = end /\ \A l \in IdempotencyKey : l # k => records'[l] = records[l]
  BY <1>0, <1>2 DEF ExpiryTypeOK
<1>6. ASSUME NEW e \in promised'
      PROVE  (PromisedRecord(e) \/ PromisedSession(e) \/ PromisedFault(e))'
  <2>1. CASE e = <<"record", k, end>>
    BY <1>0, <1>1, <1>5, <2>1 DEF PromisedRecord
  <2>2. CASE e \in promised /\ e \notin Entries("record", k)
    <3>1. PromisedRecord(e) => PromisedRecord(e)'
      <4>1. ASSUME NEW l \in IdempotencyKey, e = <<"record", l, records[l].end>>, records[l].end \in Int
            PROVE  PromisedRecord(e)'
        <5>1. l # k
          BY <2>2, <4>1 DEF Entries
        <5> QED
          BY <1>5, <4>1, <5>1 DEF PromisedRecord
      <4> QED
        BY <4>1 DEF PromisedRecord
    <3>2. (PromisedSession(e) => PromisedSession(e)') /\ (PromisedFault(e) => PromisedFault(e)')
      BY <1>2 DEF PromisedSession, PromisedFault, NowMs, clock
    <3> QED
      BY <2>2, <3>1, <3>2 DEF ExpiryInv, PromisesKept
  <2> QED
    BY <1>2, <1>6, <2>1, <2>2
<1>7. FingerprintsFit'
  BY <1>0, <1>2 DEF ExpiryInv, FingerprintsFit, ExpiryTypeOK
<1> QED
  BY <1>3, <1>4, <1>6, <1>7 DEF ExpiryInv, PromisesKept

\* The other steps of a request.
LEMMA RequestPartStep ==
  ASSUME ExpiryInv, RequestStep
  PROVE  ExpiryInv'
<1>0. ExpiryTypeOK
  BY DEF ExpiryInv
<1>1. CASE (\E call \in Call : Authenticate(call)) \/ AnswerFault \/ EndWithoutRecord
  <2>1. UNCHANGED <<clock, tables, history>>
    BY <1>1 DEF Authenticate, AnswerFault, EndWithoutRecord
  <2>2. /\ phase' \in {"free", "authenticated", "executing"}
        /\ request' \in Call \cup {Nothing} /\ (request' = Nothing <=> phase' = "free")
        /\ answer' \in [result : Result, of : Body \cup {Nothing}, to : Body \cup {Nothing}]
    BY <1>0, <1>1, RequestAssumption DEF Authenticate, AnswerFault, EndWithoutRecord, Leave, ExpiryTypeOK, Result
  <2>3. ExpiryTypeOK'
    BY <1>0, <2>1, <2>2 DEF ExpiryTypeOK, clock, tables
  <2> QED
    BY <2>1, <2>3, TablesRemain DEF ExpiryInv
<1>2. CASE RefuseOtherBody \/ Replay \/ BeginExecution
  <2>1. LookUp
    BY <1>2 DEF RefuseOtherBody, Replay, BeginExecution
  <2>2. phase = "authenticated" /\ request \in Call
    BY <1>0, <2>1 DEF LookUp, ExpiryTypeOK
  <2>3. request.key \in IdempotencyKey /\ request.body \in Body
    BY <2>2 DEF Call
  <2>4. Replay => records[request.key].of \in Body
    BY <1>0, <2>3, RecordTyped DEF Replay, Found, Lives
  <2>5. /\ phase' \in {"free", "authenticated", "executing"}
        /\ request' \in Call \cup {Nothing} /\ (request' = Nothing <=> phase' = "free")
        /\ answer' \in [result : Result, of : Body \cup {Nothing}, to : Body \cup {Nothing}]
    <3>1. CASE RefuseOtherBody
      BY <3>1 DEF RefuseOtherBody, Leave, Result
    <3>2. CASE Replay
      BY <2>3, <2>4, <3>2 DEF Replay, Leave, Result
    <3>3. CASE BeginExecution
      BY <1>0, <2>2, <3>3, RequestAssumption DEF BeginExecution, ExpiryTypeOK
    <3> QED
      BY <1>2, <3>1, <3>2, <3>3
  <2>6. /\ records' = records /\ fingerprints' \in [IdempotencyKey -> Body \cup {Nothing}]
        /\ UNCHANGED <<clock, sessions, loggedIn, faults, promised>>
        /\ FreshSessions' /\ PromisesKept' /\ FingerprintsFit'
    BY <2>1, LookUpStep
  <2>7. ExpiryTypeOK'
    BY <1>0, <2>5, <2>6 DEF ExpiryTypeOK, clock
  <2> QED
    BY <2>6, <2>7 DEF ExpiryInv
<1>3. CASE StoreRecord
  BY <1>3, StoreStep
<1> QED
  BY <1>1, <1>2, <1>3 DEF RequestStep

\* Steps of the sessions.
LEMMA SessionStep ==
  ASSUME ExpiryInv, Sweep \/ \E s \in Session : Login(s) \/ Logout(s)
  PROVE  ExpiryInv'
<1>0. ExpiryTypeOK /\ NowMs \in Int
  BY ClockTyped DEF ExpiryInv
<1>1. UNCHANGED <<clock, records, fingerprints, faults, turn, foundExpired>> /\ NowMs' = NowMs
  BY DEF Sweep, Login, Logout, clock, history, NowMs
<1>2. FingerprintsFit'
  BY <1>1 DEF ExpiryInv, FingerprintsFit
<1>3. \A e : (PromisedRecord(e)' <=> PromisedRecord(e)) /\ (PromisedFault(e)' <=> PromisedFault(e))
  BY <1>1 DEF PromisedRecord, PromisedFault
<1>4. CASE Sweep
  <2>1. sessions' = [s \in Session |-> IF Lives(sessions[s], NowMs) THEN sessions[s] ELSE Nothing]
        /\ loggedIn' = loggedIn /\ promised' = promised
    BY <1>0, <1>4 DEF Sweep, Unexpired, ExpiryTypeOK, history
  <2>2. ExpiryTypeOK'
    BY <1>0, <1>1, <2>1 DEF ExpiryTypeOK, clock, turn
  <2>3. \A e : PromisedSession(e) => PromisedSession(e)'
    <3>1. ASSUME NEW s \in Session, sessions[s] \in Int, sessions[s] > NowMs
          PROVE  sessions'[s] = sessions[s]
      BY <2>1, <3>1, NothingAssumption DEF Lives
    <3> QED
      BY <1>1, <3>1 DEF PromisedSession
  <2>4. PromisesKept'
    BY <1>3, <2>1, <2>3 DEF ExpiryInv, PromisesKept
  <2>5. FreshSessions'
    BY <2>1 DEF ExpiryInv, FreshSessions
  <2> QED
    BY <1>2, <2>2, <2>4, <2>5 DEF ExpiryInv
<1>5. ASSUME NEW s \in Session, Login(s)
      PROVE  ExpiryInv'
  <2>1. PICK end \in Int : end = NowMs + SessionTtl /\ end > NowMs
    BY <1>0, TimesAssumption
  <2>2. /\ s \notin loggedIn /\ sessions[s] = Nothing
        /\ sessions' = [sessions EXCEPT ![s] = end] /\ loggedIn' = loggedIn \cup {s}
        /\ promised' = promised \cup {<<"session", s, end>>}
    BY <1>5, <2>1 DEF Login, ExpiryInv, FreshSessions
  <2>3. ExpiryTypeOK'
    BY <1>0, <1>1, <2>1, <2>2 DEF ExpiryTypeOK, clock, turn
  <2>4. sessions'[s] = end /\ \A r \in Session : r # s => sessions'[r] = sessions[r]
    BY <1>0, <2>2 DEF ExpiryTypeOK
  <2>5. \A e : PromisedSession(e) => PromisedSession(e)'
    <3>1. ASSUME NEW r \in Session, sessions[r] \in Int
          PROVE  sessions'[r] = sessions[r]
      BY <2>2, <2>4, <3>1, NothingAssumption
    <3> QED
      BY <1>1, <3>1 DEF PromisedSession
  <2>6. PromisedSession(<<"session", s, end>>)'
    BY <1>1, <2>1, <2>4 DEF PromisedSession
  <2>7. PromisesKept'
    BY <1>3, <2>2, <2>5, <2>6 DEF ExpiryInv, PromisesKept
  <2>8. FreshSessions'
    BY <2>2, <2>4 DEF ExpiryInv, FreshSessions
  <2> QED
    BY <1>2, <2>3, <2>7, <2>8 DEF ExpiryInv
<1>6. ASSUME NEW s \in Session, Logout(s)
      PROVE  ExpiryInv'
  <2>1. /\ sessions' = [sessions EXCEPT ![s] = Nothing] /\ loggedIn' = loggedIn
        /\ promised' = promised \ Entries("session", s)
    BY <1>6 DEF Logout
  <2>2. ExpiryTypeOK'
    BY <1>0, <1>1, <2>1 DEF ExpiryTypeOK, clock, turn
  <2>3. sessions'[s] = Nothing /\ \A r \in Session : r # s => sessions'[r] = sessions[r]
    BY <1>0, <2>1 DEF ExpiryTypeOK
  <2>4. \A e \in promised' : PromisedSession(e) => PromisedSession(e)'
    <3>1. ASSUME NEW e \in promised', NEW r \in Session, e = <<"session", r, sessions[r]>>,
                 sessions[r] \in Int, sessions[r] > NowMs
          PROVE  PromisedSession(e)'
      <4>1. r # s
        BY <2>1, <3>1 DEF Entries
      <4>2. sessions'[r] = sessions[r]
        BY <2>3, <4>1
      <4> QED
        BY <1>1, <3>1, <4>2 DEF PromisedSession
    <3> QED
      BY <3>1 DEF PromisedSession
  <2>5. PromisesKept'
    BY <1>3, <2>1, <2>4 DEF ExpiryInv, PromisesKept
  <2>6. FreshSessions'
    BY <2>1, <2>3 DEF ExpiryInv, FreshSessions
  <2> QED
    BY <1>2, <2>2, <2>5, <2>6 DEF ExpiryInv
<1> QED
  BY <1>4, <1>5, <1>6

\* Steps of the faults.
LEMMA FaultStep ==
  ASSUME ExpiryInv, ListFaults \/ \E f \in Fault : AddFault(f) \/ RemoveFault(f)
  PROVE  ExpiryInv'
<1>0. ExpiryTypeOK /\ NowMs \in Int
  BY ClockTyped DEF ExpiryInv
<1>1. UNCHANGED <<clock, records, fingerprints, sessions, loggedIn, turn, foundExpired>> /\ NowMs' = NowMs
  BY DEF ListFaults, AddFault, RemoveFault, clock, history, NowMs
<1>2. FingerprintsFit' /\ FreshSessions'
  BY <1>1 DEF ExpiryInv, FingerprintsFit, FreshSessions
<1>3. \A e : (PromisedRecord(e)' <=> PromisedRecord(e)) /\ (PromisedSession(e)' <=> PromisedSession(e))
  BY <1>1 DEF PromisedRecord, PromisedSession
<1> DEFINE left == Unexpired(faults)
<1>4. /\ left \in [Fault -> Int \cup {Nothing}]
      /\ \A f \in Fault : faults[f] = Nothing => left[f] = Nothing
      /\ \A f \in Fault : faults[f] \in Int /\ faults[f] > NowMs => left[f] = faults[f]
  <2>1. left = [f \in Fault |-> IF Lives(faults[f], NowMs) THEN faults[f] ELSE Nothing]
    BY <1>0 DEF Unexpired, ExpiryTypeOK
  <2>2. \A f \in Fault : faults[f] \in Int \cup {Nothing}
    BY <1>0 DEF ExpiryTypeOK
  <2> QED
    BY <2>1, <2>2, NothingAssumption DEF Lives
<1> HIDE DEF left
<1>5. CASE ListFaults
  <2>1. faults' = left /\ promised' = promised
    BY <1>5 DEF ListFaults, history, left
  <2>2. ExpiryTypeOK'
    BY <1>0, <1>1, <1>4, <2>1 DEF ExpiryTypeOK, clock, turn
  <2>3. \A e : PromisedFault(e) => PromisedFault(e)'
    BY <1>1, <1>4, <2>1 DEF PromisedFault
  <2>4. PromisesKept'
    BY <1>3, <2>1, <2>3 DEF ExpiryInv, PromisesKept
  <2> QED
    BY <1>2, <2>2, <2>4 DEF ExpiryInv
<1>6. ASSUME NEW f \in Fault, AddFault(f)
      PROVE  ExpiryInv'
  <2>1. PICK end \in Int : end = NowMs + FaultTtl /\ end > NowMs
    BY <1>0, TimesAssumption
  <2>2. /\ faults[f] = Nothing /\ faults' = [left EXCEPT ![f] = end]
        /\ promised' = promised \cup {<<"fault", f, end>>}
    BY <1>6, <2>1 DEF AddFault, left
  <2>3. ExpiryTypeOK'
    BY <1>0, <1>1, <1>4, <2>1, <2>2 DEF ExpiryTypeOK, clock, turn
  <2>4. faults'[f] = end /\ \A g \in Fault : g # f => faults'[g] = left[g]
    BY <1>4, <2>2
  <2>5. \A e : PromisedFault(e) => PromisedFault(e)'
    <3>1. ASSUME NEW g \in Fault, faults[g] \in Int, faults[g] > NowMs
          PROVE  faults'[g] = faults[g]
      BY <1>4, <2>2, <2>4, <3>1, NothingAssumption
    <3> QED
      BY <1>1, <3>1 DEF PromisedFault
  <2>6. PromisedFault(<<"fault", f, end>>)'
    BY <1>1, <2>1, <2>4 DEF PromisedFault
  <2>7. PromisesKept'
    BY <1>3, <2>2, <2>5, <2>6 DEF ExpiryInv, PromisesKept
  <2> QED
    BY <1>2, <2>3, <2>7 DEF ExpiryInv
<1>7. ASSUME NEW f \in Fault, RemoveFault(f)
      PROVE  ExpiryInv'
  <2>1. faults' = [faults EXCEPT ![f] = Nothing] /\ promised' = promised \ Entries("fault", f)
    BY <1>7 DEF RemoveFault
  <2>2. ExpiryTypeOK'
    BY <1>0, <1>1, <2>1 DEF ExpiryTypeOK, clock, turn
  <2>3. \A g \in Fault : g # f => faults'[g] = faults[g]
    BY <1>0, <2>1 DEF ExpiryTypeOK
  <2>4. \A e \in promised' : PromisedFault(e) => PromisedFault(e)'
    <3>1. ASSUME NEW e \in promised', NEW g \in Fault, e = <<"fault", g, faults[g]>>,
                 faults[g] \in Int, faults[g] > NowMs
          PROVE  PromisedFault(e)'
      <4>1. g # f
        BY <2>1, <3>1 DEF Entries
      <4>2. faults'[g] = faults[g]
        BY <2>3, <4>1
      <4> QED
        BY <1>1, <3>1, <4>2 DEF PromisedFault
    <3> QED
      BY <3>1 DEF PromisedFault
  <2>5. PromisesKept'
    BY <1>3, <2>1, <2>4 DEF ExpiryInv, PromisesKept
  <2> QED
    BY <1>2, <2>2, <2>5 DEF ExpiryInv
<1> QED
  BY <1>5, <1>6, <1>7

\* The clock moves, and what it ends nobody has a right to any more.
LEMMA ClockStep ==
  ASSUME ExpiryInv, Tick \/ ResetClock \/ \E ms \in Advance : AdvanceClock(ms)
  PROVE  ExpiryInv'
<1>0. ExpiryTypeOK
  BY DEF ExpiryInv
<1>1. PICK newWall, newSkew : MoveTo(newWall, newSkew) /\ newWall \in 0..MaxWall /\ newSkew \in -MaxSkew..MaxSkew
  <2>1. CASE Tick
    <3>1. wall + 1 \in 0..MaxWall /\ skew \in -MaxSkew..MaxSkew
      BY <1>0, <2>1, TimesAssumption DEF Tick, ExpiryTypeOK
    <3> QED
      BY <2>1, <3>1 DEF Tick
  <2>2. CASE ResetClock
    <3>1. wall \in 0..MaxWall /\ 0 \in -MaxSkew..MaxSkew
      BY <1>0, TimesAssumption DEF ExpiryTypeOK
    <3> QED
      BY <2>2, <3>1 DEF ResetClock
  <2>3. CASE \E ms \in Advance : AdvanceClock(ms)
    BY <1>0, <2>3 DEF AdvanceClock, ExpiryTypeOK
  <2> QED
    BY <2>1, <2>2, <2>3
<1>2. /\ wall' = newWall /\ skew' = newSkew /\ UNCHANGED <<tables, turn, foundExpired>>
      /\ promised' = promised \ EndedBy(newWall + newSkew)
  BY <1>1 DEF MoveTo
<1>3. ExpiryTypeOK'
  BY <1>0, <1>1, <1>2 DEF ExpiryTypeOK, tables, turn
<1>4. FreshSessions' /\ FingerprintsFit'
  BY <1>2 DEF ExpiryInv, FreshSessions, FingerprintsFit, tables
<1>5. NowMs' = newWall + newSkew /\ NowMs' \in Int
  BY <1>1, <1>2, TimesAssumption DEF NowMs
<1>6. ASSUME NEW e \in promised'
      PROVE  (PromisedRecord(e) \/ PromisedSession(e) \/ PromisedFault(e))'
  <2>1. e \in promised /\ (e[1] # "record" => ~(e[3] <= NowMs'))
    BY <1>2, <1>5, <1>6 DEF EndedBy
  <2>2. PromisedRecord(e) => PromisedRecord(e)'
    BY <1>2 DEF PromisedRecord, tables
  <2>3. PromisedSession(e) => PromisedSession(e)'
    <3>1. ASSUME NEW s \in Session, e = <<"session", s, sessions[s]>>, sessions[s] \in Int
          PROVE  PromisedSession(e)'
      <4>1. e[1] = "session" /\ e[3] = sessions[s]
        BY <3>1
      <4>2. sessions[s] > NowMs'
        BY <1>5, <2>1, <3>1, <4>1
      <4> QED
        BY <1>2, <3>1, <4>2 DEF PromisedSession, tables
    <3> QED
      BY <3>1 DEF PromisedSession
  <2>4. PromisedFault(e) => PromisedFault(e)'
    <3>1. ASSUME NEW f \in Fault, e = <<"fault", f, faults[f]>>, faults[f] \in Int
          PROVE  PromisedFault(e)'
      <4>1. e[1] = "fault" /\ e[3] = faults[f]
        BY <3>1
      <4>2. faults[f] > NowMs'
        BY <1>5, <2>1, <3>1, <4>1
      <4> QED
        BY <1>2, <3>1, <4>2 DEF PromisedFault, tables
    <3> QED
      BY <3>1 DEF PromisedFault
  <2> QED
    BY <2>1, <2>2, <2>3, <2>4 DEF ExpiryInv, PromisesKept
<1> QED
  BY <1>3, <1>4, <1>6 DEF ExpiryInv, PromisesKept

LEMMA ExpiryInvStep ==
  ASSUME ExpiryInv, [ExpiryNext]_expiryVars
  PROVE  ExpiryInv'
<1>0. ExpiryTypeOK
  BY DEF ExpiryInv
<1>1. CASE Reset
  <2>1. /\ records' \in [IdempotencyKey -> {NoRecord}] /\ fingerprints' \in [IdempotencyKey -> {Nothing}]
        /\ sessions' \in [Session -> {Nothing}] /\ faults' \in [Fault -> {Nothing}]
        /\ skew' \in -MaxSkew..MaxSkew /\ promised' = {} /\ UNCHANGED <<wall, loggedIn, turn>>
    BY <1>1, TimesAssumption DEF Reset
  <2>2. ExpiryTypeOK'
    BY <1>0, <2>1 DEF ExpiryTypeOK, turn
  <2>3. \A k \in IdempotencyKey : records'[k].end = Nothing
    BY <2>1 DEF NoRecord
  <2> QED
    BY <2>1, <2>2, <2>3 DEF ExpiryInv, FreshSessions, PromisesKept, FingerprintsFit
<1>2. CASE UNCHANGED expiryVars
  <2>1. UNCHANGED <<clock, tables, turn, history>>
    BY <1>2 DEF expiryVars
  <2>2. ExpiryTypeOK'
    BY <1>0, <2>1 DEF ExpiryTypeOK, clock, tables, turn
  <2> QED
    BY <2>1, <2>2, TablesRemain DEF ExpiryInv
<1> QED
  BY <1>1, <1>2, RequestPartStep, SessionStep, FaultStep, ClockStep DEF ExpiryNext

LEMMA ExpiryInvariant ==
  ExpirySpec => []ExpiryInv
<1> QED
  BY ExpiryInvInit, ExpiryInvStep, PTL DEF ExpirySpec

(***************************************************************************)
(* Whatever the clocks of requests and administrators do, an entry is      *)
(* there for everybody until somebody removes it or the base clock has     *)
(* reached its end, and a key executes again only for a request whose own  *)
(* clock is past the end of its record (engine.ts:356, storage.ts:64).     *)
(***************************************************************************)
THEOREM LifetimesShared ==
  ExpirySpec => LifetimesAreShared
<1>1. ASSUME ExpiryInv, [ExpiryNext]_expiryVars, phase = "authenticated", phase' = "executing",
             NEW e \in Entries("record", request.key)
      PROVE  e[3] <= NowMsFor(request)
  <2>1. BeginExecution
    <3>1. phase' # phase
      BY <1>1
    <3>2. RequestStep
      BY <1>1, <3>1 DEF ExpiryNext, Login, Logout, AddFault, RemoveFault, AdvanceClock, MoveTo, Sweep, ListFaults,
                        Tick, ResetClock, Reset, turn, expiryVars
    <3> QED
      BY <1>1, <3>2 DEF RequestStep, Authenticate, AnswerFault, RefuseOtherBody, Replay, EndWithoutRecord,
                        StoreRecord, Leave
  <2>2. ExpiryTypeOK /\ request \in Call /\ request.key \in IdempotencyKey /\ NowMsFor(request) \in Int
    BY <1>1, ClockTyped DEF ExpiryInv, ExpiryTypeOK, Call
  <2>3. e = <<"record", request.key, records[request.key].end>> /\ records[request.key].end \in Int
    <3>1. e \in promised /\ e[1] = "record" /\ e[2] = request.key
      BY <1>1 DEF Entries
    <3>2. PromisedRecord(e)
      BY <1>1, <3>1 DEF ExpiryInv, PromisesKept, PromisedSession, PromisedFault
    <3> QED
      BY <3>1, <3>2 DEF PromisedRecord
  <2>4. ~Lives(records[request.key].end, NowMsFor(request))
    BY <2>1 DEF BeginExecution, Found
  <2>5. records[request.key].end <= NowMsFor(request)
    BY <2>2, <2>3, <2>4, NothingAssumption DEF Lives
  <2> QED
    BY <2>3, <2>5
<1>2. ASSUME ExpiryInv, ExpiryInv', [ExpiryNext]_expiryVars
      PROVE  [/\ ExpiryTypeOK' /\ promised' \subseteq Stored'
              /\ phase = "authenticated" /\ phase' = "executing" =>
                   \A e \in Entries("record", request.key) : e[3] <= NowMsFor(request)]_expiryVars
  <2>1. promised' \subseteq Stored' /\ ExpiryTypeOK'
    BY <1>2 DEF ExpiryInv, PromisesKept, PromisedRecord, PromisedSession, PromisedFault, Stored
  <2> QED
    BY <1>1, <1>2, <2>1
<1> QED
  BY <1>2, ExpiryInvariant, PTL DEF ExpirySpec, LifetimesAreShared

(***************************************************************************)
(* A key answers only for the body it was executed with, across expiries,  *)
(* resets and clocks, unless somebody has found it expired while its       *)
(* record was there for others (engine.ts:3252).                           *)
(***************************************************************************)
THEOREM RepliesFitBodies ==
  ExpirySpec => ReplaysFitBodies
<1>1. ASSUME ExpiryInv, [ExpiryNext]_expiryVars,
             phase = "authenticated", phase' = "free", answer'.result = "replayed"
      PROVE  answer'.of = answer'.to \/ request.key \in foundExpired
  <2>1. Replay
    <3>1. phase' # phase
      BY <1>1
    <3>2. RequestStep
      BY <1>1, <3>1 DEF ExpiryNext, Login, Logout, AddFault, RemoveFault, AdvanceClock, MoveTo, Sweep, ListFaults,
                        Tick, ResetClock, Reset, turn, expiryVars
    <3> QED
      BY <1>1, <3>2 DEF RequestStep, Authenticate, AnswerFault, RefuseOtherBody, BeginExecution, EndWithoutRecord,
                        StoreRecord, Leave
  <2>2. ExpiryTypeOK /\ request \in Call /\ request.key \in IdempotencyKey
    BY <1>1 DEF ExpiryInv, ExpiryTypeOK, Call
  <2>3. answer'.of = records[request.key].of /\ answer'.to = request.body
    BY <2>1 DEF Replay, Leave
  <2>4. Found(request.key, NowMsFor(request)) /\ records[request.key].end # Nothing
    BY <2>1 DEF Replay, Found, Lives
  <2>5. fingerprints[request.key] \in {Nothing, request.body}
    BY <2>1, <2>4 DEF Replay, Conflicts, Outdated
  <2>6. records[request.key].of \in Body /\ Nothing \notin Body
    BY <2>2, <2>4, RecordTyped, NothingAssumption
  <2>7. request.key \notin foundExpired => fingerprints[request.key] = records[request.key].of
    BY <1>1, <2>2, <2>4 DEF ExpiryInv, FingerprintsFit
  <2> QED
    BY <2>3, <2>5, <2>6, <2>7
<1>2. ASSUME ExpiryInv, [ExpiryNext]_expiryVars
      PROVE  [phase = "authenticated" /\ phase' = "free" /\ answer'.result = "replayed"
                => answer'.of = answer'.to \/ request.key \in foundExpired]_expiryVars
  BY <1>1, <1>2
<1> QED
  BY <1>2, ExpiryInvariant, PTL DEF ExpirySpec, ReplaysFitBodies
=============================================================================
