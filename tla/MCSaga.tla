-------------------------------- MODULE MCSaga --------------------------------
(* Instances of Saga for TLC: triggers, saga definitions, client headers.  *)
EXTENDS Saga

CONSTANTS order, stock, wallet, Place, Reserve, Charge, Release

Act(a, o) == [agg |-> a, op |-> o]

\* Two aggregates beside the trigger's; the middle step has no compensation
\* and the last one uses the operation of the first.
FullSaga ==
  << [do |-> Act(stock, Reserve), undo |-> Act(stock, Release)],
     [do |-> Act(wallet, Charge), undo |-> NoUndo],
     [do |-> Act(wallet, Charge), undo |-> Act(wallet, Release)] >>

ShortSaga ==
  << [do |-> Act(stock, Reserve), undo |-> Act(stock, Release)],
     [do |-> Act(wallet, Charge), undo |-> Act(wallet, Release)] >>

\* A step that goes back to the order that triggered it.
BackToTrigger == << [do |-> Act(order, Charge), undo |-> NoUndo] >>

\* Two steps of one operation.
SameOperation ==
  << [do |-> Act(stock, Reserve), undo |-> NoUndo],
     [do |-> Act(wallet, Reserve), undo |-> NoUndo] >>

Trigger(keyed, batched, sagas, may) ==
  [trigger |-> Act(order, Place), keyed |-> keyed, batched |-> batched, sagas |-> sagas, may |-> may,
   skipped |-> {}]

\* What may go wrong inside the commands, and around them.
Inside == {"fault", "hook", "expression"}

\* With everything that can go wrong, and with steps that throw only.
AllPlans ==
  {Trigger(keyed, batched, <<FullSaga, ShortSaga>>, Inside) : keyed, batched \in BOOLEAN}
    \cup {Trigger(FALSE, batched, <<FullSaga, ShortSaga>>, may) :
            batched \in BOOLEAN, may \in {{}, {"expression"}}}
    \cup {Trigger(keyed, TRUE, <<BackToTrigger, SameOperation>>, may) :
            keyed \in BOOLEAN, may \in {{}, Mishap}}
    \cup {[Trigger(FALSE, FALSE, <<ShortSaga>>, may) EXCEPT !.skipped = skipped] :
            may \in {{"reducer", "hook"}, {"endpoint", "hook"}},
            skipped \in SUBSET {"projections", "webhooks"}}

\* The step on the trigger's aggregate in a request that still holds its locks.
SelfPlan == {Trigger(FALSE, FALSE, <<BackToTrigger>>, {})}
=============================================================================
