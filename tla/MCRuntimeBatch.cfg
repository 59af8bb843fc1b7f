\* Failing items, failing post-commit hooks and a reset at any moment.
SPECIFICATION FairSpec
CONSTANTS
  a1 = a1
  a2 = a2
  k1 = k1
  Aggregate = {a1, a2}
  Seeded = {a1, a2}
  Baseline = Baseline
  Call = {c1, c2}
  MaxItems = 2
  Request <- ItemIds
  Key = {k1}
  NoKey = NoKey
  NoRecord = NoRecord
  NoBatch = NoBatch
  Plans <- MixedPlans
  MaxResets = 1
\* The system stops once every call is answered; a call that is not violates
\* EveryCallAnswered.
CHECK_DEADLOCK FALSE
INVARIANTS
  RollbackIsWhole
  NoEarlyDelivery
  KeysExecuteOnce
PROPERTIES
  RollbackIsLocal
  EveryCallAnswered
