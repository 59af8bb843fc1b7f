\* The admin resets an idle system: baseline restored, refinement of AtomicStore;
\* and with failing hooks and fair scheduling every request is answered.
\* The system stops once every request is answered; stopping earlier violates
\* the property.
CHECK_DEADLOCK FALSE
SPECIFICATION FairSpec
CONSTANTS
  a1 = a1
  a2 = a2
  k1 = k1
  Aggregate = {a1, a2}
  Request = {r1, r2}
  Seeded = {a1}
  Baseline = Baseline
  Key = {k1}
  NoKey = NoKey
  NoRecord = NoRecord
  NoVersion = NoVersion
  Commands <- MixedCommands
  Admin = {adm}
  Resolved = Resolved
  MaxResets = 2
  HooksMayFail = TRUE
  QuietAdmin = TRUE
INVARIANT
  ResetRestoresBaseline
PROPERTIES
  AtomicStoreSpec
  EveryRequestAnswered
