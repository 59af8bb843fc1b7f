\* Three requests, two resets at any moment and expiring keys; hooks do not fail.
SPECIFICATION Spec
CONSTANTS
  a1 = a1
  a2 = a2
  k1 = k1
  Aggregate = {a1, a2}
  Request = {r1, r2, r3}
  Seeded = {a1}
  Baseline = Baseline
  Key = {k1}
  NoKey = NoKey
  NoRecord = NoRecord
  NoVersion = NoVersion
  Commands <- MixedCommands
  Admin = {adm1, adm2}
  Resolved = Resolved
  MaxResets = 2
  HooksMayFail = FALSE
  QuietAdmin = FALSE
SYMMETRY Symmetry
INVARIANTS
  StoresAgree
  UnitsAreAtomic
  KeysExecuteOnce
  NoLostUpdate
