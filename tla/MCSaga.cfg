\* Requests with everything that can go wrong, and requests with throwing steps only.
SPECIFICATION FairSpec
CONSTANTS
  order = order
  stock = stock
  wallet = wallet
  Place = Place
  Reserve = Reserve
  Charge = Charge
  Release = Release
  Aggregate = {order, stock, wallet}
  Operation = {Place, Reserve, Charge, Release}
  NoUndo = NoUndo
  Cascade = Cascade
  Plans <- AllPlans
  Twice = {Place, Charge}
  Announcing = {Place, Release}
  MaxAttempts = 3
  MaxSagas = 2
  MaxSteps = 3
\* A request that waits for a lock it holds stops: SagasEnd says that none does.
CHECK_DEADLOCK FALSE
INVARIANTS
  JournalFollowsLifecycle
  NoOrphanEffects
  OutsideFollowsLog
PROPERTY
  SagasEnd
