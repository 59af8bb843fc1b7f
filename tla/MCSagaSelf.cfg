\* A step on the aggregate of the trigger: the request never ends.
SPECIFICATION FairSpec
CONSTANTS
  order = order
  stock = stock
  wallet = wallet
  Place = Place
  Reserve = Reserve
  Charge = Charge
  Release = Release
  Aggregate = {order, stock, wallet}
  Operation = {Place, Reserve, Charge, Release}
  NoUndo = NoUndo
  Cascade = Cascade
  Plans <- SelfPlan
  Twice = {Place, Charge}
  Announcing = {Place, Release}
  MaxAttempts = 3
  MaxSagas = 2
  MaxSteps = 3
CHECK_DEADLOCK FALSE
PROPERTY
  SagasEnd
