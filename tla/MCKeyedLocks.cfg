\* Four tasks on three keys, whose wants overlap in a circle.
SPECIFICATION FairLockSpec
CONSTANTS
  t1 = t1
  t2 = t2
  t3 = t3
  t4 = t4
  Task = {t1, t2, t3, t4}
  Key = {1, 2, 3}
  Wants <- FourTasks
  NoSlot = NoSlot
\* The system stops once every task is done; a task that waits for ever
\* violates EveryTaskServed.
CHECK_DEADLOCK FALSE
INVARIANT
  MutualExclusion
PROPERTIES
  FifoLocksSpec
  EveryTaskServed
