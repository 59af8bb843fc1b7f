\* Reactions and dispatches that run in circles; a unit that stops has an outcome.
SPECIFICATION Spec
CONSTANTS
  T1 = T1
  T2 = T2
  a1 = a1
  a2 = a2
  Place = Place
  Touch = Touch
  Loop = Loop
  Make = Make
  Boundary = {1, 2}
  AnyBoundary = AnyBoundary
  Type = {T1, T2, GenericUpdate}
  GenericUpdate = GenericUpdate
  Aggregate = {a1, a2}
  Generated = Generated
  Same = Same
  Operation = {Place, Touch, Loop, Make}
  Programs <- SomePrograms
  MaxReactionEvents = 3
  None = None
INVARIANTS
  OncePerTarget
  WorkIsBounded
  FanOutIsComplete
  StableOrder
  AnswerIsOwn
