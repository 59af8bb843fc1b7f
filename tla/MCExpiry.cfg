\* Requests with clocks ahead, behind and in step, one after the other.
SPECIFICATION ExpirySpec
CONSTANTS
  IdempotencyKey = {k1}
  Body = {b1, b2}
  Session = {s1}
  Fault = {f1}
  Nothing = Nothing
  Offset <- Offsets
  Advance <- Advances
  RecordTtl = 2
  SessionTtl = 2
  FaultTtl = 1
  MaxWall = 2
  MaxSkew = 2
PROPERTIES
  LifetimesAreShared
  ReplaysFitBodies
