\* A version of the sources of which a hook fails is installed all the same.
SPECIFICATION Spec
CONSTANTS
  v1 = v1
  v2 = v2
  v3 = v3
  v4 = v4
  v5 = v5
  kept = kept
  dropped = dropped
  Version = {v1, v2, v3, v4, v5}
  FirstVersion = v1
  Boundary = {kept, dropped}
  Boundaries <- SomeBoundaries
  Fault <- SomeFaults
  NoBoundary = NoBoundary
  r1 = r1
  Request = {r1}
  MaxEdits = 1
  MaxCalls = 0
PROPERTY
  PreviousRemains
