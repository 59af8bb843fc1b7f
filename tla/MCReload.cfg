\* Edits, forced reloads, a reload that keeps the events, a reset and requests.
SPECIFICATION FairSpec
CONSTANTS
  v1 = v1
  v2 = v2
  v3 = v3
  v4 = v4
  v5 = v5
  kept = kept
  dropped = dropped
  Version = {v1, v2, v3, v4, v5}
  FirstVersion = v1
  Boundary = {kept, dropped}
  Boundaries <- SomeBoundaries
  Fault <- SomeFaults
  NoBoundary = NoBoundary
  r1 = r1
  Request = {r1}
  MaxEdits = 2
  MaxCalls = 2
INVARIANTS
  
  ContractFitsProgram
PROPERTIES
  CleanStart
  SourcesCatchUp
  EveryoneIsAnswered
