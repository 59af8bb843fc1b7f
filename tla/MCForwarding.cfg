\* One keyed request and one without a key, whose path not every version of
\* the engine owns; an engine that is slow, crashes, restarts and is reloaded.
SPECIFICATION FairSpec
CONSTANTS
  r1 = r1
  r2 = r2
  v1 = v1
  v2 = v2
  Request = {r1, r2}
  Keyed = {r1}
  Always = {r1}
  Version = {v1, v2}
  FirstVersion = v1
  NoVersion = NoVersion
  Some = {v2}
  MaxAttempts = 2
  HalfOpenPermits = 2
  MaxEvents = 1
INVARIANTS
  OwnedPathsAreForwarded
  EffectsFitAnswers
PROPERTIES
  DiscoversAsSpecified
  Recovers
