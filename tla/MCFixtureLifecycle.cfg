\* An engine that stops or starts, edits its fixtures and notifies the plugin,
\* late or never; probes, coroutines and handlers in any order.
SPECIFICATION FairSpec
CONSTANTS
  v1 = v1
  v2 = v2
  shared = shared
  added = added
  unmatched = unmatched
  Version = {v1, v2}
  FirstVersion = v1
  NoVersion = NoVersion
  NoSignal = NoSignal
  Path = {shared, added, unmatched}
  FixturePaths <- TwoVersions
  Refused = {unmatched}
  MaxEvents = 2
  MaxTasks = 3
INVARIANTS
  ExcludedPathsHaveStubs
  LastTransitionWins
PROPERTIES
  MonitorIsSound
  MonitorConverges
  ReloadCatchesUp
