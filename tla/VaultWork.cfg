CONSTANTS
  Vault = {v1, v2}
  GitKind = {"Git"}
  IndexKind = {"Index"}
  Idle = Idle
  GitWidth = 1
SPECIFICATION FairSpec
INVARIANTS QueueExact PausedTurnYields ShownMatchesQueue
PROPERTIES PromiseKept EveryTurnRuns BoundaryReached
