SPECIFICATION FairSpec
CONSTANTS
  v1 = v1
  v2 = v2
  w1 = w1
  Vault = {v1}
  Versioned = {v1}
  Managed = {v1}
  Writer = {w1}
  MaxLifecycle = 3
  Overlap = FALSE
INVARIANTS OneHolder ScheduleFollowsCollection RetiredStaysOut ActivationIsComplete
PROPERTIES EveryLifecycleEnds
CHECK_DEADLOCK FALSE
