SPECIFICATION Spec
CONSTANTS
  v1 = v1
  v2 = v2
  w1 = w1
  Vault = {v1}
  Versioned = {v1}
  Managed = {}
  Writer = {w1}
  MaxLifecycle = 3
  Overlap = TRUE
INVARIANTS OneHolder
CHECK_DEADLOCK FALSE
