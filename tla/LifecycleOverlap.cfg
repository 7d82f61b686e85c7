SPECIFICATION Spec
CONSTANTS
  v1 = v1
  v2 = v2
  w1 = w1
  Vault = {v1, v2}
  Versioned = {}
  Managed = {}
  Writer = {w1}
  MaxLifecycle = 3
  Overlap = TRUE
INVARIANTS ConvergesOnNewest BoundaryHolds
SYMMETRY VaultSymmetry
CHECK_DEADLOCK FALSE
