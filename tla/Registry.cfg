CONSTANTS
  Vault = {v1, v2}
  Client = {c1, c2}
  Nobody = Nobody
  Nonces = 1
  Predict = FALSE
  MaxRevision = 2
  MaxRestarts = 1
SPECIFICATION Spec
SYMMETRY Symmetry
PROPERTIES PromiseKept
CHECK_DEADLOCK FALSE
