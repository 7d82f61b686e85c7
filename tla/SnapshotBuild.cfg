CONSTANTS
  v1 = v1
  v2 = v2
  n1 = n1
  n2 = n2
  Vault = {v1, v2}
  Note = {n1, n2}
  Model = {m1, m2}
  NoModel = NoModel
  MaxText = 2
  Markdown <- AtFirst
  MaxMishap = 2
SPECIFICATION FairSpec
INVARIANTS OneVectorSpace RemovedLeavesNothing SearchableIsComplete
PROPERTIES EventuallySearchable
