CONSTANTS
  Vault = {v1}
  MaxSetups = 2
  MaxChanges = 2
SPECIFICATION FairSpec
INVARIANTS ReadyHasModel SetupKeepsClaim
PROPERTIES EventuallyReady
CHECK_DEADLOCK FALSE
