SPECIFICATION WritesSpec
CONSTANTS
  Linking = {n1}
  MaxSaves = 2
  MaxOps = 2
  MaxFaults = 1
INVARIANTS SavesSurvive AllOrNothing
CHECK_DEADLOCK FALSE
