SPECIFICATION FairSyncSpec
CONSTANTS
  File = {n1, n2, out}
  Inside = {n1, n2}
  MaxSaves = 2
  MaxOthers = 2
  MaxFaults = 1
INVARIANTS SavesSurvive MarkersAreFenced SuccessIsOnRemote
PROPERTIES HistoryOnlyGrows EventuallyInSync
CHECK_DEADLOCK FALSE
