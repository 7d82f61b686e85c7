SPECIFICATION FairSpec
CONSTANT MaxEvents = 3
INVARIANTS CommitOwed LeaseHasOwner RemoteFailureShown
PROPERTIES BackoffIsHonoured EventuallyCommitted
CHECK_DEADLOCK FALSE
