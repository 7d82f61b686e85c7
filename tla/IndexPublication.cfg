\* One Vault: two changes of its Markdown on top of where it started, a refused
\* write, a Git turn and a failing Index turn.
SPECIFICATION FairSpec
CONSTANTS
  MaxChange = 2
  MaxRefused = 1
  MaxGit = 1
  MaxFailure = 1
  RetryLimit = 1
INVARIANTS
  FreshHasEveryWrite
  CatchUpOwed
PROPERTIES
  FreshWhenPublished
  StatusFollowsRow
  EventuallyCurrent
CHECK_DEADLOCK FALSE
