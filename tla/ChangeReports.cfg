CONSTANTS
  Reader = {r1}
  MaxChange = 2
SPECIFICATION FairSpec
INVARIANTS GraphIsVouched
PROPERTIES NoticedIsIndexed
CHECK_DEADLOCK FALSE
