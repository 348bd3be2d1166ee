SPECIFICATION Spec
CONSTANTS
  b1 = b1
  b2 = b2
  Book = {b1, b2}
  PageCount <- MCPageCount
  Broken <- MCBroken
  Garbled <- MCGarbled
  PoolSize = 2
  MaxActs = 2
  MaxKills = 1
INVARIANT TypeOK
INVARIANT FilesTrueUnlessEarlyOrLate
INVARIANT PartialIsBeingWritten
PROPERTY CountsAlone
PROPERTY LoadingEnds
INVARIANT CrashesOnlyAfterEarlyOrLate
CHECK_DEADLOCK FALSE
