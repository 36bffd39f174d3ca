\* Every number up to 10; pipes of two lists; fork fails anywhere, and at the fourth
\* process at the latest; one pipe that can not be made.
SPECIFICATION FairSpec
CONSTANTS
  Targets <- SmallTargets
  PipeLists = 2
  ProcessLimit = 4
  FdLimit = 32
  PipeFailures = 1
  Unwritten <- Leftovers
  NULL = NULL
INVARIANTS
  PfactTypeOK
  RightVerdict
  OrderlyEnd
  ReadersHoldWriters
PROPERTY VerdictComes
\* Most stages wait for ever for a list that only they could write.
CHECK_DEADLOCK FALSE
