\* Five processes in three families; no limit, a limit and an impossible one;
\* descriptors for the files of all, and of some only.
SPECIFICATION FairSpec
CONSTANTS
  MaxPid = 5
  Starts <- Families
  Depths <- SomeDepths
  Limits <- SomeLimits
INVARIANTS
  PtreeTypeOK
  LinksGoForward
  SteadyShown
  OnlyTheGoneAreMissed
  ShownBelowParent
PROPERTY PtreeEnds
\* The program and, in the end, all but init stop.
CHECK_DEADLOCK FALSE
