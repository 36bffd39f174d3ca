\* Three clients for two slots: slots and descriptors are reused and run out.  No
\* symmetry, as one property is a liveness property.
SPECIFICATION FairSpec
CONSTANTS
  Clients = {c1, c2, c3}
  MAX_CONNECTIONS = 2
  NULL = NULL
  GARBAGE = GARBAGE
  MaxSent = 3
INVARIANTS
  ChatTypeOK
  TableAgrees
  ReadsDoNotBlock
  HeardByAll
  OwnWords
PROPERTY EveryUserIsRead
\* The server may have ended, or wait in select when all its clients have left.
CHECK_DEADLOCK FALSE
