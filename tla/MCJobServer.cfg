\* Three connections for two slots: descriptors and slots are reused, and the
\* list overflows.  One pid is enough for the loop; JobTable has more.
SPECIFICATION Spec
CONSTANTS
  Pids = {p1}
  MAX_JOBS = 1
  NULL = NULL
  Clients = {c1, c2, c3}
  MAX_CLIENTS = 2
  ClientCommands <- SomeCommands
  MaxSent = 3
SYMMETRY ClientSymmetry
INVARIANTS
  ServerTypeOK
  RecordsAgree
  SnapshotStaysTrue
  CommandsInOrder
\* The server may have ended, or wait in read or select for a peer that is silent.
CHECK_DEADLOCK FALSE
