SPECIFICATION FairSpec
CONSTANTS
  Pids = {p1}
  MAX_JOBS = 1
  NULL = NULL
  Clients = {c1, c2}
  MAX_CLIENTS = 2
  ClientCommands <- OnlyJobs
  MaxSent = 2
PROPERTY EveryClientIsHeard
\* The server may have ended, or wait in read or select for a peer that is silent.
CHECK_DEADLOCK FALSE
