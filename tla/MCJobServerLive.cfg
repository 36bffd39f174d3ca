\* Two connections that wait for one another; no symmetry, as the properties are
\* liveness properties.
SPECIFICATION FairSpec
CONSTANTS
  Pids = {p1}
  MAX_JOBS = 1
  NULL = NULL
  Clients = {c1, c2}
  MAX_CLIENTS = 2
  ClientCommands <- QuietCommands
  MaxSent = 2
PROPERTIES
  PatientClientsAreServed
\* The server may have ended, or wait in read or select for a peer that is silent.
CHECK_DEADLOCK FALSE
