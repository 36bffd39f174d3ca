SPECIFICATION TableSpec
CONSTANTS
  Pids = {p1, p2}
  MAX_JOBS = 1
  NULL = NULL
INVARIANT NoStraySignal
CHECK_DEADLOCK FALSE
