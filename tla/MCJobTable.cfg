\* Three slots and three pids: the table fills up, is emptied in the middle and is
\* refilled, and a pid can be a job's, a lingering killed job's or a stranger's.
\* No symmetry, as two properties are liveness properties.
SPECIFICATION FairTableSpec
CONSTANTS
  Pids = {p1, p2, p3}
  MAX_JOBS = 3
  NULL = NULL
INVARIANTS
  TableTypeOK
  EntriesAreSound
  NoLostJob
  KillsAreMeant
PROPERTIES
  ImplementsPool
  EndedJobsAreStruck
  KillTakesEffect
\* The server exits when fork fails; its children may all have ended.
CHECK_DEADLOCK FALSE
