\* One client and one slot: the client may leave before it gives a name.
SPECIFICATION Spec
CONSTANTS
  Clients = {c1}
  MAX_CONNECTIONS = 1
  NULL = NULL
  GARBAGE = GARBAGE
  MaxSent = 2
INVARIANT SurvivesNamelessLeaver
CHECK_DEADLOCK FALSE
