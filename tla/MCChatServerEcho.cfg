\* One user who talks, and nobody else.
SPECIFICATION Spec
CONSTANTS
  Clients = {c1}
  MAX_CONNECTIONS = 1
  NULL = NULL
  GARBAGE = GARBAGE
  MaxSent = 2
INVARIANT EchoedToSender
CHECK_DEADLOCK FALSE
