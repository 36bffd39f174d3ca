\* Lines of 0 to 3 bytes and their newlines, for a buffer of 4: up to two lines fit at
\* once, and the longest is too long.  Frames of 8 bytes that the client reads by 3.
\* The sizes of pid lists are the real ones.
SPECIFICATION ProgramsSpec
CONSTANTS
  BUFSIZE = 4
  Text = {"a", "b"}
  MaxLine = 3
  MaxLines = 2
  Streams <- LinesOfText
  BUF_SIZE = 3
  TextLengths = {2, 4, 7}
  MaxFrames = 2
  MaxTyped = 2
  MAX_PASSWORD = 3
  Files <- PasswordFiles
  Characters = {"u", "p", "LF"}
  Ids <- SomeChunks
  Passwords <- SomeChunks
  ListSize = 256
  MAX_JOBS = 32
  Widths = {5, 7}
  DIGITS = 3
  INT_MAX = 2047
  Args <- Numbers
  PERMS = 2
  Bits = {"-", "r"}
  Limit = 1
  Listings <- LsListings
  Starts <- Exercises
INVARIANTS
  ProgramsTypeOK
  LinesAreTheStreams
  MessagesAreShown
  StatusIsRight
  PidsFit
  VerdictIsRight
  CountsLargeFiles
  LinesAddUp
  ParentsAwait
PROPERTY ClientEnds
\* The programs end.
CHECK_DEADLOCK FALSE
