SPECIFICATION Spec
CONSTANTS
  BUFSIZE = 4
  Text = {"a"}
  MaxLine = 2
  MaxLines = 3
  Streams <- LinesOfText
INVARIANT SearchesInputOnly
CHECK_DEADLOCK FALSE
