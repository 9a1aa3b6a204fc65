CONSTANTS
  Callers = {c1, c2}
  MaxLines = 2
  BufferSize = 3
  NumFds = 2
  MaxFaults = 1
  None = none
SPECIFICATION LiveSpec
INVARIANTS NothingLost BuffersAreSound
PROPERTY LinesAreWritten
CHECK_DEADLOCK FALSE
