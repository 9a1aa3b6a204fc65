CONSTANTS
  Workers = {w1, w2}
  NumListeners = 2
  MaxFds = 3
  None = none
SPECIFICATION LiveSpec
\* The server may stop: all descriptors leaked and no socket watched.
CHECK_DEADLOCK FALSE
CONSTRAINT UntilOverlapped
INVARIANT SwitchingIsSound
PROPERTY AcceptingResumes
