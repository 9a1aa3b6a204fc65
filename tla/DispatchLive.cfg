CONSTANTS
  NumThreads = 2
  Fds = {s1, s2}
  Conns = {c1, c2}
  PipeCap = 1
  FreeTotal = 1
  None = none
SPECIFICATION FairSpec
PROPERTIES MainStarts ServedOrRefused
