CONSTANTS
  NumThreads = 2
  Fds = {s1, s2, s3}
  Conns = {c1, c2, c3}
  PipeCap = 1
  FreeTotal = 1
  None = none
SPECIFICATION Spec
INVARIANTS WakeupPerItem SocketsAccounted ConnsAccounted
SYMMETRY Symmetry
