CONSTANTS
  Processes = {p1, p2}
  Addresses <- TwoAddresses
  Configs <- AllConfigs
  MaxStarts = 3
  None = none
SPECIFICATION Spec
INVARIANT ListenersAreReady
PROPERTY PidFileKept
CHECK_DEADLOCK FALSE
