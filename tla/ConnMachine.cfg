CONSTANTS
  HeaderLen = 2
  RespHeaderLen = 2
  Inputs <- AllInputs
  DataBufferSize = 3
  HighWat = 6
  StartSizes <- Sizes
  MaxReallocs = 1
  MaxPayload = 3
  ReplyLens <- Lens
  ErrorLen = 2
  LineLen = 2
  SendCap = 3
  ReqsPerEvent = 1
  MaxFaults = 1
  MayHangUp = TRUE
SPECIFICATION FairSpec
INVARIANTS BufferBounds InputIntact InStep ReplyMemory WaitingOwesNothing
PROPERTIES ImplementsReplyStream AllAnswered HangUpCloses
CHECK_DEADLOCK FALSE
