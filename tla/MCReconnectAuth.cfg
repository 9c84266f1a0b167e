SPECIFICATION LiveSpec
CONSTANTS
  r1 = r1
  Reqs = {r1}
  Data <- Ids
  Frames <- AllFrames
  LargeData = FALSE
  MaxPending = 2
  MaxAddrs = 1
  Creds = TRUE
  LogInfo = TRUE
  HandlersThrow = FALSE
PROPERTIES
  Reconnects
