SPECIFICATION LiveSpec
CONSTANTS
  r1 = r1
  r2 = r2
  Reqs = {r1, r2}
  Data <- Ids
  Frames <- AllFrames
  LargeData = TRUE
  MaxPending = 1
  MaxAddrs = 1
  Creds = FALSE
  LogInfo = FALSE
  HandlersThrow = TRUE
INVARIANTS
  NoRequestForgotten
  LiveServed
  ConnectedHasReader
  NoSilentLoss
PROPERTIES
  StoppedIsFinal
  CompletedOnce
  DropEndsLoop
  RequestsComplete
  Reconnects
