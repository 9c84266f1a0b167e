SPECIFICATION Spec
CONSTANTS
  r1 = r1
  r2 = r2
  Reqs = {r1, r2}
  Data <- Ids
  Frames <- AllFrames
  LargeData = FALSE
  MaxPending = 2
  MaxAddrs = 2
  Creds = FALSE
  LogInfo = FALSE
  HandlersThrow = FALSE
INVARIANTS
  BuffersAlive
