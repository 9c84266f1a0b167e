SPECIFICATION Spec
CONSTANTS
  r1 = r1
  r2 = r2
  Reqs = {r1, r2}
  Data <- Ids
  Frames <- AllFrames
  LargeData = TRUE
  MaxPending = 2
  MaxAddrs = 2
  Creds = TRUE
  LogInfo = TRUE
  HandlersThrow = FALSE
SYMMETRY Interchangeable
INVARIANTS
  TypeOK
  ConnectedIsAuthenticated
  DeathHasCause
  NoRequestForgotten
  LiveServed
