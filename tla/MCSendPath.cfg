SPECIFICATION SendSpec
CONSTANTS
  d1 = d1
  d2 = d2
  d3 = d3
  Data = {d1, d2, d3}
  LargeData = TRUE
  MaxPending = 3
SYMMETRY Interchangeable
INVARIANTS
  SendingIffWrite
  QueueHasSender
  BatchStable
  WriteAccounted
PROPERTIES
  ImplementsLink
