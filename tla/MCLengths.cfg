SPECIFICATION Spec
CONSTANTS
  DefaultLength = 4
  Streams <- LengthStreams
  Objects <- MCObjects
  MaxConnections = 1
INVARIANTS
  WellFormedAccepted
