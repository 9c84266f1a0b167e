SPECIFICATION Spec
CONSTANTS
  DefaultLength = 4
  Streams <- ErrorStreams
  Objects <- MCObjects
  MaxConnections = 1
INVARIANTS
  ErrorReported
