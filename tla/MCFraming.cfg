SPECIFICATION LiveSpec
CONSTANTS
  DefaultLength = 4
  Streams <- MCStreams
  Objects <- MCObjects
  MaxConnections = 2
INVARIANTS
  TypeOK
  PositionsOrdered
  BytesInOrder
  WellFormedAccepted
PROPERTIES
  NoByteLost
  FramesImmutable
  ImplementsStream
  SentDelivered
