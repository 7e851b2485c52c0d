SPECIFICATION LinkFairSpec
CHECK_DEADLOCK FALSE
CONSTANTS
  Streams <- MCStreams
  Sendable <- MCSendable
INVARIANTS
  SplitsLikeWhole
  BufferIsOpenFrame
  FramesAreFramed
  WholeFramesArrive
PROPERTIES
  StreamIsRead
