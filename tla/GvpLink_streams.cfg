SPECIFICATION FairSpec
CONSTANTS
  Streams <- MCStreams
  Content <- MCContent
INVARIANTS
  OneMessagePerSegment
  OvertakenOnce
  NothingLeftBehind
  ConfigLagsByOne
PROPERTIES
  ImplementsClient
  EveryMessageArrives
