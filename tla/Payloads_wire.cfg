SPECIFICATION Spec
CONSTANTS
  Frames <- MCFrames
  Commands <- MCCommands
INVARIANTS
  NeverPanics
  ReadsOnce
  DocumentedIsDecoded
  RoundTrip
