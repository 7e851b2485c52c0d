SPECIFICATION Spec
CONSTANTS
  MaxFrames = 5
  Corrupt = {2}
INVARIANTS
  InArrivalOrder
