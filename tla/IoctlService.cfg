\* Arrays of up to three units where three fit and counts that wrap at five, so
\* that lengths over the limits, lengths that wrap and ioctls too long for the
\* library or for the master all occur; three chunks where two do.
CONSTANTS
  Max = 3
  MaxChunks = 2
  MaxData = 2
  Wrap = 5
  ArgRoom = 6
  Room = 5
  Have <- MCHave
SPECIFICATION ServiceSpec
INVARIANTS
  HandledWhole
  RepliesFit
  ArraysAreRight
PROPERTIES
  EveryIoctlEnds
  
  KeepsRetry
