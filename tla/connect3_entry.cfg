SPECIFICATION Spec
CONSTANTS
  v1 = v1
  v2 = v2
  Viewers <- TwoViewers
  MaxStimuli = 3
INVARIANTS
  OneReader
  ClaimIsLease
  NothingOutlivesVideo
PROPERTIES
  WriteBound
  UnloadEnds
CHECK_DEADLOCK FALSE
