SPECIFICATION Spec
CONSTANTS
  Devices <- Answering
  Own = "own"
  Parties <- Casts
  MaxMoves = 2
  MaxFaults = 1
INVARIANTS
  FramesAligned
  OwnDeviceOnly
  DiagAlone
PROPERTIES
  NewerKept
  ListenerRecovers
CHECK_DEADLOCK FALSE
