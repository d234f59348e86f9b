SPECIFICATION Spec
CONSTANTS
  s1 = s1 s2 = s2 r1 = r1 r2 = r2 None = None
  Sessions = {s1, s2}
  Readers = {r1, r2}
  MaxViewers = 2
  MaxMic = 4
  MaxFaults = 1
  MaxClicks = 3
  MaxFrames = 2
  MaxChunks = 1
  MaxPackets = 4
  MaxPictures = 4
  Casts = {"card", "pages", "readers", "pictures"}
SYMMETRY Alike
INVARIANTS
  LeaseReturned
  MicFollowsUser
  PredictionUnbroken
PROPERTY PressAfterRelease
CHECK_DEADLOCK FALSE
