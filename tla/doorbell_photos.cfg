SPECIFICATION Spec
CONSTANTS
  p1 = p1
  p2 = p2
  Presses <- Both
  SecondPanel <- OneSecond
  MaxStimuli = 3
  MaxCalls = 1
  MaxNames = 2
  MaxInodes = 3
  MaxTime = 4
  RetentionDays = 1
INVARIANTS
  PublishedPhotosKept
  NoOrphans
  UnloadDrained
PROPERTIES
  PhotoOfLatestRing
  RetentionSpaced
CHECK_DEADLOCK FALSE
