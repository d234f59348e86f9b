SPECIFICATION Spec
CONSTANTS
  p1 = p1
  p2 = p2
  Calls <- Both
  Second <- OneSecond
  Ahead <- OneAhead
  MaxStimuli = 3
INVARIANTS
  RemoteIsRemembered
PROPERTIES
  RingWanted
  ImplementsBell
CHECK_DEADLOCK FALSE
