SPECIFICATION Spec
CONSTANTS
  c1 = c1
  c2 = c2
  None = None
  Commands <- TwoCommands
  Panels <- SecondPanel
  Cancels = TRUE
  Impatient = FALSE
  MaxSessions = 1
PROPERTIES
  UncertainBlocks
