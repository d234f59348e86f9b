SPECIFICATION Spec
CONSTANTS
  c1 = c1
  c2 = c2
  None = None
  Commands <- TwoCommands
  Panels <- BothPanels
  Cancels = TRUE
  Impatient = TRUE
  MaxSessions = 2
SYMMETRY Presses
INVARIANTS
  ReplyBelongs
  IdleScoped
PROPERTIES
  OneAttempt
  ImplementsCommand
