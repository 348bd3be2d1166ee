SPECIFICATION Spec
CONSTANTS
  Handlers = 2
  Pages = 2
  Faults = {"open", "display", "preview", "focus"}
  EarlySurface = TRUE
PROPERTY JoinReturns
CHECK_DEADLOCK FALSE
