SPECIFICATION SafetySpec
CONSTANTS
  Handlers = 3
  Pages = 2
  Faults = {"open", "display", "preview"}
  EarlySurface = FALSE
INVARIANT TypeOK
INVARIANT OneFrameAtATime
INVARIANT SearchNeverStalls
INVARIANT QuitLeavesNothing
INVARIANT NeverThrows
CHECK_DEADLOCK FALSE
