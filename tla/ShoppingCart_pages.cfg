SPECIFICATION Spec
CONSTANTS
  NProducts = 2
  MayEnd = FALSE
  MayFail = {"row"}
  MaxRows = 2
  MaxCount = 2
  MaxDepth = 4
INVARIANT TypeOK
INVARIANT CountIsSumUnlessDrifted
INVARIANT NeverCrashes
