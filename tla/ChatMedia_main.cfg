SPECIFICATION Spec
CONSTANTS
  MaxPages = 2
  MaxPicks = 2
  MaxMedia = 2
INVARIANT TypeOK
INVARIANT SendsWhatWasUploaded
INVARIANT ShowsOwnOrLater
PROPERTY PollingEnds
CHECK_DEADLOCK FALSE
