SPECIFICATION Spec
CONSTANTS
  MaxSends = 4
  MaxLines = 3
  MaxTraffic = 5
  MaxDue = 1
  MayRecreate = TRUE
INVARIANT TypeOK
INVARIANT WindowInOrder
INVARIANT TextsInSession
PROPERTY SendsInOrder
