SPECIFICATION Spec
CONSTANTS
  k1 = k1
  k2 = k2
  k3 = k3
  k4 = k4
  k5 = k5
  k6 = k6
  k7 = k7
  Free = Free
  Key = {k1, k2, k3, k4, k5, k6, k7}
  Val <- MCVal
  Items <- MCItems
  Hash <- MCHash
  InitialSize = 6
  MaxSize = 12
INVARIANT TypeOK
INVARIANT ProbesEnd
INVARIANT FindsEntered
PROPERTY ImplementsMap
PROPERTY LoopsEnd
