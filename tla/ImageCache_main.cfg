SPECIFICATION SafetySpec
CONSTANTS
  p1 = p1
  p2 = p2
  l1 = l1
  l2 = l2
  r1 = r1
  None = None
  Url = {p1, l1, l2}
  PlaceImg = {p1}
  ListImg = {l1, l2}
  HolderView = HolderView
  RowView = {r1}
  OffScreen = OffScreen
  MemoryFileCount = 1
  ThreadCount = 1
  MaxPools = 2
  MaxPending = 2
SYMMETRY Symmetry
INVARIANT TypeOK
INVARIANT MemoryAgrees
INVARIANT CrashNeedsClear
INVARIANT DanglesUntilClick
