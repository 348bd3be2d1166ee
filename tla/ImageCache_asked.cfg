SPECIFICATION SafetySpec
CONSTANTS
  p1 = p1
  p2 = p2
  l1 = l1
  l2 = l2
  r1 = r1
  None = None
  Url = {p1, p2}
  PlaceImg = {p1, p2}
  ListImg = {}
  HolderView = HolderView
  RowView = {}
  OffScreen = OffScreen
  MemoryFileCount = 1
  ThreadCount = 1
  MaxPools = 2
  MaxPending = 2
INVARIANT ShowsWhatWasAsked
