SPECIFICATION Spec
CONSTANTS
  nRoot = nRoot
  nA = nA
  nB = nB
  nP1 = nP1
  nP2 = nP2
  nP3 = nP3
  nMiss = nMiss
  boxX = boxX
  boxY = boxY
  boxTiny = boxTiny
  Node = {nRoot, nA, nB, nP1, nP2, nP3, nMiss}
  Root = nRoot
  Tree <- MCTree
  Missing = {nMiss}
  Counts = {0, 1, 4}
  Box = {boxX, boxY, boxTiny}
  Unfit = {boxTiny}
  Boxed = {nRoot, nA, nP2}
  Spoiled = {nP3}
  NoBox = NoBox
  Nobody = Nobody
  MaxPages = 4
INVARIANT TypeOK
INVARIANT PageIsTheNth
INVARIANT PromisedPagesOpen
INVARIANT BoxIsNearest
INVARIANT CorrectionsStay
