CONSTANTS
  p = p
  q = q
  s = s
  t = t
  m = m
  g1 = g1
  g2 = g2
  g3 = g3
  Processes <- TwoProcesses
  Shared <- TwoNames
  Private <- NoUrl
  Ids <- TwoIds
  PageIds <- OnePageId
  Segments <- ThreeSegments
  None = None
SYMMETRY Symmetry
SPECIFICATION UnnamedSpec
INVARIANT PointersAgree
