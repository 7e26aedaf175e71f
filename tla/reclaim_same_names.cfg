SPECIFICATION Spec
CONSTANTS
  p1 = p1
  p2 = p2
  i1 = i1
  i2 = i2
  i3 = i3
  Reclaimers = {p1}
  Restorers = {p2}
  Originals <- MCSameNames
  Items = {i1, i2, i3}
  DirItems = {i2}
  Roots <- MCRoots
  Adjacent <- MCAdjacent
  FarRoots <- MCFar
  MaxRuns = 1
  MaxPaths = 2
  SameNames = TRUE
PROPERTIES NothingUnlinked
CHECK_DEADLOCK FALSE
