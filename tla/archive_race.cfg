SPECIFICATION Spec
CONSTANTS
  x = x
  y = y
  a = a
  b = b
  long = long
  p1 = p1
  p2 = p2
  NoEntry = NoEntry
  Names = {x, y}
  Contents = {a, b}
  Length <- MCLength
  DirBytes = 1
  Archivers = {p1}
  Restorers = {p2}
  Sources <- MCSources
  Destinations = {"nas1"}
  ManifestKey <- MCKey
  Options <- MCBoth
  FreeBytes <- MCFree
  LiveEdits = TRUE
  Redirects = TRUE
  LiveRestores = TRUE
  MaxEdits = 1
  MaxRots = 1
INVARIANTS LossOnlyInWindow
PROPERTIES ReadBackSeesLostEntries
SYMMETRY Symmetric
CHECK_DEADLOCK FALSE
