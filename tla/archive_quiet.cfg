SPECIFICATION Spec
CONSTANTS
  x = x
  y = y
  a = a
  b = b
  long = long
  p1 = p1
  p2 = p2
  NoEntry = NoEntry
  Names = {x, y}
  Contents = {a, b, long}
  Length <- MCLength
  DirBytes = 1
  Archivers = {p1}
  Restorers = {p1}
  Sources <- MCSources
  Destinations = {"nas1", "nas2"}
  ManifestKey <- MCKey
  Options <- MCExact
  FreeBytes <- MCFree
  LiveEdits = FALSE
  Redirects = FALSE
  LiveRestores = FALSE
  MaxEdits = 2
  MaxRots = 0
INVARIANTS TypeOK NoLoss StrandedIsFound
PROPERTIES MovesSafely
