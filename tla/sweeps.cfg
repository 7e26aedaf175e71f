SPECIFICATION Spec
CONSTANTS
  f = f
  g = g
  link = link
  a = a
  b = b
  p1 = p1
  p2 = p2
  NoEntry = NoEntry
  NoFile = NoFile
  Names = {f, g}
  Contents = {a, b}
  Length <- MCLength
  DirBytes = 1
  Sweepers = {p1}
  Streamers = {p2}
  Dirs <- MCDirs
  DirLinks = {}
  Threshold = 1
  FreeBytes <- MCFree
  Inodes <- MCInodes
  MaxEdits = 1
  MaxGarbled = 1
INVARIANTS TypeOK NoFileLost
PROPERTIES PublishedIsFinal
SYMMETRY Symmetric
CHECK_DEADLOCK FALSE
