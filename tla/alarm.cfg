SPECIFICATION FairSpec
CONSTANTS
  r1 = r1
  Runs = {r1}
  Paths <- MCPaths
  Sizes <- MCSizes
  Measures <- MCMeasures
  MayRefuse = TRUE
  MaxKills = 1
  StreakCap = 4
INVARIANTS TypeOK AlarmIsTold RecoveryIsTold BlindnessIsTold
PROPERTIES FullDiskIsNamed
