SPECIFICATION Spec
CONSTANTS
  r1 = r1
  Runs = {r1}
  Paths <- MCPaths
  Sizes <- MCSizes
  Measures <- MCMeasures
  MayRefuse = FALSE
  MaxKills = 0
  StreakCap = 4
PROPERTIES CriticalIsRaised
