CONSTANTS
  MaxCluster = 4
  SlotsPerDir = 2
  Name <- Names
  LongName = {"L"}
  Fmt <- Format
  Alias = "L~1"
  Careful = FALSE
  MaxLen = 2
  MaxFaults = 0
  MaxCommands = 6
SPECIFICATION Spec
INVARIANT NoCrossLink
CHECK_DEADLOCK FALSE
