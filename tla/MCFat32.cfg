CONSTANTS
  MaxCluster = 4
  SlotsPerDir = 2
  Name <- Names
  LongName = {"L"}
  Fmt <- Format
  Alias = "L~1"
  Careful = TRUE
  MaxLen = 2
  MaxFaults = 1
  MaxCommands = 5
SPECIFICATION Spec
INVARIANTS TypeOK NoSharedCluster NoDangling NoLeak NoCycle NothingBehindEnd 
PROPERTIES ExclusiveClusters CommandReturns
CHECK_DEADLOCK FALSE
