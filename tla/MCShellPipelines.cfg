CONSTANTS
  MaxPid = 3
  BootOrder <- NoDrivers
  MAX_PIPES = 1
  PipeSize = 1
  Byte <- Bytes
  MaxChunk = 1
  Slot = {s1, s2, s3, s4, s5, s6}
  NoSlot = s0
  FREE_POOL_SIZE = 6
  ProcCaps = 2
  ThreadCaps = 1
  TableCaps = 0
  MaxCaps = 2
  ShmPages = 0
  ShmCallers = {"shell"}
  MapMayFail = FALSE
  ShmOnce = TRUE
  Command <- PipelineJobs
  MaxOut = 2
  MayFault = {}
SPECIFICATION JobsSpec
 
PROPERTY ShellReturns
CHECK_DEADLOCK FALSE
