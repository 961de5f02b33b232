CONSTANTS
  MaxPid = 3
  BootOrder <- OneDriver
  MAX_PIPES = 0
  PipeSize = 1
  Byte <- Bytes
  MaxChunk = 1
  Slot = {s1, s2, s3, s4, s5}
  NoSlot = s0
  FREE_POOL_SIZE = 5
  ProcCaps = 2
  ThreadCaps = 1
  TableCaps = 0
  MaxCaps = 2
  ShmPages = 0
  ShmCallers = {"shell"}
  MapMayFail = FALSE
  ShmOnce = TRUE
  Command <- BootJobs
  MaxOut = 0
  MayFault = {"blk_driver", "shell"}
SPECIFICATION JobsSpec
INVARIANT PromptAfterDrivers
PROPERTY ShellReturns
CHECK_DEADLOCK FALSE
