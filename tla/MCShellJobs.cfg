CONSTANTS
  MaxPid = 3
  BootOrder <- NoDrivers
  MAX_PIPES = 1
  PipeSize = 2
  Byte <- Bytes
  MaxChunk = 2
  Slot = {s1, s2, s3, s4, s5, s6}
  NoSlot = s0
  FREE_POOL_SIZE = 6
  ProcCaps = 2
  ThreadCaps = 1
  TableCaps = 0
  MaxCaps = 2
  ShmPages = 0
  ShmCallers = {"shell"}
  MapMayFail = FALSE
  ShmOnce = TRUE
  Command <- EndingJobs
  MaxOut = 3
  MayFault = {"app"}
SYMMETRY SlotSymmetry
SPECIFICATION JobsSpec
INVARIANTS JobTypeOK PipelineInOrder  WaitsForOwnJob
CHECK_DEADLOCK FALSE
