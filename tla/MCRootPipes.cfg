CONSTANTS
  MaxPid = 3
  BootOrder <- NoDrivers
  MAX_PIPES = 1
  PipeSize = 1
  Byte = {1}
  MaxChunk = 2
  Slot = {s1, s2, s3, s4, s5}
  NoSlot = s0
  FREE_POOL_SIZE = 2
  ProcCaps = 2
  ThreadCaps = 1
  TableCaps = 1
  MaxCaps = 2
  ShmPages = 1
  ShmCallers = {}
  MapMayFail = TRUE
  ShmOnce = TRUE
SYMMETRY SlotSymmetry
SPECIFICATION Spec
INVARIANTS TypeOK NoAliasing PipeReaderSound
CHECK_DEADLOCK FALSE
