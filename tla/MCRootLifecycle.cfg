CONSTANTS
  MaxPid = 3
  BootOrder <- OneDriver
  MAX_PIPES = 0
  PipeSize = 1
  Byte = {1}
  MaxChunk = 2
  Slot = {s1, s2, s3, s4, s5, s6}
  NoSlot = s0
  FREE_POOL_SIZE = 2
  ProcCaps = 2
  ThreadCaps = 1
  TableCaps = 1
  MaxCaps = 3
  ShmPages = 1
  ShmCallers = {"shell"}
  MapMayFail = TRUE
  ShmOnce = TRUE
SYMMETRY SlotSymmetry
SPECIFICATION Spec
INVARIANTS TypeOK  FreeSlotsEmpty NoMissedWake OneInstance
PROPERTY NoPrematureWake
CHECK_DEADLOCK FALSE
