CONSTANTS
  Skew <- Ahead
  NTP_BOOT_TIMEOUT = 1
  NTP_RESYNC_INTERVAL = 2
  SeqMod = 2
  Typed <- AllCommands
  PingCounts = {2}
  MaxCommands = 2
  MaxWire = 2
  MaxTime = 2
SPECIFICATION Spec
INVARIANTS TypeOK ReadyOnce PendingServed NoLostWake FirstSyncRight
PROPERTY BootCompletes
CHECK_DEADLOCK FALSE
