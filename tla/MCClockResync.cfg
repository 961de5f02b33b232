CONSTANTS
  Skew <- Ahead
  NTP_BOOT_TIMEOUT = 1
  NTP_RESYNC_INTERVAL = 2
  SeqMod = 2
  Typed = {}
  PingCounts = {}
  MaxCommands = 0
  MaxWire = 2
  MaxTime = 2
SPECIFICATION Spec
INVARIANT EverySyncRight
CHECK_DEADLOCK FALSE
