CONSTANTS
  Sector = {1, 2}
  Data = {"a", "b"}
  QueueSize = 2
  MaxRequests = 3
  MaxRestarts = 1
SPECIFICATION Spec
INVARIANTS TypeOK ReadRight WriteRight
PROPERTY RequestReturns
CHECK_DEADLOCK FALSE
