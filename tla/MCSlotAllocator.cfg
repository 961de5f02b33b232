CONSTANTS
  Client = {c1, c2}
  FirstSlot = 1
  EndSlot = 5
  FREE_POOL_SIZE = 2
SPECIFICATION Spec
INVARIANTS TypeOK PoolSound NoAliasing
PROPERTY Refinement
