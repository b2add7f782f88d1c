SPECIFICATION Spec
CONSTANTS
  c1 = c1
  c2 = c2
  c3 = c3
  Free = Free
  Stat = Stat
  Client <- MCAll
  Tracked <- MCAll
  BurstTaker <- MCNone
  Zeroing <- MCAll
  MAX_QUEUE_SIZE = 2
  TakeMin = 1
  TakeMax = 2
  BurstLen = 2
  MaxSamples = 2
SYMMETRY MCSym
INVARIANTS
  NoLostWakeup
