SPECIFICATION Spec
CONSTANTS
  c1 = c1
  c2 = c2
  c3 = c3
  Free = Free
  Stat = Stat
  Client <- MCTwo
  Tracked <- MCOne
  BurstTaker <- MCBurst
  Zeroing <- MCBurst
  MAX_QUEUE_SIZE = 2
  TakeMin = 1
  TakeMax = 2
  BurstLen = 2
  MaxSamples = 3
INVARIANTS
  IInv
  SamplesConserved
  StatisticsComplete
  PutReportsTruth
  TrackedNeverFault
PROPERTY
  ImplementsFifo
