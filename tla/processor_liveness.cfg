SPECIFICATION FairSpec
CONSTANTS
  q1 = q1
  q2 = q2
  d1 = d1
  d2 = d2
  k1 = k1
  Nobody = Nobody
  Queue <- MCOneQueue
  DataStore <- MCTwoStores
  Client <- MCOneClient
  BURST_SAMPLES_PER_SEC = 1
  MAX_BURST_LEN = 2
  MaxAppear = 3
INVARIANT
  ThroughputInRange
PROPERTIES
  TeardownEnds
