SPECIFICATION Spec
CONSTANTS
  q1 = q1
  q2 = q2
  d1 = d1
  d2 = d2
  k1 = k1
  Nobody = Nobody
  Queue <- MCTwoQueues
  DataStore <- MCTwoStores
  Client <- MCOneClient
  BURST_SAMPLES_PER_SEC = 1
  MAX_BURST_LEN = 1
  MaxAppear = 2
SYMMETRY MCSym
INVARIANTS
  IInv
  ThroughputInRange
PROPERTIES
  ImplementsQueueUser
  ImplementsStoreUser
  EveryStoreOnce
