SPECIFICATION Spec
CONSTANTS
  q1 = q1
  q2 = q2
  k1 = k1
  k2 = k2
  Nobody = Nobody
  Queue <- MCTwoQueues
  Client <- MCOneClient
  Rate <- MCRates
  MAX_SAMPLES_PER_SEC = 1
  MIN_BURST_LEN = 1
  MAX_BURST_LEN = 1
SYMMETRY MCSym
INVARIANTS
  IInv
  AverageInRange
PROPERTIES
  ImplementsServiceUser
  SetReachesAll
