SPECIFICATION FairSpec
CONSTANTS
  s1 = s1
  s2 = s2
  s3 = s3
  MaxAppear = 4
  Service <- MCServices
INVARIANTS
  PolledWhileTracked
  IInv
PROPERTIES
  ImplementsServiceUser
  TeardownEnds
