SPECIFICATION FairSpec
CONSTANTS
  Charts <- MCCharts
  AnimationSteps = 4
  MouseEvents = 2
INVARIANTS
  ScaleCovers
  NeighboursRight
  LineFollows
  BarsApart
  MouseFinds
PROPERTIES
  ScaleEnds
CHECK_DEADLOCK FALSE
