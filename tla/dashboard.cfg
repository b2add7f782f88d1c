SPECIFICATION FairSpec
CONSTANTS
  Name = {"queue", "data-store"}
  NameOrder <- MCNameOrder
  Generation = {1, 2}
  Content <- MCContent
  AnnotateDisplay = FALSE
  AnimationSteps = 2
  Width = {2, 3}
  MinWidth = 2
  MaxWidth = 2
  DrawableWidth = 2
  MaxMs = 1
  MaxEvent = 1
  MaxVer = 2
  MaxAct = 2
INVARIANTS
  OwnStatistic
CHECK_DEADLOCK FALSE
PROPERTIES
  PollingGoesOn
  LatestShown
  ControlsSettle
