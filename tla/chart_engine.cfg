SPECIFICATION EngineFairSpec
CONSTANTS
  Name = {"cpu", "queue"}
  Generation = {1}
  Content <- MCContent
  AnnotateDisplay = TRUE
  AnimationSteps = 2
  Width = {1, 2, 3}
  MinWidth = 0
  MaxWidth = 9
  DrawableWidth = 2
  MaxMs = 2
  MaxEvent = 4
INVARIANTS
  LoopMatchesPass
  EndsComplete
  CurrentData
PROPERTIES
  ResizeFollowed
CHECK_DEADLOCK FALSE
