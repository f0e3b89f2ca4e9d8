SPECIFICATION FixSpec
CONSTANTS
  PoolMax = 2
  SelectMax = 2
  Anchors = {1, 2, 3}
  Quality <- MCQuality
  MinAnchors = 2
  ResetAfter = 2
  Heights <- MCHeights
INVARIANTS
  FixSound
PROPERTIES
  NoFlap
  Relocates
