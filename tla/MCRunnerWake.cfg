SPECIFICATION Spec
CONSTANTS
  Rungs = 6
  QuietRung = 2
INVARIANTS
  LadderSound
  AlertCutsSkip
  MotionCutsWait
