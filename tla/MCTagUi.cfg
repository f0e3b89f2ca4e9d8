SPECIFICATION UiSpec
CONSTANTS
  Double = 3
  Long = 5
  Battery = 5
  Flash = 1
  Blink = 2
  QueueLen = 3
  SlowMax = 2
INVARIANTS
  UiSound
PROPERTIES
  CancelMeansHold
  HelpMeansDouble
