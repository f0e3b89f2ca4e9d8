SPECIFICATION Spec
CONSTANTS
  Window = 2
  Readings <- SomeReadings
INVARIANTS
  AdvPolicy
PROPERTIES
  WholeWindow
  IdleClean
