SPECIFICATION Spec
CONSTANTS
  SamplesPerIter = 8
  None = none
  Foreign = foreign
  Default = 32742
  Unset = unset
  Override = 30000
  Truth <- Antennas
  Ref = 2000
  Scatter <- Samples
  DiagDepth = 2
INVARIANTS
  BenchSound
  ProbeHonest
  Converges
