SPECIFICATION FairSpec
CONSTANTS
  Names = {ana}
  Default = user
  Foreign = foreign
  Attempts = 2
INVARIANTS
  Retained
PROPERTIES
  NameKept
  Recovers
