SPECIFICATION FairSpec
CONSTANTS
  EpochMod = 8
  CancelRepeats = 1
  StartEpoch = 6
  MaxRaises = 3
INVARIANTS
  EpochSound
PROPERTIES
  NewHelpIsNews
  ResetKeepsHelp
  NeverRelatched
  HelpLatched
