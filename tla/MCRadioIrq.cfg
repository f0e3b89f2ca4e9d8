SPECIFICATION Spec
CONSTANTS
  Air <- MCAir
  Aid <- MCAid
INVARIANTS
  IrqSound
  TakenWhole
