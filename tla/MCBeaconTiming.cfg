SPECIFICATION TimingSpec
CONSTANTS
  NominalMs = 200
  Q = 4096
  BaselineMax = 8
  PpmTotal = 40
  JitterUs = 120
  QuantUs = 1000
  WindowMinMs = 4
  MarginMs = 2
  GuardMs = 5
  WarmupN = 4
  EmaStep = 8
  TimeMod = 16384
  FcMod = 1024
  PeriodMod = 16777216
  PeriodsUs <- TrueTicks
  PhasesUs <- FirstTicks
  Jitters <- EarlyOrLate
  Skips = {1, 3}
  Wakes = {150000, 450000}
  FirstFcs = {5, 1020}
  ClockStart = 15500
  WakeGuardMs = 5
  WakeMs = 2
  BeaconMs = 2
  MaxSf = 11
  MaxRestarts = 1
INVARIANTS
  AimSound
  WindowReaches
