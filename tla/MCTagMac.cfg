SPECIFICATION FairSpec
CONSTANTS
  LeaseSf = 4
  MissMax = 2
  JoinRetryMax = 2
  MinAnchors = 2
  SkipCap = 2
  RediscoverSf = 5
  Tiers <- ThreeTiers
  FastTier = "FAST"
  TierParams <- ScaledParams
  ZeroAddr = zero_addr
  UnassocAddr = unassoc_addr
  Slots <- TwoSlots
  Addr = tag_addr
  NoSlot = no_slot
  SelectMax = 2
  ScanSpans = {5}
  SinceCap = 5
  BadVersions = {FALSE, TRUE}
  Alerts = {FALSE, TRUE}
INVARIANTS
  MacSafe
  PollsInOwnSlot
PROPERTIES
  SkipKeepsSeat
  RangesAgain
  SeatGivenUp
