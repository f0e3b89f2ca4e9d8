SPECIFICATION FloodSpec
CONSTANTS
  EpochMod = 8
  t1 = t1
  t2 = t2
  far = far
  near = near
  lost = lost
  Tag = {t1, t2}
  Anchor = {far, near, lost}
  Gateway = gateway
  Hears <- Links
  Hop <- Hops
  UnknownHop <- Unset
  Ttl = 3
  DedupN = 2
  DedupAge = 2
  LatchN = 1
  ClockMod = 5
  SeqMod = 2
  Free = free
  MaxEpoch = 1
  MaxFrames = 3
PROPERTIES
  RelayedOnce
  NoGhostAlarm
  FloodArrives
