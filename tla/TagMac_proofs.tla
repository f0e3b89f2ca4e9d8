----------------------------- MODULE TagMac_proofs -----------------------------
(***************************************************************************)
(* The safety properties of TagMac hold of every behaviour, for every      *)
(* table of tiers, number of slots and length of lease.  What a superframe *)
(* may transmit is decided when its beacon is handled, and carried by the  *)
(* action word to the block that sends: the invariant says what each bit   *)
(* of the word stands for until it is executed.                            *)
(***************************************************************************)
EXTENDS TagMac, BeaconTiming, TLAPS

\* A machine in JOINING has a retry left.
RetryLeft(c) == c.state = "JOINING" => c.retries < JoinRetryMax

\* The bits that transmit under a beacon were set by a beacon.
HeardFirst ==
    /\ \A a \in {"SEND_JOIN", "SEND_KEEPALIVE", "RUN_DISCOVER", "RUN_SWEEP"} :
          a \in act => heard
    /\ "SEND_ALERT" \in act => heard \/ scanning

\* A sweep is set only under our address, in the slot of this superframe's map.
SweepIsOurs ==
    "RUN_SWEEP" \in act => /\ calValid = TRUE
                           /\ ctx.addr = Addr
                           /\ ctx.slot = gSlot
                           /\ "SEND_JOIN" \notin act

\* RANGING rests on a pool that has enough anchors, which re-discovery keeps.
PoolKnown == ctx.state = "RANGING" => /\ gate.n >= MinAnchors
                                      /\ found >= MinAnchors

\* Nobody is seated by a gateway that is off.
SilentGateway == ~gUp => gSlot = NoSlot /\ "SEND_JOIN" \notin act

\* Once a due KEEPALIVE is sent, the tag's count of the lease is not above the
\* gateway's, and after a beacon more than half a lease is left.
LeaseKnown ==
    InSync /\ gSlot # NoSlot /\ ~kaLost /\ "SEND_KEEPALIVE" \notin act
        => /\ ctx.lease <= gLease + ctx.since
           /\ heard => gLease > LeaseSf \div 2

IInv == /\ TypeOK
        /\ RetryLeft(ctx)
        /\ HeardFirst
        /\ SweepIsOurs
        /\ PoolKnown
        /\ SilentGateway
        /\ LeaseKnown
        /\ NoBlindTx
        /\ PollsInOwnSlot

-----------------------------------------------------------------------------
(* What the state machine's handlers return                                *)

LEMMA LeaseAgeType ==
  ASSUME NEW c \in Ctx
  PROVE  /\ LeaseAge(c) \in 0..LeaseSf
         /\ LeaseSf \in 0..LeaseSf
         /\ LeaseSf \div 2 \in Nat /\ LeaseSf \div 2 < LeaseSf
BY NetAssumption, MacAssumption DEF LeaseAge, Ctx

\* Following a beacon whose map has our seat: since is 0 and the slot is the
\* map's; unless a KEEPALIVE is due the lease is the aged one, over half.
LEMMA ResyncFacts ==
  ASSUME NEW c \in Ctx, NEW s \in Slots
  PROVE  /\ Resync(c, s) \in Ctx
         /\ Resync(c, s).state = c.state /\ Resync(c, s).addr = c.addr
         /\ Resync(c, s).slot = s /\ Resync(c, s).since = 0
         /\ Resync(c, s).retries = c.retries
         /\ \/ "SEND_KEEPALIVE" \in Renewal(c)
            \/ /\ Resync(c, s).lease = LeaseAge(c)
               /\ LeaseAge(c) > LeaseSf \div 2
         /\ Renewal(c) \subseteq {"SEND_KEEPALIVE"}
<1>1. LeaseAge(c) \in 0..LeaseSf /\ LeaseSf \in 0..LeaseSf
      /\ LeaseSf \div 2 \in Nat
  BY LeaseAgeType
<1>2. 0 \in 0..MissMax /\ 0 \in 0..SinceCap
  BY NetAssumption, MacAssumption
<1> DEFINE l == IF RenewDue(c) THEN LeaseSf ELSE LeaseAge(c)
<1>3. l \in 0..LeaseSf BY <1>1
<1>4. Resync(c, s) = [c EXCEPT !.miss = 0, !.since = 0, !.slot = s, !.lease = l]
  BY DEF Resync
<1> HIDE DEF l
<1>5. /\ Resync(c, s) \in Ctx
      /\ Resync(c, s).state = c.state /\ Resync(c, s).addr = c.addr
      /\ Resync(c, s).slot = s /\ Resync(c, s).since = 0
      /\ Resync(c, s).retries = c.retries /\ Resync(c, s).lease = l
  BY <1>2, <1>3, <1>4 DEF Ctx
<1>6. Renewal(c) \subseteq {"SEND_KEEPALIVE"} BY DEF Renewal
<1>7. CASE RenewDue(c) BY <1>5, <1>6, <1>7 DEF Renewal
<1>8. CASE ~RenewDue(c) BY <1>1, <1>5, <1>6, <1>8 DEF RenewDue, l
<1>9. QED BY <1>7, <1>8

\* What a beacon may do: it can only keep a seat that the map has, and it sets
\* a sweep only in the slot of the map.
BeaconResult(c, m, s, o) ==
    /\ o.ctx \in Ctx /\ RetryLeft(o.ctx)
    /\ o.act \subseteq Action \ {"SEND_ALERT"}
    /\ "RUN_SWEEP" \in o.act => /\ m = TRUE
                                /\ o.ctx.addr = c.addr
                                /\ o.ctx.slot = s
                                /\ "SEND_JOIN" \notin o.act
    /\ o.ctx.state \in {"DISCOVER", "RANGING"} =>
          /\ m = TRUE
          /\ o.ctx.state = c.state /\ o.ctx.since = 0
          /\ \/ "SEND_KEEPALIVE" \in o.act
             \/ o.ctx.lease = LeaseAge(c) /\ LeaseAge(c) > LeaseSf \div 2

LEMMA BeaconFacts ==
  ASSUME NEW c \in Ctx, RetryLeft(c), NEW v \in BOOLEAN, NEW m \in BOOLEAN,
         NEW s, m = TRUE => s \in Slots
  PROVE  BeaconResult(c, m, s, OnBeacon(c, v, m, s))
<1> USE DEF BeaconResult
<1> DEFINE o == OnBeacon(c, v, m, s)
<1>1. 0 \in 0..MissMax /\ 0 \in 0..SinceCap /\ 0 \in 0..JoinRetryMax
      /\ 0 < JoinRetryMax
  BY NetAssumption, MacAssumption
<1>2. c.state \in NetState BY DEF Ctx
<1>3. CASE c.state = "SCAN" /\ v
  <2>1. o.ctx = [c EXCEPT !.state = "JOINING", !.since = 0, !.miss = 0,
                          !.retries = 0] /\ o.act = {"SEND_JOIN"}
    BY <1>3 DEF OnBeacon, BeaconInScan, Out
  <2>2. o.ctx \in Ctx /\ o.ctx.state = "JOINING" /\ o.ctx.retries = 0
    BY <1>1, <2>1, ZenonT(30) DEF Ctx, NetState
  <2>3. QED BY <1>1, <2>1, <2>2 DEF RetryLeft, Action
<1>4. CASE c.state = "SCAN" /\ ~v
  <2>1. o.ctx = c /\ o.act = {"SLEEP"} BY <1>4 DEF OnBeacon, Out
  <2>2. QED BY <1>4, <2>1 DEF Action
<1>5. CASE c.state = "JOINING" /\ v
  <2>1. o.ctx = [c EXCEPT !.since = 0, !.miss = 0] /\ o.act = {"SEND_JOIN"}
    BY <1>5 DEF OnBeacon, BeaconInJoining, Out
  <2>2. o.ctx \in Ctx /\ o.ctx.state = "JOINING" /\ o.ctx.retries = c.retries
    BY <1>1, <1>5, <2>1 DEF Ctx
  <2>3. QED BY <1>5, <2>1, <2>2 DEF RetryLeft, Action
<1>6. CASE c.state = "JOINING" /\ ~v
  <2>1. o.ctx = c /\ o.act = {} BY <1>6 DEF OnBeacon, Out
  <2>2. QED BY <1>6, <2>1
<1>7. CASE c.state \in {"DISCOVER", "RANGING"} /\ ~m
  <2>1. o.ctx = [c EXCEPT !.state = "SCAN", !.miss = 0, !.since = 0,
                          !.lease = LeaseAge(c)] /\ o.act = {"TO_SCAN"}
    BY <1>7 DEF OnBeacon, BeaconInDiscover, BeaconInRanging, Unseated, Out
  <2>2. LeaseAge(c) \in 0..LeaseSf /\ "SCAN" \in NetState
    BY LeaseAgeType DEF NetState
  <2>3. o.ctx \in Ctx /\ o.ctx.state = "SCAN"
    BY <1>1, <2>1, <2>2, Zenon DEF Ctx
  <2>4. QED BY <2>1, <2>3 DEF RetryLeft, Action
<1>8. CASE c.state = "DISCOVER" /\ m
  <2>1. o.ctx = Resync(c, s) /\ o.act = {"RUN_DISCOVER"} \cup Renewal(c)
    BY <1>8 DEF OnBeacon, BeaconInDiscover, Out
  <2>2. /\ Resync(c, s) \in Ctx /\ Resync(c, s).state = c.state
        /\ Resync(c, s).addr = c.addr /\ Resync(c, s).slot = s
        /\ Resync(c, s).since = 0
        /\ \/ "SEND_KEEPALIVE" \in Renewal(c)
           \/ /\ Resync(c, s).lease = LeaseAge(c)
              /\ LeaseAge(c) > LeaseSf \div 2
        /\ Renewal(c) \subseteq {"SEND_KEEPALIVE"}
    BY <1>8, ResyncFacts
  <2>3. QED BY <1>8, <2>1, <2>2 DEF RetryLeft, Action
<1>9. CASE c.state = "RANGING" /\ m
  <2>1. /\ \E n \in Nat : o.ctx = [Resync(c, s) EXCEPT !.part = n]
        /\ o.act = {"RUN_SWEEP"} \cup Renewal(c)
             \/ o.act = {"SLEEP"} \cup Renewal(c)
    <3>1. 0 \in Nat /\ c.part + 1 \in Nat BY DEF Ctx
    <3>2. CASE c.part + 1 >= RangeEvery(c.tier)
      BY <1>9, <3>1, <3>2 DEF OnBeacon, BeaconInRanging, Out
    <3>3. CASE ~(c.part + 1 >= RangeEvery(c.tier))
      BY <1>9, <3>1, <3>3 DEF OnBeacon, BeaconInRanging, Out
    <3>4. QED BY <3>2, <3>3
  <2>2. PICK n \in Nat : o.ctx = [Resync(c, s) EXCEPT !.part = n] BY <2>1
  <2>3. /\ Resync(c, s) \in Ctx /\ Resync(c, s).state = c.state
        /\ Resync(c, s).addr = c.addr /\ Resync(c, s).slot = s
        /\ Resync(c, s).since = 0
        /\ \/ "SEND_KEEPALIVE" \in Renewal(c)
           \/ /\ Resync(c, s).lease = LeaseAge(c)
              /\ LeaseAge(c) > LeaseSf \div 2
        /\ Renewal(c) \subseteq {"SEND_KEEPALIVE"}
    BY <1>9, ResyncFacts
  <2>4. /\ o.ctx \in Ctx /\ o.ctx.state = "RANGING" /\ o.ctx.addr = c.addr
        /\ o.ctx.slot = s /\ o.ctx.since = 0
        /\ o.ctx.lease = Resync(c, s).lease
    BY <1>9, <2>2, <2>3, ZenonT(30) DEF Ctx
  <2>5. QED BY <1>9, <2>1, <2>3, <2>4 DEF RetryLeft, Action
<1>10. QED
  BY <1>2, <1>3, <1>4, <1>5, <1>6, <1>7, <1>8, <1>9 DEF NetState

\* What a missed beacon may do: it transmits nothing, and keeps what it keeps.
LEMMA MissFacts ==
  ASSUME NEW c \in Ctx, RetryLeft(c)
  PROVE  LET o == OnBeaconMiss(c)
         IN  /\ o.ctx \in Ctx /\ RetryLeft(o.ctx)
             /\ o.act \subseteq {"SLEEP", "TO_SCAN"}
             /\ o.ctx.state \in {"DISCOVER", "RANGING"} =>
                   /\ o.ctx.state = c.state
                   /\ o.ctx.lease = c.lease /\ o.ctx.since = c.since
<1> DEFINE o == OnBeaconMiss(c)
<1>1. c.state \in NetState /\ c.miss \in Nat /\ MissMax \in Nat
  BY NetAssumption DEF Ctx
<1>2. CASE c.state \in {"SCAN", "JOINING"}
  <2>1. o.ctx = c /\ (o.act = {"SLEEP"} \/ o.act = {})
    BY <1>2 DEF OnBeaconMiss, Out
  <2>2. QED BY <1>2, <2>1
<1>3. CASE c.state \in {"DISCOVER", "RANGING"} /\ c.miss + 1 >= MissMax
  <2>1. o.ctx = [c EXCEPT !.state = "SCAN", !.miss = 0] /\ o.act = {"TO_SCAN"}
    BY <1>3 DEF OnBeaconMiss, Out
  <2>2. o.ctx \in Ctx /\ o.ctx.state = "SCAN"
    <3>1. 0 \in 0..MissMax BY <1>1
    <3>2. QED BY <2>1, <3>1, ZenonT(30) DEF Ctx, NetState
  <2>3. QED BY <2>1, <2>2 DEF RetryLeft
<1>4. CASE c.state \in {"DISCOVER", "RANGING"} /\ ~(c.miss + 1 >= MissMax)
  <2>1. o.ctx = [c EXCEPT !.miss = c.miss + 1] /\ o.act = {}
    BY <1>4 DEF OnBeaconMiss, Out
  <2>2. c.miss + 1 \in 0..MissMax BY <1>1, <1>4
  <2>3. o.ctx \in Ctx /\ o.ctx.state = c.state /\ o.ctx.retries = c.retries
        /\ o.ctx.lease = c.lease /\ o.ctx.since = c.since
    BY <2>1, <2>2 DEF Ctx
  <2>4. QED BY <1>4, <2>1, <2>3 DEF RetryLeft
<1>5. QED BY <1>1, <1>2, <1>3, <1>4 DEF NetState

\* What a GRANT may do, taken only in JOINING.
LEMMA GrantFacts ==
  ASSUME NEW c \in Ctx, RetryLeft(c), NEW s \in Slots
  PROVE  LET o == OnGrant(c, Addr, s, c.tier, LeaseSf)
         IN  /\ o.ctx \in Ctx /\ RetryLeft(o.ctx)
             /\ o.act \subseteq {"RUN_DISCOVER", "SLEEP"}
             /\ o.ctx.state = "RANGING" => c.state = "RANGING"
<1> DEFINE o == OnGrant(c, Addr, s, c.tier, LeaseSf)
<1>1. CASE c.state = "JOINING"
  <2>1. o.ctx = [c EXCEPT !.state = "DISCOVER", !.addr = Addr, !.slot = s,
                          !.tier = c.tier, !.lease = LeaseSf, !.miss = 0]
        /\ o.act = {"RUN_DISCOVER"}
    BY <1>1 DEF OnGrant, Out
  <2>2. /\ 0 \in 0..MissMax /\ LeaseSf \in 0..LeaseSf /\ s \in Slots \cup {0}
        /\ "DISCOVER" \in NetState /\ c.tier \in Tiers
    BY NetAssumption DEF NetState, Ctx
  <2>3. o.ctx \in Ctx /\ o.ctx.state = "DISCOVER"
    BY <2>1, <2>2 DEF Ctx
  <2>4. QED BY <2>1, <2>3 DEF RetryLeft
<1>2. CASE c.state # "JOINING"
  <2>1. o.ctx = c /\ o.act \subseteq {"SLEEP"} BY <1>2 DEF OnGrant, Out
  <2>2. QED BY <2>1
<1>3. QED BY <1>1, <1>2

\* No GRANT: a retry, or back to SCAN.
LEMMA GrantMissFacts ==
  ASSUME NEW c \in Ctx, RetryLeft(c)
  PROVE  LET o == OnGrantMiss(c)
         IN  /\ o.ctx \in Ctx /\ RetryLeft(o.ctx)
             /\ o.act \subseteq {"SEND_JOIN", "SLEEP"}
             /\ o.ctx.state \in {"DISCOVER", "RANGING"} => o.ctx = c
<1> DEFINE o == OnGrantMiss(c)
<1>1. c.retries \in Nat /\ JoinRetryMax \in Nat
  BY NetAssumption DEF Ctx
<1>2. CASE c.state = "JOINING"
  <2>1. c.retries + 1 \in 0..JoinRetryMax BY <1>1, <1>2 DEF RetryLeft
  <2>2. CASE c.retries + 1 >= JoinRetryMax
    <3>1. o.ctx = [c EXCEPT !.state = "SCAN", !.retries = c.retries + 1]
          /\ o.act = {}
      BY <1>2, <2>2 DEF OnGrantMiss, Out
    <3>2. o.ctx \in Ctx /\ o.ctx.state = "SCAN"
      BY <2>1, <3>1 DEF Ctx, NetState
    <3>3. QED BY <3>1, <3>2 DEF RetryLeft
  <2>3. CASE ~(c.retries + 1 >= JoinRetryMax)
    <3>1. o.ctx = [c EXCEPT !.retries = c.retries + 1]
          /\ o.act = {"SEND_JOIN"}
      BY <1>2, <2>3 DEF OnGrantMiss, Out
    <3>2. /\ o.ctx \in Ctx /\ o.ctx.state = "JOINING"
          /\ o.ctx.retries = c.retries + 1
      BY <1>2, <2>1, <3>1 DEF Ctx
    <3>3. QED BY <1>1, <2>3, <3>1, <3>2 DEF RetryLeft
  <2>4. QED BY <2>2, <2>3
<1>3. CASE c.state # "JOINING"
  BY <1>3 DEF OnGrantMiss, Out
<1>4. QED BY <1>2, <1>3

\* The action word of a window: the alert's bit comes to the machine's, and a
\* sweep of an uncalibrated tag goes.
Word(o, st, beacon, pending, cal) ==
    GateActions(o \cup AlertAction(st, beacon, pending), cal)

LEMMA WordFacts ==
  ASSUME NEW o, o \subseteq Action \ {"SEND_ALERT"}, NEW st, NEW beacon \in BOOLEAN,
         NEW pending \in BOOLEAN, NEW cal \in BOOLEAN
  PROVE  /\ Word(o, st, beacon, pending, cal) \subseteq Action
         /\ \A a \in Word(o, st, beacon, pending, cal) \ {"SEND_ALERT"} : a \in o
         /\ "SEND_ALERT" \in Word(o, st, beacon, pending, cal)
               => beacon = TRUE \/ st = "SCAN"
         /\ "RUN_SWEEP" \in Word(o, st, beacon, pending, cal) => cal = TRUE
         /\ "SEND_KEEPALIVE" \in o
               => "SEND_KEEPALIVE" \in Word(o, st, beacon, pending, cal)
BY DEF Word, GateActions, AlertAction, Action

-----------------------------------------------------------------------------
(* The invariant                                                           *)

LEMMA InitIInv == Init => IInv
<1> SUFFICES ASSUME Init PROVE IInv
  OBVIOUS
<1>1. /\ 0 \in 0..MissMax /\ 0 \in 0..SinceCap /\ 0 \in 0..JoinRetryMax
      /\ 0 \in 0..LeaseSf /\ 0 \in 0..SelectMax /\ 0 \in 0..RediscoverSf
      /\ 0 \in Nat /\ FastTier \in Tiers
  BY NetAssumption, MacAssumption
<1>2. ctx \in Ctx BY <1>1 DEF Init, NetInit, Ctx, NetState
<1>3. gate \in [ever : BOOLEAN, n : 0..SelectMax, age : 0..RediscoverSf]
  BY <1>1 DEF Init, GateInit
<1>4. TypeOK BY <1>1, <1>2, <1>3 DEF Init, TypeOK
<1>5. /\ RetryLeft(ctx) /\ HeardFirst /\ SweepIsOurs /\ PoolKnown
      /\ SilentGateway /\ LeaseKnown /\ NoBlindTx /\ PollsInOwnSlot
  BY DEF Init, NetInit, RetryLeft, HeardFirst, SweepIsOurs, PoolKnown,
         SilentGateway, LeaseKnown, InSync, NoBlindTx, PollsInOwnSlot
<1>6. QED BY <1>4, <1>5 DEF IInv

\* The wait: the machine's context ages with the gateway's lease.
LEMMA WaitFacts ==
  ASSUME TypeOK, RetryLeft(ctx), NEW k \in Nat \ {0}, GatewayAges(k)
  PROVE  /\ Waited(k) \in Ctx /\ RetryLeft(Waited(k))
         /\ Waited(k).state = ctx.state /\ Waited(k).addr = ctx.addr
         /\ Waited(k).lease = ctx.lease
         /\ Waited(k).since = Capped(ctx.since + k)
         /\ gSlot' \in Slots \cup {NoSlot} /\ gLease' \in 0..LeaseSf
         /\ gSlot = NoSlot => gSlot' = NoSlot
         /\ gSlot' # NoSlot => gLease' = gLease - k
         /\ gSlot # NoSlot /\ gLease > k => gSlot' \in Slots
<1>1. /\ ctx \in Ctx /\ gLease \in 0..LeaseSf /\ LeaseSf \in Nat
      /\ gSlot \in Slots \cup {NoSlot} /\ SinceCap \in Nat
  BY NetAssumption, MacAssumption DEF TypeOK
<1>2. Capped(ctx.since + k) \in 0..SinceCap BY <1>1 DEF Capped, Ctx
<1>3. /\ Waited(k) \in Ctx
      /\ Waited(k).state = ctx.state /\ Waited(k).addr = ctx.addr
      /\ Waited(k).lease = ctx.lease /\ Waited(k).retries = ctx.retries
      /\ Waited(k).since = Capped(ctx.since + k)
  BY <1>1, <1>2 DEF Waited, Ctx
<1>4. gLease' \in 0..LeaseSf /\ (gLease > k => gLease' = gLease - k)
  BY <1>1 DEF GatewayAges
<1>5. /\ gSlot' \in Slots \cup {NoSlot}
      /\ gSlot = NoSlot => gSlot' = NoSlot
      /\ gSlot' # NoSlot => gLease > k
      /\ gSlot # NoSlot /\ gLease > k => gSlot' \in Slots
  BY <1>1 DEF GatewayAges
<1>6. QED BY <1>3, <1>4, <1>5 DEF RetryLeft

\* A window: what its beacon, or the lack of one, puts into the action word.
LEMMA ListenStep ==
  ASSUME IInv, NEW k \in MaxSpan, NEW alert \in Alerts, Listen(k, alert)
  PROVE  IInv'
<1> USE DEF IInv
<1>1. k \in Nat \ {0} /\ alert \in BOOLEAN
  BY NetAssumption, MacAssumption DEF MaxSpan
<1>2. /\ act \subseteq {"TO_SCAN"} /\ GatewayAges(k)
      /\ heard' \in {FALSE, gUp} /\ tx' = {}
      /\ scanning' = (ctx.state = "SCAN")
      /\ glitch' = (gUp /\ ~heard') /\ asleep' = FALSE
      /\ gate' = GateAged(gate, k)
      /\ UNCHANGED <<found, calValid, gUp, gVerOk, kaLost>>
  BY DEF Listen, Between
<1>3. /\ Waited(k) \in Ctx /\ RetryLeft(Waited(k))
      /\ Waited(k).state = ctx.state /\ Waited(k).addr = ctx.addr
      /\ Waited(k).lease = ctx.lease
      /\ Waited(k).since = Capped(ctx.since + k)
      /\ gSlot' \in Slots \cup {NoSlot} /\ gLease' \in 0..LeaseSf
      /\ gSlot = NoSlot => gSlot' = NoSlot
      /\ gSlot' # NoSlot => gLease' = gLease - k
  BY <1>1, <1>2, WaitFacts
<1>4. /\ calValid \in BOOLEAN /\ heard' \in BOOLEAN /\ gUp \in BOOLEAN
      /\ gVerOk \in BOOLEAN /\ kaLost \in BOOLEAN /\ glitch' \in BOOLEAN
      /\ scanning' \in BOOLEAN /\ asleep' \in BOOLEAN
  BY <1>2 DEF TypeOK
<1>5. gate' \in [ever : BOOLEAN, n : 0..SelectMax, age : 0..RediscoverSf]
      /\ gate'.n = gate.n
  <2>1. gate \in [ever : BOOLEAN, n : 0..SelectMax, age : 0..RediscoverSf]
    BY DEF TypeOK
  <2>2. (IF gate.age + k > RediscoverSf THEN RediscoverSf ELSE gate.age + k)
           \in 0..RediscoverSf
    BY <1>1, <2>1, NetAssumption
  <2>3. QED BY <1>2, <2>1, <2>2 DEF GateAged
<1>6. /\ ctx.lease \in 0..LeaseSf /\ ctx.since \in Nat /\ gLease \in Nat
      /\ SinceCap \in Nat /\ SinceCap >= LeaseSf /\ LeaseSf \in Nat
  BY NetAssumption, MacAssumption DEF TypeOK, Ctx
<1>7. ASSUME InSync, gSlot' # NoSlot, ~kaLost
      PROVE  ctx.lease <= gLease' + Capped(ctx.since + k)
  <2>1. ctx.lease <= gLease + ctx.since
    BY <1>2, <1>3, <1>7 DEF LeaseKnown
  <2>2. gLease' = gLease - k BY <1>3, <1>7
  <2>3. CASE ctx.since + k > SinceCap
    BY <1>3, <1>6, <2>3 DEF Capped
  <2>4. CASE ~(ctx.since + k > SinceCap)
    BY <1>1, <1>6, <2>1, <2>2, <2>4 DEF Capped
  <2>5. QED BY <2>3, <2>4
<1>8. NoBlindTx' /\ PollsInOwnSlot' BY <1>2 DEF NoBlindTx, PollsInOwnSlot
<1>9. CASE heard'
  <2>1. \E m \in BOOLEAN :
           /\ m = TRUE => gSlot' # NoSlot /\ ctx.addr = Addr
           /\ ctx' = OnBeacon(Waited(k), gVerOk, m, gSlot').ctx
           /\ act' = GateActions(OnBeacon(Waited(k), gVerOk, m, gSlot').act
                        \cup AlertAction(ctx.state, heard', alert), calValid)
    <3>1. /\ ctx' = OnBeacon(Waited(k), gVerOk,
                             gSlot' # NoSlot /\ ctx.addr = Addr, gSlot').ctx
          /\ act' = GateActions(OnBeacon(Waited(k), gVerOk,
                                 gSlot' # NoSlot /\ ctx.addr = Addr, gSlot').act
                       \cup AlertAction(ctx.state, heard', alert), calValid)
      BY <1>9 DEF Listen
    <3>2. (gSlot' # NoSlot /\ ctx.addr = Addr) \in BOOLEAN
      OBVIOUS
    <3>3. QED BY <3>1, <3>2
  <2>2. PICK m \in BOOLEAN :
           /\ m = TRUE => gSlot' # NoSlot /\ ctx.addr = Addr
           /\ ctx' = OnBeacon(Waited(k), gVerOk, m, gSlot').ctx
           /\ act' = GateActions(OnBeacon(Waited(k), gVerOk, m, gSlot').act
                        \cup AlertAction(ctx.state, heard', alert), calValid)
    BY <2>1
  <2> DEFINE o == OnBeacon(Waited(k), gVerOk, m, gSlot')
  <2>3. /\ o.ctx \in Ctx /\ RetryLeft(o.ctx)
        /\ o.act \subseteq Action \ {"SEND_ALERT"}
        /\ "RUN_SWEEP" \in o.act => /\ m = TRUE /\ o.ctx.addr = ctx.addr
                                    /\ o.ctx.slot = gSlot'
                                    /\ "SEND_JOIN" \notin o.act
        /\ o.ctx.state \in {"DISCOVER", "RANGING"} =>
              /\ m = TRUE /\ o.ctx.state = ctx.state /\ o.ctx.since = 0
              /\ \/ "SEND_KEEPALIVE" \in o.act
                 \/ /\ o.ctx.lease = LeaseAge(Waited(k))
                    /\ LeaseAge(Waited(k)) > LeaseSf \div 2
    <3>1. gVerOk \in BOOLEAN /\ m \in BOOLEAN /\ (m = TRUE => gSlot' \in Slots)
      BY <1>3, <1>4, <2>2
    <3>2. Waited(k) \in Ctx /\ RetryLeft(Waited(k))
      BY <1>3
    <3>3. BeaconResult(Waited(k), m, gSlot', o)
      BY <3>1, <3>2, BeaconFacts
    <3>4. QED BY <1>3, <3>3 DEF BeaconResult
  <2>13. /\ ctx' = o.ctx
         /\ act' = GateActions(o.act \cup AlertAction(ctx.state, heard', alert),
                               calValid)
    BY <2>2
  <2> HIDE DEF o
  <2>4. /\ act' \subseteq Action
        /\ \A a \in act' \ {"SEND_ALERT"} : a \in o.act
        /\ "RUN_SWEEP" \in act' => calValid = TRUE
        /\ "SEND_KEEPALIVE" \in o.act => "SEND_KEEPALIVE" \in act'
    <3>1. act' = Word(o.act, ctx.state, heard', alert, calValid)
      BY <2>13 DEF Word
    <3>2. o.act \subseteq Action \ {"SEND_ALERT"} BY <2>3
    <3>3. /\ heard' \in BOOLEAN /\ alert \in BOOLEAN /\ calValid \in BOOLEAN
          /\ heard' = TRUE
      BY <1>1, <1>4, <1>9
    <3> DEFINE w == Word(o.act, ctx.state, heard', alert, calValid)
    <3>4. /\ w \subseteq Action
          /\ \A a \in w \ {"SEND_ALERT"} : a \in o.act
          /\ "RUN_SWEEP" \in w => calValid = TRUE
          /\ "SEND_KEEPALIVE" \in o.act => "SEND_KEEPALIVE" \in w
      BY <3>2, <3>3, WordFacts
    <3> HIDE DEF w
    <3>5. act' = w
      BY <3>1 DEF w
    <3>6. QED BY <3>4, <3>5
  <2>5. TypeOK' BY <1>2, <1>3, <1>4, <1>5, <2>13, <2>3, <2>4 DEF TypeOK
  <2>6. RetryLeft(ctx)' BY <2>13, <2>3 DEF RetryLeft
  <2>7. HeardFirst' BY <1>9 DEF HeardFirst
  <2>8. SweepIsOurs' BY <1>2, <1>4, <2>2, <2>13, <2>3, <2>4 DEF SweepIsOurs
  <2>9. PoolKnown' BY <1>2, <1>5, <2>13, <2>3 DEF PoolKnown
  <2>10. SilentGateway' BY <1>2, <1>4, <1>9 DEF SilentGateway
  <2>11. LeaseKnown'
    <3> SUFFICES ASSUME InSync', gSlot' # NoSlot, ~kaLost',
                        "SEND_KEEPALIVE" \notin act'
                 PROVE  /\ ctx'.lease <= gLease' + ctx'.since
                        /\ gLease' > LeaseSf \div 2
      BY DEF LeaseKnown
    <3>1. /\ ctx'.since = 0 /\ ctx.state = ctx'.state
          /\ ctx'.lease = LeaseAge(Waited(k))
          /\ LeaseAge(Waited(k)) > LeaseSf \div 2
      BY <2>13, <2>3, <2>4 DEF InSync
    <3>2. ctx.lease <= gLease' + Capped(ctx.since + k)
      BY <1>2, <1>7, <3>1 DEF InSync
    <3>3. Capped(ctx.since + k) \in Nat BY <1>1, <1>6 DEF Capped
    <3>4. LeaseAge(Waited(k)) <= gLease' /\ gLease' \in Nat
      BY <1>3, <1>6, <3>2, <3>3 DEF LeaseAge
    <3>5. LeaseAge(Waited(k)) \in Nat /\ LeaseSf \div 2 \in Nat
      BY <1>3, <1>6, LeaseAgeType
    <3>6. QED BY <3>1, <3>4, <3>5
  <2>12. QED BY <1>8, <2>5, <2>6, <2>7, <2>8, <2>9, <2>10, <2>11
<1>10. CASE ~heard'
  <2> DEFINE o == OnBeaconMiss(Waited(k))
  <2>1. /\ ctx' = o.ctx
        /\ act' = GateActions(o.act \cup AlertAction(ctx.state, heard', alert),
                              calValid)
    BY <1>10 DEF Listen
  <2>2. /\ o.ctx \in Ctx /\ RetryLeft(o.ctx)
        /\ o.act \subseteq {"SLEEP", "TO_SCAN"}
        /\ o.ctx.state \in {"DISCOVER", "RANGING"} =>
              /\ o.ctx.state = ctx.state
              /\ o.ctx.lease = ctx.lease
              /\ o.ctx.since = Capped(ctx.since + k)
    BY <1>3, MissFacts
  <2> HIDE DEF o
  <2>3. o.act \subseteq Action \ {"SEND_ALERT"} BY <2>2 DEF Action
  <2>4. /\ act' \subseteq Action
        /\ \A a \in act' \ {"SEND_ALERT"} : a \in o.act
        /\ "SEND_ALERT" \in act' => ctx.state = "SCAN"
    <3>1. act' = Word(o.act, ctx.state, heard', alert, calValid)
      BY <2>1 DEF Word
    <3>2. heard' \in BOOLEAN /\ alert \in BOOLEAN /\ calValid \in BOOLEAN /\ ~heard'
      BY <1>1, <1>4, <1>10
    <3> DEFINE w == Word(o.act, ctx.state, heard', alert, calValid)
    <3>3. /\ w \subseteq Action
          /\ \A a \in w \ {"SEND_ALERT"} : a \in o.act
          /\ "SEND_ALERT" \in w => ctx.state = "SCAN"
      BY <2>3, <3>2, WordFacts
    <3> HIDE DEF w
    <3>4. act' = w
      BY <3>1 DEF w
    <3>5. QED BY <3>3, <3>4
  <2>5. TypeOK' BY <1>2, <1>3, <1>4, <1>5, <2>1, <2>2, <2>4 DEF TypeOK
  <2>6. RetryLeft(ctx)' BY <2>1, <2>2 DEF RetryLeft
  <2>7. HeardFirst' /\ SweepIsOurs'
    <3>1. \A a \in act' : a \in {"SEND_ALERT", "SLEEP", "TO_SCAN"}
      BY <2>2, <2>4
    <3>2. "SEND_ALERT" \in act' => scanning'
      BY <1>2, <2>4
    <3>3. QED BY <3>1, <3>2, Zenon DEF HeardFirst, SweepIsOurs
  <2>8. PoolKnown' BY <1>2, <1>5, <2>1, <2>2 DEF PoolKnown
  <2>9. SilentGateway' BY <1>2, <1>3, <2>2, <2>4 DEF SilentGateway
  <2>10. LeaseKnown'
    BY <1>2, <1>7, <1>10, <2>1, <2>2 DEF LeaseKnown, InSync
  <2>11. QED BY <1>8, <2>5, <2>6, <2>7, <2>8, <2>9, <2>10
<1>11. QED BY <1>9, <1>10

\* What the block of the JOIN leaves: the GRANT's answer can set a discovery or
\* the next JOIN, of which the block clears its own bit, and never a sweep.
LEMMA JoinBlock ==
  ASSUME IInv, Turn("SEND_JOIN"), NEW o, JoinAnswered(o),
         o.ctx \in Ctx, RetryLeft(o.ctx),
         o.act \subseteq {"SEND_JOIN", "RUN_DISCOVER", "SLEEP"},
         o.ctx.state = "RANGING" => ctx.state = "RANGING"
  PROVE  /\ ctx' = o.ctx /\ act' \subseteq Action /\ tx' \subseteq Frame
         /\ gUp = TRUE
         /\ RetryLeft(ctx)' /\ HeardFirst' /\ SweepIsOurs' /\ PoolKnown'
         /\ "SEND_JOIN" \notin act' /\ NoBlindTx' /\ PollsInOwnSlot'
         /\ "SEND_KEEPALIVE" \notin act' => "SEND_KEEPALIVE" \notin act
<1> USE DEF IInv
<1>1. /\ ctx' = o.ctx
      /\ act' = (act \cup GateActions(o.act, calValid)) \ {"SEND_JOIN"}
      /\ tx' = tx \cup {[kind |-> "JOIN", src |-> UnassocAddr, at |-> "cap"]}
      /\ UNCHANGED <<gate, found, calValid, asleep, scanning, heard>>
  BY DEF JoinAnswered, Sent
<1>2. "SEND_JOIN" \in act BY DEF Turn
<1>3. heard = TRUE /\ gUp = TRUE
  BY <1>2 DEF HeardFirst, SilentGateway, TypeOK
<1>4. "RUN_SWEEP" \notin act BY <1>2 DEF SweepIsOurs
<1>5. GateActions(o.act, calValid) \subseteq {"SEND_JOIN", "RUN_DISCOVER", "SLEEP"}
  BY DEF GateActions
<1>6. act' \subseteq Action /\ "RUN_SWEEP" \notin act'
      /\ "SEND_JOIN" \notin act'
      /\ ("SEND_KEEPALIVE" \notin act' => "SEND_KEEPALIVE" \notin act)
  BY <1>1, <1>4, <1>5 DEF TypeOK, Action
<1>7. tx' \subseteq Frame BY <1>1 DEF TypeOK, Frame
<1>8. HeardFirst' /\ SweepIsOurs' BY <1>1, <1>3, <1>6 DEF HeardFirst, SweepIsOurs
<1>9. RetryLeft(ctx)' /\ PoolKnown' BY <1>1 DEF PoolKnown, RetryLeft
<1>10. NoBlindTx' BY <1>1, <1>3 DEF NoBlindTx
<1>11. PollsInOwnSlot' BY <1>1 DEF PollsInOwnSlot
<1>12. QED BY <1>1, <1>3, <1>6, <1>7, <1>8, <1>9, <1>10, <1>11

LEMMA JoinStep ==
  ASSUME IInv,
         JoinLost \/ (\E s \in Slots : JoinGranted(s) \/ GrantLost(s))
  PROVE  IInv'
<1> USE DEF IInv
<1>1. ctx \in Ctx /\ LeaseSf \in Nat /\ LeaseSf >= 1
  BY NetAssumption DEF TypeOK
<1>2. /\ LeaseSf \in 0..LeaseSf /\ ctx.lease \in Nat /\ ctx.lease <= LeaseSf
      /\ ctx.since \in Nat
      /\ LeaseSf \div 2 < LeaseSf /\ LeaseSf \div 2 \in Nat
  BY <1>1, LeaseAgeType DEF Ctx
<1>3. ASSUME NEW s \in Slots, JoinGranted(s) PROVE IInv'
  <2> DEFINE o == OnGrant(ctx, Addr, s, ctx.tier, LeaseSf)
  <2>1. /\ Turn("SEND_JOIN") /\ GatewaySeats(s) /\ JoinAnswered(o)
        /\ kaLost' = FALSE /\ UNCHANGED <<gUp, gVerOk, glitch>>
        /\ UNCHANGED <<gate, found, calValid, asleep, scanning, heard>>
    BY <1>3 DEF JoinGranted, JoinAnswered
  <2>2. /\ o.ctx \in Ctx /\ RetryLeft(o.ctx)
        /\ o.act \subseteq {"RUN_DISCOVER", "SLEEP"}
        /\ o.ctx.state = "RANGING" => ctx.state = "RANGING"
    BY <1>1, GrantFacts
  <2> HIDE DEF o
  <2>3. /\ ctx' = o.ctx /\ act' \subseteq Action /\ tx' \subseteq Frame
        /\ gUp = TRUE
        /\ RetryLeft(ctx)' /\ HeardFirst' /\ SweepIsOurs' /\ PoolKnown'
        /\ "SEND_JOIN" \notin act' /\ NoBlindTx' /\ PollsInOwnSlot'
    BY <2>1, <2>2, JoinBlock
  <2>4. gSlot' = s /\ gLease' = LeaseSf BY <2>1 DEF GatewaySeats
  <2>5. TypeOK' BY <1>2, <2>1, <2>2, <2>3, <2>4 DEF TypeOK
  <2>6. SilentGateway' BY <2>1, <2>3 DEF SilentGateway
  <2>7. ctx'.lease <= LeaseSf /\ ctx'.since >= 0 /\ ctx'.lease \in Int
        /\ ctx'.since \in Int
    BY <1>1, <2>2, <2>3 DEF Ctx
  <2>8. LeaseKnown' BY <1>1, <1>2, <2>4, <2>7 DEF LeaseKnown
  <2>9. QED BY <2>3, <2>5, <2>6, <2>8
<1>4. ASSUME JoinLost \/ (\E s \in Slots : GrantLost(s)) PROVE IInv'
  <2> DEFINE o == OnGrantMiss(ctx)
  <2>1. /\ Turn("SEND_JOIN") /\ JoinAnswered(o)
        /\ glitch' = TRUE /\ UNCHANGED <<gUp, gVerOk, kaLost>>
        /\ UNCHANGED <<gate, found, calValid, asleep, scanning, heard>>
        /\ \/ gSlot' \in Slots /\ gLease' = LeaseSf
           \/ gSlot' = gSlot /\ gLease' = gLease
    BY <1>4 DEF GrantLost, JoinLost, JoinAnswered, GatewaySeats, gwVars
  <2>2. /\ o.ctx \in Ctx /\ RetryLeft(o.ctx)
        /\ o.act \subseteq {"SEND_JOIN", "SLEEP"}
        /\ o.ctx.state \in {"DISCOVER", "RANGING"} => o.ctx = ctx
    BY <1>1, GrantMissFacts
  <2> HIDE DEF o
  <2>3. /\ ctx' = o.ctx /\ act' \subseteq Action /\ tx' \subseteq Frame
        /\ gUp = TRUE
        /\ RetryLeft(ctx)' /\ HeardFirst' /\ SweepIsOurs' /\ PoolKnown'
        /\ "SEND_JOIN" \notin act' /\ NoBlindTx' /\ PollsInOwnSlot'
        /\ "SEND_KEEPALIVE" \notin act' => "SEND_KEEPALIVE" \notin act
    <3>1. o.act \subseteq {"SEND_JOIN", "RUN_DISCOVER", "SLEEP"} BY <2>2
    <3>2. o.ctx.state = "RANGING" => ctx.state = "RANGING" BY <2>2
    <3>3. QED BY <2>1, <2>2, <3>1, <3>2, JoinBlock
  <2>4. TypeOK' BY <1>2, <2>1, <2>2, <2>3 DEF TypeOK
  <2>5. SilentGateway' BY <2>1, <2>3 DEF SilentGateway
  <2>6. LeaseKnown'
    <3>1. ctx'.state \in {"DISCOVER", "RANGING"} => ctx' = ctx BY <2>2, <2>3
    <3>2. CASE gLease' = LeaseSf
      BY <1>1, <1>2, <3>1, <3>2 DEF LeaseKnown, InSync
    <3>3. CASE gSlot' = gSlot /\ gLease' = gLease
      BY <2>1, <2>3, <3>1, <3>3 DEF LeaseKnown, InSync
    <3>4. QED BY <2>1, <3>2, <3>3
  <2>7. QED BY <2>3, <2>4, <2>5, <2>6
<1>5. QED BY <1>3, <1>4

\* The blocks that only send: KEEPALIVE and alert; and the radio's sleep.
LEMMA SendStep ==
  ASSUME IInv, Sleep \/ \E b \in BOOLEAN : Keepalive(b) \/ Alert(b)
  PROVE  IInv'
<1> USE DEF IInv
<1>1. ctx \in Ctx /\ LeaseSf \in 0..LeaseSf
  BY NetAssumption DEF TypeOK
<1>2. /\ ctx.lease \in Nat /\ ctx.lease <= LeaseSf /\ ctx.since \in Nat
      /\ LeaseSf \div 2 < LeaseSf /\ LeaseSf \div 2 \in Nat /\ LeaseSf \in Nat
      /\ ctx.addr \in {ZeroAddr, Addr}
  BY <1>1, LeaseAgeType DEF Ctx
<1>3. CASE Sleep
  <2>1. /\ act' \subseteq act /\ asleep' = TRUE /\ act \ {"SLEEP"} \subseteq act'
        /\ UNCHANGED <<ctx, gate, found, calValid, scanning, heard, tx, gwVars,
                       glitch>>
    BY <1>3 DEF Sleep
  <2>2. TypeOK' BY <2>1 DEF TypeOK, gwVars
  <2>3. HeardFirst' /\ SweepIsOurs' /\ SilentGateway'
    BY <2>1 DEF HeardFirst, SweepIsOurs, SilentGateway, gwVars
  <2>4. RetryLeft(ctx)' /\ PoolKnown' /\ LeaseKnown' /\ NoBlindTx'
        /\ PollsInOwnSlot'
    BY <2>1 DEF RetryLeft, PoolKnown, LeaseKnown, InSync, NoBlindTx,
                PollsInOwnSlot, gwVars
  <2>5. QED BY <2>2, <2>3, <2>4
<1>4. ASSUME NEW b \in BOOLEAN, Keepalive(b) PROVE IInv'
  <2>1. /\ "SEND_KEEPALIVE" \in act
        /\ act' = act \ {"SEND_KEEPALIVE"}
        /\ tx' = tx \cup {[kind |-> "KEEPALIVE", src |-> ctx.addr, at |-> "cap"]}
        /\ glitch' \in BOOLEAN
        /\ \/ kaLost' = TRUE /\ gLease' = gLease
           \/ kaLost' = FALSE /\ gLease' = LeaseSf
        /\ UNCHANGED <<ctx, gate, found, calValid, asleep, scanning, heard,
                       gUp, gVerOk, gSlot>>
    <3>1. glitch \in BOOLEAN BY DEF TypeOK
    <3>2. CASE b \/ gSlot = NoSlot
      BY <1>4, <3>2 DEF Keepalive, Turn, Sent
    <3>3. CASE ~(b \/ gSlot = NoSlot)
      BY <1>4, <3>1, <3>3 DEF Keepalive, Turn, Sent
    <3>4. QED BY <3>2, <3>3
  <2>2. heard = TRUE BY <2>1 DEF HeardFirst, TypeOK
  <2>3. tx' \subseteq Frame BY <1>2, <2>1 DEF TypeOK, Frame
  <2>4. TypeOK' BY <1>1, <2>1, <2>3 DEF TypeOK
  <2>5. HeardFirst' /\ SweepIsOurs' /\ SilentGateway'
    BY <2>1 DEF HeardFirst, SweepIsOurs, SilentGateway
  <2>6. LeaseKnown' BY <1>2, <2>1 DEF LeaseKnown, InSync
  <2>7. RetryLeft(ctx)' /\ PoolKnown' BY <2>1 DEF RetryLeft, PoolKnown
  <2>8. NoBlindTx' /\ PollsInOwnSlot'
    BY <2>1, <2>2 DEF NoBlindTx, PollsInOwnSlot
  <2>9. QED BY <2>4, <2>5, <2>6, <2>7, <2>8
<1>5. ASSUME NEW b \in BOOLEAN, Alert(b) PROVE IInv'
  <2>1. /\ "SEND_ALERT" \in act
        /\ act' = act \ {"SEND_ALERT"}
        /\ \/ tx' = tx \cup {[kind |-> "ALERT", src |-> ctx.addr, at |-> "cap"]}
           \/ tx' = tx
        /\ UNCHANGED <<ctx, gate, found, calValid, asleep, scanning, heard,
                       gwVars, glitch>>
    BY <1>5 DEF Alert, Turn, Sent
  <2>2. heard \/ scanning BY <2>1 DEF HeardFirst
  <2>3. tx' \subseteq Frame BY <1>2, <2>1 DEF TypeOK, Frame
  <2>4. TypeOK' BY <1>1, <2>1, <2>3 DEF TypeOK, gwVars
  <2>5. HeardFirst' /\ SweepIsOurs' /\ SilentGateway'
    BY <2>1 DEF HeardFirst, SweepIsOurs, SilentGateway, gwVars
  <2>6. LeaseKnown' BY <2>1 DEF LeaseKnown, InSync, gwVars
  <2>7. RetryLeft(ctx)' /\ PoolKnown' BY <2>1 DEF RetryLeft, PoolKnown
  <2>8. NoBlindTx' /\ PollsInOwnSlot'
    BY <2>1, <2>2 DEF NoBlindTx, PollsInOwnSlot
  <2>9. QED BY <2>4, <2>5, <2>6, <2>7, <2>8
<1>6. QED BY <1>3, <1>4, <1>5

\* A discovery, whether the machine asked for it or it takes a sweep's place:
\* the selection only grows, and the sweep gate is given what it found.
LEMMA DiscoveryStep ==
  ASSUME IInv, NEW n \in 0..SelectMax, Discover(n) \/ Rediscover(n)
  PROVE  IInv'
<1> USE DEF IInv
<1>1. /\ act' \subseteq act
      /\ \A a \in act \ {"RUN_DISCOVER", "RUN_SWEEP"} : a \in act'
      /\ heard = TRUE
      /\ n \in found..SelectMax /\ found' = n
      /\ gate' = [ever |-> TRUE, n |-> n, age |-> 0]
      /\ glitch' = (glitch \/ n < SelectMax)
      /\ tx' = tx \cup {[kind |-> "DISCOVERY", src |-> ctx.addr, at |-> "cap"]}
      /\ UNCHANGED <<calValid, asleep, scanning, heard, gwVars>>
  BY DEF Discover, Rediscover, Discovery, Sent, Turn, GateDiscovered, HeardFirst,
         TypeOK
<1>2. ctx' = ctx \/ ctx' = OnDiscovered(ctx, n) BY DEF Discover, Rediscover
<1>3. ctx \in Ctx /\ found \in Nat /\ MinAnchors \in Nat
      /\ 0 \in 0..RediscoverSf /\ SelectMax \in Nat
  BY NetAssumption, MacAssumption DEF TypeOK
<1>4. /\ ctx' \in Ctx /\ ctx'.lease = ctx.lease /\ ctx'.since = ctx.since
      /\ ctx'.addr = ctx.addr /\ ctx'.slot = ctx.slot
      /\ \/ ctx'.state = ctx.state /\ ctx'.retries = ctx.retries
         \/ ctx.state = "DISCOVER" /\ ctx'.state = "RANGING" /\ n >= MinAnchors
  <2>1. CASE ctx.state = "DISCOVER" /\ n >= MinAnchors
    BY <1>2, <1>3, <2>1 DEF OnDiscovered, Ctx, NetState
  <2>2. CASE ~(ctx.state = "DISCOVER" /\ n >= MinAnchors)
    BY <1>2, <1>3, <2>2 DEF OnDiscovered
  <2>3. QED BY <2>1, <2>2
<1>5. tx' \subseteq Frame /\ glitch' \in BOOLEAN
  BY <1>1, <1>3 DEF TypeOK, Frame, Ctx
<1>6. TypeOK' BY <1>1, <1>3, <1>4, <1>5 DEF TypeOK, gwVars
<1>7. RetryLeft(ctx)' BY <1>4 DEF RetryLeft
<1>8. HeardFirst' BY <1>1 DEF HeardFirst
<1>9. SweepIsOurs' BY <1>1, <1>4 DEF SweepIsOurs, gwVars
<1>10. SilentGateway' BY <1>1 DEF SilentGateway, gwVars
<1>11. PoolKnown' BY <1>1, <1>3, <1>4 DEF PoolKnown
<1>12. LeaseKnown' BY <1>1, <1>4 DEF LeaseKnown, InSync, gwVars
<1>13. NoBlindTx' /\ PollsInOwnSlot' BY <1>1 DEF NoBlindTx, PollsInOwnSlot
<1>14. QED
  BY <1>6, <1>7, <1>8, <1>9, <1>10, <1>11, <1>12, <1>13

\* A sweep: sent in our slot, and a short one takes the machine out of RANGING.
LEMMA SweepStep ==
  ASSUME IInv, NEW n \in 0..SelectMax, NEW solved \in BOOLEAN, Sweep(n, solved)
  PROVE  IInv'
<1> USE DEF IInv
<1>1. /\ "RUN_SWEEP" \in act /\ act' = act \ {"RUN_SWEEP"}
      /\ gate' = [gate EXCEPT !.n = n] /\ ctx' = OnSwept(ctx, n)
      /\ glitch' = (glitch \/ n < found)
      /\ UNCHANGED <<found, calValid, asleep, scanning, heard, gwVars>>
  BY DEF Sweep, Turn, GateSwept
<1>2. /\ heard = TRUE /\ calValid = TRUE /\ ctx.addr = Addr /\ ctx.slot = gSlot
  BY <1>1 DEF HeardFirst, SweepIsOurs, TypeOK
<1>3. tx' \subseteq tx \cup {[kind |-> k, src |-> Addr, at |-> "own"] :
                             k \in {"POLL", "POS"}}
  BY <1>2 DEF Sweep
<1>4. ctx \in Ctx /\ n \in Nat /\ MinAnchors \in Nat
      /\ gate \in [ever : BOOLEAN, n : 0..SelectMax, age : 0..RediscoverSf]
  BY NetAssumption, MacAssumption DEF TypeOK
<1>5. /\ ctx' \in Ctx /\ ctx'.lease = ctx.lease /\ ctx'.since = ctx.since
      /\ ctx'.addr = ctx.addr /\ ctx'.slot = ctx.slot
      /\ \/ /\ ctx'.state = ctx.state /\ ctx'.retries = ctx.retries
            /\ ctx.state = "RANGING" => n >= MinAnchors
         \/ ctx.state = "RANGING" /\ ctx'.state = "DISCOVER"
  <2>1. CASE ctx.state = "RANGING" /\ n < MinAnchors
    BY <1>1, <1>4, <2>1 DEF OnSwept, Ctx, NetState
  <2>2. CASE ~(ctx.state = "RANGING" /\ n < MinAnchors)
    BY <1>1, <1>4, <2>2 DEF OnSwept
  <2>3. QED BY <2>1, <2>2
<1>6. gate' \in [ever : BOOLEAN, n : 0..SelectMax, age : 0..RediscoverSf]
      /\ gate'.n = n
  BY <1>1, <1>4
<1>7. tx' \subseteq Frame /\ glitch' \in BOOLEAN
  BY <1>1, <1>3 DEF TypeOK, Frame
<1>8. TypeOK' BY <1>1, <1>5, <1>6, <1>7 DEF TypeOK, gwVars
<1>9. RetryLeft(ctx)' BY <1>5 DEF RetryLeft
<1>10. HeardFirst' /\ SweepIsOurs' /\ SilentGateway'
  BY <1>1, <1>2 DEF HeardFirst, SweepIsOurs, SilentGateway, gwVars
<1>11. PoolKnown' BY <1>1, <1>4, <1>5, <1>6 DEF PoolKnown
<1>12. LeaseKnown' BY <1>1, <1>5 DEF LeaseKnown, InSync, gwVars
<1>13. NoBlindTx' /\ PollsInOwnSlot'
  BY <1>1, <1>2, <1>3 DEF NoBlindTx, PollsInOwnSlot
<1>14. QED
  BY <1>8, <1>9, <1>10, <1>11, <1>12, <1>13

\* The tier, a reset, and the gateway's loss and return.
LEMMA OtherStep ==
  ASSUME IInv,
         \/ \E t \in Tiers : Motion(t)
         \/ Reboot \/ GatewayDies
         \/ \E b \in BOOLEAN, s \in {0, SinceCap} : GatewayBoots(b, s)
  PROVE  IInv'
<1> USE DEF IInv
<1>1. ctx \in Ctx BY DEF TypeOK
<1>2. /\ 0 \in 0..MissMax /\ 0 \in 0..SinceCap /\ 0 \in 0..JoinRetryMax
      /\ 0 \in 0..LeaseSf /\ 0 \in 0..SelectMax /\ 0 \in 0..RediscoverSf
      /\ 0 \in Nat /\ FastTier \in Tiers /\ SinceCap \in 0..SinceCap
  BY NetAssumption, MacAssumption
<1>3. ASSUME NEW t \in Tiers, Motion(t) PROVE IInv'
  <2>1. ctx' = [ctx EXCEPT !.tier = t]
        /\ UNCHANGED <<gate, found, calValid, asleep, act, scanning, heard, tx,
                       gwVars, glitch>>
    BY <1>3 DEF Motion, OnMotion
  <2>2. /\ ctx' \in Ctx /\ ctx'.state = ctx.state /\ ctx'.addr = ctx.addr
        /\ ctx'.slot = ctx.slot /\ ctx'.lease = ctx.lease
        /\ ctx'.since = ctx.since /\ ctx'.retries = ctx.retries
    BY <1>1, <2>1 DEF Ctx
  <2>3. TypeOK' BY <2>1, <2>2 DEF TypeOK, gwVars
  <2>4. QED
    BY <2>1, <2>2, <2>3
       DEF RetryLeft, HeardFirst, SweepIsOurs, PoolKnown, SilentGateway,
           LeaseKnown, InSync, NoBlindTx, PollsInOwnSlot, gwVars
<1>4. CASE Reboot
  <2>1. /\ ctx' = NetInit /\ gate' = GateInit /\ found' = 0 /\ asleep' = FALSE
        /\ act' = {} /\ scanning' = TRUE /\ heard' = FALSE /\ tx' = {}
        /\ glitch' = TRUE
        /\ UNCHANGED <<calValid, gwVars>>
    BY <1>4 DEF Reboot
  <2>2. ctx' \in Ctx /\ ctx'.state = "SCAN"
    BY <1>2, <2>1 DEF NetInit, Ctx, NetState
  <2>3. gate' \in [ever : BOOLEAN, n : 0..SelectMax, age : 0..RediscoverSf]
    BY <1>2, <2>1 DEF GateInit
  <2>4. TypeOK' BY <1>2, <2>1, <2>2, <2>3 DEF TypeOK, gwVars
  <2>5. QED
    BY <2>1, <2>2, <2>4
       DEF RetryLeft, HeardFirst, SweepIsOurs, PoolKnown, SilentGateway,
           LeaseKnown, InSync, NoBlindTx, PollsInOwnSlot, gwVars
<1>5. CASE GatewayDies
  <2>1. /\ act \subseteq {"TO_SCAN"} /\ gUp' = FALSE /\ gSlot' = NoSlot
        /\ gLease' = 0 /\ glitch' = TRUE
        /\ UNCHANGED <<tagVars, gVerOk, kaLost>>
    BY <1>5 DEF GatewayDies, Between
  <2>2. TypeOK' BY <1>2, <2>1 DEF TypeOK, tagVars
  <2>3. QED
    BY <2>1, <2>2
       DEF RetryLeft, HeardFirst, SweepIsOurs, PoolKnown, SilentGateway,
           LeaseKnown, InSync, NoBlindTx, PollsInOwnSlot, tagVars
<1>6. ASSUME NEW b \in BOOLEAN, NEW s \in {0, SinceCap}, GatewayBoots(b, s)
      PROVE  IInv'
  <2>1. /\ act \subseteq {"TO_SCAN"} /\ ~gUp /\ gUp' = TRUE
        /\ gVerOk' = ~b /\ glitch' = TRUE
        /\ ctx' = [ctx EXCEPT !.since = s]
        /\ UNCHANGED <<gate, found, calValid, asleep, act, scanning, heard, tx,
                       gSlot, gLease, kaLost>>
    BY <1>6 DEF GatewayBoots, Between
  <2>2. /\ ctx' \in Ctx /\ ctx'.state = ctx.state /\ ctx'.addr = ctx.addr
        /\ ctx'.slot = ctx.slot /\ ctx'.retries = ctx.retries
    BY <1>1, <1>2, <2>1 DEF Ctx
  <2>3. gVerOk' \in BOOLEAN /\ gSlot' = NoSlot BY <2>1 DEF SilentGateway
  <2>4. TypeOK' BY <2>1, <2>2, <2>3 DEF TypeOK
  <2>5. HeardFirst' /\ SweepIsOurs' /\ SilentGateway' /\ LeaseKnown'
    BY <2>1, <2>3 DEF HeardFirst, SweepIsOurs, SilentGateway, LeaseKnown
  <2>6. QED
    BY <2>1, <2>2, <2>4, <2>5
       DEF RetryLeft, PoolKnown, NoBlindTx, PollsInOwnSlot
<1>7. QED BY <1>3, <1>4, <1>5, <1>6

LEMMA NextIInv == IInv /\ [Next]_vars => IInv'
<1> SUFFICES ASSUME IInv, [Next]_vars PROVE IInv'
  OBVIOUS
<1>1. CASE \E k \in MaxSpan, a \in Alerts : Listen(k, a)
  BY <1>1, ListenStep
<1>2. CASE JoinLost \/ \E s \in Slots : JoinGranted(s) \/ GrantLost(s)
  BY <1>2, JoinStep
<1>3. CASE Sleep \/ \E b \in BOOLEAN : Keepalive(b) \/ Alert(b)
  BY <1>3, SendStep
<1>4. CASE \E n \in 0..SelectMax : Discover(n) \/ Rediscover(n)
  BY <1>4, DiscoveryStep
<1>5. CASE \E n \in 0..SelectMax, b \in BOOLEAN : Sweep(n, b)
  BY <1>5, SweepStep
<1>6. CASE \/ \E t \in Tiers : Motion(t)
           \/ Reboot \/ GatewayDies
           \/ \E b \in BOOLEAN, s \in {0, SinceCap} : GatewayBoots(b, s)
  BY <1>6, OtherStep
<1>7. CASE UNCHANGED vars
  BY <1>7 DEF vars, tagVars, gwVars, IInv, TypeOK, RetryLeft, HeardFirst,
              SweepIsOurs, PoolKnown, SilentGateway, LeaseKnown, InSync,
              NoBlindTx, PollsInOwnSlot
<1>8. QED
  BY <1>1, <1>2, <1>3, <1>4, <1>5, <1>6, <1>7 DEF Next, TagNext

\* The invariant above holds in every reachable state.
THEOREM Inductive == Spec => []IInv
BY InitIInv, NextIInv, PTL DEF Spec

-----------------------------------------------------------------------------
(* What follows                                                            *)

\* The tag is silent in a superframe whose beacon it missed, the sweep gate agrees
\* with the machine, and the tag counts no more lease than the gateway does.
THEOREM SuperframeSafe == Spec => []MacSafe
<1>1. ASSUME IInv PROVE MacSafe
  <2>1. GateAgrees BY <1>1 DEF IInv, PoolKnown, GateAgrees
  <2>2. LeaseMirror BY <1>1 DEF IInv, LeaseKnown, LeaseMirror, Between
  <2>3. QED BY <1>1, <2>1, <2>2 DEF IInv, MacSafe
<1>2. QED BY <1>1, Inductive, PTL

\* The tag ranges and sends its position only in the slot of this superframe's
\* map, whatever the gateway did to its seat, and only when calibrated.
THEOREM RangesInOwnSlot == Spec => []PollsInOwnSlot
<1>1. IInv => PollsInOwnSlot BY DEF IInv
<1>2. QED BY <1>1, Inductive, PTL

\* No skip up to the cap costs the tag its seat: after a beacon the gateway's
\* lease is above half, and the cap is at most that half.
THEOREM SkippingKeepsSeat == Spec => SkipKeepsSeat
<1>1. ASSUME IInv, NEW k \in MaxSpan, NEW a \in Alerts, Listen(k, a),
             heard, InSync, gSlot # NoSlot, ~kaLost
      PROVE  gSlot' # NoSlot
  <2>1. k \in Nat \ {0} BY NetAssumption, MacAssumption DEF MaxSpan
  <2>2. act \subseteq {"TO_SCAN"} /\ k \in Spans /\ GatewayAges(k)
    BY <1>1 DEF Listen, Between
  <2>3. gLease > LeaseSf \div 2
    BY <1>1, <2>2 DEF IInv, LeaseKnown
  <2>4. k <= SkipCap
    <3>1. ctx.tier \in Tiers BY <1>1 DEF IInv, TypeOK, Ctx
    <3>2. TierParams[ctx.tier].skip \in Nat /\ SkipCap \in Nat \ {0}
      BY <3>1, NetAssumption
    <3>3. ListenSkip(ctx.tier) \in 1..SkipCap BY <3>2 DEF ListenSkip
    <3>4. k \in 1..ListenSkip(ctx.tier)
      BY <1>1, <2>2 DEF Spans, InSync
    <3>5. QED BY <2>1, <3>2, <3>3, <3>4
  <2>5. gLease > k
    <3>1. gLease \in Nat BY <1>1, NetAssumption DEF IInv, TypeOK
    <3>2. SkipCap \in Nat /\ LeaseSf \div 2 \in Nat
      BY <1>1, NetAssumption, LeaseAgeType DEF IInv, TypeOK
    <3>3. QED BY <2>1, <2>3, <2>4, <3>1, <3>2, SkipAssumption
  <2>6. gSlot' \in Slots
    BY <1>1, <2>1, <2>2, <2>5, WaitFacts DEF IInv
  <2>7. QED BY <2>6, MacAssumption
<1>2. IInv /\ [Next]_vars =>
        [\A k \in MaxSpan, a \in Alerts :
           Listen(k, a) /\ heard /\ InSync /\ gSlot # NoSlot /\ ~kaLost
             => gSlot' # NoSlot]_vars
  BY <1>1
<1>3. QED BY <1>2, Inductive, PTL DEF Spec, SkipKeepsSeat

-----------------------------------------------------------------------------
(***************************************************************************)
(* BeaconTiming: the estimate that aims the runner's windows is as good as *)
(* its baseline is long.  The invariant says which beacons of the gateway  *)
(* the scheduler's three references are, and in which order they were      *)
(* sent; the rest is what wrapping subtraction and truncating division do  *)
(* to two readings of a clock.                                             *)
(***************************************************************************)

\* A remainder is the one of its class that lies below the modulus.
LEMMA RemainderIs ==
    ASSUME NEW M \in Nat \ {0}, NEW k \in Int, NEW r \in 0..(M - 1)
    PROVE  (k * M + r) % M = r
OBVIOUS

LEMMA RemainderOf ==
    ASSUME NEW M \in Nat \ {0}, NEW x \in Int
    PROVE  /\ x % M \in 0..(M - 1)
           /\ x = (x \div M) * M + (x % M)
           /\ x \div M \in Int
OBVIOUS

\* Counters that wrap may be subtracted before or after they wrap.
LEMMA RemainderOfDifference ==
    ASSUME NEW M \in Nat \ {0}, NEW x \in Int, NEW y \in Int
    PROVE  /\ ((x % M) - (y % M)) % M = (x - y) % M
           /\ ((x % M) - y) % M = (x - y) % M
           /\ ((x % M) + y) % M = (x + y) % M
<1> DEFINE a == x \div M
<1> DEFINE b == y \div M
<1> DEFINE s == x % M
<1> DEFINE t == y % M
<1> DEFINE c == (x - y) \div M
<1> DEFINE r == (x - y) % M
<1> DEFINE e == (x + y) \div M
<1> DEFINE q == (x + y) % M
<1>1. x = a * M + s /\ a \in Int /\ s \in Int
  BY RemainderOf
<1>2. y = b * M + t /\ b \in Int /\ t \in Int
  BY RemainderOf
<1>3. x - y \in Int /\ x - y = c * M + r /\ r \in 0..(M - 1) /\ c \in Int
  <2>1. x - y \in Int
    OBVIOUS
  <2> QED BY <2>1, RemainderOf, Zenon
<1>4. x + y \in Int /\ x + y = e * M + q /\ q \in 0..(M - 1) /\ e \in Int
  <2>1. x + y \in Int
    OBVIOUS
  <2> QED BY <2>1, RemainderOf, Zenon
<1> SUFFICES (s - t) % M = r /\ (s - y) % M = r /\ (s + y) % M = q
  OBVIOUS
<1> HIDE DEF a, b, c, r, e, q, s, t
<1>5. /\ ((c - a) + b) * M = (c * M - a * M) + b * M
      /\ (c - a) * M = c * M - a * M
      /\ (e - a) * M = e * M - a * M
  BY <1>1, <1>2, <1>3, <1>4
<1>6. s - t = ((c - a) + b) * M + r
  BY <1>1, <1>2, <1>3, <1>5
<1>7. s - y = (c - a) * M + r
  BY <1>1, <1>3, <1>5
<1>8. s + y = (e - a) * M + q
  BY <1>1, <1>4, <1>5
<1>9. (s - t) % M = r
  BY <1>1, <1>2, <1>3, <1>6, RemainderIs, (c - a) + b \in Int
<1>10. (s - y) % M = r
  BY <1>1, <1>3, <1>7, RemainderIs, c - a \in Int
<1>11. (s + y) % M = q
  BY <1>1, <1>4, <1>8, RemainderIs, e - a \in Int
<1> QED
  BY <1>9, <1>10, <1>11

\* A positive signed difference is the true one up to whole laps of the clock.
LEMMA SignedDiffIs ==
    ASSUME NEW M \in Nat \ {0}, NEW x \in Int, NEW y \in Int,
           SignedDiff(x % M, y % M, M) > 0
    PROVE  \E m \in Int : /\ x - y = SignedDiff(x % M, y % M, M) + m * M
                          /\ 2 * SignedDiff(x % M, y % M, M) < M
                          /\ SignedDiff(x % M, y % M, M) \in Int
<1> DEFINE D == x - y
<1> DEFINE S == SignedDiff(x % M, y % M, M)
<1> DEFINE r == D % M
<1> DEFINE m == D \div M
<1>1. S = IF r < M \div 2 THEN r ELSE r - M
  BY RemainderOfDifference DEF SignedDiff
<1>2. r \in 0..(M - 1) /\ D = m * M + r /\ m \in Int
  <2> D \in Int
    OBVIOUS
  <2> HIDE DEF D
  <2> QED BY RemainderOf
<1>3. S > 0
  OBVIOUS
<1> HIDE DEF S, r, m
<1>4. r < M \div 2 /\ S = r
  BY <1>1, <1>2, <1>3
<1>5. 2 * r < M
  BY <1>2, <1>4
<1>6. D = S + m * M /\ 2 * S < M /\ S \in Int
  BY <1>2, <1>4, <1>5
<1> QED
  BY <1>2, <1>6 DEF D, S

\* The difference of two counts less than half a lap apart.
LEMMA SignedDiffSmall ==
    ASSUME NEW M \in Nat \ {0}, NEW x \in Int, NEW y \in Int,
           NEW d \in Nat, x - y = d, 2 * d <= M, SignedDiff(x % M, y % M, M) > 0
    PROVE  SignedDiff(x % M, y % M, M) = d
<1>1. (x - y) % M = d
  <2>1. d \in 0..(M - 1)
    OBVIOUS
  <2> QED BY <2>1, RemainderIs
<1>2. SignedDiff(x % M, y % M, M) = IF d < M \div 2 THEN d ELSE d - M
  BY <1>1, RemainderOfDifference DEF SignedDiff
<1> QED
  BY <1>2

\* Between two readings of the clock, in whole milliseconds, as between their
\* instants, but for less than one.
LEMMA ReadingsApart ==
    ASSUME NEW x \in Int, NEW y \in Int
    PROVE  LET T == (x \div 1000) - (y \div 1000)
           IN /\ T \in Int
              /\ 1000 * T <= (x - y) + 999
              /\ 1000 * T >= (x - y) - 999
OBVIOUS

\* A quotient is the largest number whose product stays below.
LEMMA Quotient ==
    ASSUME NEW U \in Int, NEW B \in Nat \ {0}
    PROVE  /\ U \div B \in Int
           /\ B * (U \div B) <= U
           /\ U < B * (U \div B) + B
           /\ \A x \in Int : B * x <= U => x <= U \div B
           /\ U >= 0 => U \div B >= 0
<1> DEFINE q == U \div B
<1>1. q \in Int /\ B * q <= U /\ U < B * q + B
  OBVIOUS
<1> HIDE DEF q
<1>2. ASSUME NEW x \in Int, B * x <= U
      PROVE  x <= q
  <2> SUFFICES ASSUME x >= q + 1 PROVE FALSE
    BY <1>1
  <2>1. B * x >= B * (q + 1)
    BY <1>1
  <2>2. B * (q + 1) = B * q + B
    BY <1>1
  <2> QED BY <1>1, <1>2, <2>1, <2>2
<1>3. U >= 0 => 0 <= q
  BY <1>1, <1>2, B * 0 = 0
<1> QED
  BY <1>1, <1>2, <1>3 DEF q

\* A shorter baseline has the larger quotient.
LEMMA QuotientGrows ==
    ASSUME NEW U \in Nat, NEW B \in Nat \ {0}, NEW C \in Nat \ {0}, C <= B
    PROVE  U \div B <= U \div C
<1> DEFINE q == U \div B
<1>1. q \in Nat /\ B * q <= U
  BY Quotient
<1> HIDE DEF q
<1>2. C * q <= B * q
  BY <1>1
<1>3. C * q <= U /\ q \in Int
  BY <1>1, <1>2
<1>4. q <= U \div C
  BY <1>3, Quotient
<1> QED BY <1>4 DEF q

\* Products that the solvers do not find.
LEMMA ProductKeepsOrder ==
    ASSUME NEW a \in Int, NEW b \in Int, NEW k \in Nat, a <= b
    PROVE  a * k <= b * k /\ k * a <= k * b
OBVIOUS

LEMMA ProductCancels ==
    ASSUME NEW a \in Int, NEW b \in Int, NEW k \in Nat \ {0}, k * a <= k * b
    PROVE  a <= b
<1> SUFFICES ASSUME b + 1 <= a PROVE FALSE
  OBVIOUS
<1>1. k * (b + 1) <= k * a
  BY ProductKeepsOrder, b + 1 \in Int
<1>2. k * (b + 1) = k * b + k
  OBVIOUS
<1> QED
  BY <1>1, <1>2, k * a \in Int, k * b \in Int

\* The wrapped reading of the elapsed time is the elapsed time itself when the
\* period that follows from it is sane: a whole lap more would be seen.
LEMMA NoWholeLap ==
    ASSUME NEW P \in PeriodsUs, NEW B \in Nat \ {0}, NEW dj \in Int,
           -(2 * JitterUs) <= dj, dj <= 2 * JitterUs,
           NEW T \in Int, 1000 * T <= B * P + dj + 999,
           1000 * T >= B * P + dj - 999,
           NEW dt \in Int, dt > 0, NEW m \in Int, T = dt + m * TimeMod,
           2 * dt < TimeMod,
           PeriodSane(((dt * Q) \div B) % PeriodMod)
    PROVE  /\ T = dt
           /\ ((dt * Q) \div B) % PeriodMod = (dt * Q) \div B
<1> DEFINE U == (dt * Q) \div B
<1> DEFINE R == U % PeriodMod
<1>1. /\ NominalMs \in Nat \ {0} /\ Q \in Nat \ {0} /\ TimeMod \in Nat \ {0}
      /\ PeriodMod \in Nat /\ 2 * NominalMs * Q < PeriodMod /\ JitterUs \in Nat
      /\ NominalMs * Q \in Nat \ {0}
  BY SchedAssumption
<1>2. P \in Nat /\ 2 * JitterUs < P /\ 2 * (P + 2 * JitterUs + 1000) <= 3000 * NominalMs
  BY TimingAssumption
<1>3. B * P >= P /\ B * P \in Nat
  BY <1>2
<1>4. T >= 0
  BY <1>1, <1>2, <1>3
<1>5. dt * Q \in Nat
  BY <1>1
<1>6. U \in Int /\ B * U <= dt * Q /\ dt * Q < B * U + B /\ U >= 0
  <2> DEFINE N == dt * Q
  <2>1. N \in Nat
    BY <1>5
  <2> HIDE DEF N
  <2>2. N \div B \in Int /\ B * (N \div B) <= N /\ N < B * (N \div B) + B
    BY <2>1, Quotient
  <2>3. 0 <= N \div B
    BY <2>1, Quotient
  <2> QED BY <2>2, <2>3 DEF N
<1>7. R \in Int /\ R <= U /\ R >= 0
  <2>1. U \in Nat /\ PeriodMod \in Nat \ {0}
    BY <1>1, <1>6
  <2> HIDE DEF U
  <2> QED BY <2>1
<1>8. 2 * R >= NominalMs * Q
  BY DEF PeriodSane
<1> HIDE DEF U, R
<1>9. B * (NominalMs * Q) <= 2 * (dt * Q)
  <2>1. B * (NominalMs * Q) <= B * (2 * U)
    BY <1>1, <1>6, <1>7, <1>8, ProductKeepsOrder, 2 * U \in Int, NominalMs * Q \in Int
  <2>2. B * (2 * U) = 2 * (B * U)
    BY <1>6
  <2> QED BY <1>1, <1>5, <1>6, <2>1, <2>2
<1>10. B * NominalMs <= 2 * dt
  <2> SUFFICES ASSUME B * NominalMs >= 2 * dt + 1 PROVE FALSE
    BY <1>1
  <2>1. (2 * dt + 1) * Q <= (B * NominalMs) * Q
    BY <1>1, ProductKeepsOrder, 2 * dt + 1 \in Int, B * NominalMs \in Int
  <2>2. (B * NominalMs) * Q = B * (NominalMs * Q)
    BY <1>1
  <2>3. (2 * dt + 1) * Q = 2 * (dt * Q) + Q
    BY <1>1
  <2> QED BY <1>1, <1>5, <1>9, <2>1, <2>2, <2>3
<1>11. 2 * T < 3 * (B * NominalMs)
  <2>1. B * (2 * (P + 2 * JitterUs + 1000)) <= B * (3000 * NominalMs)
    BY <1>1, <1>2, ProductKeepsOrder, 2 * (P + 2 * JitterUs + 1000) \in Int,
       3000 * NominalMs \in Int
  <2>2. B * (3000 * NominalMs) = 3000 * (B * NominalMs)
    BY <1>1
  <2>3. B * (2 * (P + 2 * JitterUs + 1000))
          = 2 * (B * P) + B * (4 * JitterUs) + B * 2000
    BY <1>1, <1>2
  <2>4. B * (4 * JitterUs) >= 4 * JitterUs
    BY <1>1
  <2>5. B * (4 * JitterUs) \in Int /\ B * NominalMs \in Int
    BY <1>1
  <2> QED BY <1>1, <1>3, <2>1, <2>2, <2>3, <2>4, <2>5
<1>12. T < 3 * dt
  BY <1>1, <1>10, <1>11
<1>13. m = 0
  <2>1. CASE m >= 1
    <3>1. 1 * TimeMod <= m * TimeMod
      BY <1>1, <2>1, ProductKeepsOrder
    <3>2. m * TimeMod \in Int
      BY <1>1
    <3> QED BY <1>1, <1>12, <3>1, <3>2
  <2>2. CASE m <= -1
    <3>1. m * TimeMod <= (-1) * TimeMod
      BY <1>1, <2>2, ProductKeepsOrder
    <3>2. m * TimeMod \in Int
      BY <1>1
    <3> QED BY <1>1, <1>4, <3>1, <3>2
  <2> QED BY <2>1, <2>2
<1>14. T = dt
  BY <1>1, <1>13
<1>15. U < PeriodMod
  <2>1. 2 * (B * U) < 3 * ((B * NominalMs) * Q)
    <3>1. (2 * dt) * Q <= (3 * (B * NominalMs)) * Q
      BY <1>1, <1>11, <1>14, ProductKeepsOrder, 2 * dt \in Int,
         3 * (B * NominalMs) \in Int
    <3>2. (2 * dt + 1) * Q <= (3 * (B * NominalMs)) * Q
      BY <1>1, <1>11, <1>14, ProductKeepsOrder, 2 * dt + 1 \in Int,
         3 * (B * NominalMs) \in Int
    <3>3. (2 * dt + 1) * Q = 2 * (dt * Q) + Q
      BY <1>1
    <3>4. (3 * (B * NominalMs)) * Q = 3 * ((B * NominalMs) * Q)
      BY <1>1
    <3>5. (B * NominalMs) * Q \in Int /\ B * U \in Int
      BY <1>1, <1>6
    <3> QED BY <1>1, <1>5, <1>6, <3>2, <3>3, <3>4, <3>5
  <2> SUFFICES ASSUME U >= 2 * (NominalMs * Q) PROVE FALSE
    BY <1>1, <1>6
  <2>2. B * (2 * (NominalMs * Q)) <= B * U
    BY <1>1, <1>6, ProductKeepsOrder, 2 * (NominalMs * Q) \in Int
  <2>3. B * (2 * (NominalMs * Q)) = 2 * ((B * NominalMs) * Q)
    BY <1>1
  <2>4. (B * NominalMs) * Q \in Nat /\ B * U \in Int
    BY <1>1, <1>6
  <2> QED BY <2>1, <2>2, <2>3, <2>4
<1>16. U % PeriodMod = U
  BY <1>1, <1>6, <1>15
<1> QED
  BY <1>14, <1>16 DEF U

\* B periods of P last dt milliseconds, but for E microseconds.
Lasts(dt, B, P, E) == 1000 * dt <= B * P + E /\ 1000 * dt >= B * P - E

\* The error of a quotient is the error of the time measured, over the length
\* of the baseline.
LEMMA QuotientError ==
    ASSUME NEW P \in Nat, NEW B \in Nat \ {0}, NEW K \in Nat, NEW E \in Nat,
           NEW dt \in Nat, Lasts(dt, B, P, E)
    PROVE  Abs(1000 * ((dt * K) \div B) - P * K) <= (E * K) \div B + 1000
<1> DEFINE U == (dt * K) \div B
<1> DEFINE V == (E * K) \div B
<1>1. dt * K \in Nat /\ E * K \in Nat /\ P * K \in Nat /\ B * P \in Nat
  OBVIOUS
<1>2. U \in Int /\ B * U <= dt * K /\ dt * K < B * U + B
  BY <1>1, Quotient
<1>3. V \in Int /\ \A x \in Int : B * x <= E * K => x <= V
  BY <1>1, Quotient
<1> HIDE DEF U, V
<1>4. /\ 1000 * (dt * K) <= B * (P * K) + E * K
      /\ 1000 * (dt * K) >= B * (P * K) - E * K
  <2>1. /\ (1000 * dt) * K <= (B * P + E) * K
        /\ (B * P - E) * K <= (1000 * dt) * K
    BY <1>1, ProductKeepsOrder, 1000 * dt \in Int, B * P + E \in Int,
       B * P - E \in Int DEF Lasts
  <2>2. /\ (1000 * dt) * K = 1000 * (dt * K)
        /\ (B * P + E) * K = B * (P * K) + E * K
        /\ (B * P - E) * K = B * (P * K) - E * K
    BY <1>1
  <2> QED BY <2>1, <2>2
<1>5. B * (1000 * U - P * K) = 1000 * (B * U) - B * (P * K)
  BY <1>1, <1>2
<1>6. B * (P * K - 1000 * U - 1000) = B * (P * K) - 1000 * (B * U) - 1000 * B
  BY <1>1, <1>2
<1>7. B * U \in Int /\ B * (P * K) \in Int
  BY <1>1, <1>2
<1>8. 1000 * U - P * K <= V
  <2>1. B * (1000 * U - P * K) <= E * K
    BY <1>1, <1>2, <1>4, <1>5, <1>7
  <2> QED BY <1>1, <1>2, <1>3, <2>1
<1>9. P * K - 1000 * U - 1000 <= V
  <2>1. B * (P * K - 1000 * U - 1000) <= E * K
    BY <1>1, <1>2, <1>4, <1>6, <1>7
  <2> QED BY <1>1, <1>2, <1>3, <2>1
<1>10. Abs(1000 * U - P * K) <= V + 1000
  BY <1>1, <1>2, <1>3, <1>8, <1>9 DEF Abs
<1> QED
  BY <1>10 DEF U, V

-----------------------------------------------------------------------------
(* The inductive invariant *)

SchedRec == [t0 : 0..(TimeMod - 1), fc0 : 0..(FcMod - 1),
             tMid : 0..(TimeMod - 1), fcMid : 0..(FcMod - 1),
             tLast : 0..(TimeMod - 1), fcLast : 0..(FcMod - 1),
             period : Nat, n : 0..(BaselineMax - 1), misses : 0..255,
             haveRef : BOOLEAN]
TrackRec == [est : Int, last : 0..(TimeMod - 1), haveLast : BOOLEAN,
             warmup : 0..WarmupN, tracking : BOOLEAN]
NextRec == [us : Int, fc : 0..(FcMod - 1)]

\* The reading t and the counter fc are of the beacon d before the next one, x.
SeenBefore(t, fc, d, x, P) ==
    \E j \in Jitters : /\ fc = (x.fc - d) % FcMod
                       /\ t = ClockMs(x.us - d * P + j)

\* The baseline stands on three beacons of one epoch, in their order: those at
\* the origin, at the middle and last, the middle from half of its length on.
StandsOn(s, x, P, D) ==
    \E d0, dm, dl \in D :
        /\ SeenBefore(s.t0, s.fc0, d0, x, P)
        /\ SeenBefore(s.tLast, s.fcLast, dl, x, P)
        /\ dl <= d0
        /\ s.n >= 2 => dl < d0
        /\ s.n >= Half => /\ SeenBefore(s.tMid, s.fcMid, dm, x, P)
                          /\ dl <= dm /\ dm <= d0
                          /\ s.n > Half => dl < dm

WithinBound(s, P) ==
    Abs(1000 * s.period - P * Q)
        <= ((QuantUs + 2 * JitterUs) * Q) \div BaselineSf(s) + 1000

\* A locked tag stands at the beacon before the next.
AtLastBeacon == \E j \in Jitters : /\ now = next.us - period + j
                                   /\ sched.tLast = ClockMs(now)

TimingType == /\ sched \in SchedRec /\ PeriodSane(sched.period)
              /\ bt \in TrackRec
              /\ now \in Int
              /\ period \in PeriodsUs
              /\ next \in NextRec
              /\ sf \in 0..MaxSf
              /\ oneEpoch \in BOOLEAN

BaselineInv == /\ oneEpoch /\ sched.n >= 1 => StandsOn(sched, next, period, 1..sf)
               /\ oneEpoch /\ sched.n >= 2 => WithinBound(sched, period)
               /\ AimedByBaseline
               /\ oneEpoch /\ sched.n >= 1 /\ TrackNarrow(bt) => AtLastBeacon

TimingIInv == TimingType /\ BaselineInv

LEMMA TimingConstants ==
    /\ NominalMs \in Nat \ {0} /\ Q \in Nat \ {0} /\ EmaStep \in Nat \ {0}
    /\ WarmupN \in Nat \ {0} /\ TimeMod \in Nat \ {0} /\ FcMod \in Nat \ {0}
    /\ PpmTotal \in Nat /\ JitterUs \in Nat /\ QuantUs \in Nat
    /\ WindowMinMs \in Nat /\ MarginMs \in Nat /\ GuardMs \in Nat
    /\ BaselineMax \in Nat /\ BaselineMax >= 4
    /\ Half \in Nat /\ Half >= 2 /\ 2 * Half <= BaselineMax
    /\ QuantUs >= 1000 /\ ClockStart \in Nat /\ MaxSf \in Nat
    /\ WakeGuardMs \in Nat /\ WakeMs \in Nat /\ BeaconMs \in Nat
    /\ 2 * MaxSf <= FcMod
    /\ Q >= 1000 /\ WakeMs < WakeGuardMs
BY SchedAssumption, TimingAssumption DEF Half

\* What the clock, the superframe counter and the plan divide by.
LEMMA Moduli == TimeMod \in Nat \ {0} /\ FcMod \in Nat \ {0} /\ Q \in Nat \ {0}
BY TimingConstants

LEMMA TruePeriods ==
    \A P \in PeriodsUs : P \in Nat /\ 2 * JitterUs < P
BY TimingAssumption

LEMMA JittersSmall ==
    \A j \in Jitters : j \in Int /\ -JitterUs <= j /\ j <= JitterUs
BY TimingAssumption, TimingConstants

LEMMA ClockReads ==
    ASSUME NEW us \in Int
    PROVE  ClockMs(us) \in 0..(TimeMod - 1) /\ ClockMs(us) \in Int
<1> DEFINE c == ClockStart + us \div 1000
<1>1. c \in Int
  BY TimingConstants
<1> HIDE DEF c
<1>2. c % TimeMod \in 0..(TimeMod - 1)
  BY <1>1, TimingConstants
<1> QED
  BY <1>2 DEF ClockMs, c

\* A sane estimate of two beacons is within the bound.
LEMMA EstimateWithin ==
    ASSUME NEW P \in PeriodsUs, NEW B \in Nat \ {0}, NEW u \in Int,
           NEW j0 \in Jitters, NEW jl \in Jitters,
           SinceMs(ClockMs(u + jl), ClockMs(u - B * P + j0)) > 0,
           PeriodSane(((SinceMs(ClockMs(u + jl), ClockMs(u - B * P + j0)) * Q)
                          \div B) % PeriodMod)
    PROVE  Abs(1000 * (((SinceMs(ClockMs(u + jl), ClockMs(u - B * P + j0)) * Q)
                           \div B) % PeriodMod) - P * Q)
              <= ((QuantUs + 2 * JitterUs) * Q) \div B + 1000
<1> DEFINE a == u + jl
<1> DEFINE b == u - B * P + j0
<1> DEFINE x == ClockStart + a \div 1000
<1> DEFINE y == ClockStart + b \div 1000
<1> DEFINE dt == SinceMs(ClockMs(a), ClockMs(b))
<1>1. a \in Int /\ b \in Int /\ a - b = B * P + (jl - j0) /\ B * P \in Nat
  BY TruePeriods, JittersSmall
<1>2. x \in Int /\ y \in Int
  BY <1>1, TimingConstants
<1>3. x - y \in Int /\ 1000 * (x - y) <= (a - b) + 999
      /\ 1000 * (x - y) >= (a - b) - 999
  BY <1>1, TimingConstants, ReadingsApart
<1>4. dt = SignedDiff(x % TimeMod, y % TimeMod, TimeMod) /\ dt > 0
  BY DEF SinceMs, ClockMs
<1>5. PeriodSane(((dt * Q) \div B) % PeriodMod)
  OBVIOUS
<1> SUFFICES Abs(1000 * (((dt * Q) \div B) % PeriodMod) - P * Q)
                <= ((QuantUs + 2 * JitterUs) * Q) \div B + 1000
  OBVIOUS
<1> HIDE DEF a, b, x, y, dt
<1>6. PICK m \in Int : x - y = dt + m * TimeMod /\ 2 * dt < TimeMod /\ dt \in Int
  BY <1>2, <1>4, Moduli, SignedDiffIs, Zenon
<1> DEFINE T == x - y
<1> DEFINE dj == jl - j0
<1>7. dj \in Int /\ -(2 * JitterUs) <= dj /\ dj <= 2 * JitterUs
  BY JittersSmall, TimingConstants
<1>8. /\ T \in Int /\ 1000 * T <= B * P + dj + 999
      /\ 1000 * T >= B * P + dj - 999 /\ T = dt + m * TimeMod
  <2>1. a - b = B * P + dj /\ B * P \in Int
    BY <1>1
  <2>2. T \in Int /\ 1000 * T <= (a - b) + 999 /\ 1000 * T >= (a - b) - 999
    BY <1>3
  <2>3. T = dt + m * TimeMod
    BY <1>6
  <2> HIDE DEF T, dj
  <2> QED BY <1>7, <2>1, <2>2, <2>3
<1> HIDE DEF T, dj
<1>9. T = dt /\ ((dt * Q) \div B) % PeriodMod = (dt * Q) \div B
  BY <1>4, <1>5, <1>6, <1>7, <1>8, NoWholeLap
<1> DEFINE E == QuantUs + 2 * JitterUs
<1>10. E \in Nat /\ dt \in Nat /\ P \in Nat /\ Lasts(dt, B, P, E)
  BY <1>1, <1>4, <1>6, <1>7, <1>8, <1>9, TimingConstants, TruePeriods DEF Lasts
<1> HIDE DEF E
<1>11. Abs(1000 * ((dt * Q) \div B) - P * Q) <= (E * Q) \div B + 1000
  <2>1. Q \in Nat
    BY TimingConstants
  <2> QED BY <1>10, <2>1, QuotientError
<1> QED
  BY <1>9, <1>11 DEF E

\* What was seen d before is seen d + k before once k more have passed.
LEMMA SeenLater ==
    ASSUME NEW x \in NextRec, NEW y \in NextRec, NEW k \in Nat, NEW P \in Nat,
           y.us = x.us + k * P, y.fc = (x.fc + k) % FcMod,
           NEW t, NEW fc, NEW d \in Nat, SeenBefore(t, fc, d, x, P)
    PROVE  SeenBefore(t, fc, d + k, y, P)
<1>1. PICK j \in Jitters : fc = (x.fc - d) % FcMod /\ t = ClockMs(x.us - d * P + j)
  BY DEF SeenBefore
<1> DEFINE f == x.fc + k
<1>2. x.fc \in Int /\ x.us \in Int /\ f \in Int /\ y.fc = f % FcMod
  BY TimingConstants DEF NextRec
<1>3. ((f % FcMod) - (d + k)) % FcMod = (f - (d + k)) % FcMod
  <2>1. d + k \in Int
    OBVIOUS
  <2> HIDE DEF f
  <2> QED BY <1>2, <2>1, Moduli, RemainderOfDifference, Zenon
<1>4. f - (d + k) = x.fc - d
  BY <1>2
<1>5. y.us - (d + k) * P = x.us - d * P
  BY <1>2
<1>6. fc = (y.fc - (d + k)) % FcMod /\ t = ClockMs(y.us - (d + k) * P + j)
  BY <1>1, <1>2, <1>3, <1>4, <1>5
<1> QED
  BY <1>6 DEF SeenBefore

LEMMA StandsLater ==
    ASSUME NEW x \in NextRec, NEW y \in NextRec, NEW k \in Nat, NEW P \in Nat,
           y.us = x.us + k * P, y.fc = (x.fc + k) % FcMod,
           NEW s, NEW m \in Nat, StandsOn(s, x, P, 1..m)
    PROVE  StandsOn(s, y, P, (1 + k)..(m + k))
<1>1. PICK d0, dm, dl \in 1..m :
          /\ SeenBefore(s.t0, s.fc0, d0, x, P)
          /\ SeenBefore(s.tLast, s.fcLast, dl, x, P)
          /\ dl <= d0
          /\ s.n >= 2 => dl < d0
          /\ s.n >= Half => /\ SeenBefore(s.tMid, s.fcMid, dm, x, P)
                            /\ dl <= dm /\ dm <= d0
                            /\ s.n > Half => dl < dm
  BY DEF StandsOn
<1>2. /\ d0 + k \in (1 + k)..(m + k)
      /\ dm + k \in (1 + k)..(m + k)
      /\ dl + k \in (1 + k)..(m + k)
      /\ d0 \in Nat /\ dm \in Nat /\ dl \in Nat
  OBVIOUS
<1>3. /\ SeenBefore(s.t0, s.fc0, d0 + k, y, P)
      /\ SeenBefore(s.tLast, s.fcLast, dl + k, y, P)
  BY <1>1, <1>2, SeenLater
<1>4. s.n >= Half => SeenBefore(s.tMid, s.fcMid, dm + k, y, P)
  BY <1>1, <1>2, SeenLater
<1>5. /\ dl + k <= d0 + k
      /\ s.n >= 2 => dl + k < d0 + k
      /\ s.n >= Half => /\ dl + k <= dm + k /\ dm + k <= d0 + k
                        /\ s.n > Half => dl + k < dm + k
  BY <1>1, <1>2
<1> HIDE DEF Half
<1> QED
  BY <1>2, <1>3, <1>4, <1>5, Zenon DEF StandsOn

LEMMA SchedFields ==
    ASSUME NEW s \in SchedRec
    PROVE  /\ s.t0 \in 0..(TimeMod - 1) /\ s.fc0 \in 0..(FcMod - 1)
           /\ s.tMid \in 0..(TimeMod - 1) /\ s.fcMid \in 0..(FcMod - 1)
           /\ s.tLast \in 0..(TimeMod - 1) /\ s.fcLast \in 0..(FcMod - 1)
           /\ s.period \in Nat /\ s.n \in 0..(BaselineMax - 1)
           /\ s.misses \in 0..255 /\ s.haveRef \in BOOLEAN
BY DEF SchedRec

\* The updates of beacon_sched_core.c, by what they assign.
LEMMA SeenKeepsType ==
    ASSUME NEW s \in SchedRec, NEW k \in 0..255, NEW h \in BOOLEAN
    PROVE  [s EXCEPT !.misses = k, !.haveRef = h] \in SchedRec
BY ZenonT(60) DEF SchedRec

LEMMA SeedsKeepType ==
    ASSUME NEW s \in SchedRec, NEW t \in 0..(TimeMod - 1),
           NEW fc \in 0..(FcMod - 1), NEW n \in 0..(BaselineMax - 1)
    PROVE  [s EXCEPT !.t0 = t, !.fc0 = fc, !.tMid = t, !.fcMid = fc,
                     !.tLast = t, !.fcLast = fc, !.n = n] \in SchedRec
BY ZenonT(60) DEF SchedRec

LEMMA MiddleKeepsType ==
    ASSUME NEW s \in SchedRec, NEW t \in 0..(TimeMod - 1), NEW fc \in 0..(FcMod - 1)
    PROVE  [s EXCEPT !.tMid = t, !.fcMid = fc] \in SchedRec
BY ZenonT(60) DEF SchedRec

LEMMA ExtensionKeepsType ==
    ASSUME NEW s \in SchedRec, NEW k \in 0..255, NEW h \in BOOLEAN, NEW p \in Nat,
           NEW t \in 0..(TimeMod - 1), NEW fc \in 0..(FcMod - 1),
           NEW n \in 0..(BaselineMax - 1)
    PROVE  [s EXCEPT !.misses = k, !.haveRef = h, !.period = p, !.tLast = t,
                     !.fcLast = fc, !.n = n] \in SchedRec
BY ZenonT(60) DEF SchedRec

\* A baseline that is about to be rolled is one too long.
FullRec == [t0 : 0..(TimeMod - 1), fc0 : 0..(FcMod - 1),
            tMid : 0..(TimeMod - 1), fcMid : 0..(FcMod - 1),
            tLast : 0..(TimeMod - 1), fcLast : 0..(FcMod - 1),
            period : Nat, n : {BaselineMax}, misses : 0..255, haveRef : BOOLEAN]

LEMMA FullHasType ==
    ASSUME NEW s \in SchedRec, NEW k \in 0..255, NEW h \in BOOLEAN, NEW p \in Nat,
           NEW t \in 0..(TimeMod - 1), NEW fc \in 0..(FcMod - 1),
           NEW n \in {BaselineMax}
    PROVE  [s EXCEPT !.misses = k, !.haveRef = h, !.period = p, !.tLast = t,
                     !.fcLast = fc, !.n = n] \in FullRec
BY ZenonT(60) DEF SchedRec, FullRec

LEMMA RolledHasType ==
    ASSUME NEW e \in FullRec, NEW n \in 0..(BaselineMax - 1),
           NEW t \in 0..(TimeMod - 1), NEW fc \in 0..(FcMod - 1)
    PROVE  [e EXCEPT !.t0 = t, !.fc0 = fc, !.n = n] \in SchedRec
BY ZenonT(60) DEF SchedRec, FullRec

\* A seed is one beacon: the estimate and the rest outlive it.
LEMMA SeedKeepsType ==
    ASSUME NEW s \in SchedRec, NEW t \in 0..(TimeMod - 1), NEW fc \in 0..(FcMod - 1)
    PROVE  LET seed == SchedSeed([s EXCEPT !.misses = 0, !.haveRef = TRUE], t, fc)
           IN /\ seed \in SchedRec
              /\ seed.t0 = t /\ seed.fc0 = fc /\ seed.tLast = t /\ seed.fcLast = fc
              /\ seed.period = s.period /\ seed.n = 1 /\ seed.misses = 0
              /\ seed.haveRef
<1> DEFINE seen == [s EXCEPT !.misses = 0, !.haveRef = TRUE]
<1>1. seen \in SchedRec
  <2>1. 0 \in 0..255 /\ TRUE \in BOOLEAN
    OBVIOUS
  <2> QED BY <2>1, SeenKeepsType
<1>2. seen.misses = 0 /\ seen.haveRef /\ seen.period = s.period
  BY DEF SchedRec
<1> HIDE DEF seen
<1>3. 1 \in 0..(BaselineMax - 1)
  BY TimingConstants
<1>4. SchedSeed(seen, t, fc) \in SchedRec
  BY <1>1, <1>3, SeedsKeepType DEF SchedSeed
<1>5. /\ SchedSeed(seen, t, fc).t0 = t /\ SchedSeed(seen, t, fc).fc0 = fc
      /\ SchedSeed(seen, t, fc).tLast = t /\ SchedSeed(seen, t, fc).fcLast = fc
      /\ SchedSeed(seen, t, fc).period = seen.period
      /\ SchedSeed(seen, t, fc).n = 1
      /\ SchedSeed(seen, t, fc).misses = seen.misses
      /\ SchedSeed(seen, t, fc).haveRef = seen.haveRef
  BY <1>1 DEF SchedSeed, SchedRec
<1> QED
  BY <1>2, <1>4, <1>5 DEF seen

\* The counters of two beacons of one epoch, as they were sent.
LEMMA FramesApart ==
    ASSUME NEW x \in NextRec, NEW d0 \in Nat, NEW d1 \in Nat, d1 < d0, d0 <= MaxSf,
           NEW f0, NEW f1, f0 = (x.fc - d0) % FcMod, f1 = (x.fc - d1) % FcMod
    PROVE  /\ (f1 - f0) % FcMod = d0 - d1
           /\ SinceSf(f1, f0) > 0 => SinceSf(f1, f0) = d0 - d1
<1> DEFINE a == x.fc - d1
<1> DEFINE b == x.fc - d0
<1>1. a \in Int /\ b \in Int /\ a - b = d0 - d1 /\ d0 - d1 \in 0..(FcMod - 1)
      /\ 2 * (d0 - d1) <= FcMod /\ d0 - d1 \in Nat
  BY TimingConstants DEF NextRec
<1> SUFFICES /\ ((a % FcMod) - (b % FcMod)) % FcMod = d0 - d1
             /\ SinceSf(a % FcMod, b % FcMod) > 0
                    => SinceSf(a % FcMod, b % FcMod) = d0 - d1
  OBVIOUS
<1> DEFINE d == d0 - d1
<1>2. /\ a \in Int /\ b \in Int /\ a - b = d /\ d \in 0..(FcMod - 1)
      /\ 2 * d <= FcMod /\ d \in Nat /\ FcMod \in Nat \ {0}
  BY <1>1, TimingConstants
<1> HIDE DEF a, b, d
<1>3. (a - b) % FcMod = d
  <2>1. d % FcMod = d
    BY <1>2
  <2> QED BY <1>2, <2>1
<1>4. ((a % FcMod) - (b % FcMod)) % FcMod = d
  BY <1>2, <1>3, RemainderOfDifference
<1>5. SinceSf(a % FcMod, b % FcMod) > 0 => SinceSf(a % FcMod, b % FcMod) = d
  BY <1>2, SignedDiffSmall DEF SinceSf
<1> QED
  BY <1>4, <1>5 DEF d

\* The parts of an observation that is no seed.
Measured(s, t, fc) ==
    ((SinceMs(t, s.t0) * Q) \div SinceSf(fc, s.fc0)) % PeriodMod
Extended(s, t, fc) ==
    [s EXCEPT !.misses = 0, !.haveRef = TRUE, !.period = Measured(s, t, fc),
              !.tLast = t, !.fcLast = fc, !.n = Smaller(s.n + 1, BaselineMax)]

LEMMA SignedDiffIsInt ==
    ASSUME NEW M \in Nat \ {0}, NEW a \in Int, NEW b \in Int
    PROVE  SignedDiff(a, b, M) \in Int
BY DEF SignedDiff

LEMMA ObserveCases ==
    ASSUME NEW s \in SchedRec, NEW t \in Int, NEW fc \in Int
    PROVE  \/ SchedObserve(s, t, fc)
                = SchedSeed([s EXCEPT !.misses = 0, !.haveRef = TRUE], t, fc)
           \/ /\ s.n # 0 /\ SinceMs(t, s.t0) > 0 /\ SinceSf(fc, s.fc0) > 0
              /\ PeriodSane(Measured(s, t, fc))
              /\ SchedObserve(s, t, fc) = SchedRoll(Extended(s, t, fc))
<1>1. SinceMs(t, s.t0) \in Int /\ SinceSf(fc, s.fc0) \in Int
  <2>1. s.t0 \in Int /\ s.fc0 \in Int
    BY SchedFields
  <2> QED BY <2>1, SignedDiffIsInt, Moduli, Zenon DEF SinceMs, SinceSf
<1>2. /\ ~(SinceMs(t, s.t0) > 0) => SinceMs(t, s.t0) <= 0
      /\ ~(SinceSf(fc, s.fc0) > 0) => SinceSf(fc, s.fc0) <= 0
  BY <1>1
<1>3. CASE s.n = 0 \/ SinceSf(fc, s.fc0) <= 0 \/ SinceMs(t, s.t0) <= 0
           \/ ~PeriodSane(Measured(s, t, fc))
  BY <1>3, Zenon DEF SchedObserve, Measured
<1>4. CASE ~(s.n = 0 \/ SinceSf(fc, s.fc0) <= 0 \/ SinceMs(t, s.t0) <= 0
             \/ ~PeriodSane(Measured(s, t, fc)))
  <2> DEFINE seen == [s EXCEPT !.misses = 0, !.haveRef = TRUE]
  <2>1. SchedObserve(s, t, fc)
          = SchedRoll([seen EXCEPT !.period = Measured(s, t, fc),
                                   !.tLast = t, !.fcLast = fc,
                                   !.n = Smaller(s.n + 1, BaselineMax)])
    BY <1>4, Zenon DEF SchedObserve, Measured
  <2>2. Extended(s, t, fc) = [seen EXCEPT !.period = Measured(s, t, fc),
                                   !.tLast = t, !.fcLast = fc,
                                   !.n = Smaller(s.n + 1, BaselineMax)]
    BY DEF Extended, SchedRec
  <2> QED BY <1>2, <1>4, <2>1, <2>2
<1> QED
  BY <1>3, <1>4

\* What an observation that is no seed leaves, in its three cases.
LEMMA ExtendedFields ==
    ASSUME NEW s \in SchedRec, NEW t \in 0..(TimeMod - 1), NEW fc \in 0..(FcMod - 1),
           Measured(s, t, fc) \in Nat
    PROVE  LET e == Extended(s, t, fc)
               r == SchedRoll(e)
           IN /\ r \in SchedRec
              /\ r.period = Measured(s, t, fc) /\ r.misses = 0 /\ r.haveRef
              /\ r.tLast = t /\ r.fcLast = fc
              /\ \/ /\ s.n + 1 = Half /\ r.n = Half
                    /\ r.t0 = s.t0 /\ r.fc0 = s.fc0
                    /\ r.tMid = t /\ r.fcMid = fc
                 \/ /\ s.n + 1 = BaselineMax /\ r.n = BaselineMax - Half
                    /\ r.t0 = s.tMid /\ r.fc0 = s.fcMid
                    /\ r.tMid = s.tMid /\ r.fcMid = s.fcMid
                 \/ /\ s.n + 1 # Half /\ s.n + 1 < BaselineMax /\ r.n = s.n + 1
                    /\ r.t0 = s.t0 /\ r.fc0 = s.fc0
                    /\ r.tMid = s.tMid /\ r.fcMid = s.fcMid
<1> DEFINE e == Extended(s, t, fc)
<1> DEFINE p == Measured(s, t, fc)
<1> DEFINE n == s.n + 1
<1>1. n \in 1..BaselineMax /\ Smaller(n, BaselineMax) = n
  BY TimingConstants, SchedFields DEF Smaller
<1>2. /\ e.t0 = s.t0 /\ e.fc0 = s.fc0 /\ e.tMid = s.tMid /\ e.fcMid = s.fcMid
      /\ e.tLast = t /\ e.fcLast = fc /\ e.period = p /\ e.n = n
      /\ e.misses = 0 /\ e.haveRef = TRUE
  BY <1>1 DEF Extended, SchedRec
<1>3. p \in Nat /\ 0 \in 0..255 /\ TRUE \in BOOLEAN
  OBVIOUS
<1>4. e = [s EXCEPT !.misses = 0, !.haveRef = TRUE, !.period = p, !.tLast = t,
                    !.fcLast = fc, !.n = n]
  BY <1>1 DEF Extended
<1> HIDE DEF e, p
<1>5. CASE n = Half
  <2>1. SchedRoll(e) = [e EXCEPT !.tMid = t, !.fcMid = fc]
    BY <1>2, <1>5 DEF SchedRoll
  <2>2. n \in 0..(BaselineMax - 1)
    BY <1>1, <1>5, TimingConstants
  <2>3. e \in SchedRec
    BY <1>3, <1>4, <2>2, ExtensionKeepsType
  <2>4. SchedRoll(e) \in SchedRec
    BY <2>1, <2>3, MiddleKeepsType
  <2>5. /\ SchedRoll(e).t0 = e.t0 /\ SchedRoll(e).fc0 = e.fc0
        /\ SchedRoll(e).tMid = t /\ SchedRoll(e).fcMid = fc
        /\ SchedRoll(e).tLast = e.tLast /\ SchedRoll(e).fcLast = e.fcLast
        /\ SchedRoll(e).period = e.period /\ SchedRoll(e).n = e.n
        /\ SchedRoll(e).misses = e.misses /\ SchedRoll(e).haveRef = e.haveRef
    BY <2>1, <2>3 DEF SchedRec
  <2> QED BY <1>2, <1>5, <2>4, <2>5 DEF e, p
<1>6. CASE n # Half /\ n >= BaselineMax
  <2> DEFINE m == BaselineMax - Half
  <2>1. m \in 0..(BaselineMax - 1) /\ n = BaselineMax
    BY <1>1, <1>6, TimingConstants
  <2>2. SchedRoll(e) = [e EXCEPT !.t0 = s.tMid, !.fc0 = s.fcMid, !.n = m]
    BY <1>2, <1>6 DEF SchedRoll
  <2> HIDE DEF m
  <2>3. SchedRoll(e) \in SchedRec
    <3>1. s.tMid \in 0..(TimeMod - 1) /\ s.fcMid \in 0..(FcMod - 1)
      BY SchedFields
    <3>2. e \in FullRec
      BY <1>3, <1>4, <2>1, FullHasType
    <3>3. m \in 0..(BaselineMax - 1)
      BY <2>1
    <3>4. [e EXCEPT !.t0 = s.tMid, !.fc0 = s.fcMid, !.n = m] \in SchedRec
      BY <3>1, <3>2, <3>3, RolledHasType
    <3> QED BY <2>2, <3>4
  <2>4. /\ SchedRoll(e).t0 = s.tMid /\ SchedRoll(e).fc0 = s.fcMid
        /\ SchedRoll(e).tMid = s.tMid /\ SchedRoll(e).fcMid = s.fcMid
        /\ SchedRoll(e).tLast = t /\ SchedRoll(e).fcLast = fc
        /\ SchedRoll(e).period = p /\ SchedRoll(e).n = m
        /\ SchedRoll(e).misses = 0 /\ SchedRoll(e).haveRef = TRUE
    <3>1. e \in FullRec
      BY <1>3, <1>4, <2>1, FullHasType
    <3> QED BY <1>2, <2>2, <3>1 DEF FullRec
  <2> QED BY <2>1, <2>3, <2>4 DEF e, p, m
<1>7. CASE n # Half /\ n < BaselineMax
  <2>1. SchedRoll(e) = e
    BY <1>1, <1>2, <1>7, TimingConstants DEF SchedRoll
  <2>2. n \in 0..(BaselineMax - 1)
    BY <1>1, <1>7, TimingConstants
  <2>3. e \in SchedRec
    BY <1>3, <1>4, <2>2, ExtensionKeepsType
  <2> QED BY <1>2, <1>7, <2>1, <2>3 DEF e, p
<1> QED
  BY <1>1, <1>5, <1>6, <1>7, TimingConstants

\* One beacon, heard last, is a baseline of its own.
LEMMA SeedStands ==
    ASSUME NEW s \in SchedRec, NEW x \in NextRec, NEW P \in Nat, NEW m \in Nat, m >= 1,
           NEW t, NEW fc, SeenBefore(t, fc, 1, x, P),
           s.t0 = t, s.fc0 = fc, s.tLast = t, s.fcLast = fc, s.n = 1
    PROVE  StandsOn(s, x, P, 1..m)
<1>1. 1 \in 1..m /\ ~(s.n >= 2) /\ ~(s.n >= Half)
  BY TimingConstants
<1>2. /\ SeenBefore(s.t0, s.fc0, 1, x, P)
      /\ SeenBefore(s.tLast, s.fcLast, 1, x, P)
      /\ 1 <= 1
  OBVIOUS
<1> HIDE DEF Half
<1> QED
  BY <1>1, <1>2 DEF StandsOn

\* A beacon heard one before the next, x: what the observation keeps.
LEMMA ObserveStands ==
    ASSUME NEW s \in SchedRec, NEW x \in NextRec, NEW P \in PeriodsUs,
           NEW m \in 1..MaxSf, NEW one \in BOOLEAN, PeriodSane(s.period),
           one /\ s.n >= 1 => StandsOn(s, x, P, 2..m),
           NEW t \in 0..(TimeMod - 1), NEW fc \in 0..(FcMod - 1),
           SeenBefore(t, fc, 1, x, P)
    PROVE  LET r == SchedObserve(s, t, fc)
           IN /\ r \in SchedRec /\ PeriodSane(r.period)
              /\ r.haveRef /\ r.misses = 0 /\ r.n >= 1 /\ r.tLast = t
              /\ one \/ r.n = 1 => StandsOn(r, x, P, 1..m)
              /\ (one \/ r.n = 1) /\ r.n >= 2 => WithinBound(r, P)
<1> DEFINE r == SchedObserve(s, t, fc)
<1> DEFINE seed == SchedSeed([s EXCEPT !.misses = 0, !.haveRef = TRUE], t, fc)
<1> DEFINE e == SchedRoll(Extended(s, t, fc))
<1>0. P \in Nat /\ m \in Nat /\ m >= 1 /\ t \in Int /\ fc \in Int
  BY TruePeriods, TimingConstants
<1>1. CASE r = seed
  <2>1. /\ r \in SchedRec
        /\ r.t0 = t /\ r.fc0 = fc /\ r.tLast = t /\ r.fcLast = fc
        /\ r.period = s.period /\ r.n = 1 /\ r.misses = 0 /\ r.haveRef
    <3>1. /\ seed \in SchedRec
          /\ seed.t0 = t /\ seed.fc0 = fc /\ seed.tLast = t /\ seed.fcLast = fc
          /\ seed.period = s.period /\ seed.n = 1 /\ seed.misses = 0
          /\ seed.haveRef
      BY SeedKeepsType
    <3> HIDE DEF r, seed
    <3> QED BY <1>1, <3>1
  <2> HIDE DEF r, seed
  <2>2. StandsOn(r, x, P, 1..m)
    BY <1>0, <2>1, SeedStands
  <2>3. PeriodSane(r.period) /\ r.n >= 1 /\ ~(r.n >= 2)
    BY <2>1
  <2> QED BY <2>1, <2>2, <2>3 DEF r
<1>2. CASE /\ s.n # 0 /\ SinceMs(t, s.t0) > 0 /\ SinceSf(fc, s.fc0) > 0
           /\ PeriodSane(Measured(s, t, fc))
           /\ r = e
  <2> DEFINE p == Measured(s, t, fc)
  <2>1. p \in Nat
    <3> DEFINE u == (SinceMs(t, s.t0) * Q) \div SinceSf(fc, s.fc0)
    <3>1. SinceMs(t, s.t0) \in Int /\ SinceSf(fc, s.fc0) \in Nat \ {0}
      <4>1. s.t0 \in Int /\ s.fc0 \in Int
        BY SchedFields
      <4>2. SinceMs(t, s.t0) \in Int /\ SinceSf(fc, s.fc0) \in Int
        BY <1>0, <4>1, SignedDiffIsInt, Moduli, Zenon DEF SinceMs, SinceSf
      <4> QED BY <1>2, <4>2
    <3>2. u \in Int
      <4>1. SinceMs(t, s.t0) * Q \in Int
        BY <3>1, TimingConstants
      <4> QED BY <3>1, <4>1, Quotient
    <3> HIDE DEF u
    <3>3. u % PeriodMod \in Nat
      <4>1. PeriodMod \in Nat \ {0}
        BY SchedAssumption, TimingConstants, NominalMs * Q \in Nat
      <4> QED BY <3>2, <4>1
    <3> QED BY <3>3 DEF Measured, u
  <2>2. /\ r \in SchedRec
        /\ r.period = p /\ r.misses = 0 /\ r.haveRef
        /\ r.tLast = t /\ r.fcLast = fc
        /\ \/ /\ s.n + 1 = Half /\ r.n = Half
              /\ r.t0 = s.t0 /\ r.fc0 = s.fc0
              /\ r.tMid = t /\ r.fcMid = fc
           \/ /\ s.n + 1 = BaselineMax /\ r.n = BaselineMax - Half
              /\ r.t0 = s.tMid /\ r.fc0 = s.fcMid
              /\ r.tMid = s.tMid /\ r.fcMid = s.fcMid
           \/ /\ s.n + 1 # Half /\ s.n + 1 < BaselineMax /\ r.n = s.n + 1
              /\ r.t0 = s.t0 /\ r.fc0 = s.fc0
              /\ r.tMid = s.tMid /\ r.fcMid = s.fcMid
    BY <1>2, <2>1, ExtendedFields
  <2>3. s.n \in Nat /\ s.n >= 1 /\ s.n < BaselineMax
    BY <1>2, SchedFields, TimingConstants
  <2>4. PeriodSane(r.period)
    BY <1>2, <2>2
  <2> HIDE DEF r, e, p
  <2>5. r.n \in Nat /\ r.n >= 2
    BY <2>2, <2>3, TimingConstants
  <2>6. ASSUME one
        PROVE  StandsOn(r, x, P, 1..m) /\ WithinBound(r, P)
    <3>1. PICK d0, dm, dl \in 2..m :
             /\ SeenBefore(s.t0, s.fc0, d0, x, P)
             /\ SeenBefore(s.tLast, s.fcLast, dl, x, P)
             /\ dl <= d0
             /\ s.n >= 2 => dl < d0
             /\ s.n >= Half => /\ SeenBefore(s.tMid, s.fcMid, dm, x, P)
                               /\ dl <= dm /\ dm <= d0
                               /\ s.n > Half => dl < dm
      BY <2>3, <2>6 DEF StandsOn
    <3>2. /\ 1 \in 1..m /\ d0 \in 1..m /\ dm \in 1..m
          /\ d0 \in Nat /\ dm \in Nat /\ 1 < d0 /\ 1 < dm
          /\ d0 <= MaxSf /\ dm <= MaxSf
      BY <1>0, TimingConstants
    <3>3. PICK o, mid \in 1..m :
             /\ SeenBefore(r.t0, r.fc0, o, x, P) /\ 1 < o
             /\ o <= d0 /\ o <= MaxSf
             /\ r.n >= Half => /\ SeenBefore(r.tMid, r.fcMid, mid, x, P)
                               /\ 1 <= mid /\ mid <= o
                               /\ r.n > Half => 1 < mid
      <4>1. CASE s.n + 1 = Half /\ r.n = Half /\ r.t0 = s.t0 /\ r.fc0 = s.fc0
                 /\ r.tMid = t /\ r.fcMid = fc
        <5>1. SeenBefore(r.t0, r.fc0, d0, x, P) /\ 1 < d0 /\ d0 <= d0
          BY <3>1, <3>2, <4>1
        <5>2. SeenBefore(r.tMid, r.fcMid, 1, x, P) /\ 1 <= 1 /\ 1 <= d0 /\ ~(r.n > Half)
          BY <3>2, <4>1, TimingConstants
        <5> QED BY <3>2, <5>1, <5>2
      <4>2. CASE s.n + 1 = BaselineMax /\ r.t0 = s.tMid /\ r.fc0 = s.fcMid
                 /\ r.tMid = s.tMid /\ r.fcMid = s.fcMid
        <5>1. s.n >= Half
          BY <2>3, <4>2, TimingConstants
        <5>2. SeenBefore(s.tMid, s.fcMid, dm, x, P) /\ dm <= d0
          BY <3>1, <5>1
        <5>3. SeenBefore(r.t0, r.fc0, dm, x, P) /\ SeenBefore(r.tMid, r.fcMid, dm, x, P)
          BY <4>2, <5>2
        <5> QED BY <3>2, <5>2, <5>3
      <4>3. CASE s.n + 1 # Half /\ r.n = s.n + 1 /\ r.t0 = s.t0 /\ r.fc0 = s.fc0
                 /\ r.tMid = s.tMid /\ r.fcMid = s.fcMid
        <5>1. SeenBefore(r.t0, r.fc0, d0, x, P)
          BY <3>1, <4>3
        <5>2. ASSUME r.n >= Half
              PROVE  SeenBefore(r.tMid, r.fcMid, dm, x, P) /\ dm <= d0
          <6>1. s.n >= Half
            BY <2>3, <4>3, <5>2, TimingConstants
          <6> QED BY <3>1, <4>3, <6>1
        <5> QED BY <3>2, <5>1, <5>2
      <4> QED BY <2>2, <4>1, <4>2, <4>3
    <3>4. StandsOn(r, x, P, 1..m)
      <4>1. SeenBefore(r.tLast, r.fcLast, 1, x, P)
        BY <2>2
      <4>2. 1 <= o
        BY <3>3, TimingConstants
      <4> HIDE DEF Half
      <4> QED BY <3>2, <3>3, <4>1, <4>2 DEF StandsOn
    <3>5. PICK j0 \in Jitters : s.fc0 = (x.fc - d0) % FcMod
                                /\ s.t0 = ClockMs(x.us - d0 * P + j0)
      BY <3>1 DEF SeenBefore
    <3>6. PICK jl \in Jitters : fc = (x.fc - 1) % FcMod
                                /\ t = ClockMs(x.us - 1 * P + jl)
      BY DEF SeenBefore
    <3>7. SinceSf(fc, s.fc0) = d0 - 1
      BY <1>2, <3>2, <3>5, <3>6, FramesApart
    <3>8. (r.fcLast - r.fc0) % FcMod = o - 1
      <4>1. r.fc0 = (x.fc - o) % FcMod
        BY <3>3 DEF SeenBefore
      <4>2. r.fcLast = (x.fc - 1) % FcMod
        BY <2>2, <3>6
      <4>3. o \in Nat
        OBVIOUS
      <4> QED BY <3>3, <4>1, <4>2, <4>3, FramesApart
    <3>9. BaselineSf(r) = o - 1
      BY <2>5, <3>8 DEF BaselineSf
    <3> DEFINE B == d0 - 1
    <3> DEFINE u == x.us - 1 * P
    <3>10. B \in Nat \ {0} /\ u \in Int /\ u - B * P = x.us - d0 * P
      BY <1>0, <3>2 DEF NextRec
    <3>11. t = ClockMs(u + jl) /\ s.t0 = ClockMs(u - B * P + j0)
      BY <3>5, <3>6, <3>10
    <3>12. p = ((SinceMs(ClockMs(u + jl), ClockMs(u - B * P + j0)) * Q) \div B)
                  % PeriodMod
      BY <3>7, <3>11 DEF p, Measured
    <3>13. /\ SinceMs(ClockMs(u + jl), ClockMs(u - B * P + j0)) > 0
           /\ PeriodSane(p)
      BY <1>2, <3>11 DEF p
    <3> HIDE DEF B, u
    <3>14. Abs(1000 * p - P * Q) <= ((QuantUs + 2 * JitterUs) * Q) \div B + 1000
      BY <3>10, <3>12, <3>13, EstimateWithin
    <3>15. ((QuantUs + 2 * JitterUs) * Q) \div B
              <= ((QuantUs + 2 * JitterUs) * Q) \div (o - 1)
      <4>1. o - 1 \in Nat \ {0} /\ o - 1 <= B
        BY <3>2, <3>3 DEF B
      <4>2. (QuantUs + 2 * JitterUs) * Q \in Nat
        BY TimingConstants
      <4> QED BY <3>10, <4>1, <4>2, QuotientGrows
    <3>16. WithinBound(r, P)
      <4> DEFINE V == ((QuantUs + 2 * JitterUs) * Q) \div B
      <4> DEFINE W == ((QuantUs + 2 * JitterUs) * Q) \div (o - 1)
      <4> DEFINE D == Abs(1000 * p - P * Q)
      <4>1. V \in Int /\ W \in Int
        <5>1. o - 1 \in Nat \ {0} /\ (QuantUs + 2 * JitterUs) * Q \in Int
          BY <3>2, <3>3, TimingConstants
        <5> QED BY <3>10, <5>1, Quotient
      <4>2. D \in Int
        <5>1. 1000 * p - P * Q \in Int
          BY <1>0, <2>1, TimingConstants
        <5> QED BY <5>1 DEF Abs
      <4>3. D <= V + 1000 /\ V <= W
        BY <3>14, <3>15
      <4> HIDE DEF V, W, D
      <4>4. D <= W + 1000
        BY <4>1, <4>2, <4>3
      <4> QED BY <2>2, <3>9, <4>4 DEF WithinBound, W, D
    <3> QED BY <3>4, <3>16
  <2>7. r.n >= 1 /\ r.n # 1
    BY <2>5
  <2> QED BY <2>2, <2>4, <2>6, <2>7 DEF r
<1> QED
  BY <1>0, <1>1, <1>2, ObserveCases

-----------------------------------------------------------------------------
(* The steps *)

LEMMA LargerType ==
    ASSUME NEW a \in Int, NEW b \in Int
    PROVE  /\ Larger(a, b) \in Int /\ Larger(a, b) >= a /\ Larger(a, b) >= b
           /\ Smaller(a, b) \in Int /\ Smaller(a, b) <= a /\ Smaller(a, b) <= b
           /\ Smaller(a, b) \in {a, b}
BY DEF Larger, Smaller

\* A plan is in whole milliseconds.
LEMMA PlanType ==
    ASSUME NEW s \in SchedRec, NEW skip \in Nat
    PROVE  /\ SchedPlan(s, skip).arm \in Int /\ SchedPlan(s, skip).window \in Int
<1> DEFINE k == Larger(skip, 1)
<1> DEFINE eff == PlannedSkip(s, skip)
<1>1. k \in Int
  BY LargerType
<1>2. eff \in Int
  <2> HIDE DEF k
  <2>1. k \div 2 \in Int
    BY <1>1
  <2>2. Larger(k \div 2, 1) \in Int
    BY <2>1, LargerType
  <2> QED BY <1>1, <2>2 DEF PlannedSkip, k
<1> DEFINE ms == NominalMs + MarginMs
<1> DEFINE per == s.period \div Q
<1> DEFINE d1 == 2 * eff * per * PpmTotal
<1> DEFINE e1 == 2 * eff * (JitterUs + QuantUs)
<1> DEFINE b1 == Larger(BaselineSf(s), 1)
<1> DEFINE sum == d1 \div 1000 + e1 \div b1 + 999
<1>3. ms \in Int
  BY TimingConstants
<1>4. per \in Int
  BY SchedFields, TimingConstants
<1>5. b1 \in Nat \ {0}
  <2>1. BaselineSf(s) \in Int
    <3>1. s.fcLast - s.fc0 \in Int
      BY SchedFields
    <3>2. (s.fcLast - s.fc0) % FcMod \in Int
      BY <3>1, Moduli, RemainderOf
    <3> QED BY <3>2 DEF BaselineSf
  <2>2. b1 \in Int /\ b1 >= 1
    BY <2>1, 1 \in Int, LargerType
  <2> HIDE DEF b1
  <2> QED BY <2>2
<1> HIDE DEF per, b1
<1>6. d1 \in Int /\ e1 \in Int
  <2> HIDE DEF eff
  <2> QED BY <1>2, <1>4, TimingConstants
<1> HIDE DEF d1, e1
<1>7. d1 \div 1000 \in Int /\ e1 \div b1 \in Int
  BY <1>5, <1>6, Quotient
<1>8. sum \div 1000 + MarginMs \in Int
  <2>1. sum \in Int
    BY <1>7
  <2> HIDE DEF sum
  <2> QED BY <2>1, TimingConstants
<1> DEFINE w == sum \div 1000 + MarginMs
<1> DEFINE widened == IF s.misses = 1 THEN 2 * w ELSE w
<1>9. widened \in Int
  BY <1>8
<1>10. PlannedWindow(s, skip) = IF s.misses >= 2 THEN ms
                              ELSE Smaller(Larger(widened, WindowMinMs), ms)
  BY DEF PlannedWindow, d1, e1, b1, per
<1> HIDE DEF widened, ms, w, eff
<1>11. PlannedWindow(s, skip) \in Int
  <2>1. Larger(widened, WindowMinMs) \in Int
    BY <1>9, LargerType, TimingConstants
  <2>2. Smaller(Larger(widened, WindowMinMs), ms) \in Int
    BY <1>3, <2>1, LargerType
  <2> QED BY <1>3, <1>10, <2>2
<1>12. (s.tLast + (eff * s.period) \div Q - PlannedWindow(s, skip) \div 2) \in Int
  <2>1. eff * s.period \in Int /\ s.tLast \in Int
    BY <1>2, SchedFields
  <2>2. (eff * s.period) \div Q \in Int /\ PlannedWindow(s, skip) \div 2 \in Int
    BY <1>11, <2>1, TimingConstants, Quotient
  <2> QED BY <2>1, <2>2
<1>13. (s.tLast + (eff * s.period) \div Q - PlannedWindow(s, skip) \div 2) % TimeMod
         \in Int
  BY <1>12, Moduli, RemainderOf
<1> QED
  BY <1>11, <1>13 DEF SchedPlan, eff

LEMMA TrueTimeType ==
    ASSUME TimingType, NEW ms \in Int
    PROVE  TrueTime(ms) \in Int
<1>1. now \in Int
  BY DEF TimingType
<1>2. SinceMs(ms, ClockMs(now)) \in Int
  BY <1>1, ClockReads, SignedDiffIsInt, Moduli, Zenon DEF SinceMs
<1>3. now % 1000 \in Int
  BY <1>1
<1> QED
  BY <1>1, <1>2, <1>3 DEF TrueTime

LEMMA WindowType ==
    ASSUME TimingType, NEW wide \in BOOLEAN, NEW skip \in Skips, NEW wake \in Wakes
    PROVE  /\ Window(wide, skip, wake).from \in Int
           /\ Window(wide, skip, wake).to \in Int
<1>1. now \in Int /\ skip \in Nat /\ sched \in SchedRec /\ bt \in TrackRec
  BY TimingAssumption DEF TimingType
<1>2. FullWindow(wake).from \in Int /\ FullWindow(wake).to \in Int
  <2> DEFINE opens == now + wake
  <2>1. opens \in Int
    BY <1>1, TimingAssumption
  <2> HIDE DEF opens
  <2>2. opens - (opens % 1000) + 1000 * (NominalMs + BeaconMs) \in Int
    BY <2>1, TimingConstants
  <2> QED BY <2>1, <2>2 DEF FullWindow, opens
<1> DEFINE plan == Aim(skip)
<1>3. plan.arm \in Int /\ plan.window \in Int
  <2>1. SchedPlan(sched, skip).arm \in Int /\ SchedPlan(sched, skip).window \in Int
    BY <1>1, PlanType
  <2>2. TrackPlan(bt).arm \in Int /\ TrackPlan(bt).window \in Int
    <3>1. bt.last + bt.est - GuardMs \in Int
      BY <1>1, TimingConstants DEF TrackRec
    <3>2. (bt.last + bt.est - GuardMs) % TimeMod \in Int
      BY <3>1, Moduli, RemainderOf
    <3> QED BY <3>2, TimingConstants DEF TrackPlan
  <2> QED BY <2>1, <2>2 DEF Aim
<1> HIDE DEF plan
<1>4. TrueTime(plan.arm) \in Int /\ TrueTime(plan.arm + plan.window) \in Int
  <2>1. plan.arm + plan.window \in Int
    BY <1>3
  <2> QED BY <1>3, <2>1, TrueTimeType
<1>5. NarrowWindow(skip).from \in Int /\ NarrowWindow(skip).to \in Int
  <2>1. TrueTime(plan.arm) - 1000 * (WakeGuardMs - WakeMs) \in Int
    BY <1>4, TimingConstants
  <2>2. Larger(now, TrueTime(plan.arm) - 1000 * (WakeGuardMs - WakeMs)) \in Int
    BY <1>1, <2>1, LargerType
  <2> QED BY <1>4, <2>2 DEF NarrowWindow, plan
<1> QED
  BY <1>2, <1>5 DEF Window

\* Time goes by: the baseline is further back.
LEMMA LaterKeeps ==
    ASSUME TimingType, NEW k \in Nat, sf + k <= MaxSf
    PROVE  /\ Later(k) \in NextRec
           /\ Later(k).us = next.us + k * period
           /\ Later(k).fc = (next.fc + k) % FcMod
           /\ StandsOn(sched, next, period, 1..sf)
                 => StandsOn(sched, Later(k), period, (1 + k)..(sf + k))
           /\ period \in Nat /\ sf + k \in 0..MaxSf
<1>1. period \in Nat /\ next.us \in Int /\ next.fc \in Int /\ sf \in Nat /\ next \in NextRec
  BY TruePeriods, TimingConstants DEF TimingType, NextRec
<1>2. next.us + k * period \in Int /\ (next.fc + k) % FcMod \in 0..(FcMod - 1)
  <2>1. k * period \in Int /\ next.fc + k \in Int
    BY <1>1
  <2>2. (next.fc + k) % FcMod \in 0..(FcMod - 1)
    BY <2>1, Moduli, RemainderOf, Zenon
  <2> QED BY <1>1, <2>1, <2>2
<1>3. /\ Later(k) \in NextRec
      /\ Later(k).us = next.us + k * period
      /\ Later(k).fc = (next.fc + k) % FcMod
  BY <1>2 DEF Later, NextRec
<1>4. StandsOn(sched, next, period, 1..sf)
         => StandsOn(sched, Later(k), period, (1 + k)..(sf + k))
  BY <1>1, <1>3, StandsLater
<1>5. sf + k \in 0..MaxSf
  BY <1>1, TimingConstants
<1> QED
  BY <1>1, <1>3, <1>4, <1>5

LEMMA TrackTypes ==
    ASSUME NEW b \in TrackRec, NEW t \in 0..(TimeMod - 1)
    PROVE  /\ TrackBeacon(b, t) \in TrackRec
           /\ TrackMiss(b) \in TrackRec /\ ~TrackMiss(b).tracking
           /\ TrackReset \in TrackRec /\ ~TrackReset.tracking
<1>1. b.est \in Int /\ b.last \in 0..(TimeMod - 1) /\ b.warmup \in 0..WarmupN /\ b.tracking \in BOOLEAN
  BY DEF TrackRec
<1> DEFINE err == SinceMs(t, b.last) - b.est
<1> DEFINE count == Smaller(b.warmup + 1, WarmupN)
<1> DEFINE est == IF b.haveLast THEN b.est + Correction(err) ELSE b.est
<1>2. err \in Int
  <2>1. t \in Int /\ b.last \in Int
    BY <1>1
  <2>2. SinceMs(t, b.last) \in Int
    BY <2>1, SignedDiffIsInt, Moduli, Zenon DEF SinceMs
  <2> QED BY <1>1, <2>2
<1>3. Correction(err) \in Int
  <2> HIDE DEF err
  <2>1. err \div EmaStep \in Int /\ -err \in Int
    BY <1>2, TimingConstants, Quotient
  <2>2. (-err) \div EmaStep \in Int
    BY <2>1, TimingConstants, Quotient
  <2> QED BY <2>1, <2>2 DEF Correction
<1>4. count \in 0..WarmupN
  BY <1>1, TimingConstants DEF Smaller
<1>5. est \in Int
  BY <1>1, <1>3
<1>6. TrackBeacon(b, t) = [est |-> est, last |-> t, haveLast |-> TRUE, warmup |-> count,
                           tracking |-> b.tracking \/ count >= WarmupN]
  BY DEF TrackBeacon
<1> HIDE DEF count, est
<1>7. TrackBeacon(b, t) \in TrackRec
  BY <1>4, <1>5, <1>6 DEF TrackRec
<1>8. TrackMiss(b) \in TrackRec /\ ~TrackMiss(b).tracking
  <2>1. 0 \in 0..WarmupN
    BY TimingConstants
  <2> QED BY <2>1 DEF TrackMiss, TrackRec
<1>9. TrackReset \in TrackRec /\ ~TrackReset.tracking
  BY TimingConstants DEF TrackReset, TrackRec
<1> QED
  BY <1>7, <1>8, <1>9

LEMMA SchedMissType ==
    ASSUME NEW s \in SchedRec
    PROVE  LET r == SchedMiss(s)
           IN /\ r \in SchedRec
              /\ r.t0 = s.t0 /\ r.fc0 = s.fc0 /\ r.tMid = s.tMid /\ r.fcMid = s.fcMid
              /\ r.tLast = s.tLast /\ r.fcLast = s.fcLast
              /\ r.period = s.period /\ r.n = s.n
<1> DEFINE k == Smaller(s.misses + 1, 255)
<1>1. k \in 0..255
  BY SchedFields DEF Smaller
<1>2. SchedMiss(s) = [s EXCEPT !.misses = k, !.haveRef = FALSE]
  BY DEF SchedMiss
<1> HIDE DEF k
<1>3. FALSE \in BOOLEAN
  OBVIOUS
<1>4. SchedMiss(s) \in SchedRec
  BY <1>1, <1>2, <1>3, SeenKeepsType
<1>5. LET r == SchedMiss(s)
      IN /\ r.t0 = s.t0 /\ r.fc0 = s.fc0 /\ r.tMid = s.tMid /\ r.fcMid = s.fcMid
         /\ r.tLast = s.tLast /\ r.fcLast = s.fcLast
         /\ r.period = s.period /\ r.n = s.n
  BY <1>2 DEF SchedRec
<1> QED
  BY <1>4, <1>5

LEMMA SchedResetType ==
    /\ SchedReset \in SchedRec /\ PeriodSane(SchedReset.period) /\ SchedReset.n = 0
<1>1. NominalMs * Q \in Nat
  BY TimingConstants
<1>2. 0 \in 0..(TimeMod - 1) /\ 0 \in 0..(FcMod - 1) /\ 0 \in 0..(BaselineMax - 1)
      /\ 0 \in 0..255 /\ FALSE \in BOOLEAN
  BY TimingConstants
<1>3. SchedReset \in SchedRec
  BY <1>1, <1>2 DEF SchedReset, SchedRec
<1>4. SchedReset.period = NominalMs * Q /\ SchedReset.n = 0
  BY DEF SchedReset
<1>5. 2 * NominalMs * Q = 2 * (NominalMs * Q)
  BY TimingConstants
<1> QED
  BY <1>1, <1>3, <1>4, <1>5 DEF PeriodSane

\* Both predictors start again: there is no baseline and no lock.
LEMMA ResetKeeps ==
    ASSUME sched' = SchedReset, bt' = TrackReset
    PROVE  /\ sched' \in SchedRec /\ PeriodSane(sched'.period)
           /\ bt' \in TrackRec /\ BaselineInv'
<1>1. 0 \in 0..(TimeMod - 1)
  BY TimingConstants
<1>2. TrackReset \in TrackRec /\ ~TrackReset.tracking
  <2>1. [est |-> 0, last |-> 0, haveLast |-> FALSE, warmup |-> 0, tracking |-> FALSE]
           \in TrackRec
    BY <1>1, TimingConstants DEF TrackRec
  <2> QED BY <1>1, <2>1, TrackTypes
<1>3. ~(sched'.n >= 1) /\ ~(sched'.n >= 2)
  BY SchedResetType
<1>4. ~TrackNarrow(bt)'
  BY <1>2 DEF TrackNarrow
<1> QED
  BY <1>2, <1>3, <1>4, SchedResetType DEF BaselineInv, AimedByBaseline

THEOREM TimingInitInv == TimingInit => TimingIInv
<1> SUFFICES ASSUME TimingInit PROVE TimingIInv
  OBVIOUS
<1>1. /\ sched = SchedReset /\ bt = TrackReset /\ now = 0 /\ period \in PeriodsUs
      /\ sf = 0 /\ oneEpoch = TRUE
  BY DEF TimingInit
<1>2. next \in NextRec
  <2>1. PICK us \in PhasesUs, fc \in FirstFcs : next = [us |-> us, fc |-> fc]
    BY DEF TimingInit
  <2> QED BY <2>1, TimingAssumption DEF NextRec
<1>3. 0 \in 0..(TimeMod - 1)
  BY TimingConstants
<1>4. TrackReset \in TrackRec /\ ~TrackReset.tracking
  <2>1. [est |-> 0, last |-> 0, haveLast |-> FALSE, warmup |-> 0, tracking |-> FALSE]
           \in TrackRec
    BY <1>3, TimingConstants DEF TrackRec
  <2> QED BY <1>3, <2>1, TrackTypes
<1>5. TimingType
  BY <1>1, <1>2, <1>4, SchedResetType, TimingConstants DEF TimingType
<1>6. BaselineInv
  <2>1. ~(sched.n >= 1) /\ ~(sched.n >= 2)
    BY <1>1, SchedResetType
  <2>2. ~TrackNarrow(bt)
    BY <1>1, <1>4 DEF TrackNarrow
  <2> QED BY <2>1, <2>2 DEF BaselineInv, AimedByBaseline
<1> QED
  BY <1>5, <1>6 DEF TimingIInv

LEMMA ListenKeeps ==
    ASSUME TimingIInv, NEW wide \in BOOLEAN, NEW lost \in BOOLEAN,
           NEW skip \in Skips, NEW wake \in Wakes, NEW j \in Jitters,
           BeaconListen(wide, skip, wake, j, lost)
    PROVE  TimingIInv'
<1> DEFINE w == Window(wide, skip, wake)
<1> DEFINE k == Before(w.from, j)
<1> DEFINE at == Later(k).us + j
<1> DEFINE inside == at < w.to
<1> DEFINE passed == IF inside THEN k + 1 ELSE k
<1> DEFINE taken == inside /\ ~lost
<1>1. /\ sf + passed <= MaxSf
      /\ sf' = sf + passed
      /\ next' = Later(passed)
      /\ period' = period
      /\ taken => /\ now' = at
                  /\ sched' = SchedObserve(sched, ClockMs(at), Later(k).fc)
                  /\ bt' = IF w.eff <= 1 THEN TrackBeacon(bt, ClockMs(at)) ELSE bt
                  /\ oneEpoch' = (oneEpoch \/ sched'.n = 1)
      /\ ~taken => /\ now' = Larger(now, w.to)
                   /\ sched' = SchedMiss(sched)
                   /\ bt' = TrackMiss(bt)
                   /\ oneEpoch' = oneEpoch
  BY DEF BeaconListen
<1>2. TimingType /\ BaselineInv
  BY DEF TimingIInv
<1>3. /\ sched \in SchedRec /\ PeriodSane(sched.period) /\ bt \in TrackRec /\ now \in Int
      /\ period \in PeriodsUs /\ period \in Nat /\ period > 0 /\ next \in NextRec
      /\ next.us \in Int /\ sf \in Nat /\ oneEpoch \in BOOLEAN /\ j \in Int
  BY <1>2, TruePeriods, JittersSmall, TimingConstants DEF TimingType, NextRec
<1>4. w.from \in Int /\ w.to \in Int
  BY <1>2, WindowType
<1> HIDE DEF w
<1>5. k \in Nat
  <2> DEFINE d == next.us + j - w.from
  <2>1. d \in Int
    BY <1>3, <1>4
  <2> HIDE DEF d
  <2>2. d \div period \in Int
    BY <1>3, <2>1
  <2>3. -(d \div period) \in Int
    BY <2>2
  <2>4. Larger(0, -(d \div period)) \in Int /\ Larger(0, -(d \div period)) >= 0
    BY <2>3, 0 \in Int, LargerType
  <2> QED BY <2>4 DEF Before, d
<1> HIDE DEF k
<1>6. passed \in Nat
  BY <1>5
<1>7. /\ next' \in NextRec /\ sf' \in 0..MaxSf /\ period' \in PeriodsUs
      /\ StandsOn(sched, next, period, 1..sf)
            => StandsOn(sched, next', period, (1 + passed)..(sf + passed))
  <2> HIDE DEF passed
  <2> QED BY <1>1, <1>2, <1>3, <1>6, LaterKeeps
<1>8. CASE taken
  <2>1. passed = k + 1 /\ k + 1 \in Nat
    BY <1>5, <1>8
  <2>2. sf + (k + 1) <= MaxSf /\ next' = Later(k + 1) /\ sf' = sf + (k + 1)
    BY <1>1, <2>1
  <2>3. /\ next'.us = next.us + (k + 1) * period
        /\ next'.fc = (next.fc + (k + 1)) % FcMod
    BY <1>2, <2>1, <2>2, LaterKeeps
  <2>4. /\ Later(k) \in NextRec /\ Later(k).us = next.us + k * period
        /\ Later(k).fc = (next.fc + k) % FcMod
    <3>1. sf + k <= MaxSf
      BY <1>3, <1>5, <2>2, TimingConstants
    <3> QED BY <1>2, <1>5, <3>1, LaterKeeps
  <2>5. at \in Int /\ ClockMs(at) \in 0..(TimeMod - 1) /\ Later(k).fc \in 0..(FcMod - 1)
    <3>1. at \in Int
      BY <1>3, <2>4 DEF NextRec
    <3> HIDE DEF at
    <3> QED BY <2>4, <3>1, ClockReads DEF NextRec
  <2> DEFINE t == ClockMs(at)
  <2> DEFINE fc == Later(k).fc
  <2>6. SeenBefore(t, fc, 1, next', period)
    <3>1. next.fc \in Int
      BY <1>3, TimingConstants DEF NextRec
    <3>2. (next'.fc - 1) % FcMod = ((next.fc + (k + 1)) - 1) % FcMod
      <4>1. next.fc + (k + 1) \in Int /\ 1 \in Int
        BY <1>5, <3>1
      <4>2. \A f \in Int : ((f % FcMod) - 1) % FcMod = (f - 1) % FcMod
        BY Moduli, RemainderOfDifference, 1 \in Int, Zenon
      <4>3. next'.fc = (next.fc + (k + 1)) % FcMod
        BY <2>3
      <4> DEFINE f == next.fc + (k + 1)
      <4> HIDE DEF f
      <4>4. ((f % FcMod) - 1) % FcMod = (f - 1) % FcMod
        BY <4>1, <4>2 DEF f
      <4>5. next'.fc = f % FcMod
        BY <4>3 DEF f
      <4>6. (next'.fc - 1) % FcMod = (f - 1) % FcMod
        BY <4>4, <4>5
      <4> QED BY <4>6 DEF f
    <3>3. (next.fc + (k + 1)) - 1 = next.fc + k
      BY <1>5, <3>1
    <3>4. fc = (next'.fc - 1) % FcMod
      BY <2>4, <3>2, <3>3
    <3>5. next'.us - 1 * period + j = at
      <4>1. (k + 1) * period = k * period + period /\ k * period \in Int
        BY <1>3, <1>5
      <4> QED BY <1>3, <2>3, <2>4, <4>1
    <3>6. t = ClockMs(next'.us - 1 * period + j)
      BY <3>5
    <3> QED BY <3>4, <3>6 DEF SeenBefore
  <2>7. sf' \in 1..MaxSf
    BY <1>3, <1>5, <2>2, TimingConstants
  <2>8. oneEpoch /\ sched.n >= 1 => StandsOn(sched, next', period, 2..sf')
    <3>1. oneEpoch /\ sched.n >= 1
            => StandsOn(sched, next', period, (1 + passed)..(sf + passed))
      BY <1>2, <1>7 DEF BaselineInv
    <3>2. (1 + passed)..(sf + passed) \subseteq 2..sf'
      BY <1>1, <1>3, <1>5, <2>1
    <3> QED BY <3>1, <3>2, Zenon DEF StandsOn
  <2>8a. at = next'.us - period + j /\ next'.us \in Int
    <3>1. (k + 1) * period = k * period + period /\ k * period \in Int
      BY <1>3, <1>5
    <3> QED BY <1>3, <2>3, <2>4, <3>1
  <2>9. sched' = SchedObserve(sched, t, fc) /\ now' = at
        /\ bt' = (IF w.eff <= 1 THEN TrackBeacon(bt, t) ELSE bt)
        /\ oneEpoch' = (oneEpoch \/ sched'.n = 1)
    BY <1>1, <1>8
  <2> HIDE DEF t, fc, at, passed, taken, inside
  <2>10. t \in 0..(TimeMod - 1) /\ fc \in 0..(FcMod - 1)
    BY <2>5 DEF t, fc
  <2>11. /\ sched' \in SchedRec /\ PeriodSane(sched'.period)
         /\ sched'.haveRef /\ sched'.misses = 0 /\ sched'.n >= 1
         /\ sched'.tLast = t
         /\ oneEpoch \/ sched'.n = 1 => StandsOn(sched', next', period, 1..sf')
         /\ (oneEpoch \/ sched'.n = 1) /\ sched'.n >= 2 => WithinBound(sched', period)
    BY <1>3, <1>7, <2>6, <2>7, <2>8, <2>9, <2>10, ObserveStands
  <2>12. bt' \in TrackRec
    BY <1>3, <2>9, <2>10, TrackTypes
  <2>13. TimingType'
    BY <1>7, <2>5, <2>9, <2>11, <2>12 DEF TimingType
  <2>14. AtLastBeacon'
    <3>1. now' = next'.us - period' + j
      BY <1>1, <1>3, <2>9, <2>8a
    <3>2. sched'.tLast = ClockMs(now')
      BY <2>9, <2>11 DEF t
    <3> QED BY <3>1, <3>2 DEF AtLastBeacon, ClockMs
  <2>15. BaselineInv'
    BY <1>1, <2>9, <2>11, <2>14 DEF BaselineInv, AimedByBaseline
  <2> QED BY <2>13, <2>15 DEF TimingIInv
<1>9. CASE ~taken
  <2>1. sched' = SchedMiss(sched) /\ bt' = TrackMiss(bt) /\ oneEpoch' = oneEpoch
        /\ now' = Larger(now, w.to)
    BY <1>1, <1>9
  <2>2. /\ sched' \in SchedRec /\ PeriodSane(sched'.period)
        /\ sched'.t0 = sched.t0 /\ sched'.fc0 = sched.fc0
        /\ sched'.tMid = sched.tMid /\ sched'.fcMid = sched.fcMid
        /\ sched'.tLast = sched.tLast /\ sched'.fcLast = sched.fcLast
        /\ sched'.period = sched.period /\ sched'.n = sched.n
    BY <1>3, <2>1, SchedMissType
  <2>3. bt' \in TrackRec /\ ~TrackNarrow(bt)'
    <3>1. 0 \in 0..(TimeMod - 1)
      BY TimingConstants
    <3> QED BY <1>3, <2>1, <3>1, TrackTypes DEF TrackNarrow
  <2>4. now' \in Int
    BY <1>3, <1>4, <2>1, LargerType
  <2>5. sf' = sf + passed
    BY <1>1
  <2> HIDE DEF passed, taken, inside, at
  <2>6. oneEpoch /\ sched.n >= 1 => StandsOn(sched, next', period, 1..sf')
    <3>1. (1 + passed)..(sf + passed) \subseteq 1..sf'
      BY <1>3, <1>6, <2>5
    <3> QED BY <1>2, <1>7, <3>1, Zenon DEF StandsOn, BaselineInv
  <2>7. StandsOn(sched, next', period, 1..sf') => StandsOn(sched', next', period, 1..sf')
    BY <2>2 DEF StandsOn
  <2>8. WithinBound(sched, period) => WithinBound(sched', period)
    BY <2>2 DEF WithinBound, BaselineSf
  <2>9. TimingType'
    BY <1>3, <1>7, <2>1, <2>2, <2>3, <2>4 DEF TimingType
  <2>10. BaselineInv'
    <3>1. oneEpoch' /\ sched'.n >= 1 => StandsOn(sched', next', period', 1..sf')
      BY <1>1, <2>1, <2>2, <2>6, <2>7
    <3>2. oneEpoch' /\ sched'.n >= 2 => WithinBound(sched', period')
      BY <1>1, <1>2, <2>1, <2>2, <2>8 DEF BaselineInv
    <3> QED BY <2>3, <3>1, <3>2 DEF BaselineInv, AimedByBaseline
  <2> QED BY <2>9, <2>10 DEF TimingIInv
<1> QED
  BY <1>8, <1>9

\* The inductive invariant holds of every behaviour.
THEOREM TimingNextInv == TimingIInv /\ [TimingNext]_timingVars => TimingIInv'
<1> SUFFICES ASSUME TimingIInv, [TimingNext]_timingVars PROVE TimingIInv'
  OBVIOUS
<1>1. TimingType /\ BaselineInv
  BY DEF TimingIInv
<1>2. CASE \E wide, lost \in BOOLEAN, skip \in Skips, wake \in Wakes,
              j \in Jitters : BeaconListen(wide, skip, wake, j, lost)
  BY <1>2, ListenKeeps
<1>3. CASE Handover
  <2>1. sched' = SchedReset /\ bt' = TrackReset /\ oneEpoch' = TRUE
        /\ UNCHANGED <<now, period, next, sf>>
    BY <1>3 DEF Handover
  <2>2. TimingType'
    BY <1>1, <2>1, ResetKeeps DEF TimingType
  <2> QED BY <2>1, <2>2, ResetKeeps DEF TimingIInv
<1>4. CASE GatewayRestarts
  <2>1. /\ next' = [us |-> next.us + period \div 3, fc |-> 0]
        /\ oneEpoch' = (sched.n = 0)
        /\ UNCHANGED <<sched, bt, now, period, sf>>
    BY <1>4 DEF GatewayRestarts
  <2>2. next' \in NextRec
    <3>1. next.us \in Int /\ period \in Nat /\ 0 \in 0..(FcMod - 1)
      BY <1>1, TruePeriods, TimingConstants DEF TimingType, NextRec
    <3>2. next.us + period \div 3 \in Int
      BY <3>1
    <3> QED BY <2>1, <3>1, <3>2 DEF NextRec
  <2>3. TimingType'
    BY <1>1, <2>1, <2>2 DEF TimingType
  <2>4. ~(oneEpoch' /\ sched'.n >= 1) /\ ~(oneEpoch' /\ sched'.n >= 2)
    <3>1. oneEpoch' => sched.n = 0
      BY <2>1, Zenon
    <3>2. sched'.n = sched.n
      BY <2>1
    <3> QED BY <3>1, <3>2
  <2>5. BaselineInv'
    BY <1>1, <2>1, <2>4 DEF BaselineInv, AimedByBaseline, TrackNarrow
  <2> QED BY <2>3, <2>5 DEF TimingIInv
<1>5. CASE TagReset
  <2>1. /\ sched' = SchedReset /\ bt' = TrackReset /\ oneEpoch' = TRUE
        /\ now' = 0 /\ period' = period /\ sf' = 0
        /\ \E us \in PhasesUs, fc \in FirstFcs : next' = [us |-> us, fc |-> fc]
    BY <1>5 DEF TagReset
  <2>2. next' \in NextRec
    BY <2>1, TimingAssumption DEF NextRec
  <2>3. TimingType'
    BY <1>1, <2>1, <2>2, ResetKeeps, TimingConstants DEF TimingType
  <2> QED BY <2>1, <2>3, ResetKeeps DEF TimingIInv
<1>6. CASE UNCHANGED timingVars
  <2>1. UNCHANGED <<sched, bt, now, period, next, sf, oneEpoch>>
    BY <1>6 DEF timingVars
  <2>2. TimingType'
    BY <1>1, <2>1 DEF TimingType
  <2>3. AtLastBeacon => AtLastBeacon'
    BY <2>1 DEF AtLastBeacon, ClockMs
  <2>4. BaselineInv'
    BY <1>1, <2>1, <2>3 DEF BaselineInv, AimedByBaseline, TrackNarrow, StandsOn,
                            SeenBefore, ClockMs, WithinBound, BaselineSf
  <2> QED BY <2>2, <2>4 DEF TimingIInv
<1> QED
  BY <1>2, <1>3, <1>4, <1>5, <1>6 DEF TimingNext

LEMMA TimingIInvHolds == TimingSpec => []TimingIInv
BY TimingInitInv, TimingNextInv, PTL DEF TimingSpec

LEMMA TimingInvImpliesSound == TimingIInv => AimSound
<1> SUFFICES ASSUME TimingIInv PROVE AimSound
  OBVIOUS
<1>1. TimingType /\ BaselineInv
  BY DEF TimingIInv
<1>2. /\ sched \in SchedRec /\ bt \in TrackRec /\ next \in NextRec
      /\ PeriodSane(sched.period) /\ oneEpoch \in BOOLEAN
  BY <1>1 DEF TimingType
<1>3. TimingTypeOK
  BY <1>2, SchedFields DEF TimingTypeOK, TrackRec, NextRec
<1>4. EstimateBound
  BY <1>1 DEF BaselineInv, EstimateBound, WithinBound
<1>5. AimedByBaseline
  BY <1>1 DEF BaselineInv
<1> QED
  BY <1>3, <1>4, <1>5 DEF AimSound

\* Whatever the period, the phase, the jitter, the losses, the restarts and the
\* wraps of both counters: the estimate is off by the uncertainty of the two
\* endpoints over the baseline (beacon_sched_core.h), and only it aims a window.
THEOREM AimIsSound == TimingSpec => []AimSound
<1>1. TimingIInv => AimSound
  BY TimingInvImpliesSound
<1> QED
  BY <1>1, TimingIInvHolds, PTL

-----------------------------------------------------------------------------
(* The window *)

\* The plan in numbers: a prediction D ms ahead with F / K more, a window of W
\* ms around it, and an estimate that is off by at most V / K us.
LEMMA WindowArithmetic ==
    ASSUME NEW J \in Nat, NEW U \in Nat, NEW K \in Nat, K >= 1000, NEW P \in Nat,
           NEW B \in Nat \ {0}, NEW k \in Nat \ {0}, NEW p \in Nat, NEW M \in Nat,
           NEW D \in Int, NEW F \in Nat, k * p = K * D + F, F < K,
           NEW V \in Nat, B * V <= (U + 2 * J) * K,
           1000 * p - P * K <= V + 1000, P * K - 1000 * p <= V + 1000,
           NEW err \in Int, B * err > 2 * k * (J + U) - B,
           NEW W \in Int, 1000 * W >= err + 1000 * M,
           NEW h \in Int, 2 * h <= W, 2 * h >= W - 1,
           NEW T \in Int, K * T > 1000 * F - K,
           (k + 2 * B) * J + (k + 2) * B <= 500 * M * B
    PROVE  /\ k * P + 2 * J <= 1000 * (D - h + W) + T
           /\ 1000 * (D - h) <= k * P - 2 * J + 500
<1> DEFINE kp == k * p
<1> DEFINE kP == k * P
<1> DEFINE kV == k * V
<1> DEFINE kJ == k * J
<1> DEFINE kU == k * U
<1> DEFINE kB == k * B
<1> DEFINE X == 1000 * D + T - kP
<1> DEFINE Y == 1000 * D - kP
<1>1. /\ kp \in Nat /\ kP \in Nat /\ kV \in Nat /\ kJ \in Nat /\ kU \in Nat /\ kB \in Nat
      /\ X \in Int /\ Y \in Int
  OBVIOUS
\* The error of the prediction, times the length of the baseline.
<1>2. /\ 1000 * kp <= kP * K + kV + 1000 * k
      /\ 1000 * kp >= kP * K - kV - 1000 * k
  <2>1. /\ k * (1000 * p - P * K) <= k * (V + 1000)
        /\ k * (P * K - 1000 * p) <= k * (V + 1000)
    BY ProductKeepsOrder, 1000 * p - P * K \in Int, P * K - 1000 * p \in Int,
       V + 1000 \in Int
  <2>2. /\ k * (1000 * p - P * K) = 1000 * kp - kP * K
        /\ k * (P * K - 1000 * p) = kP * K - 1000 * kp
        /\ k * (V + 1000) = kV + 1000 * k
    OBVIOUS
  <2> QED BY <1>1, <2>1, <2>2, kP * K \in Int
<1>3. B * kV <= (kU + 2 * kJ) * K
  <2>1. k * (B * V) <= k * ((U + 2 * J) * K)
    BY ProductKeepsOrder, B * V \in Int, (U + 2 * J) * K \in Int
  <2>2. k * (B * V) = B * kV /\ k * ((U + 2 * J) * K) = (kU + 2 * kJ) * K
    OBVIOUS
  <2> QED BY <2>1, <2>2
<1>4. B * (1000 * k) <= kB * K
  <2>1. B * (1000 * k) = kB * 1000
    OBVIOUS
  <2>2. 1000 * kB <= K * kB
    BY <1>1, ProductKeepsOrder
  <2>3. 1000 * kB = kB * 1000 /\ K * kB = kB * K
    BY <1>1
  <2> QED BY <2>1, <2>2, <2>3
<1>5. B * X >= -(kU + 2 * kJ + kB + B)
  <2>1. K * X > 1000 * kp - K - kP * K
    <3>1. K * X = 1000 * (K * D) + K * T - kP * K
      BY <1>1
    <3> QED BY <1>1, <3>1, K * D \in Int, K * T \in Int, kP * K \in Int
  <2>2. K * X > -(kV + 1000 * k + K)
    BY <1>1, <1>2, <2>1, kP * K \in Int, K * X \in Int
  <2>3. B * (K * X) >= B * (-(kV + 1000 * k + K))
    BY <1>1, <2>2, ProductKeepsOrder, K * X \in Int, -(kV + 1000 * k + K) \in Int
  <2>4. B * (-(kV + 1000 * k + K)) = -(B * kV + B * (1000 * k) + B * K)
    BY <1>1
  <2>5. B * (K * X) >= -((kU + 2 * kJ) * K + kB * K + B * K)
    BY <1>1, <1>3, <1>4, <2>3, <2>4, B * kV \in Int, B * (1000 * k) \in Int,
       (kU + 2 * kJ) * K \in Int, kB * K \in Int, B * K \in Int, B * (K * X) \in Int
  <2>6. /\ B * (K * X) = K * (B * X)
        /\ -((kU + 2 * kJ) * K + kB * K + B * K) = K * (-(kU + 2 * kJ + kB + B))
    BY <1>1
  <2> QED BY <1>1, <2>5, <2>6, ProductCancels, B * X \in Int,
             -(kU + 2 * kJ + kB + B) \in Int, K \in Nat \ {0}
<1>6. B * Y <= kU + 2 * kJ + kB
  <2>1. K * Y <= kV + 1000 * k
    <3>1. K * Y = 1000 * (K * D) - kP * K
      BY <1>1
    <3> QED BY <1>1, <1>2, <3>1, K * D \in Int, kP * K \in Int
  <2>2. B * (K * Y) <= B * (kV + 1000 * k)
    BY <1>1, <2>1, ProductKeepsOrder, K * Y \in Int, kV + 1000 * k \in Int
  <2>3. B * (kV + 1000 * k) = B * kV + B * (1000 * k)
    BY <1>1
  <2>4. B * (K * Y) <= (kU + 2 * kJ) * K + kB * K
    BY <1>1, <1>3, <1>4, <2>2, <2>3, B * kV \in Int, B * (1000 * k) \in Int,
       (kU + 2 * kJ) * K \in Int, kB * K \in Int, B * (K * Y) \in Int
  <2>5. /\ B * (K * Y) = K * (B * Y)
        /\ (kU + 2 * kJ) * K + kB * K = K * (kU + 2 * kJ + kB)
    BY <1>1
  <2> QED BY <1>1, <2>4, <2>5, ProductCancels, B * Y \in Int,
             kU + 2 * kJ + kB \in Int, K \in Nat \ {0}
\* The width of the window, likewise.
<1>7. 1000 * (B * W) > 2 * kJ + 2 * kU - B
                       + 2 * (kJ + 2 * (B * J) + kB + 2 * B)
  <2>1. B * (1000 * W) >= B * (err + 1000 * M)
    BY ProductKeepsOrder, 1000 * W \in Int, err + 1000 * M \in Int
  <2>2. B * (1000 * W) = 1000 * (B * W) /\ B * (err + 1000 * M) = B * err + 1000 * (M * B)
    OBVIOUS
  <2>3. 2 * k * (J + U) = 2 * kJ + 2 * kU
    OBVIOUS
  <2>4. (k + 2 * B) * J + (k + 2) * B = kJ + 2 * (B * J) + kB + 2 * B
    OBVIOUS
  <2>5. 500 * M * B = 500 * (M * B)
    OBVIOUS
  <2> QED BY <1>1, <2>1, <2>2, <2>3, <2>4, <2>5, B * W \in Int, B * err \in Int,
             M * B \in Int, B * J \in Int
<1>8. B * J \in Nat /\ B * W \in Int /\ B * h \in Int /\ B * X \in Int /\ B * Y \in Int
  BY <1>1
<1>9. 2 * (B * h) <= B * W /\ 2 * (B * h) >= B * W - B
  <2>1. B * (2 * h) <= B * W /\ B * (W - 1) <= B * (2 * h)
    BY ProductKeepsOrder, 2 * h \in Int, W - 1 \in Int
  <2>2. B * (2 * h) = 2 * (B * h) /\ B * (W - 1) = B * W - B
    OBVIOUS
  <2> QED BY <2>1, <2>2
<1>10. X + 1000 * (W - h) >= 2 * J
  <2>1. B * (X + 1000 * (W - h)) = B * X + 1000 * (B * W) - 1000 * (B * h)
    BY <1>1
  <2>2. B * (2 * J) <= B * (X + 1000 * (W - h))
    BY <1>1, <1>5, <1>7, <1>8, <1>9, <2>1, B * (2 * J) = 2 * (B * J)
  <2> QED BY <1>1, <2>2, ProductCancels, 2 * J \in Int, X + 1000 * (W - h) \in Int
<1>11. Y - 1000 * h <= -(2 * J) + 500
  <2>1. B * (Y - 1000 * h) = B * Y - 1000 * (B * h)
    BY <1>1
  <2>2. B * (-(2 * J) + 500) = -(2 * (B * J)) + 500 * B
    OBVIOUS
  <2>3. B * (Y - 1000 * h) <= B * (-(2 * J) + 500)
    BY <1>1, <1>6, <1>7, <1>8, <1>9, <2>1, <2>2
  <2> QED BY <1>1, <2>3, ProductCancels, Y - 1000 * h \in Int, -(2 * J) + 500 \in Int
<1> QED
  BY <1>1, <1>10, <1>11

\* The signed difference from a reading c to the instant d after it.
LEMMA SignedDiffBack ==
    ASSUME NEW M \in Nat \ {0}, NEW d \in Int, NEW c \in Int, NEW a \in Int,
           (a - c) % M = d % M, -M < 2 * d, 2 * d + 2 <= M
    PROVE  SignedDiff(a, c, M) = d
<1>1. CASE d >= 0
  <2>1. d % M = d
    BY <1>1
  <2> QED BY <1>1, <2>1 DEF SignedDiff
<1>2. CASE d < 0
  <2>1. (-1) * M + (M + d) = d /\ M + d \in 0..(M - 1)
    BY <1>2
  <2>2. d % M = M + d
    BY <2>1, RemainderIs, -1 \in Int
  <2>3. ~(M + d < M \div 2)
    BY <1>2
  <2> QED BY <2>2, <2>3 DEF SignedDiff
<1> QED
  BY <1>1, <1>2

\* The plan of a locked tag: its skip, its prediction and its width.
LEMMA PlanOfLocked ==
    ASSUME NEW s \in SchedRec, PeriodSane(s.period), NEW skip \in Skips,
           s.misses = 0, NEW B \in Nat \ {0}, BaselineSf(s) = B,
           PlannedWindow(s, skip) < NominalMs + MarginMs
    PROVE  LET k == PlannedSkip(s, skip)
               W == PlannedWindow(s, skip)
               D == (k * s.period) \div Q
               err == (2 * k * (JitterUs + QuantUs)) \div B
           IN /\ k \in Nat \ {0} /\ W \in Int /\ D \in Nat /\ err \in Int
              /\ 1000 * W >= err + 1000 * MarginMs
              /\ B * err > 2 * k * (JitterUs + QuantUs) - B
              /\ W >= 0
              /\ 2 * (D + W) + 2 <= TimeMod
              /\ 2 * W < TimeMod
<1> DEFINE k == PlannedSkip(s, skip)
<1> DEFINE W == PlannedWindow(s, skip)
<1> DEFINE D == (k * s.period) \div Q
<1> DEFINE err == (2 * k * (JitterUs + QuantUs)) \div B
<1> DEFINE drift == (2 * k * (s.period \div Q) * PpmTotal) \div 1000
<1> DEFINE ms == ((drift + err + 999) \div 1000) + MarginMs
<1> DEFINE full == NominalMs + MarginMs
<1>1. k = Larger(skip, 1) /\ skip \in Nat
  BY TimingAssumption DEF PlannedSkip
<1>2. W = Smaller(Larger(ms, WindowMinMs), full)
  <2>1. Larger(B, 1) = B
    BY DEF Larger
  <2> QED BY <2>1 DEF PlannedWindow
<1>3. W < full
  OBVIOUS
<1>4. s.period \in Nat
  BY SchedFields
<1> HIDE DEF k, W, full
<1>5. k \in Nat \ {0} /\ k <= skip + 1 /\ (k = 1 \/ k = skip)
  BY <1>1 DEF Larger
<1>6. err \in Int /\ B * err > 2 * k * (JitterUs + QuantUs) - B /\ err >= 0
  <2> DEFINE N == 2 * k * (JitterUs + QuantUs)
  <2>1. N \in Nat
    BY <1>5, TimingConstants
  <2> HIDE DEF N
  <2>2. N \div B \in Int /\ N < B * (N \div B) + B /\ N \div B >= 0
    BY <2>1, Quotient
  <2>3. B * (N \div B) > N - B
    BY <2>1, <2>2, B * (N \div B) \in Int
  <2> QED BY <2>2, <2>3 DEF N
<1> HIDE DEF err
<1>7. drift \in Nat
  <2> DEFINE per == s.period \div Q
  <2>1. per \in Nat
    BY <1>4, TimingConstants
  <2> HIDE DEF per
  <2>2. 2 * k * per * PpmTotal \in Nat
    BY <1>5, <2>1, TimingConstants
  <2> DEFINE N == 2 * k * per * PpmTotal
  <2> HIDE DEF N
  <2>3. N \div 1000 \in Nat
    BY <2>2 DEF N
  <2> QED BY <2>3 DEF N, per
<1> HIDE DEF drift
<1>8. ms \in Int /\ 1000 * ms >= err + 1000 * MarginMs
  BY <1>6, <1>7, TimingConstants
<1> HIDE DEF ms
<1>9. full \in Nat /\ full = NominalMs + MarginMs
  BY TimingConstants DEF full
<1>10. W \in Int /\ W >= ms /\ W >= 0
  BY <1>2, <1>3, <1>8, <1>9, TimingConstants DEF Larger, Smaller
<1>11. 1000 * W >= err + 1000 * MarginMs
  BY <1>6, <1>8, <1>10, TimingConstants
<1>12. D \in Nat /\ D <= k * (2 * NominalMs)
  <2> DEFINE N == k * s.period
  <2>1. N \in Nat
    BY <1>4, <1>5
  <2>2. N <= Q * (k * (2 * NominalMs))
    <3>1. s.period <= 2 * NominalMs * Q
      BY DEF PeriodSane
    <3>2. k * s.period <= k * (2 * NominalMs * Q)
      BY <1>4, <1>5, <3>1, ProductKeepsOrder, TimingConstants, 2 * NominalMs * Q \in Int
    <3>3. k * (2 * NominalMs * Q) = Q * (k * (2 * NominalMs))
      BY <1>5, TimingConstants
    <3> QED BY <3>2, <3>3
  <2> HIDE DEF N
  <2>3. /\ N \div Q \in Int /\ N \div Q >= 0 /\ Q * (N \div Q) <= N
    BY <2>1, TimingConstants, Quotient
  <2>4. Q * (N \div Q) <= Q * (k * (2 * NominalMs))
    BY <2>1, <2>2, <2>3, TimingConstants, <1>5, Q * (N \div Q) \in Int,
       Q * (k * (2 * NominalMs)) \in Int
  <2>5. N \div Q <= k * (2 * NominalMs)
    BY <2>3, <2>4, <1>5, TimingConstants, ProductCancels, k * (2 * NominalMs) \in Int
  <2> QED BY <2>3, <2>5 DEF N
<1> HIDE DEF D
<1>13. 2 * (D + W) + 2 <= TimeMod /\ 2 * W < TimeMod
  <2>1. 2 * ((2 * skip + 3) * NominalMs + MarginMs) < TimeMod
    BY TimingAssumption
  <2>2. k * (2 * NominalMs) + NominalMs <= (2 * skip + 3) * NominalMs
    <3>1. k * (2 * NominalMs) + NominalMs = (2 * k + 1) * NominalMs
      BY <1>5, TimingConstants
    <3>2. 2 * k + 1 <= 2 * skip + 3
      BY <1>1, <1>5
    <3> QED BY <1>1, <1>5, <3>1, <3>2, TimingConstants, ProductKeepsOrder,
               2 * k + 1 \in Int, 2 * skip + 3 \in Int
  <2>3. W + 1 <= NominalMs + MarginMs
    BY <1>3, <1>9, <1>10
  <2>4. k * (2 * NominalMs) \in Int /\ (2 * skip + 3) * NominalMs \in Int
    BY <1>1, <1>5, TimingConstants
  <2> QED BY <1>10, <1>12, <2>1, <2>2, <2>3, <2>4, TimingConstants
<1> QED
  BY <1>5, <1>6, <1>10, <1>11, <1>12, <1>13 DEF k, W, D, err

\* The length of the baseline of a locked tag, and its estimate.
LEMMA BaselineOfLocked ==
    ASSUME TimingIInv, oneEpoch, sched.n >= 2
    PROVE  /\ BaselineSf(sched) \in Nat \ {0}
           /\ WithinBound(sched, period)
<1>1. TimingType /\ BaselineInv
  BY DEF TimingIInv
<1>2. sched \in SchedRec /\ next \in NextRec /\ sf \in 0..MaxSf /\ oneEpoch
  BY <1>1 DEF TimingType
<1>3. sched.n >= 1
  BY <1>2, SchedFields
<1>4. StandsOn(sched, next, period, 1..sf) /\ WithinBound(sched, period)
  BY <1>1, <1>2, <1>3 DEF BaselineInv
<1>5. PICK d0, dl \in 1..sf : /\ SeenBefore(sched.t0, sched.fc0, d0, next, period)
                              /\ SeenBefore(sched.tLast, sched.fcLast, dl, next, period)
                              /\ dl < d0
  BY <1>4 DEF StandsOn
<1>6. /\ sched.fc0 = (next.fc - d0) % FcMod
      /\ sched.fcLast = (next.fc - dl) % FcMod
  BY <1>5 DEF SeenBefore
<1>7. (sched.fcLast - sched.fc0) % FcMod = d0 - dl
  <2>1. d0 \in Nat /\ dl \in Nat /\ dl < d0 /\ d0 <= MaxSf
    BY <1>2, <1>5, TimingConstants
  <2> QED BY <1>2, <1>6, <2>1, FramesApart
<1>8. BaselineSf(sched) = d0 - dl
  BY <1>2, <1>7, SchedFields DEF BaselineSf
<1> QED
  BY <1>4, <1>5, <1>8

\* When a plan arms: h before what is predicted D after the reading c.
ArmedAt(c, D, h) == (c + D - h) % TimeMod

\* What the wrapped times of a plan say, read at the reading c.
LEMMA ReadingsOfPlan ==
    ASSUME NEW c \in Int, NEW D \in Nat, NEW W \in Nat,
           NEW h \in Nat, h <= W, 2 * (D + W) + 2 <= TimeMod, 2 * W < TimeMod
    PROVE  /\ SinceMs(ArmedAt(c, D, h), c) = D - h
           /\ SinceMs(ArmedAt(c, D, h) + W, c) = D - h + W
<1> DEFINE x == c + D - h
<1> DEFINE arm == ArmedAt(c, D, h)
<1>0. arm = x % TimeMod
  BY DEF ArmedAt
<1> HIDE DEF arm
<1>1. c \in Int /\ TimeMod \in Nat \ {0}
  BY TimingConstants
<1>2. x \in Int /\ x - c = D - h /\ D - h \in Int
  BY <1>1
<1> HIDE DEF x
<1>3. (arm - c) % TimeMod = (D - h) % TimeMod
  <2>1. ((x % TimeMod) - c) % TimeMod = (x - c) % TimeMod
    BY <1>1, <1>2, RemainderOfDifference
  <2>2. (x - c) % TimeMod = (D - h) % TimeMod
    BY <1>2, Zenon
  <2> QED BY <1>0, <2>1, <2>2, Zenon
<1>4. (arm + W - c) % TimeMod = (D - h + W) % TimeMod
  <2>1. W - c \in Int /\ x + (W - c) = D - h + W
    BY <1>1, <1>2
  <2>2. ((x % TimeMod) + (W - c)) % TimeMod = (x + (W - c)) % TimeMod
    BY <1>1, <1>2, <2>1, RemainderOfDifference
  <2>3. arm + (W - c) = arm + W - c
    <3>1. arm \in Int
      BY <1>0, <1>1, <1>2, RemainderOf
    <3> QED BY <1>1, <3>1
  <2> QED BY <1>0, <2>1, <2>2, <2>3, Zenon
<1>5. arm \in Int /\ arm + W \in Int
  <2>1. x % TimeMod \in Int
    BY <1>1, <1>2, RemainderOf
  <2> QED BY <1>0, <2>1
<1>6. SinceMs(arm, c) = D - h
  BY <1>1, <1>2, <1>3, <1>5, SignedDiffBack DEF SinceMs
<1>7. SinceMs(arm + W, c) = D - h + W
  <2>1. D - h + W \in Int /\ -TimeMod < 2 * (D - h + W) /\ 2 * (D - h + W) + 2 <= TimeMod
    BY <1>1
  <2> QED BY <1>1, <1>4, <1>5, <2>1, SignedDiffBack DEF SinceMs
<1> QED
  BY <1>6, <1>7 DEF arm

LEMMA LockedReaches ==
    ASSUME TimingIInv, oneEpoch, sched.n >= 2, TrackNarrow(bt),
           NEW skip \in Skips, NEW j \in Jitters, MarginCovers(skip)
    PROVE  Reaches(skip, j)
<1> DEFINE k == PlannedSkip(sched, skip)
<1> DEFINE W == PlannedWindow(sched, skip)
<1> DEFINE N == k * sched.period
<1> DEFINE D == N \div Q
<1> DEFINE F == N % Q
<1> DEFINE T == (1000 * F) \div Q
<1> DEFINE B == BaselineSf(sched)
<1> DEFINE h == W \div 2
<1> DEFINE err == (2 * k * (JitterUs + QuantUs)) \div B
<1> DEFINE V == ((QuantUs + 2 * JitterUs) * Q) \div B
<1> DEFINE arm == (sched.tLast + D - h) % TimeMod
<1>1. TimingType /\ BaselineInv /\ sched \in SchedRec /\ next \in NextRec
      /\ now \in Int /\ period \in Nat /\ PeriodSane(sched.period)
  BY TruePeriods DEF TimingIInv, TimingType
<1>2. sched.haveRef /\ sched.misses = 0
  BY <1>1 DEF BaselineInv, AimedByBaseline
<1>3. PICK jl \in Jitters : now = next.us - period + jl /\ sched.tLast = ClockMs(now)
  BY <1>1, SchedFields DEF BaselineInv, AtLastBeacon
<1>4. B \in Nat \ {0} /\ WithinBound(sched, period)
  BY BaselineOfLocked
<1>5. /\ (k + 2 * B) * JitterUs + (k + 2) * B <= 500 * MarginMs * B
      /\ W < NominalMs + MarginMs
  BY DEF MarginCovers
<1>6. /\ k \in Nat \ {0} /\ W \in Int /\ D \in Nat /\ err \in Int
      /\ 1000 * W >= err + 1000 * MarginMs
      /\ B * err > 2 * k * (JitterUs + QuantUs) - B
      /\ W >= 0
      /\ 2 * (D + W) + 2 <= TimeMod
      /\ 2 * W < TimeMod
  <2> HIDE DEF B
  <2> QED BY <1>1, <1>2, <1>4, <1>5, PlanOfLocked DEF B
<1>7. /\ SchedPlan(sched, skip).arm = arm
      /\ SchedPlan(sched, skip).window = W
      /\ SchedPlan(sched, skip).eff = k
  BY DEF SchedPlan
<1>8. WithinBound(sched, period) <=> Abs(1000 * sched.period - period * Q) <= V + 1000
  BY DEF WithinBound
<1>9. /\ NarrowWindow(skip).from
            = Larger(now, TrueTime(arm) - 1000 * (WakeGuardMs - WakeMs))
      /\ NarrowWindow(skip).to = TrueTime(arm + W)
      /\ NarrowWindow(skip).eff = k
  BY <1>2, <1>7 DEF NarrowWindow, Aim
<1>10. /\ Truncated(k) = (now % 1000) + T
       /\ Later(k - 1).us = next.us + (k - 1) * period
  BY DEF Truncated, Later
<1>11. sched.period \in Nat
  BY <1>1, SchedFields
<1> HIDE DEF k, W, B, err, V
<1>12. N \in Nat
  BY <1>6, <1>11
<1>13. D \in Int /\ F \in Nat /\ N = Q * D + F /\ F < Q
  <2> HIDE DEF N
  <2>1. F \in 0..(Q - 1) /\ N = D * Q + F /\ D \in Int
    BY <1>12, Moduli, RemainderOf
  <2> HIDE DEF D, F
  <2> QED BY <2>1, TimingConstants
<1> HIDE DEF F
<1>14. T \in Int /\ Q * T > 1000 * F - Q
  <2> DEFINE X == 1000 * F
  <2>1. X \in Int
    BY <1>13
  <2> HIDE DEF X
  <2>2. X \div Q \in Int /\ X < Q * (X \div Q) + Q
    BY <2>1, TimingConstants, Quotient
  <2> DEFINE Y == X \div Q
  <2> HIDE DEF Y
  <2>3. Y \in Int /\ X < Q * Y + Q
    BY <2>2 DEF Y
  <2>4. Q * Y > X - Q
    BY <2>1, <2>3, TimingConstants, Q * Y \in Int
  <2> QED BY <2>3, <2>4 DEF X, Y
<1> HIDE DEF T
<1>15. h \in Int /\ 2 * h <= W /\ 2 * h >= W - 1 /\ h \in Nat /\ h <= W
  BY <1>6
<1> HIDE DEF h
<1>16. V \in Nat /\ B * V <= (QuantUs + 2 * JitterUs) * Q
  <2> DEFINE X == (QuantUs + 2 * JitterUs) * Q
  <2>1. X \in Nat
    BY TimingConstants
  <2> HIDE DEF X
  <2>2. X \div B \in Int /\ B * (X \div B) <= X /\ X \div B >= 0
    BY <1>4, <2>1, Quotient
  <2> QED BY <2>2 DEF X, V
<1>17. /\ 1000 * sched.period - period * Q <= V + 1000
       /\ period * Q - 1000 * sched.period <= V + 1000
  <2> DEFINE x == 1000 * sched.period - period * Q
  <2>1. x \in Int /\ period * Q - 1000 * sched.period = -x
    BY <1>1, <1>11, TimingConstants
  <2>2. Abs(x) <= V + 1000
    BY <1>4, <1>8
  <2> HIDE DEF x
  <2>3. x <= V + 1000 /\ -x <= V + 1000
    BY <1>16, <2>1, <2>2 DEF Abs
  <2> QED BY <2>1, <2>3 DEF x
<1>18. k * sched.period = Q * D + F
  BY <1>13
<1> HIDE DEF N, D
<1>18a. arm = ArmedAt(sched.tLast, D, h)
  BY DEF ArmedAt
<1> HIDE DEF arm
<1>19. /\ k * period + 2 * JitterUs <= 1000 * (D - h + W) + T
       /\ 1000 * (D - h) <= k * period - 2 * JitterUs + 500
  BY <1>1, <1>4, <1>5, <1>6, <1>11, <1>13, <1>14, <1>15, <1>16, <1>17, <1>18,
     TimingConstants, WindowArithmetic
<1>20. /\ TrueTime(arm) = now + 1000 * (D - h) - (now % 1000)
       /\ TrueTime(arm + W) = now + 1000 * (D - h + W) - (now % 1000)
  <2> DEFINE c == ClockMs(now)
  <2>1. W \in Nat /\ c \in Int /\ arm = ArmedAt(c, D, h)
    BY <1>1, <1>3, <1>6, <1>18a, ClockReads
  <2> HIDE DEF c
  <2>2. SinceMs(arm, c) = D - h /\ SinceMs(arm + W, c) = D - h + W
    BY <1>6, <1>15, <2>1, ReadingsOfPlan
  <2> QED BY <2>2 DEF TrueTime, c
<1> DEFINE at == Later(k - 1).us + j
<1>21. at = now + k * period + (j - jl) /\ at \in Int /\ k * period \in Nat
       /\ at >= now
  <2>1. (k - 1) * period = k * period - period /\ k * period \in Nat
    BY <1>1, <1>6
  <2>2. k * period >= period /\ 2 * JitterUs < period
    BY <1>1, <1>6, TruePeriods DEF TimingType
  <2> QED BY <1>1, <1>3, <1>10, <2>1, <2>2, JittersSmall, TimingConstants DEF NextRec
<1> HIDE DEF at
<1>22. j \in Int /\ jl \in Int /\ j - jl <= 2 * JitterUs /\ j - jl >= -(2 * JitterUs)
  BY JittersSmall, TimingConstants
<1>23. now % 1000 \in 0..999
  BY <1>1
<1>24. TrueTime(arm) - 1000 * (WakeGuardMs - WakeMs) <= at
  BY <1>1, <1>6, <1>15, <1>19, <1>20, <1>21, <1>22, <1>23, TimingConstants
<1>25. NarrowWindow(skip).from <= at
  BY <1>9, <1>21, <1>24 DEF Larger
<1>26. at <= NarrowWindow(skip).to + Truncated(k)
  BY <1>1, <1>6, <1>9, <1>10, <1>14, <1>15, <1>19, <1>20, <1>21, <1>22, <1>23,
     TimingConstants
<1> QED
  BY <1>9, <1>25, <1>26 DEF Reaches, at

LEMMA TimingInvReaches == TimingIInv => WindowReaches
BY LockedReaches DEF WindowReaches

\* A window aimed across a skip reaches the beacon it is aimed at, whatever the
\* skip, the jitter and the phase, where the margin has room for the jitter that
\* the error of the estimate leaves out.
THEOREM WindowIsAimed == TimingSpec => []WindowReaches
<1>1. TimingIInv => WindowReaches
  BY TimingInvReaches
<1> QED
  BY <1>1, TimingIInvHolds, PTL
=============================================================================
