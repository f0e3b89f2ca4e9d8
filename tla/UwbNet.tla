------------------------------- MODULE UwbNet -------------------------------
(***************************************************************************)
(* src/src/uwb_net.c: the tag's network state machine, a pure function of  *)
(* its context and one event, the sweep gate and the action filters.       *)
(*                                                                         *)
(* ctx.frame_counter is only ever subtracted from the gateway's counter,   *)
(* so it is kept as that difference: c.since is the number of superframes  *)
(* since the last beacon the machine took.  n_anchors and the EUI are      *)
(* never read back and are left out.  An action word is a set of actions.  *)
(***************************************************************************)
EXTENDS Integers

CONSTANTS LeaseSf,      \* UWB_NET_LEASE_SF, superframes
          MissMax,      \* UWB_NET_MISS_MAX
          JoinRetryMax, \* UWB_NET_JOIN_RETRY_MAX
          MinAnchors,   \* UWB_NET_MIN_ANCHORS
          SkipCap,      \* UWB_LISTEN_SKIP_CAP
          RediscoverSf, \* UWB_NET_REDISCOVER_INTERVAL_MS in superframes
          Tiers,        \* uwb_tier_t
          FastTier,     \* UWB_TIER_FAST
          TierParams,   \* tier_params[]: [skip, every] of each tier
          ZeroAddr,     \* 0x0000, what memset() leaves in short_addr
          UnassocAddr   \* UWB_ADDR_UNASSOC

ASSUME NetAssumption ==
    /\ LeaseSf \in Nat \ {0}
    /\ MissMax \in Nat \ {0}
    /\ JoinRetryMax \in Nat \ {0}
    /\ MinAnchors \in Nat \ {0}
    /\ SkipCap \in Nat \ {0}
    /\ RediscoverSf \in Nat \ {0}
    /\ FastTier \in Tiers
    /\ TierParams \in [Tiers -> [skip : Nat, every : Nat]]
    /\ ZeroAddr # UnassocAddr

NetState == {"SCAN", "JOINING", "DISCOVER", "RANGING"}
Action == {"SEND_JOIN", "SEND_KEEPALIVE", "SEND_ALERT", "RUN_DISCOVER",
           "RUN_SWEEP", "SLEEP", "TO_SCAN"}

\* Mutation: the cap is forgotten.
ListenSkip_Uncapped(t) == IF TierParams[t].skip = 0 THEN 1
                          ELSE TierParams[t].skip

\* uwb_net_get_tier_params(): both fields are clamped on read.
ListenSkip(t) == IF TierParams[t].skip > SkipCap THEN SkipCap
                 ELSE IF TierParams[t].skip = 0 THEN 1
                 ELSE TierParams[t].skip
RangeEvery(t) == IF TierParams[t].every = 0 THEN 1 ELSE TierParams[t].every

NetInit == [state |-> "SCAN", addr |-> ZeroAddr, slot |-> 0,
            tier |-> FastTier, lease |-> 0, miss |-> 0, retries |-> 0,
            part |-> 0, since |-> 0]

-----------------------------------------------------------------------------
(* uwb_net_handle_core(): each handler returns the next context and the    *)
(* action word.                                                            *)

Out(c, actions) == [ctx |-> c, act |-> actions]

\* Mutation: the lease ages by the beacons received, as it once did.
LeaseAge_PerBeacon(c) == IF c.lease > 1 THEN c.lease - 1 ELSE 0

\* lease_age(): the lease left after the superframes that really elapsed.
LeaseAge(c) == IF c.lease > c.since THEN c.lease - c.since ELSE 0

RenewDue(c) == LeaseAge(c) <= LeaseSf \div 2

\* What a beacon does in SCAN and in JOINING; only there is proto_ver read.
BeaconInScan(c) ==
    Out([c EXCEPT !.state = "JOINING", !.since = 0, !.miss = 0, !.retries = 0],
        {"SEND_JOIN"})

BeaconInJoining(c) == Out([c EXCEPT !.since = 0, !.miss = 0], {"SEND_JOIN"})

\* The gateway reclaimed the seat: our address is not in the slot map.
Unseated(c) ==
    Out([c EXCEPT !.state = "SCAN", !.miss = 0, !.since = 0,
                  !.lease = LeaseAge(c)],
        {"TO_SCAN"})

\* Mutation: the tag stays in the slot of its GRANT.
Resync_SameSlot(c, slot) ==
    [c EXCEPT !.miss = 0, !.since = 0,
              !.lease = IF RenewDue(c) THEN LeaseSf ELSE LeaseAge(c)]

\* Our seat is in the map: follow its slot, and renew the lease (taking the
\* renewal for granted) once half of it is gone.
Resync(c, slot) ==
    [c EXCEPT !.miss = 0, !.since = 0, !.slot = slot,
              !.lease = IF RenewDue(c) THEN LeaseSf ELSE LeaseAge(c)]

Renewal(c) == IF RenewDue(c) THEN {"SEND_KEEPALIVE"} ELSE {}

BeaconInDiscover(c, inMap, slot) ==
    IF inMap THEN Out(Resync(c, slot), {"RUN_DISCOVER"} \cup Renewal(c))
             ELSE Unseated(c)

\* One participation in range_every sweeps; the others only sleep.
BeaconInRanging(c, inMap, slot) ==
    IF ~inMap THEN Unseated(c)
    ELSE IF c.part + 1 >= RangeEvery(c.tier)
         THEN Out([Resync(c, slot) EXCEPT !.part = 0],
                  {"RUN_SWEEP"} \cup Renewal(c))
         ELSE Out([Resync(c, slot) EXCEPT !.part = c.part + 1],
                  {"SLEEP"} \cup Renewal(c))

OnBeacon(c, verOk, inMap, slot) ==
    CASE c.state = "SCAN" ->
            IF verOk THEN BeaconInScan(c) ELSE Out(c, {"SLEEP"})
      [] c.state = "JOINING" ->
            IF verOk THEN BeaconInJoining(c) ELSE Out(c, {})
      [] c.state = "DISCOVER" -> BeaconInDiscover(c, inMap, slot)
      [] c.state = "RANGING" -> BeaconInRanging(c, inMap, slot)

\* Mutation: the limit on misses is dropped.
OnBeaconMiss_NoLimit(c) ==
    CASE c.state = "SCAN" -> Out(c, {"SLEEP"})
      [] c.state = "JOINING" -> Out(c, {})
      [] c.state \in {"DISCOVER", "RANGING"} ->
            Out([c EXCEPT !.miss = c.miss + 1], {})

\* Mutation: only RANGING counts its misses.
OnBeaconMiss_RangingOnly(c) ==
    CASE c.state = "SCAN" -> Out(c, {"SLEEP"})
      [] c.state \in {"JOINING", "DISCOVER"} -> Out(c, {})
      [] c.state = "RANGING" ->
            IF c.miss + 1 >= MissMax
            THEN Out([c EXCEPT !.state = "SCAN", !.miss = 0], {"TO_SCAN"})
            ELSE Out([c EXCEPT !.miss = c.miss + 1], {})

\* JOINING does not count missed beacons.
OnBeaconMiss(c) ==
    CASE c.state = "SCAN" -> Out(c, {"SLEEP"})
      [] c.state = "JOINING" -> Out(c, {})
      [] c.state \in {"DISCOVER", "RANGING"} ->
            IF c.miss + 1 >= MissMax
            THEN Out([c EXCEPT !.state = "SCAN", !.miss = 0], {"TO_SCAN"})
            ELSE Out([c EXCEPT !.miss = c.miss + 1], {})

OnGrant(c, addr, slot, tier, lease) ==
    IF c.state = "JOINING"
    THEN Out([c EXCEPT !.state = "DISCOVER", !.addr = addr, !.slot = slot,
                       !.tier = tier, !.lease = lease, !.miss = 0],
             {"RUN_DISCOVER"})
    ELSE Out(c, IF c.state = "SCAN" THEN {"SLEEP"} ELSE {})

OnGrantMiss(c) ==
    IF c.state = "JOINING"
    THEN IF c.retries + 1 >= JoinRetryMax
         THEN Out([c EXCEPT !.state = "SCAN", !.retries = c.retries + 1], {})
         ELSE Out([c EXCEPT !.retries = c.retries + 1], {"SEND_JOIN"})
    ELSE Out(c, IF c.state = "SCAN" THEN {"SLEEP"} ELSE {})

\* The runner drops the action word of these last three events.
OnDiscovered(c, n) ==
    IF c.state = "DISCOVER" /\ n >= MinAnchors
    THEN [c EXCEPT !.state = "RANGING"] ELSE c

\* Mutation: a short sweep leaves the tag in RANGING.
OnSwept_Stays(c, n) == c

OnSwept(c, n) ==
    IF c.state = "RANGING" /\ n < MinAnchors
    THEN [c EXCEPT !.state = "DISCOVER"] ELSE c

OnMotion(c, tier) == [c EXCEPT !.tier = tier]

\* Mutation: an alert goes out on a missed beacon in every state.
AlertAction_Always(st, beacon, pending) ==
    IF pending THEN {"SEND_ALERT"} ELSE {}

\* alert_action(): a pending alert rides on a beacon, and on a missed one
\* only in SCAN; st is the state the event was handled in.
AlertAction(st, beacon, pending) ==
    IF pending /\ (beacon \/ st = "SCAN") THEN {"SEND_ALERT"} ELSE {}

\* uwb_net_gate_actions(): no ranging on uncalibrated antenna delays.
GateActions(act, calValid) == IF calValid THEN act ELSE act \ {"RUN_SWEEP"}

-----------------------------------------------------------------------------
(* struct uwb_sweep_gate: sweep, or discover instead?  g.age stands for    *)
(* now_ms - last_discover_ms, in superframes, and stops at RediscoverSf.   *)

GateInit == [ever |-> FALSE, n |-> 0, age |-> 0]
RediscoverDue(g) == \/ ~g.ever
                    \/ g.age >= RediscoverSf
                    \/ g.n < MinAnchors
\* Mutation: the latch of old, discovery does not refresh the sweep count.
GateDiscovered_Latch(g, found) == [ever |-> TRUE, n |-> g.n, age |-> 0]

GateDiscovered(g, found) == [ever |-> TRUE, n |-> found, age |-> 0]
GateSwept(g, ranged) == [g EXCEPT !.n = ranged]
GateAged(g, k) == [g EXCEPT !.age = IF @ + k > RediscoverSf
                                    THEN RediscoverSf ELSE @ + k]
=============================================================================
