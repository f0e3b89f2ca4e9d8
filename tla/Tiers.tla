------------------------------- MODULE Tiers -------------------------------
(***************************************************************************)
(* How often a tag listens and ranges: the table of tier parameters that   *)
(* `pwr tier` edits and the hysteresis that turns the accelerometer's      *)
(* state into a tier, both of src/src/uwb_net.c.                           *)
(***************************************************************************)
EXTENDS Integers

CONSTANTS SkipCap,     \* UWB_LISTEN_SKIP_CAP
          HoldFast,    \* UWB_TIER_HOLD_FAST_MS
          HoldSlow,    \* UWB_TIER_HOLD_SLOW_MS
          ClockWrap    \* the millisecond clock counts modulo this, 2^32

IDLE == 0
SLOW == 1
FAST == 2
Tier == IDLE..FAST

Row(skip, every) == [skip |-> skip, every |-> every]

\* tier_defaults[]
Defaults == [t \in Tier |-> CASE t = IDLE -> Row(300, 1)
                              [] t = SLOW -> Row(75, 1)
                              [] t = FAST -> Row(1, 1)]

\* uwb_net_set_tier_params() keeps what it is given, uwb_net_reset_tier_params()
\* brings the defaults back.
SetRow(table, t, row) == IF t \in Tier THEN [table EXCEPT ![t] = row] ELSE table

AtLeastOne(n) == IF n = 0 THEN 1 ELSE n

\* uwb_net_get_tier_params(): limits apply when a row is read, and a tier nobody
\* knows reads as FAST.
GetRow(table, t) ==
  LET row == IF t \in Tier THEN table[t] ELSE table[FAST]
  IN Row(AtLeastOne(IF row.skip > SkipCap THEN SkipCap ELSE row.skip),
         AtLeastOne(row.every))

\* (int32_t)(now - then)
Past(now, then) ==
  LET d == (now - then) % ClockWrap
  IN IF d >= ClockWrap \div 2 THEN d - ClockWrap ELSE d

\* uwb_net_init(): memset() and a tier of FAST.
FilterInit == [tier |-> FAST, active |-> 0, since |-> 0]

\* uwb_net_tier_filter(): promotion at once, demotion one step after a hold.
Filter(f, moving, now) ==
  CASE moving ->
         [tier |-> FAST, active |-> now,
          since |-> IF f.tier = FAST THEN f.since ELSE now]
    [] ~moving /\ f.tier = FAST /\ Past(now, f.active) >= HoldFast ->
         [f EXCEPT !.tier = SLOW, !.since = now]
    [] ~moving /\ f.tier = SLOW /\ Past(now, f.since) >= HoldSlow ->
         [f EXCEPT !.tier = IDLE, !.since = now]
    [] OTHER -> f
=============================================================================
