----------------------------- MODULE BeaconSched -----------------------------
(***************************************************************************)
(* The two beacon predictors: src/src/beacon_sched_core.c (a period        *)
(* estimate over a long baseline, which aims the window across a skip) and *)
(* src/src/beacon_track_core.c (the lock, with a moving average that is    *)
(* valid only for consecutive beacons).  Both are pure; s and b stand for  *)
(* their structs.  Times are milliseconds of the tag's clock, which wraps  *)
(* at TimeMod; the gateway's frame counter wraps at FcMod; a period is in  *)
(* units of 1/Q ms.                                                        *)
(***************************************************************************)
EXTENDS Integers

CONSTANTS NominalMs,    \* T_SUPERFRAME_MS
          Q,            \* 2^16: Q16.16
          BaselineMax,  \* BSCHED_BASELINE_MAX
          PpmTotal,     \* BSCHED_PPM_TOTAL
          JitterUs,     \* BSCHED_JITTER_US
          QuantUs,      \* BSCHED_QUANT_US
          WindowMinMs,  \* BSCHED_WINDOW_MIN_MS
          MarginMs,     \* BSCHED_WINDOW_MARGIN_MS
          GuardMs,      \* BT_GUARD_MS
          WarmupN,      \* BT_WARMUP_N
          EmaStep,      \* 2^BT_EMA_SHIFT
          TimeMod,      \* 2^32
          FcMod,        \* 2^32
          PeriodMod     \* 2^32: a period is a uint32_t

ASSUME SchedAssumption ==
    /\ {NominalMs, Q, EmaStep, WarmupN, TimeMod, FcMod} \subseteq Nat \ {0}
    /\ {PpmTotal, JitterUs, QuantUs, WindowMinMs, MarginMs, GuardMs}
          \subseteq Nat
    /\ BaselineMax \in Nat /\ BaselineMax >= 4
    /\ PeriodMod \in Nat /\ 2 * NominalMs * Q < PeriodMod

\* (int32_t)(a - b): the signed difference of two wrapping counters.
SignedDiff(a, b, mod) ==
    LET d == (a - b) % mod IN IF d < mod \div 2 THEN d ELSE d - mod
SinceMs(a, b) == SignedDiff(a, b, TimeMod)
SinceSf(a, b) == SignedDiff(a, b, FcMod)

Larger(a, b) == IF a > b THEN a ELSE b
Smaller(a, b) == IF a < b THEN a ELSE b

-----------------------------------------------------------------------------
(* beacon_sched_core.c *)

\* beacon_sched_reset().  The ok and miss counts are diagnostics.
SchedReset == [t0 |-> 0, fc0 |-> 0, tMid |-> 0, fcMid |-> 0,
               tLast |-> 0, fcLast |-> 0, period |-> NominalMs * Q,
               n |-> 0, misses |-> 0, haveRef |-> FALSE]

\* baseline_seed(): the period estimate outlives the baseline.
SchedSeed(s, t, fc) ==
    [s EXCEPT !.t0 = t, !.fc0 = fc, !.tMid = t, !.fcMid = fc,
              !.tLast = t, !.fcLast = fc, !.n = 1]

PeriodSane(p) == 2 * p >= NominalMs * Q /\ p <= 2 * NominalMs * Q

\* The midpoint is captured on the way up; a full baseline rolls onto it.
Half == BaselineMax \div 2

\* Mutation: the roll moves the time of the origin and not its frame counter.
SchedRoll_TimeOnly(s) ==
    IF s.n = Half THEN [s EXCEPT !.tMid = s.tLast, !.fcMid = s.fcLast]
    ELSE IF s.n >= BaselineMax
         THEN [s EXCEPT !.t0 = s.tMid, !.n = BaselineMax - Half]
         ELSE s

\* Mutation: a full baseline is never rolled.
SchedRoll_Never(s) == s

SchedRoll(s) ==
    IF s.n = Half THEN [s EXCEPT !.tMid = s.tLast, !.fcMid = s.fcLast]
    ELSE IF s.n >= BaselineMax
         THEN [s EXCEPT !.t0 = s.tMid, !.fc0 = s.fcMid,
                        !.n = BaselineMax - Half]
         ELSE s

\* beacon_sched_observe()
SchedObserve(s, t, fc) ==
    LET seen == [s EXCEPT !.misses = 0, !.haveRef = TRUE]
        dt == SinceMs(t, s.t0)
        dfc == SinceSf(fc, s.fc0)
        p == ((dt * Q) \div dfc) % PeriodMod
    IN IF s.n = 0 \/ dfc <= 0 \/ dt <= 0 THEN SchedSeed(seen, t, fc)
       ELSE IF ~PeriodSane(p) THEN SchedSeed(seen, t, fc)
       ELSE SchedRoll([seen EXCEPT !.period = p, !.tLast = t, !.fcLast = fc,
                                   !.n = Smaller(s.n + 1, BaselineMax)])

\* beacon_sched_miss(): the phase is gone, the baseline stays.
SchedMiss(s) == [s EXCEPT !.misses = Smaller(@ + 1, 255), !.haveRef = FALSE]

\* beacon_sched_baseline_sf(): as unsigned, a baseline across a restart of the
\* gateway can be nearly FcMod long.
BaselineSf(s) == IF s.n < 2 THEN 0 ELSE (s.fcLast - s.fc0) % FcMod

\* beacon_sched_plan(): the ladder of misses, then a window that covers the
\* drift of the clocks and the error of the estimate over the skip.
PlannedSkip(s, skip) ==
    LET k == Larger(skip, 1)
    IN CASE s.misses = 0 -> k
         [] s.misses = 1 -> Larger(k \div 2, 1)
         [] OTHER -> 1

\* Mutation: the window covers only the drift.
PlannedWindow_DriftOnly(s, skip) ==
    LET eff == PlannedSkip(s, skip)
        drift == (2 * eff * (s.period \div Q) * PpmTotal) \div 1000
    IN Larger(((drift + 999) \div 1000) + MarginMs, WindowMinMs)

PlannedWindow(s, skip) ==
    LET eff == PlannedSkip(s, skip)
        full == NominalMs + MarginMs
        drift == (2 * eff * (s.period \div Q) * PpmTotal) \div 1000
        error == (2 * eff * (JitterUs + QuantUs)) \div Larger(BaselineSf(s), 1)
        ms == ((drift + error + 999) \div 1000) + MarginMs
        widened == IF s.misses = 1 THEN 2 * ms ELSE ms
    IN IF s.misses >= 2 THEN full
       ELSE Smaller(Larger(widened, WindowMinMs), full)

SchedPlan(s, skip) ==
    LET eff == PlannedSkip(s, skip)
        window == PlannedWindow(s, skip)
    IN [arm |-> (s.tLast + (eff * s.period) \div Q - window \div 2) % TimeMod,
        window |-> window, eff |-> eff]

-----------------------------------------------------------------------------
(* beacon_track_core.c *)

TrackReset == [est |-> NominalMs, last |-> 0, haveLast |-> FALSE,
               warmup |-> 0, tracking |-> FALSE]

\* C's division truncates towards zero; a nonzero error always moves by one.
Correction(err) ==
    LET q == IF err >= 0 THEN err \div EmaStep ELSE -((-err) \div EmaStep)
    IN IF q # 0 \/ err = 0 THEN q ELSE IF err > 0 THEN 1 ELSE -1

\* beacon_track_beacon()
TrackBeacon(b, t) ==
    LET err == SinceMs(t, b.last) - b.est
        count == Smaller(b.warmup + 1, WarmupN)
    IN [est |-> IF b.haveLast THEN b.est + Correction(err) ELSE b.est,
        last |-> t, haveLast |-> TRUE, warmup |-> count,
        tracking |-> b.tracking \/ count >= WarmupN]

\* Mutation: a miss counts from the start again but keeps the lock.
TrackMiss_KeepsLock(b) == [b EXCEPT !.warmup = 0]

\* beacon_track_miss(): the average is kept.
TrackMiss(b) == [b EXCEPT !.tracking = FALSE, !.warmup = 0, !.haveLast = FALSE]

\* beacon_track_plan()
TrackNarrow(b) == b.tracking /\ b.haveLast
TrackPlan(b) == [arm |-> (b.last + b.est - GuardMs) % TimeMod,
                 window |-> 2 * GuardMs, eff |-> 1]
=============================================================================
