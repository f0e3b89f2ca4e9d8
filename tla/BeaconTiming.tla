----------------------------- MODULE BeaconTiming -----------------------------
(***************************************************************************)
(* The runner's listening (src/src/uwb_net_runner.c, step 2 of its loop)   *)
(* against a gateway whose beacons come with a true period, jitter, losses *)
(* and restarts.  True time is in microseconds since the tag's clock read  *)
(* ClockStart; the tag reads whole milliseconds of a clock that wraps.     *)
(***************************************************************************)
EXTENDS BeaconSched

CONSTANTS PeriodsUs,    \* true superframe periods of the gateway
          PhasesUs,     \* times of its first beacon
          Jitters,      \* deviations of an arrival, microseconds
          Skips,        \* listen_skip of the tiers
          Wakes,        \* when a wide window opens, after the last one
          FirstFcs,     \* frame counters at the start
          ClockStart,   \* the tag's clock at the start
          WakeGuardMs,  \* DW_WAKE_GUARD_MS
          WakeMs,       \* what dw_wake() takes of it
          BeaconMs,     \* T_BEACON_MS
          MaxSf,        \* bound: superframes from one boot of the tag
          MaxRestarts   \* bound: restarts of the gateway, likewise

\* Crystals keep the period near the nominal one, and it is longer than the
\* jitter; an arrival is off by the jitter the code allows for, and a reading of
\* the clock by less than a millisecond.  The radio wakes within the guard, and
\* a skip is short against a lap of the clock.
ASSUME TimingAssumption ==
    /\ PeriodsUs \subseteq Nat
    /\ \A p \in PeriodsUs : /\ 2 * JitterUs < p
                            /\ 2 * (p + 2 * JitterUs + 1000) <= 3000 * NominalMs
    /\ PhasesUs \subseteq Nat
    /\ Jitters \subseteq (-JitterUs)..JitterUs
    /\ QuantUs >= 1000 /\ Q >= 1000
    /\ FirstFcs \subseteq 0..(FcMod - 1)
    /\ Skips \subseteq Nat
    /\ Wakes \subseteq Nat
    /\ {ClockStart, WakeGuardMs, WakeMs, BeaconMs, MaxSf, MaxRestarts} \subseteq Nat
    /\ 2 * MaxSf <= FcMod
    /\ WakeMs < WakeGuardMs
    /\ \A s \in Skips : 2 * ((2 * s + 3) * NominalMs + MarginMs) < TimeMod

VARIABLES sched,    \* struct beacon_sched
          bt,       \* struct beacon_track
          now,      \* true time, when the last listening ended
          period,   \* the gateway's period
          next,     \* its next beacon: [us, fc], jitter not counted
          sf,       \* superframes gone by
          restarts, \* restarts of the gateway
          oneEpoch  \* the baseline has seen no restart of the gateway

timingVars == <<sched, bt, now, period, next, sf, restarts, oneEpoch>>

ClockMs(us) == (ClockStart + us \div 1000) % TimeMod

TimingTypeOK == /\ sched.n \in 0..(BaselineMax - 1)
                /\ sched.misses \in 0..255
                /\ PeriodSane(sched.period)
                /\ {sched.fc0, sched.fcMid, sched.fcLast, next.fc}
                      \subseteq 0..(FcMod - 1)
                /\ {sched.t0, sched.tMid, sched.tLast, bt.last}
                      \subseteq 0..(TimeMod - 1)
                /\ bt.warmup \in 0..WarmupN
                /\ {bt.tracking, bt.haveLast, sched.haveRef, oneEpoch}
                      \subseteq BOOLEAN

TimingInit == /\ sched = SchedReset
              /\ bt = TrackReset
              /\ now = 0
              /\ period \in PeriodsUs
              /\ \E us \in PhasesUs, fc \in FirstFcs : next = [us |-> us, fc |-> fc]
              /\ sf = 0
              /\ restarts = 0
              /\ oneEpoch = TRUE

-----------------------------------------------------------------------------
\* The runner's choice between the two plans.
Aim(skip) == IF sched.haveRef THEN SchedPlan(sched, skip) ELSE TrackPlan(bt)

\* A window in true time.  The receiver is on once the radio has woken, which
\* is before arm; the loop gives up when the clock reaches the deadline.
FullWindow(wake) ==
    LET opens == now + wake
    IN [from |-> opens,
        to |-> opens - (opens % 1000) + 1000 * (NominalMs + BeaconMs), eff |-> 1]
TrueTime(ms) == now + 1000 * SinceMs(ms, ClockMs(now)) - (now % 1000)
NarrowWindow(skip) ==
    LET plan == Aim(skip)
    IN [from |-> Larger(now, TrueTime(plan.arm)
                               - 1000 * (WakeGuardMs - WakeMs)),
        to |-> TrueTime(plan.arm + plan.window), eff |-> plan.eff]

\* wide: a wake request or a scan; the window is a full superframe then, and
\* opens where the request cuts the sleep short, in the middle of a skip too.
Window(wide, skip, wake) ==
    IF wide \/ ~TrackNarrow(bt) THEN FullWindow(wake) ELSE NarrowWindow(skip)

\* Beacons that come before a window opens.
Before(us, j) == Larger(0, -((next.us + j - us) \div period))
Later(k) == [us |-> next.us + k * period, fc |-> (next.fc + k) % FcMod]

BeaconListen(wide, skip, wake, j, lost) ==
    LET w == Window(wide, skip, wake)
        k == Before(w.from, j)
        at == Later(k).us + j
        inside == at < w.to
        passed == IF inside THEN k + 1 ELSE k
        heard == inside /\ ~lost
    IN /\ TrackNarrow(bt) => w.from <= NarrowWindow(skip).from
       /\ sf + passed <= MaxSf
       /\ sf' = sf + passed
       /\ next' = Later(passed)
       /\ IF heard
          THEN /\ now' = at
               /\ sched' = SchedObserve(sched, ClockMs(at), Later(k).fc)
               /\ bt' = IF w.eff <= 1 THEN TrackBeacon(bt, ClockMs(at)) ELSE bt
               /\ oneEpoch' = (oneEpoch \/ sched'.n = 1)
          ELSE /\ now' = Larger(now, w.to)
               /\ sched' = SchedMiss(sched)
               /\ bt' = TrackMiss(bt)
               /\ UNCHANGED oneEpoch
       /\ UNCHANGED <<period, restarts>>

\* The radio was lent: both predictors start again.
Handover ==
    /\ sched.n > 0
    /\ sched' = SchedReset
    /\ bt' = TrackReset
    /\ oneEpoch' = TRUE
    /\ UNCHANGED <<now, period, next, sf, restarts>>

\* The gateway restarts: its counter from zero, its beacons at another phase.
GatewayRestarts ==
    /\ restarts < MaxRestarts
    /\ restarts' = restarts + 1
    /\ next' = [us |-> next.us + period \div 3, fc |-> 0]
    /\ oneEpoch' = (sched.n = 0)
    /\ UNCHANGED <<sched, bt, now, period, sf>>

\* The tag is reset.
TagReset == /\ sf > 0
            /\ sched' = SchedReset
            /\ bt' = TrackReset
            /\ now' = 0
            /\ UNCHANGED period
            /\ \E us \in PhasesUs, fc \in FirstFcs : next' = [us |-> us, fc |-> fc]
            /\ sf' = 0
            /\ restarts' = 0
            /\ oneEpoch' = TRUE

TimingNext == \/ \E wide, lost \in BOOLEAN, skip \in Skips, wake \in Wakes,
                    j \in Jitters : BeaconListen(wide, skip, wake, j, lost)
              \/ Handover
              \/ GatewayRestarts
              \/ TagReset

TimingSpec == TimingInit /\ [][TimingNext]_timingVars

-----------------------------------------------------------------------------
(* Properties *)

Abs(x) == IF x < 0 THEN -x ELSE x

\* The point of the module (beacon_sched_core.h): the error of the estimate is
\* the uncertainty of the two endpoints over the length of the baseline, across
\* skips, misses, wraps and rolls.
EstimateBound ==
    oneEpoch /\ sched.n >= 2
        => Abs(1000 * sched.period - period * Q)
              <= ((QuantUs + 2 * JitterUs) * Q) \div BaselineSf(sched) + 1000

\* A narrow window is aimed by the long baseline only: the moving average, which
\* a forced window after a skip poisons, never gets to aim one, and no window is
\* planned from a phase that a miss has invalidated.
AimedByBaseline ==
    TrackNarrow(bt) => sched.haveRef /\ sched.misses = 0 /\ sched.n >= 1

\* What a narrow window may be aimed by, and how good that is.
AimSound == TimingTypeOK /\ EstimateBound /\ AimedByBaseline

\* What the plan truncates to whole milliseconds: its phase reference, which is
\* the last arrival, and its prediction.
Truncated(eff) == (now % 1000) + (1000 * ((eff * sched.period) % Q)) \div Q

Reaches(skip, j) == LET w == NarrowWindow(skip)
                        at == Later(w.eff - 1).us + j
                    IN w.from <= at /\ at <= w.to + Truncated(w.eff)

\* The margin has room for what the error of the estimate leaves out: it counts
\* the jitter of one endpoint of the two, and none of the beacon aimed at.  At the
\* code's constants a baseline of a fifth of the skip is long enough.
MarginCovers(skip) ==
    LET eff == PlannedSkip(sched, skip)
        span == BaselineSf(sched)
    IN /\ (eff + 2 * span) * JitterUs + (eff + 2) * span <= 500 * MarginMs * span
       /\ PlannedWindow(sched, skip) < NominalMs + MarginMs

\* A narrow window reaches the beacon it is aimed at, whatever the skip, the
\* jitter and the phase, where the margin covers the rest of the error; a
\* beacon the truncation puts late is the only one that falls behind it.
WindowReaches ==
    oneEpoch /\ sched.n >= 2 /\ TrackNarrow(bt) =>
        \A skip \in Skips, j \in Jitters : MarginCovers(skip) => Reaches(skip, j)
=============================================================================
