---------------------------- MODULE CalImage_proofs ----------------------------
(***************************************************************************)
(* What an operator of the calibration image may rely on, for every        *)
(* antenna, every scatter of the samples and every pair of delays: flash,  *)
(* RAM, verdict and radio agree, wherever the three threads interleave.    *)
(***************************************************************************)
EXTENDS CalImage, TLAPS

Quiet == run # "activating" /\ ~clearing

\* A clear that no store fell into has emptied the flash, and a store that no
\* clear fell into has its total there.
HalfWay == ~crossed =>
             /\ clearing => nvs = None /\ run # "activating"
             /\ run = "activating" => nvs = total
             /\ Quiet => active = Loaded

\* The verdict is ahead of the record only while the record is being written.
OkAhead == last = "ok" /\ run # "storing" /\ ~cleared => Loaded # None

\* The flag covers the run but for the moment after the queue.
BusyCovers == run \notin {"idle", "taken"} => busy

\* Who holds the radio, and what the registers hold while nobody does.
RadioHeld ==
    /\ holder = "calrun" <=> run \in {"sampling", "storing", "activating", "releasing"}
    /\ holder = "caldiag" => diag # "idle"
    /\ holder = "nobody" => dly \in {Calibrated, Unset} \/ stale

IInv == /\ TypeOK
        /\ HalfWay
        /\ OkAhead
        /\ BusyCovers /\ OneRun
        /\ RadioHeld /\ ProbeHonest

-----------------------------------------------------------------------------
(* The arithmetic.                                                         *)

LEMMA Numbers == /\ MaxTotalDly \in Nat /\ MaxStepUnits \in Nat
                 /\ MmPerUnitX1000 \in Nat \ {0}
BY SMT DEF MaxTotalDly, MaxStepUnits, MmPerUnitX1000

LEMMA ClampRange ==
  ASSUME NEW n, NEW lo \in Int, NEW hi \in Int, lo <= hi
  PROVE  Clamp(n, lo, hi) \in lo..hi
BY DEF Clamp

\* Clamping moves a number towards the range and past nothing in it.
LEMMA ClampOrder ==
  ASSUME NEW n \in Int, NEW lo \in Int, NEW hi \in Int, NEW z \in Int,
         lo <= z, z <= hi
  PROVE  /\ n >= z => z <= Clamp(n, lo, hi) /\ Clamp(n, lo, hi) <= n
         /\ n <= z => n <= Clamp(n, lo, hi) /\ Clamp(n, lo, hi) <= z
<1> DEFINE c == Clamp(n, lo, hi)
<1>1. CASE n \in lo..hi
  <2>1. c = n BY <1>1 DEF Clamp
  <2>2. QED BY <2>1
<1>2. CASE n < lo
  <2>1. c = lo BY <1>2 DEF Clamp
  <2>2. QED BY <1>2, <2>1
<1>3. CASE n > hi
  <2>1. c = hi BY <1>3 DEF Clamp
  <2>2. QED BY <1>3, <2>1
<1>4. QED BY <1>1, <1>2, <1>3

LEMMA DivRoundSign ==
  ASSUME NEW n \in Int, NEW d \in Nat \ {0}
  PROVE  /\ DivRound(n, d) \in Int
         /\ n >= 0 => DivRound(n, d) >= 0
         /\ n <= 0 => DivRound(n, d) <= 0
<1>1. d \div 2 \in Nat OBVIOUS
<1>2. \A m \in Nat : (m + d \div 2) \div d \in Nat
  BY <1>1
<1>3. CASE n > 0
  <2>1. DivRound(n, d) = (n + d \div 2) \div d BY <1>3 DEF DivRound
  <2>2. QED BY <1>2, <1>3, <2>1
<1>4. CASE n < 0
  <2>1. DivRound(n, d) = -(((-n) + d \div 2) \div d) BY <1>4 DEF DivRound
  <2>2. ((-n) + d \div 2) \div d \in Nat BY <1>2, <1>4
  <2>3. QED BY <1>4, <2>1, <2>2
<1>5. CASE n = 0
  <2>1. DivRound(0, d) = (d \div 2) \div d BY DEF DivRound
  <2>2. d \div 2 < d /\ d \div 2 >= 0 OBVIOUS
  <2>3. (d \div 2) \div d = 0 BY <1>1, <2>2
  <2>4. QED BY <1>5, <2>1, <2>3
<1>6. QED BY <1>3, <1>4, <1>5

\* Whatever distance is measured, the correction of cal_solve_step() stays among
\* the delays, turns the way the error asks for and is no longer than the cap.
THEOREM CorrectionBounded ==
  ASSUME NEW measured \in Int, NEW ref \in Int, NEW t \in Delay
  PROVE  LET new == SolveStep(measured, ref, t)
         IN /\ new \in Delay
            /\ Magnitude(new - t) <= MaxStepUnits
            /\ measured >= ref => new >= t
            /\ measured <= ref => new <= t
<1>1. PICK err \in Int : err = (measured - ref) * 1000
  OBVIOUS
<1>2. PICK delta \in Int : delta = DivRound(err, MmPerUnitX1000)
  BY Numbers, DivRoundSign
<1>3. PICK cap \in Nat : cap = MaxStepUnits
  BY Numbers
<1>4. PICK step \in (-cap)..cap : step = Clamp(delta, -cap, cap)
  BY <1>3, ClampRange
<1>5. PICK top \in Nat : top = MaxTotalDly
  BY Numbers
<1>6. t \in 0..top
  BY <1>5 DEF Delay
<1>7. PICK new \in 0..top : new = Clamp(t + step, 0, top)
  BY <1>5, ClampRange
<1>8. SolveStep(measured, ref, t) = new
  BY <1>1, <1>2, <1>3, <1>4, <1>5, <1>7 DEF SolveStep
<1>9. /\ measured >= ref => delta >= 0
      /\ measured <= ref => delta <= 0
  <2>1. (measured >= ref => err >= 0) /\ (measured <= ref => err <= 0)
    BY <1>1
  <2>2. QED BY <1>2, <2>1, Numbers, DivRoundSign
<1>10. (delta >= 0 => step >= 0) /\ (delta <= 0 => step <= 0)
  <2>1. -cap <= 0 /\ 0 <= cap OBVIOUS
  <2>2. QED BY <1>4, <2>1, ClampOrder
<1>11. /\ step >= 0 => t <= new /\ new <= t + step
       /\ step <= 0 => t + step <= new /\ new <= t
  <2>1. /\ t + step >= t => t <= new /\ new <= t + step
        /\ t + step <= t => t + step <= new /\ new <= t
    BY <1>6, <1>7, ClampOrder
  <2>2. QED BY <1>6, <2>1
<1>12. Magnitude(new - t) <= cap
  BY <1>4, <1>6, <1>11 DEF Magnitude
<1>13. /\ measured >= ref => new >= t
       /\ measured <= ref => new <= t
  BY <1>9, <1>10, <1>11
<1>14. new \in Delay BY <1>5, <1>7 DEF Delay
<1>15. QED BY <1>3, <1>8, <1>12, <1>13, <1>14

LEMMA ResultRange ==
  ASSUME NEW s, NEW t \in Delay
  PROVE  IterationResult(s, Ref, t).total \in Delay
<1>1. ASSUME NEW m PROVE SolveStep(m, Ref, t) \in Delay
  <2> DEFINE n == t + Clamp(DivRound((m - Ref) * 1000, MmPerUnitX1000),
                            -MaxStepUnits, MaxStepUnits)
  <2>1. SolveStep(m, Ref, t) = Clamp(n, 0, MaxTotalDly) BY DEF SolveStep
  <2> HIDE DEF n
  <2>2. MaxTotalDly \in Int /\ 0 <= MaxTotalDly
    BY Numbers
  <2>3. Clamp(n, 0, MaxTotalDly) \in 0..MaxTotalDly
    BY <2>2, ClampRange
  <2>4. QED BY <2>1, <2>3 DEF Delay
<1>2. QED BY <1>1 DEF IterationResult

LEMMA SplitSum ==
  ASSUME NEW t \in Delay
  PROVE  SplitDly(t).tx + SplitDly(t).rx = t
BY Numbers DEF SplitDly, Delay

-----------------------------------------------------------------------------
LEMMA InitIInv == Init => IInv
<1> SUFFICES ASSUME Init PROVE IInv
  OBVIOUS
<1> USE DEF Init
<1>1. TypeOK
  <2>1. <<>> \in Seq(Kind) /\ Len(<<>>) <= DiagDepth
    BY ImageAssumption
  <2>2. 0 \in 0..(MaxIters - 1) /\ Default \in Delay
    BY ImageAssumption DEF MaxIters, Delay
  <2>3. /\ active = None /\ provisional = None /\ nvs \in {None, Foreign}
        /\ active # Foreign /\ provisional # Foreign
    BY ImageAssumption
  <2>4. QED BY <2>1, <2>2, <2>3 DEF TypeOK
<1>2. HalfWay /\ OkAhead
  BY DEF HalfWay, OkAhead, Loaded
<1>3. BusyCovers /\ OneRun BY DEF BusyCovers, OneRun
<1>4. RadioHeld /\ ProbeHonest BY DEF RadioHeld, ProbeHonest
<1>5. QED BY <1>1, <1>2, <1>3, <1>4 DEF IInv

LEMMA CalibratedDelay == ASSUME TypeOK PROVE Calibrated \in Delay
BY ImageAssumption DEF TypeOK, Calibrated, Delay

-----------------------------------------------------------------------------
(* The BLE thread                                                          *)

LEMMA CommandStep == ASSUME IInv, Commands PROVE IInv'
<1> USE DEF IInv, HalfWay, OkAhead, BusyCovers, OneRun, RadioHeld, ProbeHonest,
            Quiet, Loaded, Calibrated, records, attempt, shown, runner, probing, radio
<1>1. CASE CalCommand
  <2>1. TypeOK'
    BY <1>1 DEF CalCommand, Verdict, LedOn, Failures, TypeOK
  <2>2. QED BY <1>1, <2>1 DEF CalCommand, Free, Verdict
<1>2. CASE ClearFlash
  <2>1. TypeOK' BY <1>2 DEF ClearFlash, TypeOK
  <2>2. QED BY <1>2, <2>1 DEF ClearFlash
<1>3. CASE ClearRam
  <2>1. TypeOK'
    <3>1. 0 \in 0..(MaxIters - 1) /\ None # Foreign
      BY ImageAssumption DEF MaxIters
    <3>2. /\ clearing' = FALSE /\ active' = None /\ provisional' = None /\ pass' = 0
          /\ cleared' = TRUE /\ stale' = TRUE
          /\ UNCHANGED <<nvs, crossed, runner, probing, holder, dly, last, led>>
      BY <1>3 DEF ClearRam
    <3>3. \A d \in {nvs', active', provisional'} : d \in {None, Foreign} \/ d \in Delay
      BY <3>2 DEF TypeOK
    <3>4. /\ active' # Foreign /\ provisional' # Foreign /\ pass' \in 0..(MaxIters - 1)
          /\ {clearing', cleared', stale'} \subseteq BOOLEAN
      BY <3>1, <3>2
    <3>5. QED BY <3>2, <3>3, <3>4 DEF TypeOK
  <2>2. /\ clearing /\ ~clearing' /\ active' = None /\ cleared' /\ stale'
        /\ UNCHANGED <<nvs, crossed, runner, probing, holder, dly, last>>
    BY <1>3 DEF ClearRam
  <2>3. HalfWay' BY <2>2, ImageAssumption
  <2>4. OkAhead' /\ BusyCovers' /\ OneRun' BY <2>2
  <2>5. RadioHeld' /\ ProbeHonest' BY <2>2
  <2>6. QED BY <2>1, <2>3, <2>4, <2>5
<1>4. ASSUME NEW k \in Kind, DiagCommand(k) PROVE IInv'
  <2>1. diagq' \in Seq(Kind) /\ Len(diagq') <= DiagDepth
    BY <1>4, ImageAssumption DEF DiagCommand, TypeOK
  <2>2. TypeOK' BY <1>4, <2>1 DEF DiagCommand, TypeOK
  <2>3. QED BY <1>4, <2>2 DEF DiagCommand
<1>5. QED BY <1>1, <1>2, <1>3, <1>4 DEF Commands

-----------------------------------------------------------------------------
(* The thread of the run                                                   *)

LEMMA ClaimStep == ASSUME IInv, Claim PROVE IInv'
<1> USE DEF IInv, HalfWay, OkAhead, BusyCovers, OneRun, RadioHeld, ProbeHonest,
            Quiet, Loaded, records, attempt, probing
<1>1. CASE holder = "nobody"
  <2>1. Seed \in Delay
    <3>1. provisional = None \/ provisional \in Delay BY DEF TypeOK
    <3>2. QED BY <3>1, CalibratedDelay DEF Seed
  <2>2. /\ holder' = "calrun" /\ total' = Seed /\ run' = "sampling"
        /\ dly' = Seed
        /\ run = "claim" /\ UNCHANGED <<last, led>>
    BY <1>1, <2>1, SplitSum DEF Claim
  <2>3. UNCHANGED <<truth, records, attempt, cleared, request, busy, doubled,
                    clearing, probing, stale>>
    BY DEF Claim
  <2>4. TypeOK' BY <2>1, <2>2, <2>3 DEF TypeOK
  <2>5. QED BY <1>1, <2>2, <2>3, <2>4
<1>2. CASE holder # "nobody"
  <2>1. /\ last' = "busy" /\ led' = "red" /\ run' = "done" /\ run = "claim"
        /\ UNCHANGED <<holder, total, dly>>
        /\ UNCHANGED <<truth, records, attempt, cleared, request, busy, doubled,
                       clearing, probing, stale>>
    BY <1>2 DEF Claim, Verdict, LedOn, Failures
  <2>2. TypeOK' BY <2>1 DEF TypeOK
  <2>3. QED BY <1>2, <2>1, <2>2 DEF Calibrated
<1>3. QED BY <1>1, <1>2

LEMMA JudgeStep ==
  ASSUME IInv, NEW errs \in Scatter, Judge(errs)
  PROVE  IInv'
<1> USE DEF IInv, HalfWay, OkAhead, BusyCovers, OneRun, RadioHeld, ProbeHonest,
            Quiet, Loaded, Calibrated, records, probing, radio
<1> DEFINE r == IterationResult(Measured(errs), Ref, total)
<1>1. r.total \in Delay BY ResultRange DEF TypeOK
<1> HIDE DEF r
<1>2. /\ run = "sampling"
      /\ \/ /\ last' = "no-resp" /\ led' = "red" /\ run' = "releasing"
            /\ UNCHANGED <<provisional, pass>>
         \/ /\ last' = "ok" /\ led' = "green" /\ run' = "storing"
            /\ provisional' = None /\ pass' = 0
         \/ /\ last' = "res" /\ led' = "red" /\ run' = "releasing"
            /\ provisional' = None /\ pass' = 0
         \/ /\ last' = "again" /\ led' = led /\ run' = "releasing"
            /\ ~(pass + 1 >= MaxIters)
            /\ provisional' = r.total /\ pass' = pass + 1
  BY DEF Judge, Verdict, LedOn, Failures, r
<1>3. UNCHANGED <<truth, records, cleared, request, busy, total, doubled,
                  clearing, probing, radio>>
  BY DEF Judge
<1>4. /\ provisional' = None \/ provisional' \in Delay
      /\ provisional' # Foreign
      /\ pass' \in 0..(MaxIters - 1)
      /\ last' \in {"none", "running", "again", "ok", "no-resp", "res", "nvs", "busy"}
      /\ led' \in {"amber", "dim", "blue", "green", "red"}
      /\ run' \in {"releasing", "storing"}
  <2>2. r.total # Foreign BY <1>1, ImageAssumption DEF Delay
  <2>3. /\ pass \in 0..3 /\ ~(pass + 1 >= 4) => pass + 1 \in 0..3
        /\ 0 \in 0..3
    OBVIOUS
  <2>4. pass' \in 0..(MaxIters - 1) BY <1>2, <2>3 DEF TypeOK, MaxIters
  <2>5. provisional' = None \/ provisional' \in Delay
    BY <1>1, <1>2 DEF TypeOK
  <2>6. provisional' # Foreign
    BY <1>2, <2>2, ImageAssumption DEF TypeOK
  <2>7. QED BY <1>2, <2>4, <2>5, <2>6 DEF TypeOK
<1>5. TypeOK' BY <1>3, <1>4 DEF TypeOK
<1>6. QED BY <1>2, <1>3, <1>4, <1>5

LEMMA RunStep ==
  ASSUME IInv,
         \/ Take \/ SetBusy \/ StoreFails \/ StoreFlash \/ Activate \/ Release \/ Done
  PROVE  IInv'
<1> USE DEF IInv, HalfWay, OkAhead, BusyCovers, OneRun, RadioHeld, ProbeHonest,
            Quiet, Loaded, Calibrated, records, attempt, shown, probing, radio
<1>1. CASE Take
  <2>1. TypeOK' BY <1>1 DEF Take, TypeOK
  <2>2. QED BY <1>1, <2>1 DEF Take
<1>2. CASE SetBusy
  <2>1. TypeOK' BY <1>2 DEF SetBusy, TypeOK
  <2>2. QED BY <1>2, <2>1 DEF SetBusy
<1>3. CASE StoreFails
  <2>1. TypeOK' BY <1>3 DEF StoreFails, Verdict, LedOn, Failures, TypeOK
  <2>2. QED BY <1>3, <2>1 DEF StoreFails, Verdict
<1>4. CASE StoreFlash
  <2>1. TypeOK' BY <1>4 DEF StoreFlash, TypeOK
  <2>2. total # None /\ total # Foreign BY ImageAssumption DEF TypeOK, Delay
  <2>3. QED BY <1>4, <2>1, <2>2 DEF StoreFlash
<1>5. CASE Activate
  <2>1. total # None /\ total # Foreign BY ImageAssumption DEF TypeOK, Delay
  <2>2. TypeOK' BY <1>5, <2>1 DEF Activate, TypeOK
  <2>3. QED BY <1>5, <2>1, <2>2 DEF Activate
<1>6. CASE Release
  <2>1. TypeOK' BY <1>6, CalibratedDelay DEF Release, Restored, TypeOK
  <2>2. QED BY <1>6, <2>1 DEF Release, Restored
<1>7. CASE Done
  <2>1. TypeOK' BY <1>7 DEF Done, TypeOK
  <2>2. QED BY <1>7, <2>1 DEF Done
<1>8. QED BY <1>1, <1>2, <1>3, <1>4, <1>5, <1>6, <1>7

-----------------------------------------------------------------------------
(* The thread of the diagnostics, and the loss of power                    *)

LEMMA DiagStep == ASSUME IInv, CalDiag PROVE IInv'
<1> USE DEF IInv, HalfWay, OkAhead, BusyCovers, OneRun, RadioHeld, ProbeHonest,
            Quiet, Loaded, Calibrated, records, attempt, shown, runner
<1>1. CASE DiagTake
  <2>1. /\ diag' \in Kind /\ diagq' \in Seq(Kind) /\ Len(diagq') <= DiagDepth
    BY <1>1, ImageAssumption DEF DiagTake, TypeOK
  <2>2. TypeOK' BY <1>1, <2>1 DEF DiagTake, TypeOK, radio
  <2>3. QED BY <1>1, <2>2 DEF DiagTake, radio
<1>2. CASE DiagClaim
  <2>1. TypeOK' BY <1>2, ImageAssumption DEF DiagClaim, TypeOK, Delay
  <2>2. QED BY <1>2, <2>1 DEF DiagClaim, TypeOK
<1>3. CASE DiagRelease
  <2>1. TypeOK' BY <1>3, CalibratedDelay DEF DiagRelease, Restored, TypeOK
  <2>2. QED BY <1>3, <2>1 DEF DiagRelease, Restored
<1>4. QED BY <1>1, <1>2, <1>3 DEF CalDiag

LEMMA ResetStep == ASSUME IInv, Reset PROVE IInv'
<1> USE DEF Reset, IInv
<1>1. Loaded # Foreign /\ (Loaded = None \/ Loaded \in Delay)
  BY ImageAssumption DEF Loaded, TypeOK, Delay
<1>2. TypeOK'
  <2>1. <<>> \in Seq(Kind) /\ Len(<<>>) <= DiagDepth
    BY ImageAssumption
  <2>2. 0 \in 0..(MaxIters - 1) BY DEF MaxIters
  <2>3. LedAtBoot \in {"amber", "dim"} BY DEF LedAtBoot
  <2>4. dly' = Unset \/ dly' \in Delay BY <1>1
  <2>5. QED BY <1>1, <2>1, <2>2, <2>3, <2>4, ImageAssumption DEF TypeOK, Delay
<1>3. Loaded' = Loaded BY DEF Loaded
<1>4. HalfWay' BY <1>3 DEF HalfWay
<1>5. OkAhead' /\ BusyCovers' /\ OneRun' /\ ProbeHonest'
  BY DEF OkAhead, BusyCovers, OneRun, ProbeHonest
<1>6. RadioHeld' BY DEF RadioHeld, Calibrated
<1>7. QED BY <1>2, <1>4, <1>5, <1>6

-----------------------------------------------------------------------------
\* The invariant the theorems rest on holds throughout.
THEOREM Inductive == Spec => []IInv
<1>1. Init => IInv BY InitIInv
<1>2. ASSUME IInv, [Next]_vars PROVE IInv'
  <2>1. CASE UNCHANGED vars
    BY <1>2, <2>1 DEF IInv, TypeOK, HalfWay, OkAhead, BusyCovers, OneRun, RadioHeld,
       ProbeHonest, Quiet, Loaded, Calibrated, vars, records, attempt, shown, runner,
       probing, radio
  <2>2. CASE Next
    BY <1>2, <2>2, CommandStep, ClaimStep, JudgeStep, RunStep, DiagStep, ResetStep
       DEF Next, CalRun
  <2>3. QED BY <1>2, <2>1, <2>2
<1>3. QED BY <1>1, <1>2, PTL DEF Spec

\* Between two operations the calibration in RAM is the record in flash, a verdict
\* "ok" that stands has its record and runs do not overlap, but for the crossings
\* the model names.
THEOREM BenchIsSound == Spec => []BenchSound
<1>1. IInv => BenchSound
  BY DEF IInv, BenchSound, RamIsFlash, OkIsStored, HalfWay, Quiet, OkAhead
<1>2. QED BY <1>1, Inductive, PTL

\* A probe measures with the calibration in use, whoever had the radio before.
THEOREM ProbeIsHonest == Spec => []ProbeHonest
<1>1. IInv => ProbeHonest BY DEF IInv
<1>2. QED BY <1>1, Inductive, PTL
=============================================================================
