------------------------------- MODULE CalMath -------------------------------
(***************************************************************************)
(* The arithmetic of a calibration: src/src/cal_math.c and                 *)
(* src/src/cal_run_math.c, in millimetres and in units of antenna delay.   *)
(* The distances stay far below the 2.1 km at which err_mm * 1000 leaves   *)
(* an int32_t.                                                             *)
(***************************************************************************)
EXTENDS Integers, Sequences, SequencesExt

CONSTANT SamplesPerIter    \* CAL_SAMPLES_PER_ITER

ASSUME SamplesAssumption == SamplesPerIter \in Nat \ {0}

MmPerUnitX1000 == 2340
MaxStepUnits == 2000
MaxTotalDly == 65000
AcceptMm == 15

Magnitude(n) == IF n < 0 THEN -n ELSE n

\* C's division by a positive number: towards zero.
Quotient(n, d) == IF n >= 0 THEN n \div d ELSE -((-n) \div d)

\* div_round_pos()
DivRound(n, d) == IF n >= 0 THEN (n + d \div 2) \div d
                  ELSE -(((-n) + d \div 2) \div d)

Clamp(n, lo, hi) == IF n \in lo..hi THEN n ELSE IF n < lo THEN lo ELSE hi

\* Mutation: too far away is corrected by less delay.
SolveStep_Sign(measured, ref, total) ==
    LET delta == DivRound((ref - measured) * 1000, MmPerUnitX1000)
    IN Clamp(total + Clamp(delta, -MaxStepUnits, MaxStepUnits), 0, MaxTotalDly)

\* cal_solve_step()
SolveStep(measured, ref, total) ==
    LET delta == DivRound((measured - ref) * 1000, MmPerUnitX1000)
    IN Clamp(total + Clamp(delta, -MaxStepUnits, MaxStepUnits), 0, MaxTotalDly)

\* cal_split_dly()
SplitDly(total) == [tx |-> total \div 2, rx |-> total - total \div 2]

\* median_sorted() of a sorted copy: the upper middle.
Median(s) == SortSeq(s, <)[Len(s) \div 2 + 1]

\* cal_filtered_mean(): what lies within six median deviations.
Kept(s) ==
    LET med == Median(s)
        mad == Median([i \in DOMAIN s |-> Magnitude(s[i] - med)])
        limit == 6 * (IF mad < 1 THEN 1 ELSE mad)
    IN SelectSeq(s, LAMBDA x : Magnitude(x - med) <= limit)

FilteredMean(s) == Quotient(FoldSeq(+, 0, Kept(s)), Len(Kept(s)))

\* cal_run_iteration_result()
IterationResult(s, ref, total) ==
    IF Len(s) < SamplesPerIter \div 4 \/ s = <<>>
    THEN [verdict |-> "NO_RESP", err |-> 0, total |-> total]
    ELSE LET mean == FilteredMean(s)
             err == mean - ref
         IN IF Magnitude(err) <= AcceptMm
            THEN [verdict |-> "CONVERGED", err |-> err, total |-> total]
            ELSE [verdict |-> "CONTINUE", err |-> err,
                  total |-> SolveStep(mean, ref, total)]
=============================================================================
