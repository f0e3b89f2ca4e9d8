---------------------------- MODULE CalSelfTest ----------------------------
(***************************************************************************)
(* `cal selftest`: the vectors of src/src/cal_math.c and of                *)
(* src/src/cal_run_math.c, on CalMath, and the checksum of the stored      *)
(* records as a register of 32 bits.                                       *)
(***************************************************************************)
EXTENDS CalMath

Ten == INSTANCE CalMath WITH SamplesPerIter <- 10
Hundred == INSTANCE CalMath WITH SamplesPerIter <- 100

-----------------------------------------------------------------------------
(* cal_crc32(): a set of bits of the register, bit 0 the lowest.  A byte is  *)
(* such a set too.                                                           *)

Poly == {31, 30, 29, 27, 26, 24, 23, 21, 20, 19, 15, 9, 8, 5}   \* 0xEDB88320
Xor(a, b) == (a \ b) \cup (b \ a)

Shifted(crc) ==
  LET half == {i - 1 : i \in crc \ {0}}
  IN IF 0 \in crc THEN Xor(half, Poly) ELSE half

ByteIn(crc, byte) == FoldLeft(LAMBDA c, i : Shifted(c), Xor(crc, byte), [i \in 1..8 |-> i])

Crc32(bytes) == Xor(0..31, FoldLeft(ByteIn, 0..31, bytes))

\* cal_record_finalize() and cal_record_valid(): what precedes the checksum is
\* the identity and the payload, as bytes.
Record(identity, payload) ==
  [identity |-> identity, payload |-> payload, crc |-> Crc32(identity \o payload)]
RecordValid(r, identity) ==
  r.identity = identity /\ r.crc = Crc32(r.identity \o r.payload)

-----------------------------------------------------------------------------

\* cal_math_selftest(), after the checksum: the solver's sign, its clamp at zero
\* and its limit on one step, the split, and one gross outlier.
MathVectors ==
  /\ SolveStep(2234, 2000, 32742) = 32842
  /\ SolveStep(1766, 2000, 32742) = 32642
  /\ SolveStep(0, 100000, 10) = 0
  /\ SolveStep(76000, 1000, 31844) = 31844 + MaxStepUnits
  /\ SolveStep(1000, 76000, 31844) = 31844 - MaxStepUnits
  /\ SplitDly(32742) = [tx |-> 16371, rx |-> 16371]
  /\ SplitDly(33) = [tx |-> 16, rx |-> 17]
  /\ LET s == <<100, 102, 98, 101, 99, 5000>>
     IN Len(Kept(s)) = 5 /\ FilteredMean(s) \in 98..102

\* cal_run_math_selftest(): too few samples, close, far, the residual at and
\* behind the limit, and exactly a quarter of the samples.
All(n, mm) == [i \in 1..n |-> mm]
RunVectors ==
  /\ Hundred!IterationResult(All(2, 2000), 2000, 32742).verdict = "NO_RESP"
  /\ Ten!IterationResult(<<2000, 2005, 1998, 2003, 1999, 2001, 2002, 2000, 2004, 1997>>,
                         2000, 32742).verdict = "CONVERGED"
  /\ Ten!IterationResult(All(10, 2234), 2000, 32742)
       = [verdict |-> "CONTINUE", err |-> 234, total |-> SolveStep(2234, 2000, 32742)]
  /\ Ten!IterationResult(All(10, 2000 + AcceptMm), 2000, 32742).verdict = "CONVERGED"
  /\ Ten!IterationResult(All(10, 2001 + AcceptMm), 2000, 32742).verdict = "CONTINUE"
  /\ Hundred!IterationResult(All(25, 2000), 2000, 32742).verdict # "NO_RESP"
  /\ Hundred!IterationResult(All(24, 2000), 2000, 32742).verdict = "NO_RESP"
=============================================================================
