---------------------------- MODULE MCBeaconTiming ----------------------------
(* BeaconTiming with the code's windows and jitter, a baseline of 8 and a    *)
(* lock of 4 beacons, over 11 superframes in which both counters wrap.       *)
EXTENDS BeaconTiming

TrueTicks == {195020, 195985}
FirstTicks == {1990}
EarlyOrLate == {-120, 120}
-----------------------------------------------------------------------------
(* The receiver's statistics, with a superframe of 200 cycles.               *)

Stats == INSTANCE RxStats WITH Superframe <- 200, CycPerSec <- 1000, CycWrap <- 4096

\* An offset is the distance to the nearest superframe, whichever were skipped
\* and wherever the cycle counter wraps: at most half a superframe, late or early.
ASSUME OffsetsOfNearest ==
  \A prev \in {0, 2000, 4000}, n \in 1..3, j \in -99..99 :
    LET at == (prev + n * 200 + j) % 4096
        s == Stats!Beacon([Stats!StatsInit EXCEPT !.prev = prev, !.valid = TRUE],
                          (at - 5) % 4096, at)
    IN s.off.sum = 1000 * j /\ s.on.sum = 5000

\* No offset is measured across a recorded miss; every beacon counts.
ASSUME MissBreaksOffset ==
  LET first == Stats!Beacon(Stats!StatsInit, 0, 10)
      across == Stats!Beacon(Stats!Miss(first), 400, 410)
  IN /\ across.off.count = 0 /\ across.on.count = 2
     /\ Stats!Beacon(across, 600, 610).off.count = 1
     /\ Stats!StatsReport(across).missed = 1 /\ Stats!StatsReport(across).offMax = 0
     /\ ~Stats!StatsReport(Stats!Miss(Stats!StatsInit)).some

\* A window's report is of exactly what was added, negative numbers too.
ASSUME WindowReports ==
  \A a, b, c \in -3..3 :
    LET r == Stats!Report(Stats!Add(Stats!Add(Stats!Add(Stats!EmptyWindow, a), b), c))
    IN /\ r.some /\ r.count = 3 /\ {r.min, r.max} \subseteq {a, b, c}
       /\ \A n \in {a, b, c, r.mean} : r.min <= n /\ n <= r.max
=============================================================================
