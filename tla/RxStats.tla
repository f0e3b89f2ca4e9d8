------------------------------ MODULE RxStats ------------------------------
(***************************************************************************)
(* What `pwr rx` and `pwr idle` report: the running minimum, mean and      *)
(* maximum of src/src/batt_window.c, and src/src/rx_stats_core.c, which    *)
(* measures how long the receiver was on before each beacon and how far    *)
(* each beacon came off the superframe raster of the one before.           *)
(***************************************************************************)
EXTENDS Integers, Sequences

CONSTANTS Superframe,  \* nominal_sf_cyc, in cycles
          CycPerSec,   \* sys_clock_hw_cycles_per_sec()
          CycWrap      \* the cycle counter counts modulo this, 2^32

\* C's division, towards zero
Div(n, d) == IF n >= 0 THEN n \div d ELSE -((-n) \div d)

\* (int32_t)(a - b)
Signed(a, b) == LET d == (a - b) % CycWrap
                IN IF d >= CycWrap \div 2 THEN d - CycWrap ELSE d

EmptyWindow == [min |-> 0, max |-> 0, sum |-> 0, count |-> 0]

\* batt_window_add()
Add(w, n) ==
  [min   |-> IF w.count = 0 \/ n < w.min THEN n ELSE w.min,
   max   |-> IF w.count = 0 \/ n > w.max THEN n ELSE w.max,
   sum   |-> w.sum + n,
   count |-> w.count + 1]

\* batt_window_get()
Report(w) ==
  IF w.count = 0 THEN [some |-> FALSE]
  ELSE [some |-> TRUE, min |-> w.min, max |-> w.max,
        mean |-> Div(w.sum, w.count), count |-> w.count]

\* cyc_to_us()
Micros(d) == Div(d * 1000000, CycPerSec)

StatsInit == [on |-> EmptyWindow, off |-> EmptyWindow,
              prev |-> 0, valid |-> FALSE, missed |-> 0]

\* The whole superframes a gap is nearest to, at least one.
Superframes(gap) == LET n == Div(gap + Superframe \div 2, Superframe)
                    IN IF n < 1 THEN 1 ELSE n

\* rx_stats_core_beacon(): armed is when the receiver was switched on.
Beacon(s, armed, now) ==
  LET gap == Signed(now, s.prev)
  IN [s EXCEPT !.on = Add(@, Micros(Signed(now, armed))),
               !.off = IF s.valid
                       THEN Add(@, Micros(gap - Superframes(gap) * Superframe))
                       ELSE @,
               !.prev = now, !.valid = TRUE]

\* rx_stats_core_miss(): no offset is measured across it.
Miss(s) == [s EXCEPT !.valid = FALSE, !.missed = @ + 1]

\* rx_stats_core_get(): the offsets are 0 until a second beacon came.
StatsReport(s) ==
  IF s.on.count = 0 THEN [some |-> FALSE]
  ELSE [some |-> TRUE,
        onMeanMs |-> Div(Report(s.on).mean, 1000),
        onMaxMs |-> Div(s.on.max, 1000),
        offMin |-> s.off.min, offMax |-> s.off.max,
        count |-> s.on.count, missed |-> s.missed]
=============================================================================
