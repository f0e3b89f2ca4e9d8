----------------------------- MODULE DbgRecords -----------------------------
(***************************************************************************)
(* The binary records of the raw-range log (src/src/pos_dbg.c): SWEEP, SET *)
(* and MARK as sequences of bytes, and the rounding of metres.             *)
(***************************************************************************)
EXTENDS Integers, Sequences

MAX_ANCHORS == 4
SET_SLOTS == 2
MAGIC_SWEEP == 165
MAGIC_SET == 166
MAGIC_MARK == 167
Slot == 1..MAX_ANCHORS

\* A 16-bit number, signed or not, low byte first.
Le16(n) == << (n % 65536) % 256, (n % 65536) \div 256 >>

Flag(b, weight) == IF b THEN weight ELSE 0

\* pos_dbg_enc_sweep(): heard is the mask; a slot it does not hold is written as
\* zero whatever the caller left there.  withQ is q != NULL.
Sweep(r) ==
  LET Range(i) == IF i \in r.heard THEN r.cm[i] ELSE 0
      Goodness(i) == IF r.withQ /\ i \in r.heard THEN r.q[i] ELSE 0
  IN << MAGIC_SWEEP, r.seq >> \o Le16(r.dt)
     \o << r.epoch,
           Flag(1 \in r.heard, 1) + Flag(2 \in r.heard, 2) + Flag(3 \in r.heard, 4)
           + Flag(4 \in r.heard, 8) + (r.tier % 4) * 16
           + Flag(r.moving, 64) + Flag(r.solved, 128) >>
     \o Le16(Range(1)) \o Le16(Range(2)) \o Le16(Range(3)) \o Le16(Range(4))
     \o [i \in Slot |-> Goodness(i)] \o Le16(r.res)

\* pos_dbg_enc_set(): two slots to a record, from slot 0 or from slot 2.
Set(epoch, base, slots) ==
  IF base \notin {0, SET_SLOTS} THEN <<>>
  ELSE LET One(s) == << s.aid >> \o Le16(s.x) \o Le16(s.y)
       IN << MAGIC_SET, epoch, base >> \o One(slots[1]) \o One(slots[2])

\* pos_dbg_enc_mark()
Mark(seq, id) == << MAGIC_MARK, seq, id, 0 >>

\* pos_dbg_m_to_cm() of a number of millimetres: to the nearest, away from zero
\* in the middle, and saturated; what is not a number is 0.
ToCm(finite, mm) ==
  IF ~finite THEN 0
  ELSE LET near == IF mm >= 0 THEN (mm + 5) \div 10 ELSE -((-mm + 5) \div 10)
       IN IF near > 32767 THEN 32767 ELSE IF near < -32768 THEN -32768 ELSE near

-----------------------------------------------------------------------------
(* pos_dbg_on_cmd(): what the commands do to the log.                        *)

NewSession == [seq |-> 0, epoch |-> 0, named |-> FALSE, mark |-> 0]

\* "dbg on" is a new session, "dbg off" leaves the old one as it is, and "dbg q"
\* is about a flag of its own.  A mark counts in a byte.
Command(log, cmd) ==
  CASE cmd = "on" -> [log EXCEPT !.enabled = TRUE, !.session = NewSession]
    [] cmd = "off" -> [log EXCEPT !.enabled = FALSE]
    [] cmd = "q on" -> [log EXCEPT !.quality = TRUE]
    [] cmd = "q off" -> [log EXCEPT !.quality = FALSE]
    [] cmd = "mark" -> [log EXCEPT !.session.mark = (@ + 1) % 256]
    [] OTHER -> log

\* The record a mark sends, behind the last SWEEP, whether or not the log is on.
Marked(log) == LET s == Command(log, "mark").session IN Mark(s.seq, s.mark)
=============================================================================
