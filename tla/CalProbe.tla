------------------------------ MODULE CalProbe ------------------------------
(***************************************************************************)
(* One `cal probe` and one `cal listen` of src/src/cal_diag.c as functions *)
(* of what happens on the air.  A probe returns the lines it sends to the  *)
(* log and what becomes of the radio; CalImage has the same commands as    *)
(* steps between other threads.                                            *)
(***************************************************************************)
EXTENDS Integers, Sequences, SequencesExt

CONSTANTS Stamp,       \* 32-bit timestamps count modulo this
          RatioOne,    \* 2^26, a clock offset of one
          MsWrap,      \* the millisecond clock counts modulo this, 2^32
          HeaderLen,   \* ALL_MSG_COMMON_LEN + FCS_LEN
          TimedLen,    \* a frame with both timestamps, with its FCS
          BufLen       \* RX_BUF_LEN

SignedIn(n, wrap) == LET d == n % wrap IN IF d >= wrap \div 2 THEN d - wrap ELSE d

\* wait_any_sysstatus_lo(), from a moment on: after is how long the first bit of
\* the mask takes.  The status is read once more at the deadline.
GivesUp(start, now, timeout) == SignedIn(start + timeout - now, MsWrap) <= 0
Sees(start, after, timeout) ==
  after = 0 \/ \A t \in 0..(after - 1) : ~GivesUp(start, (start + t) % MsWrap, timeout)

\* do_listen(): it re-arms after good frames and bad ones alike.
Listen(granted, frames) ==
  IF ~granted THEN [log |-> <<"busy">>, held |-> FALSE]
  ELSE [log |-> << [good |-> Len(SelectSeq(frames, LAMBDA f : f = "good")),
                    bad |-> Len(SelectSeq(frames, LAMBDA f : f = "bad"))] >>,
        held |-> FALSE]

\* do_probe(): 0 asks nobody in particular, 1 to 4 an anchor, and more is an
\* antenna delay to try.
Overrides(param) == param > 4
Addressed(param) == IF Overrides(param) THEN 0 ELSE param

\* The claimed radio: half of an overriding delay goes to either side.
Tried(param, calibrated) ==
  IF Overrides(param) THEN [tx |-> param \div 2, rx |-> param - param \div 2]
  ELSE calibrated

\* release_radio(), behind every way out of a granted probe
Handback(calibrated) == [delay |-> calibrated, irq |-> FALSE, timeouts |-> "ranging"]

\* Twice the time of flight times RatioOne, in timestamp units: the responder's
\* turnaround is corrected by the offset of its clock.
TwiceTof(pollTx, pollRx, respTx, respRx, offset) ==
  SignedIn(respRx - pollTx, Stamp) * RatioOne
    - SignedIn(respTx - pollRx, Stamp) * (RatioOne - offset)

\* Why a probe has no frame to show, in the order of the tests.
Refusal(sent, event, len) ==
  CASE ~sent -> "txfail"
    [] sent /\ event = "nothing" -> "none"
    [] sent /\ event = "error" -> "err"
    [] sent /\ event = "frame" /\ len < HeaderLen -> "err"
    [] sent /\ event = "frame" /\ len > BufLen -> "big"
    [] OTHER -> "no"

\* A second line with the distance, of unaddressed answers that have both stamps.
Probe(granted, param, sent, event, len, calibrated) ==
  LET refused == Refusal(sent, event, len) IN
  IF ~granted THEN [log |-> <<"busy">>, poll |-> "none", used |-> calibrated]
  ELSE [log |-> IF refused # "no" THEN <<refused>>
                ELSE IF Addressed(param) = 0 /\ len >= TimedLen
                THEN <<"frame", "distance">> ELSE <<"frame">>,
        poll |-> IF Addressed(param) = 0 THEN "plain" ELSE "addressed",
        used |-> Tried(param, calibrated),
        left |-> Handback(calibrated)]
=============================================================================
