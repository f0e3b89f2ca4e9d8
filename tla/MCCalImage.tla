----------------------------- MODULE MCCalImage ------------------------------
(* The code's delays and steps with eight samples for its hundred: a clean     *)
(* pass, one with two grossly wrong samples, the least that is trusted and     *)
(* less.  One antenna is two corrections from the default, one nearly three,   *)
(* one is out of reach.                                                        *)
EXTENDS CalImage

Antennas == {32742 + 3300, 32742 - 5900, 32742 + 6500}
Samples == { <<0, 1, -1, 0, 2, 0, -2, 0>>, <<4, 3, 5, 4, 9000, 4, -9000, 4>>,
             <<0, 0>>, <<1>> }
-----------------------------------------------------------------------------
(* What the image computes beside its threads.                               *)

Vectors == INSTANCE CalSelfTest
OnAir == INSTANCE CalProbe WITH Stamp <- 64, RatioOne <- 16, MsWrap <- 32,
                                HeaderLen <- 12, TimedLen <- 20, BufLen <- 32

Bits(n) == {i \in 0..7 : (n \div 2^i) % 2 = 1}

\* The vectors of `cal selftest` hold, the checksum of "123456789" among them,
\* which is 0xCBF43926.
ASSUME SelfTestPasses ==
  /\ Vectors!MathVectors /\ Vectors!RunVectors
  /\ Vectors!Crc32([i \in 1..9 |-> Bits(48 + i)])
       = {31, 30, 27, 25, 24, 23, 22, 21, 20, 18, 13, 12, 11, 8, 5, 2, 1}

\* A record that lost or won one bit in flash, or is of another PHY, is not taken.
ASSUME BrokenRecordRefused ==
  LET r == Vectors!Record(<<Bits(160), Bits(1), Bits(7)>>, <<Bits(243), Bits(63)>>)
  IN /\ Vectors!RecordValid(r, r.identity)
     /\ ~Vectors!RecordValid(r, <<Bits(160), Bits(1), Bits(9)>>)
     /\ \A i \in 1..2, b \in 0..7 :
          ~Vectors!RecordValid([r EXCEPT !.payload[i] = Vectors!Xor(@, {b})], r.identity)
     /\ \A b \in 0..31 : ~Vectors!RecordValid([r EXCEPT !.crc = Vectors!Xor(@, {b})], r.identity)

\* Wherever the clocks of tag and responder stand, across their wraps, and however
\* fast the responder's runs, the flight that a probe computes is the true one.
ASSUME FlightSurvivesWraps ==
  \A t, u \in 0..63, flight \in 0..3, reply \in {0, 15, 16, 17}, offset \in {-1, 0, 1} :
    LET respRx == t + 2 * flight + reply
        counted == (reply * 16) \div (16 - offset)   \* on the responder's clock
    IN (reply * 16) % (16 - offset) = 0 =>
         OnAir!TwiceTof(t, u, (u + counted) % 64, respRx % 64, offset) = 2 * flight * 16

\* A wait for a bit ends at its deadline and not before it, wherever the
\* millisecond clock wraps; one whose deadline is past looks once.
ASSUME WaitEndsInTime ==
  \A start \in 0..31, timeout \in 0..6, after \in 0..8 :
    /\ OnAir!Sees(start, after, timeout) <=> (after <= timeout)
    /\ OnAir!GivesUp(start, start, 31)

\* However a probe ends it says so, and a radio that was granted goes back with the
\* calibrated delay and the timeouts of ranging.
ASSUME ProbeAnswers ==
  \A granted, sent \in BOOLEAN, param \in {0, 1, 4, 5, 32741},
     event \in {"frame", "error", "nothing"}, len \in {11, 12, 19, 20, 32, 33} :
    LET p == OnAir!Probe(granted, param, sent, event, len, [tx |-> 7, rx |-> 8])
    IN /\ p.log # <<>>
       /\ granted <=> "left" \in DOMAIN p
       /\ granted => p.left.delay = [tx |-> 7, rx |-> 8] /\ p.left.timeouts = "ranging"
       /\ granted /\ param > 4 => p.used.tx + p.used.rx = param
       /\ "distance" \in Range(p.log) => param \notin 1..4 /\ sent /\ event = "frame"
=============================================================================
