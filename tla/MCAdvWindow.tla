----------------------------- MODULE MCAdvWindow -----------------------------
(* A window of two ticks; an empty, a middling and a full battery.           *)
EXTENDS AdvWindow

SomeReadings == {3400, 3860, 4300}
-----------------------------------------------------------------------------
(* The lines an operator writes, with a counter that wraps at 2000.          *)

Tag(cal) == INSTANCE TagCmd WITH SkipCap <- 25, HoldFast <- 30000, HoldSlow <- 60000,
               ClockWrap <- 65536, NumberWrap <- 2000, RowMax <- 999, LineMax <- 23,
               CalImage <- cal, HeightMax <- 1500, HeightCap <- 100000,
               Int16Wrap <- 65536

\* No rule hides another one: each is taken by its own line, or by a longer one
\* where the line alone asks a question.
ASSUME NoRuleHidden ==
  \A cal \in BOOLEAN : \A i \in DOMAIN Tag(cal)!Rules :
    LET rule == Tag(cal)!Rules[i]
    IN \/ Tag(cal)!Taken(rule.line) = rule
       \/ ~rule.whole /\ Tag(cal)!Taken(Append(rule.line, "more")) = rule

\* Every line is answered by somebody, and a question changes nothing: neither a
\* word alone nor what asks for a state, except what other modules parse.
ASSUME QuestionsAreHarmless ==
  \A cal \in BOOLEAN :
    /\ \A line \in {<<"rst">>, <<"fault">>, <<"stack">>, <<"help">>, <<"pwr">>, <<"cal">>,
                      <<"pwr", "tier">>, <<"pwr", "adv">>, <<"pwr", "scan">>,
                      <<"pwr", "sched">>, <<"cal", "status">>, <<"what">>} :
         Tag(cal)!Taken(line).sets = {} /\ Tag(cal)!Taken(line).answers > 0
    /\ cal <=> Tag(cal)!Taken(<<"cal", "clear">>).to = "cal_run"

\* A row is set when both numbers are there, and what is echoed is what the tag
\* will use from then on; the other rows stay.
ASSUME EchoIsUsed ==
  LET C(n) == Tag(TRUE)!TierSet(Tag(TRUE)!Defaults, 1, n[1], n[2])
      numbers == {<<>>, <<0>>, <<7>>, <<2, 6>>, <<1, 9, 9, 9>>, <<2, 0, 0, 3>>}
  IN \A n \in numbers \X numbers :
       IF <<>> \in {n[1], n[2]} THEN C(n).table = Tag(TRUE)!Defaults /\ C(n).echo = <<>>
       ELSE /\ C(n).echo = <<Tag(TRUE)!GetRow(C(n).table, 1)>>
            /\ C(n).echo[1].skip \in 1..25
            /\ \A t \in {0, 2} : C(n).table[t] = Tag(TRUE)!Defaults[t]

\* A number past 32 bits wraps, and one past the end of the line loses digits, so
\* a row may be set that nobody typed; only the echo shows it.
ASSUME SomeRowsAreNotTyped ==
  LET zeros(n) == [i \in 1..n |-> 0]
  IN /\ Tag(TRUE)!ParseU32(<<2, 0, 0, 3>>) = 3
     /\ Tag(TRUE)!TierSet(Tag(TRUE)!Defaults, 1, zeros(9) \o <<5>>, <<4, 2>>).echo
          = <<[skip |-> 5, every |-> 4]>>

\* An image without calibration refuses every command that would write a record.
ASSUME ProductionOnlyReads ==
  \A word \in {"clear", "last", "probe", "listen", "2000"} :
    LET line == <<"cal", word>>
    IN Tag(FALSE)!Taken(line).to = "cal" /\ Tag(FALSE)!CalAnswer(line, TRUE) = "unavailable"

\* No height outside 0..15 m is ever taken over, not even one that 16 bits would
\* bring back into the range, and what is refused or not saved leaves the old ones.
ASSUME HeightsInRange ==
  \A a, t \in {<<>>, <<0>>, <<1, 5, 0, 0>>, <<1, 5, 0, 1>>, <<6, 6, 0, 3, 6>>,
               <<1, 0, 0, 0, 0, 1>>, <<4, 2, 9, 4, 9, 6, 7, 2, 9, 6>>}, written \in BOOLEAN :
    LET r == Tag(TRUE)!PosSet(<<270, 120>>, a, t, written)
    IN /\ \A i \in 1..2 : r.heights[i] \in 0..1500
       /\ r.answer = "set" <=> written /\ {a, t} \subseteq {<<0>>, <<1, 5, 0, 0>>}
       /\ r.answer # "set" => r.heights = <<270, 120>>
=============================================================================
