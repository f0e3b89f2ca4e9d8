------------------------------- MODULE TagCmd -------------------------------
(***************************************************************************)
(* src/src/tag_cmd.c: what a line written to the tag over BLE does.  A     *)
(* line is the sequence of its words and the numbers behind them, a number *)
(* the sequence of its digits; the texts of the answers are left out, but  *)
(* not how many there are.                                                 *)
(***************************************************************************)
EXTENDS Tiers, Sequences, SequencesExt

CONSTANTS NumberWrap,   \* a uint32_t counts modulo this, 2^32
          RowMax,       \* 0xFFFF
          LineMax,      \* characters a command keeps: sizeof(buf) - 1
          CalImage,     \* CONFIG_TAG_CAL_MODE
          HeightMax,    \* POS_CFG_H_MAX_CM
          HeightCap,    \* the number at which parse_cm() gives up
          Int16Wrap     \* 2^16

Digit == 0..9

\* parse_u32(): an overflow wraps.
ParseU32(digits) == FoldLeft(LAMBDA v, d : (v * 10 + d) % NumberWrap, 0, digits)

\* The memcpy() of tag_cmd_on_rx(): what is left of two numbers, with a space
\* between them, behind `lead` characters.
KeptNumbers(lead, a, b) ==
  LET room == LineMax - lead
      upTo(s, n) == SubSeq(s, 1, IF n < Len(s) THEN n ELSE Len(s))
  IN << upTo(a, room), upTo(b, room - Len(a) - 1) >>

Limited(n) == IF n > RowMax THEN RowMax ELSE n

\* cmd_tier() on "f", "s" or "i" and its numbers: the next table and the row it
\* echoes, which is the one that will be used.
TierSet(table, t, a, b) ==
  LET kept == KeptNumbers(11, a, b)
      next == SetRow(table, t, Row(Limited(ParseU32(kept[1])), Limited(ParseU32(kept[2]))))
  IN IF <<>> \in {kept[1], kept[2]} THEN [table |-> table, echo |-> <<>>]
     ELSE [table |-> next, echo |-> <<GetRow(next, t)>>]

-----------------------------------------------------------------------------
(* The rules, in the order of their tests.  A whole line is compared by      *)
(* strcmp(), the others by a strncmp() of what they begin with; "sets" is    *)
(* what the command changes, "answers" how many lines it sends at most.      *)

Whole(line, sets, answers) ==
  [whole |-> TRUE, line |-> line, sets |-> sets, answers |-> answers, to |-> "tag_cmd"]
Begins(line, sets, answers, to) ==
  [whole |-> FALSE, line |-> line, sets |-> sets, answers |-> answers, to |-> to]

ToCal(line) == [Whole(line, {}, 1) EXCEPT !.to = "cal"]

\* Why it booted, what killed it, its stacks.
FaultRules ==
  << Whole(<<"rst">>, {}, 1), Whole(<<"fault", "clear">>, {"fault record"}, 1),
     Whole(<<"fault">>, {}, 4), Whole(<<"stack">>, {}, 3) >>

HelpRules ==
  << Whole(<<"help", "on">>, {"alert"}, 1), Whole(<<"help", "off">>, {"alert"}, 1),
     Whole(<<"help">>, {}, 1) >>

PositionRules ==
  << Begins(<<"pos">>, {"heights"}, 1, "pos_cfg"), Begins(<<"dbg">>, {"log"}, 1, "pos_dbg") >>

\* "pwr tier" without a row answers with all three, and anything else that begins
\* with "pwr" with the sleep flag.
PowerRules ==
  << Whole(<<"pwr", "sleep", "on">>, {"sleep", "advertising"}, 1),
     Whole(<<"pwr", "sleep", "off">>, {"sleep", "advertising"}, 1),
     Whole(<<"pwr", "adv", "on">>, {"advertising"}, 1),
     Whole(<<"pwr", "adv", "off">>, {"advertising"}, 1),
     Whole(<<"pwr", "adv">>, {}, 1), Whole(<<"pwr", "idle">>, {}, 1),
     Whole(<<"pwr", "rx">>, {}, 4), Whole(<<"pwr", "rxrst">>, {"rx_stats"}, 1),
     Whole(<<"pwr", "tier">>, {}, 3), Whole(<<"pwr", "tier", "def">>, {"tiers"}, 1),
     Begins(<<"pwr", "tier">>, {"tiers"}, 1, "tag_cmd"),
     Whole(<<"pwr", "sched">>, {}, 3), Whole(<<"pwr", "schedrst">>, {"sched stats"}, 1),
     Whole(<<"pwr", "scan">>, {}, 1), Begins(<<"pwr">>, {}, 1, "tag_cmd") >>

\* The calibration image keeps "cal status" for the parser every image has.
CalRules ==
  IF ~CalImage THEN <<>>
  ELSE << Begins(<<"cal", "listen">>, {"radio"}, 1, "cal_diag"),
          Begins(<<"cal", "probe">>, {"radio"}, 2, "cal_diag"),
          ToCal(<<"cal", "status">>), ToCal(<<"cal">>),
          Begins(<<"cal">>, {"calibration"}, 1, "cal_run") >>

Rules == FaultRules \o HelpRules \o PositionRules \o PowerRules \o CalRules

Fits(rule, line) ==
  IF rule.whole THEN line = rule.line ELSE IsPrefix(rule.line, line)

\* tag_cmd_on_rx(): the first rule that fits, or cal_on_rx().
Taken(line) ==
  LET fitting == {i \in DOMAIN Rules : Fits(Rules[i], line)}
  IN IF fitting = {} THEN Begins(<<>>, {}, 1, "cal")
     ELSE Rules[CHOOSE i \in fitting : \A j \in fitting : i <= j]

-----------------------------------------------------------------------------
(* The parsers that it hands a line to.                                      *)

\* cal_on_rx(), which every image has, only ever reads.
CalAnswer(line, valid) ==
  IF line # <<"cal", "status">> THEN "unavailable"
  ELSE IF valid THEN "delays" ELSE "required"

\* parse_cm(): no number at all, or one past the cap at any digit, is none.
NoNumber == -1
ParseCm(digits) ==
  IF digits = <<>> THEN NoNumber
  ELSE FoldLeft(LAMBDA v, d : IF v = NoNumber \/ v * 10 + d > HeightCap
                              THEN NoNumber ELSE v * 10 + d, 0, digits)

HeightsValid(a, t) == a \in 0..HeightMax /\ t \in 0..HeightMax

\* (int16_t)
Int16(n) == LET d == n % Int16Wrap IN IF d >= Int16Wrap \div 2 THEN d - Int16Wrap ELSE d

\* pos_cfg_on_cmd() on "pos z" and two numbers: the heights afterwards, which are
\* echoed, or why they stay.
PosSet(heights, a, t, written) ==
  LET anchor == ParseCm(a)
      tag == ParseCm(t)
  IN IF NoNumber \in {anchor, tag} THEN [heights |-> heights, answer |-> "usage"]
     ELSE IF ~HeightsValid(anchor, tag) THEN [heights |-> heights, answer |-> "range"]
     ELSE IF ~written THEN [heights |-> heights, answer |-> "nvs"]
     ELSE [heights |-> <<Int16(anchor), Int16(tag)>>, answer |-> "set"]
=============================================================================
