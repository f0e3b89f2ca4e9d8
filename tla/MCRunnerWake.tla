----------------------------- MODULE MCRunnerWake -----------------------------
(* RunnerWake with the code's six rungs, the discovery quiet from the third. *)
EXTENDS RunnerWake
-----------------------------------------------------------------------------
(* The tier that the accelerometer's state is turned into, with holds of 3   *)
(* and 4 and a clock that wraps at 16.                                       *)

T == INSTANCE Tiers WITH SkipCap <- 25, HoldFast <- 3, HoldSlow <- 4, ClockWrap <- 16

Sampled(f, now, still, s) ==
  LET at == (now + s[1]) % 16
  IN [f |-> T!Filter(f, s[2], at), now |-> at, still |-> IF s[2] THEN 0 ELSE still + s[1]]
Samples == {1, 3} \X BOOLEAN

\* A tag that moved is FAST at once and stays so for the hold, one that is still
\* comes down a tier at a time, and it is IDLE only after both holds of stillness.
ASSUME TierFollowsStillness ==
  \A h \in [1..6 -> Samples] :
    LET st[i \in 0..6] == IF i = 0 THEN [f |-> T!FilterInit, now |-> 0, still |-> 0]
                          ELSE Sampled(st[i - 1].f, st[i - 1].now, st[i - 1].still, h[i])
    IN \A i \in 1..6 :
         /\ st[i].f.tier = T!FAST <=> st[i].still < 3
         /\ st[i].f.tier = T!IDLE => st[i].still >= 3 + 4
         /\ st[i].still >= 3 + 4 + 3 => st[i].f.tier = T!IDLE
         /\ st[i - 1].f.tier = T!FAST => st[i].f.tier # T!IDLE

\* Whatever was stored, what is read can be listened and ranged by, within the cap.
ASSUME TableReadsWithinCap ==
  \A t, u \in 0..3, skip \in {0, 1, 25, 26, 65535}, every \in {0, 1, 65535} :
    LET table == T!SetRow(T!Defaults, t, T!Row(skip, every))
    IN /\ T!GetRow(table, u).skip \in 1..25 /\ T!GetRow(table, u).every >= 1
       /\ u # t /\ u \in T!Tier => T!GetRow(table, u) = T!GetRow(T!Defaults, u)
       /\ T!GetRow(T!Defaults, u).every = 1
=============================================================================
