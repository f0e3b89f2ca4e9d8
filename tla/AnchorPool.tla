------------------------------ MODULE AnchorPool ------------------------------
(* The anchors a tag knows and the ones it ranges with: anchor_pool_update(),   *)
(* anchor_pool_decay_missed() and anchor_pool_rebuild_selected() of             *)
(* src/uwb_net_runner.c.  A pool maps the entries of the array to records; a    *)
(* score is in whole units where the code has a float.                          *)
EXTENDS Integers, Sequences, FiniteSets

CONSTANTS PoolMax,      \* ANCHOR_POOL_MAX
          SelectMax     \* ANCHOR_SELECT_MAX

ASSUME PoolAssumption == PoolMax \in Nat \ {0} /\ SelectMax \in Nat \ {0}

Entries == 1 .. PoolMax
Free    == [id |-> 0, score |-> 0, valid |-> FALSE, seen |-> FALSE]
Empty   == [i \in Entries |-> Free]

Valid(pool) == {i \in Entries : pool[i].valid}
Lowest(S)   == CHOOSE i \in S : \A j \in S : i <= j

\* EMA_ALPHA is 0.3; the rounding is upwards, so that a steady anchor's score settles.
Ema(score, old) == (3 * score + 7 * old + 9) \div 10

\* The entry a heard anchor goes to: its own, a free one, or the worst one.
Home(pool, id) ==
  LET own  == {i \in Valid(pool) : pool[i].id = id}
      open == Entries \ Valid(pool)
  IN  IF own # {} THEN Lowest(own)
      ELSE IF open # {} THEN Lowest(open)
      ELSE Lowest({i \in Entries : \A j \in Entries : pool[i].score <= pool[j].score})

Update(pool, id, score) ==
  LET i == Home(pool, id)
      known == pool[i].valid /\ pool[i].id = id
  IN  [pool EXCEPT ![i] =
         [id |-> id, valid |-> TRUE, seen |-> TRUE,
          score |-> IF known THEN Ema(score, pool[i].score) ELSE score]]

Unseen(pool) == [i \in Entries |-> [pool[i] EXCEPT !.seen = FALSE]]

\* EMA_DECAY is 0.5.
Decayed(pool) ==
  [i \in Entries |-> IF pool[i].valid /\ ~pool[i].seen
                     THEN [pool[i] EXCEPT !.score = @ \div 2] ELSE pool[i]]

Min2(a, b) == IF a < b THEN a ELSE b

\* Descending by score, in the order of the array where scores are equal.
Selected(pool) ==
  LET V == Valid(pool)
      Before(i, j) == \/ pool[i].score > pool[j].score
                      \/ pool[i].score = pool[j].score /\ i < j
      Nth(k) == CHOOSE i \in V : Cardinality({j \in V : Before(j, i)}) = k - 1
  IN  [k \in 1 .. Min2(Cardinality(V), SelectMax) |-> pool[Nth(k)].id]
=============================================================================
