--------------------------- MODULE RunnerWake_proofs ---------------------------
(***************************************************************************)
(* The safety properties of RunnerWake hold of every behaviour, for every  *)
(* ladder.  The proof keeps account of where a wake is from the moment it  *)
(* is given: in the flag until the runner plans its window, in the         *)
(* semaphore until it waits.                                               *)
(***************************************************************************)
EXTENDS RunnerWake, FixPath, FiniteSetTheorems, TLAPS

\* From the reading of the alert to the choice of the next window the flag
\* keeps a wake; only the first window of all, a full one, does without it.
FlagKeepsWake ==
    pc \in {"exchange", "top", "lent", "tier", "plan"}
        /\ news /\ ui # "changed" /\ net # "SCAN" => force

\* What the tier missed is in the semaphore until the wait.
GiveKeepsMotion ==
    pc \in {"plan", "wait"} /\ ~sem => ~edge /\ (moving => fast)

\* The action word fits the state, and a tag in a network has its ladder down.
ActionsFit ==
    /\ "SEND_JOIN" \in act => net = "JOINING"
    /\ "RUN_DISCOVER" \in act => net = "SYNC"
    /\ net # "SCAN" => rung = 0
    /\ pinned => rung = 0

IInv == /\ TypeOK
        /\ FlagKeepsWake
        /\ AlertCutsSkip
        /\ GiveKeepsMotion
        /\ ActionsFit

-----------------------------------------------------------------------------
LEMMA InitIInv == Init => IInv
<1> SUFFICES ASSUME Init PROVE IInv
  OBVIOUS
<1>1. news \in BOOLEAN BY Zenon DEF Init
<1>2. /\ fast \in BOOLEAN /\ asleep \in BOOLEAN /\ locked \in BOOLEAN
      /\ wide \in BOOLEAN /\ sem \in BOOLEAN /\ force \in BOOLEAN
      /\ help \in BOOLEAN /\ pinned \in BOOLEAN
      /\ moving \in BOOLEAN /\ edge \in BOOLEAN
  BY Zenon DEF Init
<1>3. pc = "top" /\ net = "SCAN" /\ ui = "idle" /\ act = {} /\ rung = 0
  BY DEF Init
<1>4. TypeOK BY <1>1, <1>2, <1>3, LadderAssumption DEF TypeOK
<1>5. FlagKeepsWake /\ AlertCutsSkip /\ GiveKeepsMotion /\ ActionsFit
  BY <1>3 DEF FlagKeepsWake, AlertCutsSkip, GiveKeepsMotion, ActionsFit
<1>6. QED BY <1>4, <1>5 DEF IInv

\* A wake from the button or the accelerometer, at any step of the runner.
LEMMA SourceStep ==
  ASSUME IInv,
         \/ \E on \in BOOLEAN : Press(on)
         \/ SetForce \/ Give \/ MotionEdge
  PROVE  IInv'
<1> USE DEF IInv, TypeOK, FlagKeepsWake, AlertCutsSkip, Unread,
            GiveKeepsMotion, ActionsFit, predict, wake, alert, motion, ladder
<1>1. ASSUME NEW on \in BOOLEAN, Press(on) PROVE IInv'
  BY <1>1 DEF Press
<1>2. CASE SetForce BY <1>2 DEF SetForce
<1>3. CASE Give BY <1>3 DEF Give
<1>4. CASE MotionEdge BY <1>4 DEF MotionEdge
<1>5. QED BY <1>1, <1>2, <1>3, <1>4

\* The runner up to its wait.
LEMMA PlanStep ==
  ASSUME IInv, NEW b \in BOOLEAN, Top(b) \/ Resume(b) \/ Tier(b) \/ Plan(b)
  PROVE  IInv'
<1> USE LadderAssumption
    DEF IInv, TypeOK, FlagKeepsWake, AlertCutsSkip, Unread,
        GiveKeepsMotion, ActionsFit, predict, wake, alert, motion, ladder
<1>1. CASE Top(b)
  <2>1. /\ pc = "top" /\ pc' \in {"lent", "tier"}
        /\ asleep' \in BOOLEAN /\ sem' \in BOOLEAN
        /\ UNCHANGED <<net, act, fast, locked, wide, force, help, news, ui,
                       moving, edge, rung, pinned>>
    BY <1>1, Zenon DEF Top
  <2>2. QED BY <2>1
<1>2. CASE Resume(b) BY <1>2 DEF Resume
<1>3. CASE Tier(b)
  <2>1. /\ pc = "tier" /\ pc' = "plan"
        /\ edge' \in BOOLEAN /\ ~edge'
        /\ fast' \in BOOLEAN /\ (moving => fast')
        /\ rung' \in {0, rung}
        /\ UNCHANGED <<net, act, asleep, locked, wide, sem, force, help, news,
                       ui, moving, pinned>>
    BY <1>3, Zenon DEF Tier
  <2>2. QED BY <2>1
<1>4. CASE Plan(b)
  <2>1. /\ pc = "plan" /\ pc' \in {"wait", "listen"}
        /\ force' \in BOOLEAN /\ ~force'
        /\ wide' \in BOOLEAN
        /\ UNCHANGED <<net, act, fast, asleep, locked, sem, help, news, ui,
                       moving, edge, rung, pinned>>
    BY <1>4, Zenon DEF Plan, predict, alert, motion, ladder
  <2>2. pc' = "wait" /\ net # "SCAN" => ~force
    BY <1>4, <2>1, Zenon DEF Plan
  <2>3. QED BY <2>1, <2>2
<1>5. QED BY <1>1, <1>2, <1>3, <1>4

LEMMA LadderBounded ==
  ASSUME TypeOK, NEW on \in BOOLEAN, NEW heard \in BOOLEAN
  PROVE  /\ Ladder(on, heard) \in 0..(Rungs - 1)
         /\ on \/ heard => Ladder(on, heard) = 0
         /\ net # "SCAN" /\ rung = 0 => Ladder(on, heard) = 0
  BY LadderAssumption DEF Ladder, TypeOK

\* A tag is out of SCAN only by a beacon or by having been so before, and only a
\* beacon brings a JOIN or a discovery.
LEMMA HandledFits ==
  ASSUME net \in {"SCAN", "JOINING", "SYNC"},
         NEW heard \in BOOLEAN, NEW intact \in BOOLEAN,
         NEW out \in Handled(heard, intact)
  PROVE  /\ out[1] \in {"SCAN", "JOINING", "SYNC"}
         /\ out[2] \subseteq {"SEND_JOIN", "RUN_DISCOVER", "RUN_SWEEP", "SLEEP"}
         /\ "SEND_JOIN" \in out[2] => out[1] = "JOINING"
         /\ "RUN_DISCOVER" \in out[2] => out[1] = "SYNC"
         /\ out[1] # "SCAN" /\ ~heard => net # "SCAN"
<1>1. CASE net = "SCAN" BY <1>1 DEF Handled
<1>2. CASE net = "JOINING" BY <1>2 DEF Handled
<1>3. CASE net = "SYNC" BY <1>3 DEF Handled
<1>4. QED BY <1>1, <1>2, <1>3

\* The window itself, with the reading of the alert.
LEMMA ListenStep ==
  ASSUME IInv, NEW heard \in BOOLEAN, NEW intact \in BOOLEAN,
         NEW lock \in BOOLEAN, Listen(heard, intact, lock)
  PROVE  IInv'
<1>1. help \in BOOLEAN /\ TypeOK BY DEF IInv, TypeOK
<1>2. PICK out \in Handled(heard, intact) : net' = out[1] /\ act' = out[2]
  BY DEF Listen
<1>3. /\ net' \in {"SCAN", "JOINING", "SYNC"}
      /\ act' \subseteq {"SEND_JOIN", "RUN_DISCOVER", "RUN_SWEEP", "SLEEP"}
      /\ "SEND_JOIN" \in act' => net' = "JOINING"
      /\ "RUN_DISCOVER" \in act' => net' = "SYNC"
      /\ net' # "SCAN" /\ ~heard => net # "SCAN"
  BY <1>1, <1>2, HandledFits DEF TypeOK
<1>4. /\ rung' \in 0..(Rungs - 1)
      /\ help \/ heard => rung' = 0
      /\ net # "SCAN" /\ rung = 0 => rung' = 0
  BY <1>1, LadderBounded DEF Listen
<1>5. TypeOK'
  BY <1>1, <1>3, <1>4 DEF Listen, TypeOK, wake, alert, motion
<1>6. ActionsFit'
  BY <1>3, <1>4 DEF Listen, IInv, ActionsFit
<1>7. QED
  BY <1>5, <1>6
     DEF Listen, IInv, FlagKeepsWake, AlertCutsSkip, Unread, GiveKeepsMotion

\* The end of the wait, and the exchanges after the window.
LEMMA SuperframeStep ==
  ASSUME IInv, Woken \/ TimedOut \/ Join \/ Exchange
  PROVE  IInv'
<1> USE DEF IInv, TypeOK, FlagKeepsWake, AlertCutsSkip, Unread,
            GiveKeepsMotion, ActionsFit, predict, wake, alert, motion, ladder
<1>1. CASE Woken
  <2>1. /\ pc = "wait" /\ pc' = "listen"
        /\ sem' \in BOOLEAN /\ wide' \in BOOLEAN /\ force' \in BOOLEAN
        /\ UNCHANGED <<net, act, fast, asleep, locked, help, news, ui, moving,
                       edge, rung, pinned>>
    BY <1>1, Zenon DEF Woken, predict, alert, motion, ladder
  <2>2. QED BY <2>1
<1>2. CASE TimedOut BY <1>2 DEF TimedOut
<1>3. CASE Join BY <1>3 DEF Join
<1>4. CASE Exchange BY <1>4 DEF Exchange
<1>5. QED BY <1>1, <1>2, <1>3, <1>4

LEMMA NextIInv == IInv /\ [Next]_vars => IInv'
<1> SUFFICES ASSUME IInv, [Next]_vars PROVE IInv'
  OBVIOUS
<1>1. CASE (\E on \in BOOLEAN : Press(on)) \/ SetForce \/ Give \/ MotionEdge
  BY <1>1, SourceStep
<1>2. ASSUME NEW b \in BOOLEAN, Top(b) \/ Resume(b) \/ Tier(b) \/ Plan(b)
      PROVE  IInv'
  BY <1>2, PlanStep
<1>3. CASE Woken \/ TimedOut \/ Join \/ Exchange BY <1>3, SuperframeStep
<1>4. ASSUME NEW heard \in BOOLEAN, NEW intact \in BOOLEAN,
             NEW lock \in BOOLEAN, Listen(heard, intact, lock)
      PROVE  IInv'
  BY <1>4, ListenStep
<1>5. CASE UNCHANGED vars
  BY <1>5 DEF vars, IInv, TypeOK, FlagKeepsWake, AlertCutsSkip, Unread,
              GiveKeepsMotion, ActionsFit, predict, wake, alert, motion, ladder
<1>6. QED BY <1>1, <1>2, <1>3, <1>4, <1>5 DEF Next

LEMMA Invariance == Spec => []IInv
<1>1. QED BY InitIInv, NextIInv, PTL DEF Spec

-----------------------------------------------------------------------------
\* The variables keep their types; in particular the ladder saturates.
THEOREM TypeCorrect == Spec => []TypeOK
<1>1. IInv => TypeOK BY DEF IInv
<1>2. QED BY <1>1, Invariance, PTL

\* No skip is slept out over a HELP or a CANCEL the runner has not read, however
\* the call falls among the steps of the loop (uwb_net_runner_wake()).
THEOREM AlertNotSleptOn == Spec => []AlertCutsSkip
<1>1. IInv => AlertCutsSkip BY DEF IInv
<1>2. QED BY <1>1, Invariance, PTL

\* No wait, of a skip or of a probe, is entered or gone on with over a movement
\* the tier has not followed (uwb_set_moving()).
THEOREM MotionNotSleptOn == Spec => []MotionCutsWait
<1>1. IInv => MotionCutsWait BY DEF IInv, GiveKeepsMotion, MotionCutsWait
<1>2. QED BY <1>1, Invariance, PTL

\* A standing HELP keeps the probes at their shortest interval, and the rung
\* never suppresses a discovery that was chosen (scan_backoff_core.c).
THEOREM LadderGivesWay == Spec => []LadderSound
<1>1. IInv => HelpProbesOften /\ QuietIsMoot
  BY LadderAssumption DEF IInv, ActionsFit, HelpProbesOften, QuietIsMoot
<1>2. IInv => TypeOK BY DEF IInv
<1>3. IInv => LadderSound BY <1>1, <1>2 DEF LadderSound
<1>4. QED BY <1>3, Invariance, PTL

-----------------------------------------------------------------------------
(***************************************************************************)
(* What the runner does between its waits: FixPath, from the pool of       *)
(* anchors to the filter, the log and the heights, for every pool, set of  *)
(* anchors and heights.                                                    *)
(***************************************************************************)

\* A set of numbers that is not empty has a lowest.
LEMMA LowestIsLeast ==
  ASSUME NEW S \in SUBSET Nat, S # {}
  PROVE  /\ Lowest(S) \in S
         /\ \A j \in S : Lowest(S) <= j
<1> DEFINE R == {ss \in Nat \X Nat : ss[1] < ss[2]}
<1>1. R = OpToRel(<, Nat)
  BY DEF OpToRel
<1>2. IsWellFoundedOn(R, Nat)
  BY <1>1, NatLessThanWellFounded
<1>3. PICK i \in S : \A j \in S : <<j, i>> \notin R
  BY <1>2, WFMin
<1>4. ASSUME NEW j \in S PROVE i <= j
  <2>1. i \in Nat /\ j \in Nat /\ ~(j < i)
    BY <1>3
  <2> QED
    BY <2>1
<1> QED
  BY <1>4 DEF Lowest

\* The order in which the entries of a pool are selected, and the number of them
\* before an entry.
Before(p, i, j) == \/ p[i].score > p[j].score
                   \/ p[i].score = p[j].score /\ i < j
Ahead(p, i) == {j \in Valid(p) : Before(p, j, i)}
Rank(p, i) == Cardinality(Ahead(p, i))

Scored(p) == \A i \in Entries : p[i].score \in Nat

\* The ranks of the valid entries are 0, 1, ... without a gap or a tie.
LEMMA RanksCount ==
  ASSUME NEW p, Scored(p), PoolMax \in Nat
  PROVE  LET V == Valid(p) IN
         /\ IsFiniteSet(V) /\ Cardinality(V) \in Nat
         /\ \A i \in V : Rank(p, i) \in 0 .. Cardinality(V) - 1
         /\ \A i, j \in V : Before(p, i, j) => Rank(p, i) < Rank(p, j)
         /\ \A i, j \in V : Rank(p, i) = Rank(p, j) => i = j
         /\ \A k \in 0 .. Cardinality(V) - 1 : \E i \in V : Rank(p, i) = k
<1> DEFINE V == Valid(p)
           N == Cardinality(V)
<1>1. V \subseteq 1 .. PoolMax /\ V \subseteq Nat
  BY DEF Valid, Entries
<1>2. IsFiniteSet(V) /\ N \in Nat
  <2>1. IsFiniteSet(1 .. PoolMax)
    BY FS_Interval
  <2> QED
    BY ONLY <1>1, <2>1, FS_Subset, FS_CardinalityType DEF N
<1>s. \A i \in V : p[i].score \in Nat /\ i \in Nat
  BY <1>1 DEF Scored, Entries
<1>3. ASSUME NEW i \in V
      PROVE  Rank(p, i) \in Nat /\ Rank(p, i) < N
  <2>1. Ahead(p, i) \in SUBSET V /\ i \notin Ahead(p, i)
    BY <1>s, <1>3 DEF Ahead, Before
  <2> QED
    BY <2>1, <1>2, FS_Subset, FS_CardinalityType DEF Rank
<1>4. ASSUME NEW i \in V, NEW j \in V, Before(p, i, j)
      PROVE  Rank(p, i) < Rank(p, j)
  <2>1. Ahead(p, i) \in SUBSET Ahead(p, j)
    BY <1>s, <1>4 DEF Ahead, Before
  <2>2. i \in Ahead(p, j) /\ i \notin Ahead(p, i)
    BY <1>s, <1>4 DEF Ahead, Before
  <2>3. IsFiniteSet(Ahead(p, j))
    BY <1>2, FS_Subset DEF Ahead
  <2>4. Cardinality(Ahead(p, i)) <= Cardinality(Ahead(p, j))
        /\ Cardinality(Ahead(p, i)) # Cardinality(Ahead(p, j))
    BY <2>1, <2>2, <2>3, FS_Subset
  <2> QED
    BY <2>4, <1>3 DEF Rank
<1>5. \A i, j \in V : i # j => Before(p, i, j) \/ Before(p, j, i)
  BY <1>s DEF Before
<1>6. \A i, j \in V : Rank(p, i) = Rank(p, j) => i = j
  BY <1>3, <1>4, <1>5
<1> DEFINE R == [i \in V |-> Rank(p, i)]
<1>7. R \in Injection(V, 0 .. N - 1)
  <2>1. R \in [V -> 0 .. N - 1]
    BY <1>2, <1>3
  <2> QED
    BY <2>1, <1>6 DEF Injection, IsInjective
<1>8. IsFiniteSet(0 .. N - 1) /\ Cardinality(0 .. N - 1) = N
  BY <1>2, FS_Interval
<1>9. R \in Surjection(V, 0 .. N - 1)
  BY <1>7, <1>8, FS_Injection
<1>10. \A k \in 0 .. N - 1 : \E i \in V : Rank(p, i) = k
  BY <1>9 DEF Surjection
<1> QED
  BY <1>2, <1>3, <1>4, <1>6, <1>10

\* The valid entries have names of their own.
OwnNames(p) == \A i, j \in Valid(p) : p[i].id = p[j].id => i = j

\* What BestSelected says of a pool and a selection.
Best(p, s) ==
  \A k \in DOMAIN s : \E i \in Valid(p) :
    /\ p[i].id = s[k]
    /\ \A m \in DOMAIN s : s[m] = s[k] => m = k
    /\ \A j \in Valid(p) :
         p[j].score > p[i].score => \E m \in DOMAIN s : s[m] = p[j].id

LEMMA SelectedIsBest ==
  ASSUME NEW p, Scored(p), OwnNames(p), PoolMax \in Nat, SelectMax \in Nat
  PROVE  LET s == Selected(p) IN
         /\ s \in Seq({p[i].id : i \in Valid(p)})
         /\ Len(s) <= SelectMax
         /\ Best(p, s)
<1> DEFINE s == Selected(p)
           V == Valid(p)
           N == Cardinality(V)
           L == Min2(N, SelectMax)
           Count(i) == Cardinality({j \in V : Before(p, j, i)})
           Nth(k) == CHOOSE i \in V : Count(i) = k - 1
<1>1. /\ N \in Nat
      /\ \A i \in V : Rank(p, i) \in 0 .. N - 1
      /\ \A i, j \in V : Before(p, i, j) => Rank(p, i) < Rank(p, j)
      /\ \A i, j \in V : Rank(p, i) = Rank(p, j) => i = j
      /\ \A k \in 0 .. N - 1 : \E i \in V : Rank(p, i) = k
  BY RanksCount
<1>2. s = [k \in 1 .. L |-> p[Nth(k)].id]
  <2>1. Cardinality(V) = N
    OBVIOUS
  <2>2. s = [k \in 1 .. Min2(Cardinality(V), SelectMax) |-> p[Nth(k)].id]
    BY DEF Selected, Before
  <2> QED
    BY <2>1, <2>2
<1>c. \A i : Count(i) = Rank(p, i)
  BY DEF Rank, Ahead
<1>3. L \in Nat /\ L <= N /\ L <= SelectMax
  BY <1>1 DEF Min2
<1> HIDE DEF s, V, N, L, Count
<1>4. \A k \in 1 .. L : Nth(k) \in V /\ Rank(p, Nth(k)) = k - 1
  <2> TAKE k \in 1 .. L
  <2>1. k - 1 \in 0 .. N - 1
    BY <1>1, <1>3
  <2>2. \E i \in V : Count(i) = k - 1
    BY <1>1, <1>c, <2>1
  <2> QED
    BY <1>c, <2>2
<1> HIDE DEF Nth
<1>5. s \in Seq({p[i].id : i \in V}) /\ Len(s) = L /\ DOMAIN s = 1 .. L
  BY <1>2, <1>3, <1>4
<1>6. ASSUME NEW k \in DOMAIN s
      PROVE  \E i \in V :
               /\ p[i].id = s[k]
               /\ \A m \in DOMAIN s : s[m] = s[k] => m = k
               /\ \A j \in V : p[j].score > p[i].score => \E m \in DOMAIN s : s[m] = p[j].id
  <2>1. k \in 1 .. L /\ Nth(k) \in V /\ p[Nth(k)].id = s[k] /\ Rank(p, Nth(k)) = k - 1
    BY <1>2, <1>4, <1>5, <1>6
  <2>2. ASSUME NEW m \in DOMAIN s, s[m] = s[k]
        PROVE  m = k
    <3>1. m \in 1 .. L /\ Nth(m) \in V /\ p[Nth(m)].id = s[m] /\ Rank(p, Nth(m)) = m - 1
      BY <1>2, <1>4, <1>5, <2>2
    <3>2. Nth(m) = Nth(k)
      BY <2>1, <2>2, <3>1 DEF OwnNames, V
    <3> QED
      BY <2>1, <3>1, <3>2
  <2>3. ASSUME NEW j \in V, p[j].score > p[Nth(k)].score
        PROVE  \E m \in DOMAIN s : s[m] = p[j].id
    <3>1. Rank(p, j) < k - 1 /\ Rank(p, j) \in 0 .. N - 1
      BY <1>1, <2>1, <2>3 DEF Before
    <3> DEFINE m == Rank(p, j) + 1
    <3>2. m \in 1 .. L
      BY <1>1, <1>3, <2>1, <3>1
    <3>3. Nth(m) \in V /\ Rank(p, Nth(m)) = Rank(p, j)
      <4>1. Rank(p, Nth(m)) = m - 1
        BY <1>4, <3>2
      <4>2. m - 1 = Rank(p, j)
        BY <3>1
      <4> QED
        BY <1>4, <3>2, <4>1, <4>2
    <3>4. Nth(m) = j
      BY <1>1, <3>3
    <3>5. s[m] = p[j].id /\ m \in DOMAIN s
      BY <1>2, <1>5, <3>2, <3>4
    <3> QED
      BY <3>5
  <2> QED
    BY <2>1, <2>2, <2>3
<1> QED
  BY <1>3, <1>5, <1>6 DEF Best, s, V

-----------------------------------------------------------------------------
(* The path from anchors to a position                                       *)

Record == [id : Anchors \cup {0}, score : Nat, valid : BOOLEAN, seen : BOOLEAN]

\* A pool as Update leaves it: every valid entry is an anchor's, and its only one.
Pool(p) == /\ p \in [Entries -> Record]
           /\ \A i \in Valid(p) : p[i].id \in Anchors
           /\ OwnNames(p)

AidMap == [Slots -> Anchors \cup {NoAid}]

SlotTypes == /\ aid \in AidMap /\ xy \in AidMap
             /\ sel \in Seq(Anchors) /\ Len(sel) <= SelectMax
             /\ slot \in Nat \ {0}
             /\ est \in {"here", "away", Nowhere}
             /\ streak \in 0 .. ResetAfter

\* What a sweep ranges with is what discovery selected.
RangesSelected == step = "range" => aid = [i \in Slots |-> SelectedId(i)]

\* The command carries the pair that is stored, and has applied the first half
\* of it when the second is due.
HeightsInStep ==
  /\ stored \in Heights
  /\ \/ cmd = None /\ active = stored
     \/ cmd = <<"anchor", stored>>
     \/ cmd = <<"tag", stored>> /\ active[1] = stored[1]

SessionType ==
  /\ step \in {"idle", "discover", "range", "stamp", "name"}
  /\ session \in [on : BOOLEAN, named : BOOLEAN, epoch : {0, 1}, aid : AidMap, xy : AidMap]
  /\ changed \in BOOLEAN
  /\ session.named => session.on

\* Between sweeps a log that has named its slots holds the runner's; within one
\* it differs by what the sweep has handed over or learnt, and says so.
SessionNames ==
  session.named =>
    /\ \A i \in Slots : session.xy[i] \in {NoAid, session.aid[i]}
    /\ step \in {"idle", "discover"} => session.aid = aid /\ session.xy = xy
    /\ \A i \in Slots :
         aid[i] = session.aid[i] /\ session.xy[i] # NoAid => xy[i] = session.xy[i]
    /\ step = "name" => (changed <=> session.aid # aid \/ session.xy # xy)

FixIInv == /\ Pool(pool)
           /\ SlotTypes
           /\ step # "discover" => Best(pool, sel)
           /\ RangesSelected
           /\ SlotCoordinates
           /\ HeightsInStep
           /\ SessionType
           /\ SessionNames

\* The pool stays sound through an answer, whatever entry it goes to.
LEMMA UpdateSound ==
  ASSUME NEW p, Pool(p), NEW a \in Anchors, NEW q \in Nat
  PROVE  Pool(Update(p, a, q))
<1> DEFINE i == Home(p, a)
           known == p[i].valid /\ p[i].id = a
           r == [id |-> a, valid |-> TRUE, seen |-> TRUE,
                 score |-> IF known THEN Ema(q, p[i].score) ELSE q]
           u == [p EXCEPT ![i] = r]
           own == {j \in Valid(p) : p[j].id = a}
<1>1. Update(p, a, q) = u
  BY DEF Update
<1>2. CASE i \notin Entries
  <2>1. u = p
    BY <1>2 DEF Pool
  <2> QED
    BY <1>1, <2>1
<1>3. CASE i \in Entries
  <2>1. p[i] \in Record /\ p[i].score \in Nat
    BY <1>3 DEF Pool, Record
  <2>2. Ema(q, p[i].score) \in Nat
    BY <2>1 DEF Ema
  <2>3. r \in Record
    BY <2>2 DEF Record
  <2>4. u \in [Entries -> Record]
    BY <1>3, <2>3 DEF Pool
  <2>5. \A j \in Entries : u[j] = IF j = i THEN r ELSE p[j]
    BY DEF Pool
  <2>6. i \in own \/ own = {}
    <3>1. SUFFICES ASSUME own # {} PROVE i \in own
      OBVIOUS
    <3>2. own \in SUBSET Nat
      BY DEF Valid, Entries
    <3>3. Lowest(own) \in own
      BY <3>1, <3>2, LowestIsLeast
    <3> QED
      BY <3>1, <3>3 DEF Home
  <2>7. Valid(u) = Valid(p) \cup {i}
    BY <1>3, <2>5 DEF Valid
  <2>8. \A j \in Valid(p) : j # i => p[j].id # a
    BY <2>6 DEF Pool, OwnNames
  <2>9. \A j \in Valid(u) : j # i => j \in Valid(p) /\ u[j].id = p[j].id
    BY <2>5, <2>7 DEF Valid
  <2>10. u[i].id = a
    BY <1>3, <2>5
  <2>11. \A j \in Valid(u) : u[j].id \in Anchors
    BY <2>9, <2>10 DEF Pool
  <2>12. OwnNames(u)
    BY <2>8, <2>9, <2>10 DEF OwnNames, Pool
  <2> QED
    BY <1>1, <2>4, <2>11, <2>12 DEF Pool
<1> QED
  BY <1>2, <1>3

LEMMA UnseenSound ==
  ASSUME NEW p, Pool(p)
  PROVE  /\ Pool(Unseen(p))
         /\ Valid(Unseen(p)) = Valid(p)
         /\ \A i \in Valid(p) : /\ Unseen(p)[i].id = p[i].id
                                    /\ Unseen(p)[i].score = p[i].score
<1> DEFINE u == Unseen(p)
<1>1. \A i \in Entries : p[i] \in Record
  BY DEF Pool
<1>2. \A i \in Entries :
        /\ u[i] = [p[i] EXCEPT !.seen = FALSE]
        /\ u[i] \in Record /\ u[i].id = p[i].id
        /\ u[i].score = p[i].score /\ u[i].valid = p[i].valid
  BY <1>1 DEF Unseen, Record
<1>3. u \in [Entries -> Record]
  BY <1>2 DEF Unseen
<1> HIDE DEF u
<1>4. Valid(u) = Valid(p) /\ Valid(p) \subseteq Entries
  BY <1>2 DEF Valid
<1>5. OwnNames(u) /\ \A i \in Valid(u) : u[i].id \in Anchors
  BY <1>2, <1>4 DEF OwnNames, Pool
<1> QED
  BY <1>2, <1>3, <1>4, <1>5 DEF Pool, u

LEMMA DecayedSound ==
  ASSUME NEW p, Pool(p)
  PROVE  Pool(Decayed(p))
<1> DEFINE u == Decayed(p)
<1>1. \A i \in Entries : p[i] \in Record
  BY DEF Pool
<1>2. ASSUME NEW i \in Entries
      PROVE  u[i] \in Record /\ u[i].id = p[i].id /\ u[i].valid = p[i].valid
  <2>1. p[i].score \in Nat /\ p[i].score \div 2 \in Nat
    BY <1>1 DEF Record
  <2>2. [p[i] EXCEPT !.score = @ \div 2] \in Record
    BY <1>1, <2>1 DEF Record
  <2>3. u[i] = p[i] \/ u[i] = [p[i] EXCEPT !.score = @ \div 2]
    BY DEF Decayed
  <2> QED
    BY <1>1, <2>2, <2>3 DEF Record
<1>3. u \in [Entries -> Record]
  BY <1>2 DEF Decayed
<1> HIDE DEF u
<1>4. Valid(u) = Valid(p) /\ Valid(p) \subseteq Entries
  BY <1>2 DEF Valid
<1>5. OwnNames(u) /\ \A i \in Valid(u) : u[i].id \in Anchors
  BY <1>2, <1>4 DEF OwnNames, Pool
<1> QED
  BY <1>3, <1>5 DEF Pool, u

\* What discovery leaves: the best of the pool it leaves.
LEMMA DiscoveredSound ==
  ASSUME NEW p, Pool(p)
  PROVE  /\ Pool(Unseen(p))
         /\ Best(Unseen(p), Selected(p))
         /\ Selected(p) \in Seq(Anchors) /\ Len(Selected(p)) <= SelectMax
<1> DEFINE s == Selected(p)
           u == Unseen(p)
<1>1. PoolMax \in Nat /\ SelectMax \in Nat /\ OwnNames(p)
  BY PoolAssumption DEF Pool
<1>2. Scored(p)
  BY DEF Scored, Pool, Record
<1>3. /\ s \in Seq({p[i].id : i \in Valid(p)})
      /\ Len(s) <= SelectMax
      /\ Best(p, s)
  BY <1>1, <1>2, SelectedIsBest
<1>4. {p[i].id : i \in Valid(p)} \subseteq Anchors
  BY DEF Pool
<1>5. s \in Seq(Anchors)
  BY <1>3, <1>4
<1>6. /\ Pool(u) /\ Valid(u) = Valid(p)
      /\ \A i \in Valid(p) : u[i].id = p[i].id /\ u[i].score = p[i].score
  BY UnseenSound
<1> HIDE DEF s, u
<1>7. Best(u, s)
  BY <1>3, <1>6 DEF Best
<1> QED
  BY <1>3, <1>5, <1>6, <1>7 DEF s, u

-----------------------------------------------------------------------------

LEMMA FixStart ==
  ASSUME FixInit
  PROVE  FixIInv
<1> USE DEF FixInit
<1>1. Pool(pool)
  <2>1. Free \in Record
    BY DEF Free, Record
  <2>2. pool \in [Entries -> Record] /\ Valid(pool) = {}
    BY <2>1 DEF Empty, Valid, Free
  <2> QED
    BY <2>2 DEF Pool, OwnNames
<1>2. aid \in AidMap /\ xy \in AidMap
  BY DEF AidMap
<1>3. SlotTypes
  <2>1. SelectMax \in Nat /\ ResetAfter \in Nat
    BY PoolAssumption, FixAssumption
  <2> QED
    BY <1>2, <2>1 DEF SlotTypes
<1>4. Best(pool, sel) /\ RangesSelected /\ SlotCoordinates /\ HeightsInStep
  BY DEF Best, RangesSelected, SlotCoordinates, HeightsInStep
<1>5. SessionType /\ SessionNames
  BY <1>2 DEF SessionType, SessionNames, Fresh, AidMap
<1> QED
  BY <1>1, <1>3, <1>4, <1>5 DEF FixIInv

\* Discovery disturbs the pool and the selection.
LEMMA DiscoveryStep ==
  ASSUME FixIInv,
         Discover \/ (\E a \in Anchors : Answer(a)) \/ Discovered
  PROVE  FixIInv'
<1> USE DEF FixIInv
<1>1. UNCHANGED <<aid, xy, slot, est, streak, session, changed, active, stored, cmd>>
  BY DEF Discover, Answer, Discovered, slots, filter, log, cfg
<1>2. /\ step \in {"idle", "discover"} /\ step' \in {"idle", "discover"}
  BY DEF Discover, Answer, Discovered
<1>3. /\ Pool(pool')
      /\ step' # "discover" => Best(pool', sel')
      /\ sel' \in Seq(Anchors) /\ Len(sel') <= SelectMax
  <2>1. CASE Discover
    BY <2>1, UnseenSound DEF Discover, SlotTypes, slots
  <2>2. ASSUME NEW a \in Anchors, Answer(a)
        PROVE  /\ Pool(pool') /\ step' = "discover"
               /\ sel' = sel
    <3>1. Quality[a] \in Nat
      BY FixAssumption
    <3> QED
      BY <2>2, <3>1, UpdateSound DEF Answer
  <2>3. CASE Discovered
    BY <2>3, DecayedSound, DiscoveredSound DEF Discovered
  <2> QED
    BY <2>1, <2>2, <2>3 DEF SlotTypes
<1>4. SlotTypes'
  BY <1>1, <1>3 DEF SlotTypes
<1>5. RangesSelected' /\ SessionType' /\ SessionNames'
  BY <1>1, <1>2 DEF RangesSelected, SessionType, SessionNames
<1>6. SlotCoordinates' /\ HeightsInStep'
  BY <1>1 DEF SlotCoordinates, HeightsInStep
<1>7. Pool(pool)' /\ (step # "discover" => Best(pool, sel))'
  BY <1>3
<1> QED
  BY <1>4, <1>5, <1>6, <1>7

\* A new sweep forgets the coordinates of a slot that changes hands.
LEMMA SweepStep ==
  ASSUME FixIInv, Sweep
  PROVE  FixIInv'
<1> USE DEF FixIInv
<1>1. /\ step = "idle" /\ step' = "range" /\ slot' = 1
      /\ aid' = [i \in Slots |-> SelectedId(i)]
      /\ xy' = [i \in Slots |-> Learnt(i)]
      /\ UNCHANGED <<pool, sel, est, streak, session, changed, active, stored, cmd>>
  BY DEF Sweep, anchor, log, cfg
<1>2. ASSUME NEW i \in Slots
      PROVE  /\ aid'[i] = SelectedId(i) /\ aid'[i] \in Anchors \cup {NoAid}
             /\ aid'[i] = aid[i] => xy'[i] = xy[i]
             /\ xy'[i] \in {NoAid, aid'[i]}
  <2>1. aid'[i] = SelectedId(i) /\ xy'[i] = Learnt(i)
    BY <1>1
  <2>2. SelectedId(i) \in Anchors \cup {NoAid}
    BY DEF SelectedId, SlotTypes, Slots
  <2> QED
    BY <2>1, <2>2 DEF Learnt, SlotCoordinates
<1>3. aid' \in AidMap /\ xy' \in AidMap
  BY <1>1, <1>2 DEF AidMap
<1>4. SlotTypes'
  BY <1>1, <1>3 DEF SlotTypes
<1>5. RangesSelected' /\ SlotCoordinates'
  BY <1>1, <1>2 DEF RangesSelected, SlotCoordinates, SelectedId
<1>6. HeightsInStep' /\ SessionType'
  BY <1>1 DEF HeightsInStep, SessionType
<1>7. SessionNames'
  BY <1>1, <1>2 DEF SessionNames
<1>8. Pool(pool)' /\ (step # "discover" => Best(pool, sel))'
  BY <1>1
<1> QED
  BY <1>4, <1>5, <1>6, <1>7, <1>8

\* A range teaches a slot the coordinates of the anchor that holds it.
LEMMA RangeStep ==
  ASSUME FixIInv, NEW r, RangeSlot(r)
  PROVE  FixIInv'
<1> USE DEF FixIInv
<1>1. /\ step = "range" /\ slot <= Len(sel) /\ slot' = slot + 1
      /\ UNCHANGED <<pool, sel, aid, est, streak, session, changed, active, stored, cmd, step>>
      /\ xy' = xy \/ xy' = [xy EXCEPT ![slot] = sel[slot]]
  BY DEF RangeSlot, anchor, log, cfg, filter
<1>2. slot \in Slots /\ sel[slot] \in Anchors
  BY <1>1, PoolAssumption DEF SlotTypes, Slots
<1>3. aid[slot] = sel[slot]
  BY <1>1, <1>2 DEF RangesSelected, SelectedId
<1>4. \A i \in Slots : xy'[i] = xy[i] \/ xy'[i] = aid[i]
  BY <1>1, <1>3 DEF SlotTypes, AidMap
<1>5. xy' \in AidMap
  BY <1>1, <1>2 DEF SlotTypes, AidMap
<1>6. SlotTypes'
  BY <1>1, <1>5 DEF SlotTypes
<1>7. RangesSelected' /\ HeightsInStep' /\ SessionType'
  BY <1>1 DEF RangesSelected, HeightsInStep, SessionType, SelectedId
<1>8. SlotCoordinates'
  BY <1>1, <1>4 DEF SlotCoordinates
<1>9. SessionNames'
  BY <1>1, <1>4 DEF SessionNames
<1>10. Pool(pool)' /\ (step # "discover" => Best(pool, sel))'
  BY <1>1
<1> QED
  BY <1>6, <1>7, <1>8, <1>9, <1>10

\* The end of a sweep moves the filter, and the log of a session that is on.
LEMMA SolveStep ==
  ASSUME FixIInv, NEW p, Solve(p)
  PROVE  FixIInv'
<1> USE DEF FixIInv
<1>1. /\ step = "range" /\ slot' = 1 /\ p \in Snapshots
      /\ step' = IF session.on THEN "stamp" ELSE "idle"
      /\ UNCHANGED <<pool, sel, aid, xy, session, changed, active, stored, cmd>>
  BY DEF Solve, anchor, log, cfg
<1>2. est' \in {"here", "away", Nowhere} /\ streak' \in 0 .. ResetAfter
  <2>1. ResetAfter \in Nat /\ streak \in 0 .. ResetAfter
    BY FixAssumption DEF SlotTypes
  <2>2. Streak(Accepted) \in 0 .. ResetAfter /\ 0 \in 0 .. ResetAfter
    BY <2>1 DEF Streak
  <2>3. p \in {"here", "away", Nowhere}
    BY <1>1 DEF Snapshots
  <2> QED
    BY <2>2, <2>3 DEF Solve, SlotTypes
<1>3. SlotTypes'
  BY <1>1, <1>2 DEF SlotTypes
<1>4. RangesSelected' /\ SlotCoordinates' /\ HeightsInStep' /\ SessionType'
  BY <1>1 DEF RangesSelected, SlotCoordinates, HeightsInStep, SessionType
<1>5. SessionNames'
  BY <1>1 DEF SessionNames, SessionType
<1>6. Pool(pool)' /\ (step # "discover" => Best(pool, sel))'
  BY <1>1
<1> QED
  BY <1>3, <1>4, <1>5, <1>6

\* The log takes over the slots it has seen to differ, unless it was restarted
\* in between.
LEMMA LogStep ==
  ASSUME FixIInv,
         LogCompare \/ LogName \/ LogOn \/ LogOff
  PROVE  FixIInv'
<1> USE DEF FixIInv
<1>1. UNCHANGED <<pool, sel, aid, xy, slot, est, streak, active, stored, cmd>>
  BY DEF LogCompare, LogName, LogOn, LogOff,
         anchor, slots, filter, cfg
<1>2. /\ step' \in {"idle", "discover", "range", "stamp", "name"}
      /\ step' = "discover" <=> step = "discover"
      /\ step' = "range" <=> step = "range"
  BY DEF LogCompare, LogName, LogOn, LogOff, SessionType
<1>3. SlotTypes'
  BY <1>1 DEF SlotTypes
<1>4. RangesSelected'
  BY <1>1, <1>2 DEF RangesSelected, SelectedId
<1>5. SlotCoordinates' /\ HeightsInStep'
  BY <1>1 DEF SlotCoordinates, HeightsInStep
<1>6. SessionType' /\ SessionNames'
  <2>1. CASE LogCompare
    BY <1>1, <2>1 DEF LogCompare, SessionType, SessionNames
  <2>2. CASE LogName
    <3>1. CASE ~changed \/ ~session.on
      BY <1>1, <2>2, <3>1 DEF LogName, SessionType, SessionNames
    <3>2. CASE changed /\ session.on
      <4> DEFINE e == IF session.named THEN 1 - session.epoch ELSE session.epoch
      <4>1. /\ session' = [session EXCEPT !.epoch = e, !.aid = aid, !.xy = xy, !.named = TRUE]
            /\ step' = "idle" /\ changed' = FALSE
        BY <2>2, <3>2 DEF LogName
      <4>2. e \in {0, 1}
        BY DEF SessionType
      <4> HIDE DEF e
      <4>3. /\ session'.named = TRUE /\ session'.on = session.on
            /\ session'.aid = aid /\ session'.xy = xy
            /\ session' \in [on : BOOLEAN, named : BOOLEAN, epoch : {0, 1},
                             aid : AidMap, xy : AidMap]
        BY <4>1, <4>2 DEF SessionType, SlotTypes
      <4> QED
        BY <1>1, <3>2, <4>1, <4>3 DEF SessionType, SessionNames, SlotTypes, SlotCoordinates
    <3> QED
      BY <3>1, <3>2 DEF SessionType
  <2>3. CASE LogOn \/ LogOff
    <3>1. Fresh \in [on : BOOLEAN, named : BOOLEAN, epoch : {0, 1}, aid : AidMap, xy : AidMap]
      BY DEF Fresh, AidMap
    <3>2. \/ session' = Fresh
          \/ session' = [Fresh EXCEPT !.on = TRUE]
      BY <2>3 DEF LogOn, LogOff
    <3>3. /\ session' \in [on : BOOLEAN, named : BOOLEAN, epoch : {0, 1}, aid : AidMap, xy : AidMap]
          /\ session'.named = FALSE
      BY <3>1, <3>2 DEF Fresh
    <3>4. UNCHANGED <<step, changed>>
      BY <2>3 DEF LogOn, LogOff
    <3> QED
      BY <3>3, <3>4 DEF SessionType, SessionNames
  <2> QED
    BY <2>1, <2>2, <2>3
<1>7. Pool(pool)' /\ (step # "discover" => Best(pool, sel))'
  BY <1>1, <1>2
<1> QED
  BY <1>3, <1>4, <1>5, <1>6, <1>7

\* The record is ahead of the two heights for as long as the command runs.
LEMMA HeightsStep ==
  ASSUME FixIInv,
         (\E h \in Heights : HeightsStore(h)) \/ HeightsApply \/ Carried
  PROVE  FixIInv'
<1> USE DEF FixIInv
<1>1. UNCHANGED <<pool, sel, aid, xy, slot, streak, session, changed, step>>
  BY DEF HeightsStore, HeightsApply, Carried,
         anchor, slots, filter, log
<1>2. est' \in {"here", "away", Nowhere}
  BY DEF HeightsStore, HeightsApply, Carried, filter, SlotTypes
<1>3. SlotTypes'
  BY <1>1, <1>2 DEF SlotTypes
<1>4. HeightsInStep'
  <2>1. ASSUME NEW h \in Heights, HeightsStore(h) PROVE HeightsInStep'
    BY <2>1 DEF HeightsStore, HeightsInStep
  <2>2. CASE HeightsApply
    <3>1. stored = <<stored[1], stored[2]>> /\ stored' = stored /\ cmd # None
      BY <2>2, FixAssumption DEF HeightsInStep, HeightsApply
    <3>2. CASE cmd = <<"anchor", stored>>
      BY <2>2, <3>1, <3>2 DEF HeightsApply, HeightsInStep
    <3>3. CASE cmd = <<"tag", stored>> /\ active[1] = stored[1]
      BY <2>2, <3>1, <3>3 DEF HeightsApply, HeightsInStep
    <3> QED
      BY <3>1, <3>2, <3>3 DEF HeightsInStep
  <2>3. CASE Carried
    BY <2>3 DEF Carried, cfg, HeightsInStep
  <2> QED
    BY <2>1, <2>2, <2>3
<1>5. RangesSelected' /\ SlotCoordinates'
  BY <1>1 DEF RangesSelected, SelectedId, SlotCoordinates
<1>6. SessionType' /\ SessionNames'
  BY <1>1 DEF SessionType, SessionNames
<1>7. Pool(pool)' /\ (step # "discover" => Best(pool, sel))'
  BY <1>1
<1> QED
  BY <1>3, <1>4, <1>5, <1>6, <1>7

LEMMA FixInitImplies == FixInit => FixIInv
BY FixStart

\* A reset is a beginning, over the heights that are stored.
LEMMA RebootStep ==
  ASSUME FixIInv, Reboot
  PROVE  FixIInv'
<1>1. FixInit'
  BY DEF Reboot, FixInit, FixIInv, HeightsInStep
<1>2. (FixInit => FixIInv)'
  BY FixInitImplies, PTL
<1> QED
  BY <1>1, <1>2

LEMMA FixNextStep ==
  ASSUME FixIInv, [FixNext]_fixVars
  PROVE  FixIInv'
<1>1. CASE Runner
  BY <1>1, DiscoveryStep, SweepStep, RangeStep, SolveStep, LogStep DEF Runner
<1>2. CASE Operator
  BY <1>2, LogStep, HeightsStep DEF Operator
<1>3. CASE Carried
  BY <1>3, HeightsStep
<1>4. CASE Reboot
  BY <1>4, RebootStep
<1>5. CASE UNCHANGED fixVars
  <2>1. UNCHANGED <<pool, sel, aid, xy, slot, est, streak, session, changed, active, stored, cmd, step>>
    BY <1>5 DEF fixVars, anchor, slots, filter, log, cfg
  <2>2. Pool(pool)' /\ SlotTypes' /\ (step # "discover" => Best(pool, sel))'
    BY <2>1 DEF FixIInv, SlotTypes
  <2>3. RangesSelected' /\ SlotCoordinates' /\ HeightsInStep'
    BY <2>1 DEF FixIInv, RangesSelected, SelectedId, SlotCoordinates, HeightsInStep
  <2>4. SessionType' /\ SessionNames'
    BY <2>1 DEF FixIInv, SessionType, SessionNames
  <2> QED
    BY <2>2, <2>3, <2>4 DEF FixIInv
<1>6. CASE FixNext
  BY <1>1, <1>2, <1>3, <1>4, <1>6 DEF FixNext
<1>7. FixNext \/ UNCHANGED fixVars
  OBVIOUS
<1> QED
  BY <1>5, <1>6, <1>7

LEMMA FixInvariant == FixSpec => []FixIInv
<1>1. FixInit => FixIInv
  BY FixInitImplies
<1>2. FixIInv /\ [FixNext]_fixVars => FixIInv'
  BY FixNextStep
<1> QED
  BY <1>1, <1>2, PTL DEF FixSpec

\* What the runner solves with, with any pool and any anchors in any order: the
\* best of those it knows, each once, the coordinates beside a slot those of the
\* anchor in it, the heights the ones that a reset brings back.
THEOREM FixSoundness == FixSpec => []FixSound
<1>1. FixIInv => FixSound
  <2> SUFFICES ASSUME FixIInv PROVE FixSound
    OBVIOUS
  <2> USE DEF FixIInv
  <2>1. FixTypeOK
    BY DEF Pool, Record, SlotTypes, AidMap, FixTypeOK
  <2>2. BestSelected
    BY DEF Best, BestSelected
  <2>3. HeightsStored
    BY DEF HeightsInStep, HeightsStored, None
  <2> QED
    BY <2>1, <2>2, <2>3 DEF FixSound
<1> QED
  BY <1>1, FixInvariant, PTL

\* The log's epoch moves for a slot that changed hands or that learnt where its
\* anchor is, in every session, wherever restarts of the log fall.
THEOREM NoFlapOfLog == FixSpec => NoFlap
<1> DEFINE Step == session'.epoch # session.epoch /\ session'.named /\ session.named =>
             \E i \in Slots : session'.aid[i] # session.aid[i] \/ session.xy[i] = NoAid
<1>1. FixIInv /\ [FixNext]_fixVars => [Step]_fixVars
  <2> SUFFICES ASSUME FixIInv, FixNext,
                      session'.epoch # session.epoch, session'.named, session.named
               PROVE  \E i \in Slots : \/ session'.aid[i] # session.aid[i]
                                           \/ session.xy[i] = NoAid
    OBVIOUS
  <2>1. session' # session
    OBVIOUS
  <2>2. ~LogOn /\ ~LogOff /\ ~Reboot
    <3>1. Fresh.named = FALSE /\ [Fresh EXCEPT !.on = TRUE].named = FALSE
      BY DEF Fresh
    <3> QED
      BY <3>1 DEF LogOn, LogOff, Reboot
  <2>3. LogName
    BY <2>1, <2>2 DEF FixNext, Runner, Operator, Discover, Answer,
       Discovered, Sweep, RangeSlot, Solve, LogCompare, HeightsStore,
       HeightsApply, Carried, log
  <2>4. /\ step = "name" /\ changed /\ session'.aid = aid
        /\ session.aid # aid \/ session.xy # xy
    <3>1. changed /\ step = "name"
      BY <2>1, <2>3 DEF LogName
    <3>2. session.aid # aid \/ session.xy # xy
      BY <3>1 DEF FixIInv, SessionNames, SessionType
    <3>3. session'.aid = aid
      BY <2>1, <2>3 DEF LogName, FixIInv, SessionType
    <3> QED
      BY <3>1, <3>2, <3>3
  <2>5. session.aid \in AidMap /\ session.xy \in AidMap /\ aid \in AidMap /\ xy \in AidMap
    BY DEF FixIInv, SessionType, SlotTypes
  <2>6. PICK i \in Slots : session.aid[i] # aid[i] \/ session.xy[i] # xy[i]
    BY <2>4, <2>5 DEF AidMap
  <2>7. session.aid[i] # aid[i] \/ session.xy[i] = NoAid
    BY <2>6 DEF FixIInv, SessionNames
  <2> QED
    BY <2>4, <2>7
<1> QED
  BY <1>1, FixInvariant, PTL DEF FixSpec, NoFlap
=============================================================================
