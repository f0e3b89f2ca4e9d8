--------------------------- MODULE AdvWindow_proofs ---------------------------
(***************************************************************************)
(* The advertising policy, the length of a window and the idle-current     *)
(* samples, for every length of the window and every battery voltage.      *)
(***************************************************************************)
EXTENDS AdvWindow, SequenceTheorems, TLAPS

IsQueue(q) == q \in Seq(Item) /\ IsInjective(q)

\* The host starts and stops advertising only while no connection is there.
HostCalls ==
    /\ adv => link = "down"
    /\ running = "starting" => link = "down" /\ ~adv

\* A stop the host is asked for while the mode turned continuous is taken back
\* by an item of work behind it.
StopUndone == running = "stopping" /\ Continuous => Queued("adv")

\* The timer and the age of the window add up, and what a stop that is on its
\* way has seen is a full window, or it was on its way already.
WindowAge ==
    /\ armed > 0 => armed + open = Window
    /\ Queued("stop") => open >= Window \/ late
    /\ running = "stopping" /\ adv => open >= Window \/ late

\* "past" samples are set aside for as long as the connection is known.
SamplesApart ==
    /\ window = "past" => connected
    /\ window # "mixed"
    /\ link = "up" /\ ~connected => landed

IInv == /\ TypeOK
        /\ HostCalls
        /\ AdvBounded /\ StaysVisible /\ StopUndone
        /\ WindowAge
        /\ SamplesApart

-----------------------------------------------------------------------------
(* The work queue: an item is in it once.                                  *)

LEMMA SubmittedQueue ==
  ASSUME NEW q, IsQueue(q), NEW item \in Item
  PROVE  IsQueue(Submitted(q, item)) /\ Range(Submitted(q, item)) = Range(q) \cup {item}
<1> USE DEF IsQueue, IsInjective, Range
<1>1. CASE item \in Range(q) BY <1>1 DEF Submitted
<1>2. CASE item \notin Range(q)
  <2>1. Submitted(q, item) = Append(q, item) BY <1>2 DEF Submitted
  <2> DEFINE a == Append(q, item)
  <2>2. /\ a \in Seq(Item) /\ DOMAIN a = 1..(Len(q) + 1) /\ DOMAIN q = 1..Len(q)
        /\ \A i \in 1..Len(q) : a[i] = q[i]
        /\ a[Len(q) + 1] = item /\ Len(q) \in Nat
    OBVIOUS
  <2>3. \A i \in 1..Len(q) : q[i] # item BY <1>2, <2>2
  <2> HIDE DEF a
  <2>4. IsInjective(a) BY <2>2, <2>3
  <2>5. Range(a) = Range(q) \cup {item} BY <2>2
  <2>6. QED BY <2>1, <2>2, <2>4, <2>5 DEF a
<1>3. QED BY <1>1, <1>2

LEMMA TailQueue ==
  ASSUME NEW q, IsQueue(q), q # <<>>
  PROVE  /\ Head(q) \in Item /\ Head(q) \in Range(q)
         /\ IsQueue(Tail(q)) /\ Range(Tail(q)) = Range(q) \ {Head(q)}
<1> USE DEF IsQueue, IsInjective, Range
<1> DEFINE t == Tail(q)
<1>1. /\ t \in Seq(Item) /\ Len(q) \in Nat /\ Len(q) > 0 /\ DOMAIN q = 1..Len(q)
      /\ DOMAIN t = 1..(Len(q) - 1)
      /\ \A i \in 1..(Len(q) - 1) : t[i] = q[i + 1]
      /\ Head(q) = q[1] /\ q[1] \in Item
  OBVIOUS
<1> HIDE DEF t
<1>2. IsInjective(t)
  <2>1. ASSUME NEW i \in DOMAIN t, NEW j \in DOMAIN t, t[i] = t[j] PROVE i = j
    <3>1. /\ i \in Nat /\ j \in Nat /\ i + 1 \in DOMAIN q /\ j + 1 \in DOMAIN q
          /\ q[i + 1] = q[j + 1]
      BY <1>1, <2>1
    <3>2. i + 1 = j + 1 BY <3>1
    <3>3. QED BY <3>1, <3>2
  <2>2. QED BY <2>1
<1>3. \A i \in 2..Len(q) : q[i] # q[1] BY <1>1
<1>4. Range(t) = Range(q) \ {q[1]}
  <2>1. ASSUME NEW x \in Range(t) PROVE x \in Range(q) \ {q[1]}
    <3>1. PICK i \in 1..(Len(q) - 1) : x = q[i + 1] BY <2>1, <1>1
    <3>2. i + 1 \in 2..Len(q) /\ i + 1 \in 1..Len(q) BY <3>1, <1>1
    <3>3. QED BY <3>1, <3>2, <1>1, <1>3
  <2>2. ASSUME NEW x \in Range(q) \ {q[1]} PROVE x \in Range(t)
    <3>1. PICK i \in 2..Len(q) : x = q[i] BY <2>2, <1>1
    <3>2. i - 1 \in 1..(Len(q) - 1) /\ t[i - 1] = q[i] BY <3>1, <1>1
    <3>3. QED BY <3>1, <3>2, <1>1
  <2>3. QED BY <2>1, <2>2
<1>5. QED BY <1>1, <1>2, <1>4 DEF t

LEMMA CancelledQueue ==
  ASSUME NEW q, IsQueue(q), NEW item \in Item
  PROVE  IsQueue(Cancelled(q, item)) /\ Range(Cancelled(q, item)) = Range(q) \ {item}
<1> USE DEF IsQueue, IsInjective, Range
<1>1. CASE item \notin Range(q) BY <1>1 DEF Cancelled
<1>2. CASE item \in Range(q)
  <2> DEFINE k == CHOOSE i \in DOMAIN q : q[i] = item
             n == Len(q)
             before == SubSeq(q, 1, k - 1)
             after == SubSeq(q, k + 1, n)
             c == before \o after
  <2>1. /\ k \in 1..n /\ q[k] = item /\ n \in Nat /\ DOMAIN q = 1..n
        /\ \A i \in 1..n : q[i] \in Item
    BY <1>2
  <2>2. Cancelled(q, item) = c BY <1>2 DEF Cancelled, RemoveAt
  <2> HIDE DEF k, n
  <2>3. /\ before \in Seq(Item) /\ Len(before) = k - 1
        /\ \A i \in 1..(k - 1) : before[i] = q[i]
    <3>1. k - 1 \in Int /\ \A i \in 1..(k - 1) : q[i] \in Item BY <2>1
    <3>2. /\ before \in Seq(Item)
          /\ Len(before) = IF 1 <= k - 1 THEN (k - 1) - 1 + 1 ELSE 0
          /\ \A i \in 1..((k - 1) - 1 + 1) : before[i] = q[1 + i - 1]
      BY <3>1, SubSeqProperties
    <3> HIDE DEF before
    <3>3. QED BY <2>1, <3>2
  <2>4. /\ after \in Seq(Item) /\ Len(after) = n - k
        /\ \A i \in 1..(n - k) : after[i] = q[k + i]
    <3>1. k + 1 \in Int /\ n \in Int /\ \A i \in (k + 1)..n : q[i] \in Item BY <2>1
    <3>2. /\ after \in Seq(Item)
          /\ Len(after) = IF k + 1 <= n THEN n - (k + 1) + 1 ELSE 0
          /\ \A i \in 1..(n - (k + 1) + 1) : after[i] = q[(k + 1) + i - 1]
      BY <3>1, SubSeqProperties
    <3> HIDE DEF after
    <3>3. QED BY <2>1, <3>2
  <2> HIDE DEF before, after
  <2>5. /\ c \in Seq(Item) /\ Len(c) = n - 1 /\ DOMAIN c = 1..(n - 1)
        /\ \A i \in 1..(n - 1) : c[i] = IF i < k THEN q[i] ELSE q[i + 1]
    <3>1. /\ c \in Seq(Item) /\ Len(c) = Len(before) + Len(after)
          /\ \A i \in 1..(Len(before) + Len(after)) :
                c[i] = IF i <= Len(before) THEN before[i] ELSE after[i - Len(before)]
      BY ONLY <2>3, <2>4, ConcatProperties, SMT DEF c
    <3> HIDE DEF c
    <3>2. Len(c) = n - 1
      <4>1. Len(c) = (k - 1) + (n - k) /\ k \in Int /\ n \in Int BY <2>1, <2>3, <2>4, <3>1
      <4>2. QED BY <4>1
    <3>3. DOMAIN c = 1..(n - 1) BY <3>1, <3>2
    <3>4. ASSUME NEW i \in 1..(n - 1)
          PROVE  c[i] = IF i < k THEN q[i] ELSE q[i + 1]
      <4>1. c[i] = IF i <= k - 1 THEN before[i] ELSE after[i - (k - 1)]
        BY <2>1, <2>3, <2>4, <3>1
      <4>2. CASE i < k BY <2>1, <2>3, <4>1, <4>2
      <4>3. CASE i >= k
        <5>1. i - (k - 1) \in 1..(n - k) BY <2>1, <4>3
        <5>2. after[i - (k - 1)] = q[k + (i - (k - 1))] BY <2>4, <5>1
        <5>3. k + (i - (k - 1)) = i + 1 /\ ~(i <= k - 1) BY <2>1, <4>3
        <5>4. QED BY <2>1, <4>1, <4>3, <5>2, <5>3
      <4>4. QED BY <2>1, <4>2, <4>3
    <3>5. QED BY <3>1, <3>2, <3>3, <3>4
  <2> HIDE DEF c
  <2>6. IsInjective(c)
    <3> DEFINE from(i) == IF i < k THEN i ELSE i + 1
    <3>1. \A i \in 1..(n - 1) : from(i) \in 1..n /\ c[i] = q[from(i)]
      BY <2>1, <2>5
    <3>2. \A i, j \in 1..(n - 1) : from(i) = from(j) => i = j
      BY <2>1
    <3> HIDE DEF from
    <3>3. QED BY <2>1, <2>5, <3>1, <3>2
  <2>7. \A i \in 1..n : i # k => q[i] # item BY <2>1
  <2>8. Range(c) = Range(q) \ {item}
    <3>1. ASSUME NEW x \in Range(c) PROVE x \in Range(q) \ {item}
      <4>1. PICK i \in 1..(n - 1) : x = c[i] BY <3>1, <2>5
      <4>2. CASE i < k
        <5>1. i \in 1..n /\ i # k /\ c[i] = q[i]
          BY <4>1, <4>2, <2>1, <2>5
        <5>2. QED BY <4>1, <5>1, <2>1, <2>7
      <4>3. CASE i >= k
        <5>1. i + 1 \in 1..n /\ i + 1 # k /\ c[i] = q[i + 1]
          BY <4>1, <4>3, <2>1, <2>5
        <5>2. QED BY <4>1, <5>1, <2>1, <2>7
      <4>4. QED BY <4>2, <4>3, <2>1
    <3>2. ASSUME NEW x \in Range(q) \ {item} PROVE x \in Range(c)
      <4>1. PICK i \in 1..n : x = q[i] /\ i # k BY <3>2, <2>1
      <4>2. CASE i < k BY <4>1, <4>2, <2>1, <2>5
      <4>3. CASE i > k
        <5>1. i - 1 \in 1..(n - 1) /\ c[i - 1] = q[i] BY <4>1, <4>3, <2>1, <2>5
        <5>2. QED BY <4>1, <5>1, <2>5
      <4>4. QED BY <4>1, <4>2, <4>3, <2>1
    <3>3. QED BY <3>1, <3>2
  <2>9. IsQueue(c) BY <2>5, <2>6
  <2> HIDE DEF IsQueue, IsInjective, Range
  <2>10. QED BY <2>2, <2>8, <2>9
<1>3. QED BY <1>1, <1>2

\* Opening takes nothing from the queue but, in continuous mode, the stop.
LEMMA AfterOpenQueue ==
  ASSUME NEW q, IsQueue(q)
  PROVE  /\ IsQueue(AfterOpen(q))
         /\ Range(AfterOpen(q)) = IF Continuous THEN Range(q) \ {"stop"} ELSE Range(q)
BY CancelledQueue DEF AfterOpen, Item

-----------------------------------------------------------------------------
(* The state of charge.                                                    *)

LEMMA ScaledDown ==
  ASSUME NEW a \in Nat, NEW b \in Nat, NEW c \in Nat, a < c
  PROVE  (a * b) \div c \in 0..b
<1>1. a * b \in Nat /\ a * b <= c * b OBVIOUS
<1> DEFINE r == (a * b) \div c
<1>2. r \in Int /\ r >= 0 /\ c * r <= a * b BY <1>1
<1>3. c * r <= c * b BY <1>1, <1>2
<1>4. r <= b BY <1>2, <1>3
<1>5. QED BY <1>2, <1>4

\* The discharge curve has 21 points, from 3500 to 4200 mV.
LEMMA CurveLength == Len(Curve) = 21
BY DEF Curve

LEMMA CurveEnds == Head(Curve)[1] = 3500 /\ Last(Curve)[1] = 4200
BY DEF Curve, Last

\* Both columns of the discharge curve rise, up to 100 per cent.
LEMMA CurveRises ==
  /\ \A i \in 1..21 : Curve[i][1] \in Nat /\ Curve[i][2] \in 0..100
  /\ \A i \in 2..21 : Curve[i - 1][1] < Curve[i][1] /\ Curve[i - 1][2] <= Curve[i][2]
BY SMTT(30) DEF Curve

LEMMA PercentRange == ASSUME NEW mv \in Nat PROVE Percent(mv) \in 0..100
<1>1. CASE mv <= Head(Curve)[1] \/ mv >= Last(Curve)[1]
  <2>1. Percent(mv) \in {0, 100} BY <1>1, Zenon DEF Percent
  <2>2. QED BY <2>1
<1>2. CASE ~(mv <= Head(Curve)[1] \/ mv >= Last(Curve)[1])
  <2> DEFINE Around(i) == Curve[i - 1][1] <= mv /\ mv < Curve[i][1]
             k == CHOOSE i \in 2..Len(Curve) : Around(i)
  <2>1. \E i \in 2..Len(Curve) : Around(i)
    <3>1. 3500 < mv /\ mv < 4200 BY <1>2, CurveEnds
    <3>2. CASE mv < 3840
      <4>1. \E i \in 2..11 : Around(i) BY <3>1, <3>2, SMTT(30) DEF Curve
      <4>2. QED BY <4>1, CurveLength
    <3>3. CASE ~(mv < 3840)
      <4>1. \E i \in 12..21 : Around(i) BY <3>1, <3>3, SMTT(30) DEF Curve
      <4>2. QED BY <4>1, CurveLength
    <3>4. QED BY <3>2, <3>3
  <2>2. k \in 2..21 /\ Around(k)
    <3>1. k \in 2..Len(Curve) /\ Around(k) BY <2>1, Zenon
    <3>2. Len(Curve) = 21 BY CurveLength
    <3>3. QED BY <3>1, <3>2
  <2>3. Percent(mv) = Curve[k - 1][2]
          + ((mv - Curve[k - 1][1]) * (Curve[k][2] - Curve[k - 1][2]))
               \div (Curve[k][1] - Curve[k - 1][1])
    BY <1>2 DEF Percent
  <2> HIDE DEF k
  <2>4. k - 1 \in 1..21 /\ k \in 1..21 BY <2>2
  <2>5. /\ Curve[k][2] \in 0..100 /\ Curve[k - 1][2] \in 0..100
        /\ Curve[k][1] \in Nat /\ Curve[k - 1][1] \in Nat
        /\ Curve[k - 1][2] <= Curve[k][2]
    <3>1. k \in 2..21 BY <2>2
    <3>2. QED BY <2>4, <3>1, CurveRises
  <2>6. ((mv - Curve[k - 1][1]) * (Curve[k][2] - Curve[k - 1][2]))
           \div (Curve[k][1] - Curve[k - 1][1]) \in 0..(Curve[k][2] - Curve[k - 1][2])
    <3>0. Curve[k - 1][1] <= mv /\ mv < Curve[k][1] BY <2>2
    <3> HIDE DEF Around
    <3>1. /\ mv - Curve[k - 1][1] \in Nat
          /\ Curve[k][1] - Curve[k - 1][1] \in Nat
          /\ mv - Curve[k - 1][1] < Curve[k][1] - Curve[k - 1][1]
      BY <3>0, <2>5
    <3>3. \A lo, hi \in 0..100 : lo <= hi => hi - lo \in Nat
      OBVIOUS
    <3>4. Curve[k][2] - Curve[k - 1][2] \in Nat
      BY <3>3, <2>5
    <3>2. QED BY <3>1, <3>4, ScaledDown
  <2>7. \A lo, hi \in 0..100 : \A d \in 0..(hi - lo) : lo + d \in 0..100
    OBVIOUS
  <2>8. QED BY <2>3, <2>5, <2>6, <2>7
<1>3. QED BY <1>1, <1>2

-----------------------------------------------------------------------------
LEMMA InitIInv == Init => IInv
<1> SUFFICES ASSUME Init PROVE IInv
  OBVIOUS
<1>1. IsQueue(<<>>) /\ Range(<<>>) = {}
  BY DEF IsQueue, IsInjective, Range
<1>2. /\ IsQueue(workq)
      /\ Queued("stop") = FALSE
      /\ forced => Queued("adv")
  <2>1. IsQueue(<<"adv">>) /\ Range(<<"adv">>) = {"adv"}
    BY DEF IsQueue, IsInjective, Range, Item
  <2>2. QED BY <1>1, <2>1 DEF Init, Queued
<1>3. /\ sleeping = TRUE /\ adv = FALSE /\ running = "none" /\ link = "down"
      /\ armed = 0 /\ open = 0 /\ window = "empty" /\ soc = Unknown
      /\ connected = FALSE /\ refused = FALSE /\ late = FALSE /\ landed = FALSE
      /\ forced \in BOOLEAN
  BY DEF Init
<1>4. TypeOK
  <2>1. 0 \in 0..Window BY AdvAssumption
  <2>2. QED BY <1>2, <1>3, <2>1 DEF TypeOK, IsQueue
<1>5. HostCalls /\ AdvBounded /\ StaysVisible /\ StopUndone
  BY <1>2, <1>3 DEF HostCalls, AdvBounded, StaysVisible, StopUndone, Continuous
<1>6. WindowAge /\ SamplesApart
  BY <1>2, <1>3 DEF WindowAge, SamplesApart
<1>7. QED BY <1>4, <1>5, <1>6 DEF IInv

LEMMA Queue == ASSUME TypeOK PROVE IsQueue(workq)
BY DEF TypeOK, IsQueue

\* What is submitted is in the queue, behind what was there.
LEMMA SubmitFacts ==
  ASSUME TypeOK, NEW item \in Item, workq' = Submitted(workq, item)
  PROVE  /\ workq' \in Seq(Item) /\ IsInjective(workq')
         /\ Range(workq') = Range(workq) \cup {item}
BY Queue, SubmittedQueue DEF IsQueue

\* What is taken leaves the queue, and the other items stay.
LEMMA TakenFacts ==
  ASSUME TypeOK, NEW item \in Item, Taken(item)
  PROVE  /\ running = "none" /\ item \in Range(workq)
         /\ IsQueue(Tail(workq)) /\ Range(Tail(workq)) = Range(workq) \ {item}
BY Queue, TailQueue DEF Taken

\* The start of a window: the timer is off in continuous mode and full otherwise,
\* and the idle samples of a connection are given up.
LEMMA OpenedFacts ==
  ASSUME TypeOK, WindowAge, SamplesApart, Opened
  PROVE  /\ armed' \in 0..Window /\ open' \in 0..Window
         /\ {connected', late', landed'} \subseteq BOOLEAN
         /\ window' \in {"empty", "one", "past", "mixed"}
         /\ Continuous => armed' = 0 /\ UNCHANGED <<open, late>>
         /\ ~Continuous => /\ armed' = Window /\ open' = 0
                           /\ late' = ("stop" \in Range(workq))
         /\ window' = "past" => connected'
         /\ window' # "mixed"
         /\ link = "up" /\ ~connected' => landed'
         /\ window' # window => window' = "empty"
<1>1. /\ connected' \in BOOLEAN /\ landed' \in BOOLEAN
      /\ window' \in {"empty", "one", "past", "mixed"}
      /\ window' = "past" => connected'
      /\ window' # "mixed"
      /\ link = "up" /\ ~connected' => landed'
      /\ window' # window => window' = "empty"
  BY DEF Opened, OnAdvertising, TypeOK, SamplesApart
<1>2. /\ Continuous => armed' = 0 /\ UNCHANGED <<open, late>>
      /\ ~Continuous => /\ armed' = Window /\ open' = 0
                        /\ late' = ("stop" \in Range(workq))
  BY DEF Opened, Rearm
<1>3. 0 \in 0..Window /\ Window \in 0..Window BY AdvAssumption
<1>4. late' \in BOOLEAN /\ armed' \in 0..Window /\ open' \in 0..Window
  <2>1. CASE Continuous BY <1>2, <1>3, <2>1 DEF TypeOK
  <2>2. CASE ~Continuous BY <1>2, <1>3, <2>2
  <2>3. QED BY <2>1, <2>2
<1>5. QED BY <1>1, <1>2, <1>4

-----------------------------------------------------------------------------
(* Requests and connections                                                *)

LEMMA RequestStep ==
  ASSUME IInv, Request \/ ForceOn \/ \E on \in BOOLEAN : SleepCommand(on)
  PROVE  IInv'
<1> USE DEF IInv, TypeOK, HostCalls, AdvBounded, StaysVisible, StopUndone,
            WindowAge, SamplesApart, Queued, batt, ghosts
<1>1. /\ workq' \in Seq(Item) /\ IsInjective(workq')
      /\ Range(workq') = Range(workq) \cup {"adv"}
  BY SubmitFacts DEF Request, ForceOn, SleepCommand, OpenWindow, Item
<1>2. /\ forced' \in BOOLEAN /\ sleeping' \in BOOLEAN
      /\ UNCHANGED <<link, adv, armed, running, batt, ghosts>>
  BY DEF Request, ForceOn, SleepCommand, OpenWindow
<1>3. QED BY <1>1, <1>2

LEMMA ForceOffStep == ASSUME IInv, ForceOff PROVE IInv'
<1> USE DEF IInv, TypeOK, HostCalls, AdvBounded, StaysVisible, StopUndone,
            WindowAge, SamplesApart, Queued, batt
<1>1. 0 \in 0..Window /\ Window \in 0..Window /\ Window > 0 BY AdvAssumption
<1>2. /\ link = "up" /\ armed' = Window /\ open' = 0 /\ forced' = FALSE
      /\ late' = ("stop" \in Range(workq))
      /\ UNCHANGED <<sleeping, link, adv, workq, running, batt, refused, landed>>
  BY DEF ForceOff, Rearm
<1>3. late' \in BOOLEAN BY <1>2
<1>4. TypeOK' BY <1>1, <1>2, <1>3
<1>5. WindowAge' BY <1>1, <1>2, AdvAssumption
<1>6. QED BY <1>1, <1>2, <1>4, <1>5 DEF Continuous

LEMMA LinkStep ==
  ASSUME IInv, Connect \/ OnConnected \/ Drop \/ OnDisconnected
  PROVE  IInv'
<1> USE DEF IInv, TypeOK, HostCalls, AdvBounded, StaysVisible, StopUndone,
            WindowAge, SamplesApart, Queued, Continuous, batt, ghosts
<1>1. CASE Connect BY <1>1 DEF Connect
<1>2. CASE OnConnected BY <1>2 DEF OnConnected
<1>3. CASE Drop BY <1>3 DEF Drop
<1>4. CASE OnDisconnected
  <2>1. /\ workq' \in Seq(Item) /\ IsInjective(workq')
        /\ Range(workq') = Range(workq) \cup {"adv"}
    BY <1>4, SubmitFacts DEF OnDisconnected, Item
  <2>2. /\ link = "lost" /\ link' = "down" /\ refused' = FALSE
        /\ UNCHANGED <<forced, sleeping, adv, armed, running, batt, open, late, landed>>
    BY <1>4 DEF OnDisconnected
  <2>3. QED BY <2>1, <2>2
<1>5. QED BY <1>1, <1>2, <1>3, <1>4

-----------------------------------------------------------------------------
(* adv_work_fn() and adv_stop_work_fn()                                    *)

LEMMA AdvWorkStep == ASSUME IInv, AdvWork PROVE IInv'
<1> USE DEF IInv, HostCalls, AdvBounded, StaysVisible, StopUndone,
            WindowAge, SamplesApart, Queued
<1>1. /\ running = "none" /\ "adv" \in Range(workq)
      /\ IsQueue(Tail(workq)) /\ Range(Tail(workq)) = Range(workq) \ {"adv"}
  BY TakenFacts DEF AdvWork, Item
<1>2. Continuous' = Continuous /\ UNCHANGED <<forced, sleeping, link, adv>>
  BY DEF AdvWork, Continuous
<1>3. CASE link \in {"up", "lost"}
  <2>1. workq' = Tail(workq) /\ UNCHANGED <<armed, running, batt, ghosts>>
    BY <1>3 DEF AdvWork
  <2>2. TypeOK' BY <1>1, <1>2, <2>1 DEF TypeOK, IsQueue, batt, ghosts
  <2>3. QED BY <1>1, <1>2, <1>3, <2>1, <2>2 DEF batt, ghosts
<1>4. CASE link \notin {"up", "lost"} /\ (adv \/ link = "new")
  <2>1. /\ Opened /\ workq' = AfterOpen(Tail(workq))
        /\ UNCHANGED <<running, soc, refused>>
    BY <1>4 DEF AdvWork
  <2>2. /\ workq' \in Seq(Item) /\ IsInjective(workq')
        /\ Range(workq') = IF Continuous THEN Range(workq) \ {"adv", "stop"}
                           ELSE Range(workq) \ {"adv"}
    BY <1>1, <2>1, AfterOpenQueue DEF IsQueue
  <2>3. /\ armed' \in 0..Window /\ open' \in 0..Window
        /\ {connected', late', landed'} \subseteq BOOLEAN
        /\ window' \in {"empty", "one", "past", "mixed"}
        /\ Continuous => armed' = 0 /\ UNCHANGED <<open, late>>
        /\ ~Continuous => /\ armed' = Window /\ open' = 0
                          /\ late' = ("stop" \in Range(workq))
        /\ SamplesApart'
    BY <2>1, <1>2, OpenedFacts
  <2>4. TypeOK' BY <1>2, <2>1, <2>2, <2>3 DEF TypeOK
  <2>5. Window > 0 /\ (adv => link = "down") BY AdvAssumption
  <2>6. HostCalls' /\ StopUndone' BY <1>1, <1>2, <2>1
  <2>7. AdvBounded' BY <1>2, <2>1, <2>3, <2>5
  <2>8. StaysVisible' BY <1>2, <1>4, <2>1
  <2>9. WindowAge'
    <3>1. CASE Continuous BY <1>1, <1>2, <2>1, <2>2, <2>3, <3>1
    <3>2. CASE ~Continuous
      <4>1. armed' + open' = Window BY <2>3, <3>2, AdvAssumption
      <4>2. "stop" \in Range(workq') => late'
        BY <2>2, <2>3, <3>2, Zenon
      <4>3. running' # "stopping" BY <1>1, <2>1
      <4>4. QED BY <4>1, <4>2, <4>3
    <3>3. QED BY <3>1, <3>2
  <2>10. QED BY <2>3, <2>4, <2>6, <2>7, <2>8, <2>9
<1>5. CASE link \notin {"up", "lost"} /\ ~(adv \/ link = "new")
  <2>1. /\ running' = "starting" /\ workq' = Tail(workq)
        /\ UNCHANGED <<armed, batt, ghosts>>
    BY <1>5 DEF AdvWork
  <2>2. TypeOK' BY <1>1, <1>2, <2>1 DEF TypeOK, IsQueue, batt, ghosts
  <2>3. link = "down" BY <1>5 DEF TypeOK
  <2>4. QED BY <1>1, <1>2, <1>5, <2>1, <2>2, <2>3 DEF batt, ghosts
<1>6. QED BY <1>3, <1>4, <1>5

LEMMA AdvReturnsStep == ASSUME IInv, AdvReturns PROVE IInv'
<1> USE DEF IInv, HostCalls, AdvBounded, StaysVisible, StopUndone,
            WindowAge, SamplesApart, Queued
<1>1. /\ running = "started" /\ running' = "none" /\ Opened
      /\ workq' = AfterOpen(workq)
      /\ UNCHANGED <<forced, sleeping, link, adv, soc, refused>>
      /\ Continuous' = Continuous
  BY DEF AdvReturns, Continuous
<1>2. /\ workq' \in Seq(Item) /\ IsInjective(workq')
      /\ Range(workq') = IF Continuous THEN Range(workq) \ {"stop"} ELSE Range(workq)
  BY <1>1, Queue, AfterOpenQueue DEF IsQueue
<1>3. /\ armed' \in 0..Window /\ open' \in 0..Window
      /\ {connected', late', landed'} \subseteq BOOLEAN
      /\ window' \in {"empty", "one", "past", "mixed"}
      /\ Continuous => armed' = 0 /\ UNCHANGED <<open, late>>
      /\ ~Continuous => /\ armed' = Window /\ open' = 0
                        /\ late' = ("stop" \in Range(workq))
      /\ SamplesApart'
  BY <1>1, OpenedFacts
<1>4. TypeOK' BY <1>1, <1>2, <1>3 DEF TypeOK
<1>5. HostCalls' /\ StopUndone' BY <1>1
<1>6. Window > 0 BY AdvAssumption
<1>7. AdvBounded' BY <1>1, <1>3, <1>6
<1>8. StaysVisible' BY <1>1, <1>2
<1>9. WindowAge'
  <2>1. CASE Continuous BY <1>1, <1>2, <1>3, <2>1
  <2>2. CASE ~Continuous
    <3>1. armed' + open' = Window BY <1>3, <2>2, AdvAssumption
    <3>2. "stop" \in Range(workq') => late' BY <1>2, <1>3, <2>2, Zenon
    <3>3. QED BY <1>1, <3>1, <3>2
  <2>3. QED BY <2>1, <2>2
<1>10. QED BY <1>3, <1>4, <1>5, <1>7, <1>8, <1>9

LEMMA HostStep == ASSUME IInv, OnAir \/ Refuse \/ StopReturns PROVE IInv'
<1> USE DEF IInv, TypeOK, HostCalls, AdvBounded, StaysVisible, StopUndone,
            WindowAge, SamplesApart, Queued, Continuous, batt, ghosts
<1>1. CASE OnAir BY <1>1 DEF OnAir
<1>2. CASE Refuse BY <1>2 DEF Refuse
<1>3. CASE StopReturns BY <1>3 DEF StopReturns
<1>4. QED BY <1>1, <1>2, <1>3

LEMMA StopWorkStep == ASSUME IInv, StopWork PROVE IInv'
<1> USE DEF IInv, HostCalls, AdvBounded, StaysVisible, StopUndone,
            WindowAge, SamplesApart, Queued
<1>1. /\ running = "none" /\ "stop" \in Range(workq)
      /\ IsQueue(Tail(workq)) /\ Range(Tail(workq)) = Range(workq) \ {"stop"}
  BY TakenFacts DEF StopWork, Item
<1>2. /\ workq' = Tail(workq)
      /\ running' = IF link \in {"up", "lost"} \/ Continuous THEN "none" ELSE "stopping"
      /\ UNCHANGED <<forced, sleeping, link, adv, armed, batt, ghosts>>
      /\ Continuous' = Continuous
  BY DEF StopWork, Continuous
<1>3. TypeOK' BY <1>1, <1>2 DEF TypeOK, IsQueue, batt, ghosts
<1>4. QED BY <1>1, <1>2, <1>3 DEF batt, ghosts

-----------------------------------------------------------------------------
(* The battery, and time                                                   *)

LEMMA SampleStep ==
  ASSUME IInv, SampleDue \/ SampleWork \/ \E ok \in BOOLEAN : SampleReturns(ok)
  PROVE  IInv'
<1> USE DEF IInv, HostCalls, AdvBounded, StaysVisible, StopUndone,
            WindowAge, SamplesApart, Queued, Continuous, ghosts
<1>1. CASE SampleDue
  <2>1. workq' = Submitted(workq, "batt") BY <1>1 DEF SampleDue, Submitted
  <2>2. /\ workq' \in Seq(Item) /\ IsInjective(workq')
        /\ Range(workq') = Range(workq) \cup {"batt"}
    BY <2>1, SubmitFacts DEF Item
  <2>3. UNCHANGED <<forced, sleeping, link, adv, armed, running, batt, ghosts>>
    BY <1>1 DEF SampleDue
  <2>4. TypeOK' BY <2>2, <2>3 DEF TypeOK, batt
  <2>5. QED BY <2>2, <2>3, <2>4 DEF batt
<1>2. CASE SampleWork
  <2>1. /\ running = "none" /\ "batt" \in Range(workq)
        /\ IsQueue(Tail(workq)) /\ Range(Tail(workq)) = Range(workq) \ {"batt"}
    BY <1>2, TakenFacts DEF SampleWork, Item
  <2>2. /\ workq' = Tail(workq) /\ running' = "sampling"
        /\ UNCHANGED <<forced, sleeping, link, adv, armed, connected, window, ghosts>>
    BY <1>2 DEF SampleWork
  <2>3. soc' \in 0..100 \cup {Unknown}
    <3>1. \A mv \in Readings : Percent(mv) \in 0..100
      BY PercentRange, AdvAssumption
    <3>2. soc' \in {Unknown} \cup {Percent(mv) : mv \in Readings}
      BY <1>2 DEF SampleWork
    <3>3. QED BY <3>1, <3>2
  <2>4. TypeOK' BY <2>1, <2>2, <2>3 DEF TypeOK, IsQueue
  <2>5. QED BY <2>1, <2>2, <2>4
<1>3. ASSUME NEW ok \in BOOLEAN, SampleReturns(ok) PROVE IInv'
  <2>1. /\ running = "sampling" /\ running' = "none"
        /\ UNCHANGED <<forced, sleeping, link, adv, armed, workq, connected, soc, ghosts>>
    BY <1>3 DEF SampleReturns
  <2>2. /\ window' \in {"empty", "one", "past", "mixed"}
        /\ SamplesApart'
    BY <1>3 DEF SampleReturns, Sampled, Grown, TypeOK
  <2>3. TypeOK' BY <2>1, <2>2 DEF TypeOK
  <2>4. QED BY <2>1, <2>2, <2>3
<1>4. QED BY <1>1, <1>2, <1>3

LEMMA TickStep == ASSUME IInv, Tick PROVE IInv'
<1> USE DEF IInv, HostCalls, AdvBounded, StaysVisible, StopUndone,
            WindowAge, SamplesApart, Queued, Continuous, batt
<1>1. /\ workq = <<>> /\ running = "none"
      /\ armed' = IF armed > 0 THEN armed - 1 ELSE 0
      /\ open' = IF open < Window THEN open + 1 ELSE open
      /\ UNCHANGED <<forced, sleeping, link, adv, running, batt, refused, late, landed>>
  BY DEF Tick
<1>2. Range(workq) = {} BY <1>1 DEF Range
<1>3. /\ workq' \in Seq(Item) /\ IsInjective(workq')
      /\ Range(workq') = IF armed = 1 THEN {"stop"} ELSE {}
  <2>1. CASE armed = 1
    BY <1>2, <2>1, SubmitFacts DEF Tick, StopDue, Item
  <2>2. CASE armed # 1
    BY <1>2, <2>2 DEF Tick, TypeOK
  <2>3. QED BY <2>1, <2>2
<1>4. /\ armed \in 0..Window /\ open \in 0..Window /\ Window \in Nat
      /\ armed' \in 0..Window /\ open' \in 0..Window
  <2>1. armed \in 0..Window /\ open \in 0..Window /\ Window \in Nat
    BY AdvAssumption DEF TypeOK
  <2>2. QED BY <1>1, <2>1
<1>5. TypeOK' BY <1>1, <1>3, <1>4 DEF TypeOK
<1>6. WindowAge' BY <1>1, <1>3, <1>4
<1>7. AdvBounded' BY <1>1, <1>2, <1>3, <1>4
<1>8. QED BY <1>1, <1>2, <1>3, <1>5, <1>6, <1>7

-----------------------------------------------------------------------------
LEMMA StepIInv == ASSUME IInv, [Next]_vars PROVE IInv'
<1>1. CASE UNCHANGED vars
  BY <1>1 DEF IInv, TypeOK, HostCalls, AdvBounded, StaysVisible, StopUndone,
     WindowAge, SamplesApart, Queued, Continuous, vars, ble, batt, ghosts
<1>2. CASE Next
  BY <1>2, RequestStep, ForceOffStep, LinkStep, AdvWorkStep, AdvReturnsStep,
     HostStep, StopWorkStep, SampleStep, TickStep DEF Next
<1>3. QED BY <1>1, <1>2

\* The invariant the theorems rest on holds throughout.
THEOREM Inductive == Spec => []IInv
BY InitIInv, StepIInv, PTL DEF Spec

\* Advertising that nothing justifies is always about to end, and continuous
\* advertising is there or about to be unless the host refused, wherever requests,
\* commands and connections fall between the calls into the host.
THEOREM PolicyHolds == Spec => []AdvPolicy
<1>1. IInv => AdvPolicy BY DEF IInv, AdvPolicy
<1>2. QED BY <1>1, Inductive, PTL

\* The stop that ends advertising ends a whole window, or it was in the queue
\* before the window was asked for.
THEOREM WindowIsWhole == Spec => WholeWindow
<1>1. ASSUME IInv, [Next]_vars
      PROVE  [StopReturns /\ adv => open >= Window \/ late]_vars
  BY <1>1 DEF IInv, WindowAge, StopReturns
<1>2. QED BY <1>1, Inductive, PTL DEF Spec, WholeWindow

\* Samples of two periods never meet in one window, and a connection leaves none.
THEOREM SamplesKeptApart == Spec => IdleClean
<1> DEFINE Clean == /\ window' # "mixed"
                    /\ window' # window /\ link = "up" =>
                         window' \in {"empty", "past"} \/ landed
<1>1. ASSUME IInv, [Next]_vars PROVE [Clean]_vars
  <2>1. window' # "mixed" BY <1>1, StepIInv DEF IInv, SamplesApart
  <2>2. CASE window' = window \/ link # "up" BY <2>1, <2>2
  <2>3. CASE window' # window /\ link = "up"
    <3>1. Next BY <1>1, <2>3 DEF vars, batt
    <3>2. AdvReturns \/ \E ok \in BOOLEAN : SampleReturns(ok)
      BY <2>3, <3>1 DEF Next, Request, ForceOn, ForceOff, SleepCommand, OpenWindow,
         AdvWork, OnAir, Refuse, StopWork, StopReturns, Connect, OnConnected, Drop,
         OnDisconnected, SampleDue, SampleWork, Tick, batt
    <3>3. CASE AdvReturns
      BY <1>1, <2>1, <2>3, <3>3, OpenedFacts DEF AdvReturns, IInv
    <3>4. ASSUME NEW ok \in BOOLEAN, SampleReturns(ok) PROVE landed
      BY <1>1, <2>3, <3>4 DEF SampleReturns, Sampled, IInv, SamplesApart
    <3>5. QED BY <2>1, <3>2, <3>3, <3>4
  <2>4. QED BY <2>2, <2>3
<1>2. QED BY <1>1, Inductive, PTL DEF Spec, IdleClean
=============================================================================
