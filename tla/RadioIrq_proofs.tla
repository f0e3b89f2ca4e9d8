---------------------------- MODULE RadioIrq_proofs ----------------------------
(***************************************************************************)
(* The hand-over from the interrupt to the thread that waits for it is     *)
(* sound for every set of frames on the air: no edge is lost between the   *)
(* event and the semaphore, the handler finds the SPI bus taken only in    *)
(* the thread's own drain, and what a wait returns was asked for.          *)
(*                                                                         *)
(* What is then taken from the receive buffer is a whole frame of the kind *)
(* that was waited for: the codec reads back what it builds, and a buffer  *)
(* in which one frame lies over another never passes for a third.          *)
(*                                                                         *)
(* The last part is about AlertFlood: what the frames that come in this    *)
(* way do to the gateway's alarms.  The two share no variable and no lemma *)
(* but this module.                                                        *)
(***************************************************************************)
EXTENDS RadioIrq, AlertFlood, FiniteSetTheorems, SequenceTheorems, TLAPS

\* The interrupt is enabled from WaitEnable to WaitReturn, and at no other step;
\* a latched edge and a running handler are of that time.
ArmedSteps == {"check", "drain", "tail", "park", "taken", "late"}

Armed == /\ irqOn <=> pc \in ArmedSteps
         /\ edge => irqOn
         /\ isr => irqOn

\* From the moment last_evt is reset, what the semaphore announces is an event
\* of the mask the exchange programmed.
GivenAskedFor ==
    pc \in {"enable", "check", "drain", "tail", "park"} /\ sem => evt \in mask

IInv == /\ TypeOK
        /\ Armed
        /\ GivenAskedFor
        /\ NoLostEdge
        /\ EventAskedFor

-----------------------------------------------------------------------------
\* The last callback of a dispatch is that of an event that was due.
LEMMA LastOfDue ==
  ASSUME NEW due \in SUBSET Events, due # {}
  PROVE  LastOf(due) \in due
<1> USE DEF Events, RX
<1>1. \A e \in Events : Rank[e] \in 1..4
  BY DEF Rank
<1>2. \E e \in due : \A o \in due : Rank[o] <= Rank[e]
  <2>1. /\ Rank["tx"] = 1 /\ Rank["rxok"] = 2
        /\ Rank["rxto"] = 3 /\ Rank["rxerr"] = 4
    BY DEF Rank
  <2>2. CASE "rxerr" \in due BY <2>1, <2>2
  <2>3. CASE "rxerr" \notin due /\ "rxto" \in due BY <2>1, <2>3
  <2>4. CASE due \cap {"rxerr", "rxto"} = {} /\ "rxok" \in due BY <2>1, <2>4
  <2>5. CASE due = {"tx"} BY <2>1, <2>5
  <2>6. QED BY <2>2, <2>3, <2>4, <2>5
<1>3. QED BY <1>2, Zenon DEF LastOf

\* A dispatch leaves nothing due that raises the line, and gives the semaphore
\* only with an event of the mask.
LEMMA DispatchFacts ==
  ASSUME TypeOK, Dispatch
  PROVE  /\ mask' = mask /\ status' \subseteq Events
         /\ status' \cap mask' = {}
         /\ edge' = edge
         /\ sem' \in BOOLEAN /\ evt' \in Events \cup {"none"}
         /\ \/ sem' = TRUE /\ evt' \in mask
            \/ UNCHANGED <<sem, evt>>
<1>1. /\ mask' = mask /\ status' = status \ (status \cap mask)
      /\ edge' = (edge \/ (irqOn /\ ~Line /\ (status \ (status \cap mask)) \cap mask # {}))
  BY DEF Dispatch, Bits
<1>2. edge' = edge
  BY <1>1 DEF TypeOK
<1>3. CASE status \cap mask = {}
  BY <1>1, <1>2, <1>3 DEF Dispatch, TypeOK
<1>4. CASE status \cap mask # {}
  <2>1. LastOf(status \cap mask) \in status \cap mask
    BY <1>4, LastOfDue DEF TypeOK
  <2>2. evt' = LastOf(status \cap mask) /\ sem' = TRUE
    BY <1>4 DEF Dispatch
  <2>3. QED BY <1>1, <1>2, <2>1, <2>2 DEF TypeOK
<1>5. QED BY <1>3, <1>4

\* Setting event bits latches an edge when the line rises while it is enabled,
\* and forgets none.
LEMMA BitsFacts ==
  ASSUME TypeOK, NEW st \in SUBSET Events, NEW mk \in SUBSET Events, Bits(st, mk)
  PROVE  /\ status' \subseteq Events /\ mask' = mk /\ edge' \in BOOLEAN
         /\ edge => edge'
         /\ edge' => edge \/ irqOn
         /\ irqOn /\ ~Line /\ status' \cap mask' # {} => edge'
<1>1. /\ status' = st /\ mask' = mk
      /\ edge' = (edge \/ (irqOn /\ ~Line /\ st \cap mk # {}))
  BY DEF Bits
<1>2. QED BY <1>1 DEF TypeOK

\* The receive buffer has the last frame, or none.
LEMMA FirstFrame == ASSUME TypeOK PROVE buf[1] \in Air \cup {NoFrame}
<1>1. buf \in Seq(Air \cup {NoFrame}) /\ Len(buf) = 2 /\ 1 \in 1 .. 2
  BY DEF TypeOK
<1>2. \A s \in Seq(Air \cup {NoFrame}) : \A i \in 1 .. Len(s) : s[i] \in Air \cup {NoFrame}
  OBVIOUS
<1>3. QED BY <1>1, <1>2

-----------------------------------------------------------------------------
LEMMA InitIInv == Init => IInv
<1> SUFFICES ASSUME Init PROVE IInv
  OBVIOUS
<1>1. <<NoFrame, NoFrame>> \in Seq(Air \cup {NoFrame}) /\ Len(<<NoFrame, NoFrame>>) = 2
  OBVIOUS
<1>2. TypeOK BY <1>1 DEF Init, TypeOK, SpiSteps
<1>3. Armed BY DEF Init, Armed, ArmedSteps
<1>4. GivenAskedFor /\ NoLostEdge /\ EventAskedFor
  BY DEF Init, GivenAskedFor, NoLostEdge, EventAskedFor
<1>5. QED BY <1>2, <1>3, <1>4 DEF IInv

\* A step of the chip: the thread and the handler stand still.
LEMMA ChipStep == ASSUME IInv, Chip PROVE IInv'
<1>1. /\ mask' = mask /\ UNCHANGED <<irqOn, isr, sem, evt, ret, pc, op, len, hwto>>
  BY DEF Chip, TxDone, RxFrame, RxFails, Bits, wait, result
<1>2. PICK e \in Events : Bits(status \cup {e}, mask)
  BY DEF Chip, TxDone, RxFrame, RxFails, Events, RX
<1>3. /\ status' \subseteq Events /\ edge' \in BOOLEAN
      /\ edge => edge'
      /\ edge' => edge \/ irqOn
      /\ irqOn /\ ~Line /\ status' \cap mask' # {} => edge'
  BY <1>2, BitsFacts DEF IInv, TypeOK
<1>4. radio' \in {"idle", "tx", "txrx", "rx"}
  BY DEF Chip, TxDone, RxFrame, RxFails
<1>5. buf' \in Seq(Air \cup {NoFrame}) /\ Len(buf') = 2
  <2>1. CASE UNCHANGED buf BY <2>1 DEF IInv, TypeOK
  <2>2. ASSUME NEW f \in Air, RxFrame(f) PROVE buf' \in Seq(Air \cup {NoFrame}) /\ Len(buf') = 2
    <3>1. buf' = <<f, buf[1]>> BY <2>2 DEF RxFrame
    <3>2. buf[1] \in Air \cup {NoFrame} BY FirstFrame DEF IInv
    <3>3. QED BY <3>1, <3>2
  <2>3. QED BY <2>1, <2>2 DEF Chip, TxDone, RxFails
<1>6. TypeOK' BY <1>1, <1>3, <1>4, <1>5 DEF IInv, TypeOK
<1>7. Armed' BY <1>1, <1>3 DEF IInv, Armed
<1>8. NoLostEdge'
  BY <1>1, <1>3 DEF IInv, NoLostEdge, Armed, ArmedSteps, Line
<1>9. GivenAskedFor' /\ EventAskedFor'
  BY <1>1 DEF IInv, GivenAskedFor, EventAskedFor
<1>10. QED BY <1>6, <1>7, <1>8, <1>9 DEF IInv

-----------------------------------------------------------------------------
(* The interrupt and its handler                                           *)

\* Taking the interrupt and leaving it touches nothing but the two latches.
LEMMA LatchTypes ==
  ASSUME TypeOK, edge' \in BOOLEAN, isr' \in BOOLEAN,
         UNCHANGED <<radio, hwto, status, mask, buf, irqOn, sem, evt, ret, pc, op, len>>
  PROVE  TypeOK'
BY DEF TypeOK

LEMMA InterruptStep == ASSUME IInv, Interrupt PROVE IInv'
<1> USE DEF IInv
<1>1. CASE IsrEnter
  <2>1. /\ edge /\ irqOn /\ edge' = FALSE /\ isr' = TRUE
        /\ UNCHANGED <<radio, hwto, status, mask, buf, irqOn, sem, evt, ret, pc, op, len>>
    BY <1>1 DEF IsrEnter, chip, wait, result
  <2>2. TypeOK' BY <2>1, LatchTypes
  <2>3. Armed' /\ NoLostEdge' BY <2>1 DEF Armed, NoLostEdge
  <2>4. GivenAskedFor' /\ EventAskedFor' BY <2>1 DEF GivenAskedFor, EventAskedFor
  <2>5. QED BY <2>2, <2>3, <2>4
<1>2. CASE IsrExit
  <2>1. /\ ~Line /\ isr' = FALSE
        /\ UNCHANGED <<radio, hwto, status, mask, buf, irqOn, edge, sem, evt, ret, pc,
                       op, len>>
    BY <1>2 DEF IsrExit, chip, wait, result
  <2>2. TypeOK'
    <3>1. isr' \in BOOLEAN /\ edge' \in BOOLEAN BY <2>1 DEF TypeOK
    <3>2. QED BY <2>1, <3>1, LatchTypes
  <2>3. Armed' BY <2>1 DEF Armed
  <2>4. NoLostEdge' BY <2>1 DEF NoLostEdge, Line
  <2>5. GivenAskedFor' /\ EventAskedFor' BY <2>1 DEF GivenAskedFor, EventAskedFor
  <2>6. QED BY <2>2, <2>3, <2>4, <2>5
<1>3. CASE IsrDrain
  <2>1. /\ mask' = mask /\ status' \subseteq Events /\ edge' = edge
        /\ sem' \in BOOLEAN /\ evt' \in Events \cup {"none"}
        /\ \/ sem' = TRUE /\ evt' \in mask
           \/ UNCHANGED <<sem, evt>>
    BY <1>3, DispatchFacts DEF IsrDrain
  <2>2. isr /\ UNCHANGED <<radio, hwto, buf, irqOn, isr, ret, pc, op, len, got>>
    BY <1>3 DEF IsrDrain, result
  <2>3. QED BY <2>1, <2>2 DEF TypeOK, Armed, GivenAskedFor, NoLostEdge, EventAskedFor
<1>4. CASE WatchdogReset
  <2>1. TypeOK'
    <3>1. <<NoFrame, NoFrame>> \in Seq(Air \cup {NoFrame}) /\ Len(<<NoFrame, NoFrame>>) = 2
      OBVIOUS
    <3>2. QED BY <1>4, <3>1 DEF WatchdogReset, TypeOK, SpiSteps
  <2>2. QED BY <1>4, <2>1 DEF WatchdogReset, Armed, ArmedSteps, GivenAskedFor,
               NoLostEdge, EventAskedFor
<1>5. QED BY <1>1, <1>2, <1>3, <1>4 DEF Interrupt

-----------------------------------------------------------------------------
(* wait_event()                                                            *)

LEMMA WaitStep == ASSUME IInv, Wait PROVE IInv'
<1> USE DEF IInv
<1>1. CASE WaitReset
  BY <1>1 DEF WaitReset, Go, TypeOK, Armed, ArmedSteps, SpiSteps,
     GivenAskedFor, NoLostEdge, EventAskedFor, chip, line, result
<1>7. CASE WaitEnable
  BY <1>7 DEF WaitEnable, Go, TypeOK, Armed, ArmedSteps, SpiSteps,
     GivenAskedFor, NoLostEdge, EventAskedFor, chip, wait, result
<1>2. CASE WaitCheck \/ WaitAgain
  BY <1>2 DEF WaitCheck, WaitAgain, Go, TypeOK, Armed, ArmedSteps, SpiSteps,
     GivenAskedFor, NoLostEdge, EventAskedFor, Line, chip, line, wait, result
<1>3. CASE WaitDrain
  <2>1. /\ mask' = mask /\ status' \subseteq Events /\ edge' = edge
        /\ sem' \in BOOLEAN /\ evt' \in Events \cup {"none"}
        /\ \/ sem' = TRUE /\ evt' \in mask
           \/ UNCHANGED <<sem, evt>>
    BY <1>3, DispatchFacts DEF WaitDrain
  <2>2. /\ pc = "drain" /\ pc' = "tail"
        /\ UNCHANGED <<radio, hwto, buf, irqOn, isr, ret, op, len, got>>
    BY <1>3 DEF WaitDrain, Go, result
  <2>3. TypeOK' BY <2>1, <2>2 DEF TypeOK, SpiSteps
  <2>4. Armed' BY <2>2, <2>1 DEF Armed, ArmedSteps
  <2>5. GivenAskedFor' /\ NoLostEdge' /\ EventAskedFor'
    BY <2>1, <2>2 DEF GivenAskedFor, NoLostEdge, EventAskedFor
  <2>6. QED BY <2>3, <2>4, <2>5
<1>4. CASE WaitTake
  <2>1. /\ pc = "park" /\ pc' \in {"taken", "late"}
        /\ sem' \in BOOLEAN /\ (pc' = "taken" => sem)
        /\ UNCHANGED <<radio, hwto, status, mask, buf, irqOn, edge, isr, evt, ret, op, len>>
    BY <1>4 DEF WaitTake, Go, TypeOK, chip, line, result
  <2>2. TypeOK' BY <2>1 DEF TypeOK
  <2>3. Armed' BY <2>1 DEF Armed, ArmedSteps
  <2>4. GivenAskedFor' /\ NoLostEdge' /\ EventAskedFor'
    BY <2>1 DEF GivenAskedFor, NoLostEdge, EventAskedFor
  <2>5. QED BY <2>2, <2>3, <2>4
<1>5. CASE WaitReturn
  <2>1. /\ ~isr /\ irqOn' = FALSE /\ edge' = FALSE /\ pc' = "ret"
        /\ ret' \in Events \cup {"none"}
        /\ UNCHANGED <<radio, hwto, status, mask, buf, isr, sem, evt, op, len>>
    BY <1>5 DEF WaitReturn, Runs, TypeOK, Events, RX, chip, result
  <2>2. TypeOK' BY <2>1 DEF TypeOK, SpiSteps
  <2>3. QED BY <2>1, <2>2 DEF Armed, ArmedSteps, GivenAskedFor, NoLostEdge, EventAskedFor
<1>6. QED BY <1>1, <1>7, <1>2, <1>3, <1>4, <1>5 DEF Wait

-----------------------------------------------------------------------------
(* The exchanges program and read the chip with the interrupt disabled.    *)

Unarmed == {"idle", "reset", "ret", "data", "clear", "publish"}

LEMMA UnarmedStep ==
  ASSUME IInv, pc \in Unarmed, pc' \in Unarmed, TypeOK',
         irqOn' = irqOn, isr' = isr, edge' => edge \/ irqOn
  PROVE  IInv'
<1>1. Armed' BY DEF IInv, Armed, ArmedSteps, Unarmed
<1>2. GivenAskedFor' /\ NoLostEdge' /\ EventAskedFor'
  BY DEF GivenAskedFor, NoLostEdge, EventAskedFor, Unarmed
<1>3. QED BY <1>1, <1>2 DEF IInv

LEMMA ExchangeStep == ASSUME IInv, Exchange PROVE IInv'
<1> USE DEF IInv
<1>1. /\ pc \in Unarmed /\ pc' \in Unarmed
      /\ UNCHANGED <<irqOn, isr, sem, evt, buf>>
  BY DEF Exchange, RxBeacon, TxFrame, RangeStart, Publish, PublishEnds,
     SleepAndWake, SendEnds, NoReception, ReadLength, ReadData, ClearReception,
     Go, Unarmed, chip, line, wait, give
<1>2. /\ op' \in Listens \cup Sends \cup {"range", "none"}
      /\ ret' \in Events \cup {"none"} /\ hwto' \in BOOLEAN
  BY DEF Exchange, RxBeacon, TxFrame, RangeStart, Publish, PublishEnds,
     SleepAndWake, SendEnds, NoReception, ReadLength, ReadData, ClearReception,
     chip, wait, TypeOK
<1>3. radio' \in {"idle", "tx", "txrx", "rx"}
  BY DEF Exchange, RxBeacon, TxFrame, RangeStart, StartTx, Publish, PublishEnds,
     SleepAndWake, SendEnds, NoReception, ReadLength, ReadData, ClearReception,
     chip, TypeOK
<1>4. len' \in Nat
  <2>1. Len(buf[1].bytes) \in Nat
    <3>1. buf[1] \in Air \cup {NoFrame} BY FirstFrame
    <3>2. NoFrame.bytes \in Seq(0 .. 255) BY DEF NoFrame
    <3>3. QED BY <3>1, <3>2, AirAssumption
  <2>2. QED BY <2>1 DEF Exchange, RxBeacon, TxFrame, RangeStart, Publish,
               PublishEnds, SleepAndWake, SendEnds, NoReception, ReadLength,
               ReadData, ClearReception, result, TypeOK
<1>5. \/ UNCHANGED <<status, mask, edge>>
      \/ \E st \in SUBSET Events, mk \in SUBSET Events : Bits(st, mk)
  <2>1. /\ \A e \in SUBSET Events : status \ e \in SUBSET Events
        /\ mask \in SUBSET Events /\ RX \in SUBSET Events /\ {"tx"} \in SUBSET Events
        /\ status \in SUBSET Events /\ {} \in SUBSET Events
    BY DEF TypeOK, Events
  <2>2. status \ RX \in SUBSET Events BY <2>1
  <2>3. CASE \E o \in Listens : RxBeacon(o)
    BY <2>1, <2>2, <2>3 DEF RxBeacon
  <2>4. CASE \E o \in Sends : TxFrame(o)
    BY <2>1, <2>4 DEF TxFrame, StartTx, TypeOK
  <2>5. CASE RangeStart
    BY <2>1, <2>5 DEF RangeStart, StartTx, TypeOK
  <2>6. CASE Publish \/ PublishEnds \/ SleepAndWake
    BY <2>1, <2>6 DEF Publish, PublishEnds, SleepAndWake, TypeOK
  <2>7. CASE SendEnds \/ NoReception
    BY <2>1, <2>7 DEF SendEnds, NoReception, TypeOK
  <2>8. CASE ReadLength \/ ClearReception
    BY <2>1, <2>8 DEF ReadLength, ClearReception, TypeOK
  <2>9. CASE ReadData
    BY <2>9 DEF ReadData, chip, line
  <2>10. QED BY <2>3, <2>4, <2>5, <2>6, <2>7, <2>8, <2>9 DEF Exchange
<1>6. /\ status' \subseteq Events /\ mask' \subseteq Events /\ edge' \in BOOLEAN
      /\ edge' => edge \/ irqOn
  BY <1>5, BitsFacts DEF TypeOK
<1>7. TypeOK'
  BY <1>1, <1>2, <1>3, <1>4, <1>6 DEF TypeOK, Unarmed, SpiSteps
<1>8. QED BY <1>1, <1>6, <1>7, UnarmedStep

-----------------------------------------------------------------------------
\* The invariant the theorem rests on holds throughout.
THEOREM Inductive == Spec => []IInv
<1>1. Init => IInv BY InitIInv
<1>2. ASSUME IInv, [Next]_vars PROVE IInv'
  <2>1. CASE UNCHANGED vars
    BY <1>2, <2>1 DEF IInv, TypeOK, Armed, GivenAskedFor, NoLostEdge, EventAskedFor,
       Line, vars, chip, line, wait, result
  <2>2. CASE Next
    BY <1>2, <2>2, ChipStep, InterruptStep, WaitStep, ExchangeStep DEF Next
  <2>3. QED BY <1>2, <2>1, <2>2
<1>3. QED BY <1>1, <1>2, PTL DEF Spec

\* Whatever arrives and whenever it does, a thread that waits in wait_event() is
\* never left behind an asserted line, the handler never finds the SPI bus taken
\* outside the thread's own drain, and the event that comes back was asked for.
THEOREM InterruptHandover == Spec => []IrqSound
<1>1. IInv => IrqSound
  BY DEF IInv, IrqSound, SpiMeetsOnlyDrain, Contended, Armed, ArmedSteps, SpiSteps
<1>2. QED BY <1>1, Inductive, PTL

-----------------------------------------------------------------------------
(* The codec: what is built is read back.                                     *)

\* Two sequences joined: the first, and the second after it.
LEMMA Joined ==
  ASSUME NEW s \in Seq(Int), NEW t \in Seq(Int)
  PROVE  /\ s \o t \in Seq(Int) /\ Len(s \o t) = Len(s) + Len(t)
         /\ \A i \in 1 .. Len(s) : (s \o t)[i] = s[i]
         /\ \A i \in 1 .. Len(t) : (s \o t)[Len(s) + i] = t[i]
<1>0. PICK m \in Nat, n \in Nat : m = Len(s) /\ n = Len(t)
  OBVIOUS
<1>1. /\ s \o t \in Seq(Int) /\ Len(s \o t) = m + n
      /\ \A i \in 1 .. m + n : (s \o t)[i] = IF i <= m THEN s[i] ELSE t[i - m]
  BY <1>0, ConcatProperties
<1>2. \A i \in 1 .. n : m + i \in 1 .. m + n /\ ~(m + i <= m) /\ (m + i) - m = i
  OBVIOUS
<1>3. \A i \in 1 .. m : i \in 1 .. m + n /\ i <= m
  OBVIOUS
<1>4. PICK r : r = s \o t
  OBVIOUS
<1>5. \A i \in 1 .. m + n : r[i] = IF i <= m THEN s[i] ELSE t[i - m]
  BY <1>1, <1>4, Zenon
<1>6. \A i \in 1 .. m : r[i] = s[i]
  BY <1>3, <1>5
<1>7. \A i \in 1 .. n : r[m + i] = t[i]
  BY <1>2, <1>5
<1> QED BY <1>0, <1>1, <1>4, <1>6, <1>7, Zenon

\* A sequence that is s and then t.
Joins(r, s, t) ==
  /\ r \in Seq(Int) /\ Len(r) = Len(s) + Len(t)
  /\ \A i \in 1 .. Len(s) : r[i] = s[i]
  /\ \A i \in 1 .. Len(t) : r[Len(s) + i] = t[i]

LEMMA JoinedAs ==
  ASSUME NEW s \in Seq(Int), NEW t \in Seq(Int), NEW r, r = s \o t
  PROVE  Joins(r, s, t)
BY Joined, Zenon DEF Joins

LEMMA Halves ==
  ASSUME NEW v \in Nat, NEW k \in Nat \ {0}
  PROVE  /\ v = (v % k) + k * (v \div k)
         /\ v \div k \in Nat /\ v % k \in 0 .. (k - 1)
OBVIOUS

LEMMA Word16Bytes ==
  ASSUME NEW v \in Nat
  PROVE  /\ Put16(v) \in Seq(Int) /\ Len(Put16(v)) = 2
         /\ Put16(v)[1] \in Int /\ Put16(v)[2] \in Int
         /\ v \in Word16 => v = Put16(v)[1] + 256 * Put16(v)[2]
<1>1. v % 256 \in Int /\ (v \div 256) % 256 \in Int
  OBVIOUS
<1>2. ASSUME v < 65536
      PROVE  v = (v % 256) + 256 * ((v \div 256) % 256)
  <2>1. v \div 256 \in Nat /\ v \div 256 < 256
    BY <1>2
  <2>2. PICK q : q = v \div 256
    OBVIOUS
  <2>3. v = (v % 256) + 256 * q
    BY <2>2, Halves
  <2>4. q % 256 = q
    BY <2>1, <2>2
  <2> QED BY <2>2, <2>3, <2>4
<1>3. Put16(v)[1] = v % 256 /\ Put16(v)[2] = (v \div 256) % 256
  BY DEF Put16
<1>4. Put16(v) \in Seq(Int) /\ Len(Put16(v)) = 2
  BY <1>1 DEF Put16
<1> QED BY <1>1, <1>2, <1>3, <1>4 DEF Word16

\* The two halves of a 32-bit field.
LEMMA Word32Halves ==
  ASSUME NEW v \in Word32
  PROVE  \E lo, hi \in Word16 : /\ lo = v % 65536 /\ hi = v \div 65536
                                /\ v = lo + 65536 * hi
<1>1. v \in Nat /\ v \div 65536 \in Word16
  BY DEF Word32
<1>2. v % 65536 < 65536 /\ v % 65536 \in Nat
  BY <1>1, SMT
<1>3. v % 65536 \in Word16
  BY <1>1, <1>2, SMT DEF Word16
<1>4. v = (v % 65536) + 65536 * (v \div 65536)
  BY <1>1, Halves, SMT
<1>5. PICK lo \in Nat : lo = v % 65536
  BY <1>2, SMT
<1>6. PICK hi \in Nat : hi = v \div 65536
  BY <1>1, SMT
<1>7. lo \in Word16 /\ hi \in Word16 /\ v = lo + 65536 * hi
  BY <1>1, <1>3, <1>4, <1>5, <1>6, SMT
<1> QED BY <1>5, <1>6, <1>7, SMT

LEMMA Word32Bytes ==
  ASSUME NEW v \in Word32
  PROVE  /\ Put32(v) \in Seq(Int) /\ Len(Put32(v)) = 4
         /\ \A i \in 1 .. 4 : Put32(v)[i] \in Int
         /\ v = (Put32(v)[1] + 256 * Put32(v)[2])
                  + 65536 * (Put32(v)[3] + 256 * Put32(v)[4])
<1>1. PICK lo \in Word16, hi \in Word16 : /\ lo = v % 65536 /\ hi = v \div 65536
                                          /\ v = lo + 65536 * hi
  BY Word32Halves, SMT
<1>2. lo \in Nat /\ hi \in Nat
  BY SMT DEF Word16
<1>3. PICK a, b : a = Put16(lo) /\ b = Put16(hi)
  BY Zenon
<1>6. /\ a \in Seq(Int) /\ Len(a) = 2 /\ lo = a[1] + 256 * a[2]
      /\ a[1] \in Int /\ a[2] \in Int
  BY <1>2, <1>3, Word16Bytes, ZenonT(30)
<1>7. /\ b \in Seq(Int) /\ Len(b) = 2 /\ hi = b[1] + 256 * b[2]
      /\ b[1] \in Int /\ b[2] \in Int
  BY <1>2, <1>3, Word16Bytes, ZenonT(30)
<1>8. PICK w : w = a \o b
  BY Zenon
<1>9. /\ w \in Seq(Int) /\ Len(w) = 2 + 2
      /\ \A i \in 1 .. 2 : w[i] = a[i]
      /\ \A i \in 1 .. 2 : w[2 + i] = b[i]
  <2>1. a \in Seq(Int) /\ b \in Seq(Int)
    BY <1>6, <1>7
  <2>2. Joins(w, a, b)
    BY <1>8, <2>1, JoinedAs, Zenon
  <2> QED BY <1>6, <1>7, <2>2, SMT DEF Joins
<1>10. w = Put32(v)
  <2>1. Put32(v) = Put16(v % 65536) \o Put16(v \div 65536)
    BY SMT DEF Put32
  <2>2. Put16(lo) = Put16(v % 65536) /\ Put16(hi) = Put16(v \div 65536)
    BY <1>1, SMT
  <2> QED BY <1>3, <1>8, <2>1, <2>2, SMT
<1>11. w[1] = a[1] /\ w[2] = a[2] /\ w[3] = b[1] /\ w[4] = b[2] /\ Len(w) = 4
  BY <1>9, SMT
<1>12. v = (w[1] + 256 * w[2]) + 65536 * (w[3] + 256 * w[4])
  <2>1. v = (a[1] + 256 * a[2]) + 65536 * (b[1] + 256 * b[2])
    <3>1. v = lo + 65536 * hi
      BY <1>1, SMT
    <3>2. lo = a[1] + 256 * a[2] /\ hi = b[1] + 256 * b[2]
      BY <1>6, <1>7
    <3> QED BY <3>1, <3>2, SMT
  <2> QED BY <2>1, <1>6, <1>7, <1>11, SMT
<1>13. \A i \in 1 .. 4 : w[i] \in Int
  BY <1>6, <1>7, <1>11, SMTT(30)
<1> QED BY <1>9, <1>10, <1>11, <1>12, <1>13, SMTT(30)

\* What every builder starts with, at the places where the parsers look for it.
LEMMA HdrParts ==
  ASSUME NEW dest \in Nat, NEW src \in Nat, NEW type \in Int,
         NEW h
  PROVE  h = Hdr(dest, src, type) =>
         /\ h \in Seq(Int) /\ Len(h) = 10 /\ h[10] = type
         /\ h[1] = 65 /\ h[2] = 136 /\ h[4] = 202 /\ h[5] = 222
         /\ h[8] = Put16(src)[1] /\ h[9] = Put16(src)[2]
<1>0. HAVE h = Hdr(dest, src, type)
<1>a. PICK a : a = <<65, 136, 0, 202, 222>>
  BY ZenonT(60)
<1>b. PICK b, c, d : b = Put16(dest) /\ c = Put16(src) /\ d = <<type>>
  BY Zenon
<1>1. /\ a = <<65, 136, 0, 202, 222>> /\ b = Put16(dest) /\ c = Put16(src)
      /\ d = <<type>>
  BY <1>a, <1>b
<1>2. a \in Seq(Int) /\ Len(a) = 5 /\ a[1] = 65 /\ a[2] = 136 /\ a[4] = 202 /\ a[5] = 222
  BY <1>1, SMT
<1>3. d \in Seq(Int) /\ Len(d) = 1 /\ d[1] = type
  BY <1>1, SMT
<1>4. b \in Seq(Int) /\ Len(b) = 2
  BY <1>b, Word16Bytes, Zenon
<1>5. /\ c \in Seq(Int) /\ Len(c) = 2 /\ c[1] \in Int /\ c[2] \in Int
  BY <1>b, Word16Bytes, Zenon
<1>6. PICK p : p = a \o b
  BY Zenon
<1>7. PICK q : q = p \o c
  BY Zenon
<1>8. h = q \o d
  BY <1>0, <1>1, <1>6, <1>7, SMT DEF Hdr
<1>9. /\ p \in Seq(Int) /\ Len(p) = Len(a) + Len(b)
      /\ \A i \in 1 .. Len(a) : p[i] = a[i]
      /\ \A i \in 1 .. Len(b) : p[Len(a) + i] = b[i]
  <2>1. a \in Seq(Int) /\ b \in Seq(Int)
    BY <1>2, <1>4
  <2>2. Joins(p, a, b)
    BY <2>1, <1>6, JoinedAs, Zenon
  <2> QED BY <2>2 DEF Joins
<1>10. /\ q \in Seq(Int) /\ Len(q) = Len(p) + Len(c)
       /\ \A i \in 1 .. Len(p) : q[i] = p[i]
       /\ \A i \in 1 .. Len(c) : q[Len(p) + i] = c[i]
  <2>1. p \in Seq(Int) /\ c \in Seq(Int)
    BY <1>5, <1>9
  <2>2. Joins(q, p, c)
    BY <2>1, <1>7, JoinedAs, Zenon
  <2> QED BY <2>2 DEF Joins
<1>11. /\ h \in Seq(Int) /\ Len(h) = Len(q) + Len(d)
       /\ \A i \in 1 .. Len(q) : h[i] = q[i]
       /\ \A i \in 1 .. Len(d) : h[Len(q) + i] = d[i]
  <2>1. q \in Seq(Int) /\ d \in Seq(Int)
    BY <1>3, <1>10
  <2>2. Joins(h, q, d)
    BY <2>1, <1>8, JoinedAs, Zenon
  <2> QED BY <2>2 DEF Joins
<1>12. Len(a) = 5 /\ Len(p) = 7 /\ Len(q) = 9 /\ Len(h) = 10 /\ Len(c) = 2 /\ Len(d) = 1
  BY <1>2, <1>3, <1>4, <1>5, <1>9, <1>10, <1>11
<1>13. \A i \in 1 .. 5 : h[i] = a[i]
  <2>1. \A i \in 1 .. 5 : i \in 1 .. 7 /\ i \in 1 .. 9
    OBVIOUS
  <2>2. /\ \A i \in 1 .. 9 : h[i] = q[i] 
        /\ \A i \in 1 .. 7 : q[i] = p[i]
        /\ \A i \in 1 .. 5 : p[i] = a[i]
    BY <1>9, <1>10, <1>11, <1>12, Zenon
  <2> QED BY <2>1, <2>2
<1>14. h[10] = d[1] /\ h[8] = q[8] /\ h[9] = q[9] /\ q[8] = c[1] /\ q[9] = c[2]
  BY <1>10, <1>11, <1>12
<1> QED BY <1>b, <1>2, <1>3, <1>11, <1>12, <1>13, <1>14

LEMMA HdrBytes ==
  ASSUME NEW dest \in Nat, NEW src \in Nat, NEW type \in Int,
         NEW h, h = Hdr(dest, src, type)
  PROVE  /\ h \in Seq(Int) /\ Len(h) = 10 /\ h[10] = type
         /\ h[1] = 65 /\ h[2] = 136 /\ h[4] = 202 /\ h[5] = 222
BY HdrParts

LEMMA HdrSource ==
  ASSUME NEW dest \in Nat, NEW src \in Word16, NEW type \in Int,
         NEW h, h = Hdr(dest, src, type)
  PROVE  src = h[8] + 256 * h[9]
<1>0. src \in Nat
  BY DEF Word16
<1>1. h[8] = Put16(src)[1] /\ h[9] = Put16(src)[2]
  BY <1>0, HdrParts
<1>2. src = Put16(src)[1] + 256 * Put16(src)[2]
  BY <1>0, Word16Bytes
<1> QED BY <1>1, <1>2

LEMMA GatewayHdr ==
  ASSUME NEW h, NEW type, type \in {BEACON, GRANT}, h = Hdr(BCAST, GATEWAY, type)
  PROVE  /\ h \in Seq(Int) /\ Len(h) = 10 /\ h[10] = type
         /\ h[1] = 65 /\ h[2] = 136 /\ h[4] = 202 /\ h[5] = 222
<1>1. BCAST \in Nat /\ GATEWAY \in Nat /\ type \in Int
  BY SMT DEF BCAST, GATEWAY, BEACON, GRANT
<1> QED BY <1>1, HdrBytes

LEMMA SeqOfInts ==
  ASSUME NEW n \in Nat, NEW e \in [1 .. n -> Int]
  PROVE  e \in Seq(Int) /\ Len(e) = n
OBVIOUS

LEMMA Octets ==
  ASSUME NEW n \in Nat, NEW e \in [1 .. n -> Octet]
  PROVE  e \in Seq(Int) /\ Len(e) = n
<1>0. Octet \subseteq Int
  BY DEF Octet
<1>1. \A i \in 1 .. n : e[i] \in Int
  BY <1>0
<1>2. e \in [1 .. n -> Int]
  BY <1>1
<1> QED BY <1>2

\* A frame of n bytes and of a type, behind the header.
Frames(g, n, type) ==
  /\ g \in Seq(Int) /\ Len(g) = n
  /\ g[1] = 65 /\ g[2] = 136 /\ g[4] = 202 /\ g[5] = 222 /\ g[10] = type

\* A GRANT of the gateway at the places where the tag looks for its fields.
GrantLayout(g, eui, addr, slot, tier, lease) ==
  /\ \A i \in 1 .. 8 : g[10 + i] = eui[i]
  /\ addr = g[19] + 256 * g[20] /\ g[21] = slot /\ g[22] = tier
  /\ lease = g[23] + 256 * g[24]

LEMMA GrantBytes ==
  ASSUME NEW eui \in [1 .. 8 -> Octet], NEW addr \in Word16, NEW slot \in Octet,
         NEW tier \in Octet, NEW lease \in Word16, NEW g
  PROVE  g = GrantBuild(eui, addr, slot, tier, lease) =>
           Frames(g, 24, GRANT) /\ GrantLayout(g, eui, addr, slot, tier, lease)
<1>0. HAVE g = GrantBuild(eui, addr, slot, tier, lease)
<1>1. PICK h, a, st, l :
        h = Hdr(BCAST, GATEWAY, GRANT) /\ a = Put16(addr) /\ st = <<slot, tier>>
        /\ l = Put16(lease)
  BY Zenon
<1>2. /\ h \in Seq(Int) /\ Len(h) = 10 /\ h[10] = GRANT
      /\ h[1] = 65 /\ h[2] = 136 /\ h[4] = 202 /\ h[5] = 222
  BY <1>1, GatewayHdr
<1>3. eui \in Seq(Int) /\ Len(eui) = 8
  BY Octets
<1>4. addr \in Nat /\ lease \in Nat
  BY DEF Word16
<1>5. a \in Seq(Int) /\ Len(a) = 2 /\ addr = a[1] + 256 * a[2]
  BY <1>1, <1>4, Word16Bytes, SMT
<1>6. l \in Seq(Int) /\ Len(l) = 2 /\ lease = l[1] + 256 * l[2]
  BY <1>1, <1>4, Word16Bytes, SMT
<1>7. st \in Seq(Int) /\ Len(st) = 2 /\ st[1] = slot /\ st[2] = tier
  BY <1>1, SMT DEF Octet
<1>8. PICK p : p = h \o eui
  BY Zenon
<1>9. PICK q : q = p \o a
  BY Zenon
<1>10. PICK r : r = q \o st
  BY Zenon
<1>11. g = r \o l
  BY <1>0, <1>1, <1>8, <1>9, <1>10, SMT DEF GrantBuild
<1>12. /\ p \in Seq(Int) /\ Len(p) = 18
       /\ \A i \in 1 .. 10 : p[i] = h[i]
       /\ \A i \in 1 .. 8 : p[10 + i] = eui[i]
  <2>1. h \in Seq(Int) /\ eui \in Seq(Int)
    BY <1>2, <1>3
  <2>2. Joins(p, h, eui)
    BY <2>1, <1>8, JoinedAs, Zenon
  <2> QED BY <1>2, <1>3, <2>2 DEF Joins
<1>13. /\ q \in Seq(Int) /\ Len(q) = 20
       /\ \A i \in 1 .. 18 : q[i] = p[i]
       /\ q[19] = a[1] /\ q[20] = a[2]
  <2>1. p \in Seq(Int) /\ a \in Seq(Int)
    BY <1>5, <1>12
  <2>2. Joins(q, p, a)
    BY <2>1, <1>9, JoinedAs, Zenon
  <2> QED BY <1>5, <1>12, <2>2 DEF Joins
<1>14. /\ r \in Seq(Int) /\ Len(r) = 22
       /\ \A i \in 1 .. 20 : r[i] = q[i]
       /\ r[21] = slot /\ r[22] = tier
  <2>1. q \in Seq(Int) /\ st \in Seq(Int)
    BY <1>7, <1>13
  <2>2. Joins(r, q, st)
    BY <2>1, <1>10, JoinedAs, Zenon
  <2> QED BY <1>7, <1>13, <2>2 DEF Joins
<1>15. /\ g \in Seq(Int) /\ Len(g) = 24
       /\ \A i \in 1 .. 22 : g[i] = r[i]
       /\ g[23] = l[1] /\ g[24] = l[2]
  <2>1. r \in Seq(Int) /\ l \in Seq(Int)
    BY <1>6, <1>14
  <2>2. Joins(g, r, l)
    BY <2>1, <1>11, JoinedAs, Zenon
  <2> QED BY <1>6, <1>14, <2>2 DEF Joins
<1>16. \A i \in 1 .. 18 : i \in 1 .. 20 /\ i \in 1 .. 22 /\ g[i] = p[i]
  <2>1. \A i \in 1 .. 18 : i \in 1 .. 20 /\ i \in 1 .. 22
    OBVIOUS
  <2> QED BY <2>1, <1>13, <1>14, <1>15, Zenon
<1>17. \A i \in 1 .. 10 : g[i] = h[i]
  <2>1. \A i \in 1 .. 10 : i \in 1 .. 18
    OBVIOUS
  <2> QED BY <2>1, <1>12, <1>16, Zenon
<1>18. \A i \in 1 .. 8 : g[10 + i] = eui[i]
  <2>1. \A i \in 1 .. 8 : 10 + i \in 1 .. 18
    OBVIOUS
  <2> QED BY <2>1, <1>12, <1>16, Zenon
<1>19. /\ g[19] = a[1] /\ g[20] = a[2] /\ g[21] = slot /\ g[22] = tier
  BY <1>13, <1>14, <1>15
<1>20. /\ g[1] = 65 /\ g[2] = 136 /\ g[4] = 202 /\ g[5] = 222 /\ g[10] = GRANT
  BY <1>2, <1>17
<1>21. Frames(g, 24, GRANT)
  BY <1>15, <1>20, SMT DEF Frames
<1>22. GrantLayout(g, eui, addr, slot, tier, lease)
  BY <1>5, <1>6, <1>15, <1>18, <1>19, SMT DEF GrantLayout
<1> QED BY <1>21, <1>22

\* One byte of a frame is changed.
LEMMA OneChanged ==
  ASSUME NEW y \in Seq(Int), NEW k \in Nat, NEW x \in Int, NEW g, g = [y EXCEPT ![k] = x]
  PROVE  /\ g \in Seq(Int) /\ Len(g) = Len(y)
         /\ \A i \in 1 .. Len(y) : i # k => y[i] = g[i]
<1>1. \A i \in 1 .. Len(y) : g[i] = IF i = k THEN x ELSE y[i]
  BY SMT
<1>2. g \in [1 .. Len(y) -> Int]
  <2>0. DOMAIN y = 1 .. Len(y)
    OBVIOUS
  <2>1. g = [i \in 1 .. Len(y) |-> g[i]]
    <3>1. g = [i \in DOMAIN y |-> g[i]]
      BY Zenon
    <3> QED BY <2>0, <3>1, Zenon
  <2>2. \A i \in 1 .. Len(y) : y[i] \in Int
    BY SMT
  <2>3. \A i \in 1 .. Len(y) : g[i] \in Int
    BY <1>1, <2>2
  <2> QED BY <2>1, <2>3, Zenon
<1>3. g \in Seq(Int) /\ Len(g) = Len(y)
  <2>1. Len(y) \in Nat
    OBVIOUS
  <2> QED BY <1>2, <2>1, SeqOfInts
<1> QED BY <1>1, <1>3, SMT

\* The first n bytes of two sequences are the same.
Same(b, y, n) == \A i \in 1 .. n : b[i] = y[i]

\* A field of n bytes at an offset.
Field(b, off, n, e) == \A i \in 1 .. n : b[off + i] = e[i]

LEMMA BytesRead ==
  ASSUME NEW b \in Seq(Int), NEW off \in Nat, NEW n \in Nat, NEW e \in [1 .. n -> Octet],
         off + n <= Len(b), Field(b, off, n, e)
  PROVE  Bytes(b, off, n) = e
<1>1. PICK w : w = SubSeq(b, off + 1, off + n)
  BY Zenon
<1>2. /\ w \in Seq(Int) /\ Len(w) = n
      /\ \A i \in 1 .. n : w[i] = b[off + i]
  BY <1>1, SMT
<1>3. w = [i \in 1 .. n |-> w[i]] /\ e = [i \in 1 .. n |-> e[i]]
  BY <1>2, SMT
<1>4. \A i \in 1 .. n : w[i] = e[i]
  BY <1>2, Zenon DEF Field
<1>5. w = e
  BY <1>3, <1>4, Zenon
<1> QED BY <1>1, <1>5, Zenon DEF Bytes

\* What the wire has from a sender whose frame, but for its number, is g.
Carries(y, g) == Len(y) = Len(g) /\ \A i \in 1 .. Len(y) : i # 3 => y[i] = g[i]

LEMMA CarriesAll ==
  ASSUME NEW y \in Seq(Int), NEW g, g = SetSeqNum(y, 0)
  PROVE  g \in Seq(Int) /\ Carries(y, g)
<1>1. g = [y EXCEPT ![3] = 0]
  BY DEF SetSeqNum
<1>2. /\ g \in Seq(Int) /\ Len(g) = Len(y)
      /\ \A i \in 1 .. Len(y) : i # 3 => y[i] = g[i]
  BY <1>1, OneChanged
<1> QED BY <1>2 DEF Carries

\* The first n bytes of two sequences are the same, but for the number.
But3(b, g, n) == \A i \in 1 .. n : i # 3 => b[i] = g[i]

\* A reader of the first n bytes reads what was built.
LEMMA SameReads ==
  ASSUME NEW y \in Seq(Int), NEW b \in Seq(Int), NEW n \in Nat, NEW g, NEW type,
         Carries(y, g), Frames(g, n, type), n >= 10
  PROVE  /\ Len(y) = n /\ y[10] = type
         /\ Same(b, y, n) => But3(b, g, n)
<1>1. Len(y) = n /\ \A i \in 1 .. n : i # 3 => y[i] = g[i]
  BY DEF Carries, Frames
<1>2. g[10] = type
  BY DEF Frames
<1>3. y[10] = type
  <2>1. 10 \in 1 .. n /\ 10 # 3
    OBVIOUS
  <2>2. y[10] = g[10]
    BY <1>1, <2>1, Zenon
  <2> QED BY <1>2, <2>2
<1>4. ASSUME Same(b, y, n) PROVE But3(b, g, n)
  <2>1. \A i \in 1 .. n : b[i] = y[i]
    BY <1>4 DEF Same
  <2>2. \A i \in 1 .. n : i # 3 => b[i] = g[i]
    BY <1>1, <2>1, Zenon
  <2> QED BY <2>2 DEF But3
<1>5. Len(y) = n
  BY <1>1
<1> QED BY <1>3, <1>4, <1>5

LEMMA GrantRead ==
  ASSUME NEW eui \in [1 .. 8 -> Octet], NEW addr \in Word16, NEW slot \in Octet,
         NEW tier \in Octet, NEW lease \in Word16,
         NEW y \in Seq(Int), NEW b \in Seq(Int)
  PROVE  SetSeqNum(y, 0) = GrantBuild(eui, addr, slot, tier, lease) =>
         /\ Len(y) = 24 /\ y[10] = GRANT
         /\ Len(b) = 24 /\ Same(b, y, 24)
              => ParseGrant(b) = [eui |-> eui, addr |-> addr, slot |-> slot,
                                  tier |-> tier, lease |-> lease]
<1>1. HAVE SetSeqNum(y, 0) = GrantBuild(eui, addr, slot, tier, lease)
<1>2. PICK g : g = SetSeqNum(y, 0)
  BY Zenon
<1>3. g = GrantBuild(eui, addr, slot, tier, lease)
  BY <1>1, <1>2, Zenon
<1>4. Frames(g, 24, GRANT) /\ GrantLayout(g, eui, addr, slot, tier, lease)
  BY <1>3, GrantBytes
<1>5. Carries(y, g)
  BY <1>2, CarriesAll
<1>6. /\ Len(y) = 24 /\ y[10] = GRANT
      /\ Same(b, y, 24) => But3(b, g, 24)
  <2>1. PICK n \in Nat : n = 24
    OBVIOUS
  <2>2. n >= 10
    BY <2>1
  <2>3. Frames(g, n, GRANT)
    BY <1>4, <2>1
  <2>4. Len(y) = n /\ y[10] = GRANT /\ (Same(b, y, n) => But3(b, g, n))
    BY <1>5, <2>2, <2>3, SameReads, Zenon
  <2> QED BY <2>1, <2>4
<1>7. ASSUME Len(b) = 24, Same(b, y, 24)
      PROVE  ParseGrant(b) = [eui |-> eui, addr |-> addr, slot |-> slot,
                              tier |-> tier, lease |-> lease]
  <2>1. \A i \in 1 .. 24 : i # 3 => b[i] = g[i]
    BY <1>6, <1>7 DEF But3
  <2>2. \A i \in 1 .. 8 : 10 + i \in 1 .. 24 /\ 10 + i # 3
    OBVIOUS
  <2>a. \A i \in 1 .. 8 : g[10 + i] = eui[i]
    BY <1>4 DEF GrantLayout
  <2>3. Field(b, 10, 8, eui)
    <3>1. ASSUME NEW i \in 1 .. 8 PROVE b[10 + i] = eui[i]
      BY <2>1, <2>2, <2>a
    <3> QED BY <3>1 DEF Field
  <2>b. 10 \in Nat /\ 8 \in Nat /\ 10 + 8 <= Len(b)
    BY <1>7
  <2>4. Bytes(b, 10, 8) = eui
    BY <2>3, <2>b, BytesRead
  <2>5. b[1] = 65 /\ b[2] = 136 /\ b[4] = 202 /\ b[5] = 222 /\ b[10] = GRANT
    BY <1>4, <2>1 DEF Frames
  <2>6. IsGrant(b)
    BY <1>7, <2>5 DEF IsGrant, IsType, IsValid, At, MAX_LEN, Hdr, Put16
  <2>c. /\ b[19] = g[19] /\ b[20] = g[20] /\ b[21] = g[21] /\ b[22] = g[22]
        /\ b[23] = g[23] /\ b[24] = g[24]
    BY <2>1
  <2>d. /\ addr = g[19] + 256 * g[20] /\ g[21] = slot /\ g[22] = tier
        /\ lease = g[23] + 256 * g[24]
    BY <1>4 DEF GrantLayout
  <2>8. /\ Get16(b, 18) = addr /\ At(b, 20) = slot /\ At(b, 21) = tier
        /\ Get16(b, 22) = lease
    <3>1. /\ Get16(b, 18) = b[19] + 256 * b[20] /\ At(b, 20) = b[21] /\ At(b, 21) = b[22]
          /\ Get16(b, 22) = b[23] + 256 * b[24]
      BY DEF Get16, At
    <3> QED BY <3>1, <2>c, <2>d
  <2> QED BY <2>4, <2>6, <2>8 DEF ParseGrant
<1> QED BY <1>6, <1>7

LEMMA HdrFrames ==
  ASSUME NEW dest \in Nat, NEW src \in Nat, NEW type \in Int
  PROVE  Frames(Hdr(dest, src, type), 10, type)
<1>1. PICK h : h = Hdr(dest, src, type)
  BY Zenon
<1>2. Frames(h, 10, type)
  BY <1>1, HdrBytes DEF Frames
<1> QED BY <1>1, <1>2

LEMMA Put32Len ==
  ASSUME NEW v \in Nat, NEW w, w = Put32(v)
  PROVE  w \in Seq(Int) /\ Len(w) = 4
<1>1. PICK lo \in Nat : lo = v % 65536
  BY SMT
<1>2. PICK hi \in Nat : hi = v \div 65536
  BY SMT
<1>3. PICK a, b : a = Put16(lo) /\ b = Put16(hi)
  BY Zenon
<1>4. a \in Seq(Int) /\ b \in Seq(Int) /\ Len(a) = 2 /\ Len(b) = 2
  BY <1>3, Word16Bytes, SMT
<1>5. w = a \o b
  BY <1>1, <1>2, <1>3, SMT DEF Put32
<1>6. w \in Seq(Int) /\ Len(w) = Len(a) + Len(b)
  <2>1. a \in Seq(Int) /\ b \in Seq(Int)
    BY <1>4
  <2>2. Joins(w, a, b)
    BY <2>1, <1>5, JoinedAs, Zenon
  <2> QED BY <2>2 DEF Joins
<1> QED BY <1>4, <1>6

\* A 32-bit field at an offset.
Word32At(b, off, v) ==
  v = (b[off + 1] + 256 * b[off + 2]) + 65536 * (b[off + 3] + 256 * b[off + 4])

LEMMA Put32As ==
  ASSUME NEW v \in Word32, NEW w, w = Put32(v)
  PROVE  w \in Seq(Int) /\ Len(w) = 4 /\ Word32At(w, 0, v)
<1>1. /\ w \in Seq(Int) /\ Len(w) = 4
      /\ v = (w[1] + 256 * w[2]) + 65536 * (w[3] + 256 * w[4])
  BY Word32Bytes, SMT
<1> QED BY <1>1, SMT DEF Word32At

\* A discovery answer, to any destination and of any time.
ResponseLayout(g, src, p, q) ==
  /\ src = g[8] + 256 * g[9] /\ Word32At(g, 14, p) /\ q = g[19] + 256 * g[20]

LEMMA ResponseBytes ==
  ASSUME NEW src \in Word16, NEW dest \in Nat, NEW ts \in Nat, NEW p \in Word32,
         NEW q \in Word16, NEW g
  PROVE  g = ResponseBuild(src, dest, ts, p, q) =>
           Frames(g, 20, RESP) /\ ResponseLayout(g, src, p, q)
<1>0. HAVE g = ResponseBuild(src, dest, ts, p, q)
<1>1. PICK h, t, u, w : h = Hdr(dest, src, RESP) /\ t = Put32(ts) /\ u = Put32(p)
                        /\ w = Put16(q)
  BY Zenon
<1>2. src \in Nat /\ q \in Nat /\ RESP \in Int
  BY DEF Word16, RESP
<1>3. /\ h \in Seq(Int) /\ Len(h) = 10 /\ h[10] = RESP
      /\ h[1] = 65 /\ h[2] = 136 /\ h[4] = 202 /\ h[5] = 222
  <2>1. Frames(h, 10, RESP)
    BY <1>1, <1>2, HdrFrames
  <2> QED BY <2>1 DEF Frames
<1>4. src = h[8] + 256 * h[9]
  BY <1>1, <1>2, HdrSource
<1>5. t \in Seq(Int) /\ Len(t) = 4
  BY <1>1, Put32Len
<1>6. u \in Seq(Int) /\ Len(u) = 4 /\ Word32At(u, 0, p)
  BY <1>1, Put32As
<1>7. w \in Seq(Int) /\ Len(w) = 2 /\ q = w[1] + 256 * w[2]
  BY <1>1, <1>2, Word16Bytes, SMT
<1>8. PICK r : r = h \o t
  BY Zenon
<1>9. PICK s : s = r \o u
  BY Zenon
<1>10. g = s \o w
  BY <1>0, <1>1, <1>8, <1>9, SMT DEF ResponseBuild
<1>11. /\ r \in Seq(Int) /\ Len(r) = 14
       /\ \A i \in 1 .. 10 : r[i] = h[i]
  <2>1. h \in Seq(Int) /\ t \in Seq(Int)
    BY <1>3, <1>5
  <2>2. Joins(r, h, t)
    BY <2>1, <1>8, JoinedAs, Zenon
  <2> QED BY <1>3, <1>5, <2>2 DEF Joins
<1>12. /\ s \in Seq(Int) /\ Len(s) = 18
       /\ \A i \in 1 .. 14 : s[i] = r[i]
       /\ s[15] = u[1] /\ s[16] = u[2] /\ s[17] = u[3] /\ s[18] = u[4]
  <2>1. r \in Seq(Int) /\ u \in Seq(Int)
    BY <1>6, <1>11
  <2>2. Joins(s, r, u)
    BY <2>1, <1>9, JoinedAs, Zenon
  <2> QED BY <1>6, <1>11, <2>2 DEF Joins
<1>13. /\ g \in Seq(Int) /\ Len(g) = 20
       /\ \A i \in 1 .. 18 : g[i] = s[i]
       /\ g[19] = w[1] /\ g[20] = w[2]
  <2>1. s \in Seq(Int) /\ w \in Seq(Int)
    BY <1>7, <1>12
  <2>2. Joins(g, s, w)
    BY <2>1, <1>10, JoinedAs, Zenon
  <2> QED BY <1>7, <1>12, <2>2 DEF Joins
<1>14. \A i \in 1 .. 10 : g[i] = h[i]
  <2>1. \A i \in 1 .. 10 : i \in 1 .. 14 /\ i \in 1 .. 18
    OBVIOUS
  <2> QED BY <2>1, <1>11, <1>12, <1>13, Zenon
<1>15. Frames(g, 20, RESP)
  <2>1. g[1] = 65 /\ g[2] = 136 /\ g[4] = 202 /\ g[5] = 222 /\ g[10] = RESP
    BY <1>3, <1>14
  <2> QED BY <1>13, <2>1, SMT DEF Frames
<1>16. src = g[8] + 256 * g[9]
  BY <1>4, <1>14
<1>17. g[15] = u[1] /\ g[16] = u[2] /\ g[17] = u[3] /\ g[18] = u[4]
  BY <1>12, <1>13
<1>18. Word32At(g, 14, p)
  <2>1. p = (u[1] + 256 * u[2]) + 65536 * (u[3] + 256 * u[4])
    BY <1>6, SMT DEF Word32At
  <2> QED BY <1>17, <2>1, SMT DEF Word32At
<1>19. q = g[19] + 256 * g[20]
  BY <1>7, <1>13
<1>20. ResponseLayout(g, src, p, q)
  BY <1>16, <1>18, <1>19 DEF ResponseLayout
<1> QED BY <1>15, <1>20

LEMMA ResponseRead ==
  ASSUME NEW src \in Word16, NEW dest \in Nat, NEW ts \in Nat, NEW p \in Word32,
         NEW q \in Word16, NEW y \in Seq(Int), NEW b \in Seq(Int)
  PROVE  SetSeqNum(y, 0) = ResponseBuild(src, dest, ts, p, q) =>
         /\ Len(y) = 20 /\ y[10] = RESP
         /\ Len(b) = 20 /\ Same(b, y, 20)
              => ParseResponse(b) = [src |-> src, p |-> p, q |-> q]
<1>1. HAVE SetSeqNum(y, 0) = ResponseBuild(src, dest, ts, p, q)
<1>2. PICK g : g = SetSeqNum(y, 0)
  BY Zenon
<1>3. g = ResponseBuild(src, dest, ts, p, q)
  BY <1>1, <1>2, Zenon
<1>4. Frames(g, 20, RESP) /\ ResponseLayout(g, src, p, q)
  BY <1>3, ResponseBytes
<1>5. Carries(y, g)
  BY <1>2, CarriesAll
<1>6. /\ Len(y) = 20 /\ y[10] = RESP
      /\ Same(b, y, 20) => But3(b, g, 20)
  <2>1. PICK n \in Nat : n = 20
    OBVIOUS
  <2>2. n >= 10
    BY <2>1
  <2>3. Frames(g, n, RESP)
    BY <1>4, <2>1
  <2>4. Len(y) = n /\ y[10] = RESP /\ (Same(b, y, n) => But3(b, g, n))
    BY <1>5, <2>2, <2>3, SameReads, Zenon
  <2> QED BY <2>1, <2>4
<1>7. ASSUME Len(b) = 20, Same(b, y, 20)
      PROVE  ParseResponse(b) = [src |-> src, p |-> p, q |-> q]
  <2>1. \A i \in 1 .. 20 : i # 3 => b[i] = g[i]
    BY <1>6, <1>7 DEF But3
  <2>2. b[1] = 65 /\ b[2] = 136 /\ b[4] = 202 /\ b[5] = 222 /\ b[10] = RESP
    BY <1>4, <2>1 DEF Frames
  <2>3. IsResponse(b)
    BY <1>7, <2>2 DEF IsResponse, IsType, IsValid, At, MAX_LEN, Hdr, Put16
  <2>4. /\ b[8] = g[8] /\ b[9] = g[9] /\ b[15] = g[15] /\ b[16] = g[16]
        /\ b[17] = g[17] /\ b[18] = g[18] /\ b[19] = g[19] /\ b[20] = g[20]
    BY <2>1
  <2>5. src = g[8] + 256 * g[9] /\ Word32At(g, 14, p) /\ q = g[19] + 256 * g[20]
    BY <1>4 DEF ResponseLayout
  <2>6. p = (g[15] + 256 * g[16]) + 65536 * (g[17] + 256 * g[18])
    BY <2>5, SMT DEF Word32At
  <2>7. GetSrc(b) = src /\ Get16(b, 18) = q
    <3>1. GetSrc(b) = b[8] + 256 * b[9] /\ Get16(b, 18) = b[19] + 256 * b[20]
      BY DEF GetSrc, Get16, At
    <3> QED BY <3>1, <2>4, <2>5
  <2>8. Get32(b, 14) = p
    <3>1. Get32(b, 14) = (b[15] + 256 * b[16]) + 65536 * (b[17] + 256 * b[18])
      BY SMT DEF Get32, Get16, At
    <3> QED BY <3>1, <2>4, <2>6, SMT
  <2> QED BY <2>3, <2>7, <2>8 DEF ParseResponse
<1> QED BY <1>6, <1>7

\* The slots of a beacon, two bytes each.
SlotsAt(b, off, map) ==
  \A i \in 1 .. 11 : map[i] = b[off + (2 * i - 1)] + 256 * b[off + 2 * i]

LEMMA WordsBytes ==
  ASSUME NEW map \in [1 .. 11 -> Word16], NEW w, w = Words(map)
  PROVE  w \in Seq(Int) /\ Len(w) = 22 /\ SlotsAt(w, 0, map)
<1>1. Len(map) = 11
  OBVIOUS
<1>2. w = [i \in 1 .. 2 * 11 |-> Put16(map[(i + 1) \div 2])[2 - (i % 2)]]
  BY <1>1, Zenon DEF Words
<1>3. \A j \in 1 .. 11 : map[j] \in Word16 /\ map[j] \in Nat
  BY DEF Word16
<1>4. \A j \in 1 .. 11 : /\ Put16(map[j])[1] \in Int /\ Put16(map[j])[2] \in Int
                         /\ map[j] = Put16(map[j])[1] + 256 * Put16(map[j])[2]
  BY <1>3, Word16Bytes
<1>5. \A i \in 1 .. 22 : (i + 1) \div 2 \in 1 .. 11 /\ 2 - (i % 2) \in 1 .. 2
  BY SMT
<1>6. ASSUME NEW i \in 1 .. 22 PROVE w[i] \in Int
  <2>1. PICK j \in 1 .. 11, k \in 1 .. 2 : j = (i + 1) \div 2 /\ k = 2 - (i % 2)
    BY <1>5
  <2>2. w[i] = Put16(map[j])[k]
    BY <1>2, <2>1
  <2>3. k = 1 \/ k = 2
    BY SMT
  <2> QED BY <1>4, <2>2, <2>3
<1>7. w \in [1 .. 22 -> Int]
  <2>1. DOMAIN w = 1 .. 22 /\ w = [i \in 1 .. 22 |-> w[i]]
    BY <1>2, SMT
  <2> QED BY <1>6, <2>1
<1>8. ASSUME NEW i \in 1 .. 11
      PROVE  w[2 * i - 1] = Put16(map[i])[1] /\ w[2 * i] = Put16(map[i])[2]
  <2>1. /\ 2 * i - 1 \in 1 .. 2 * 11 /\ 2 * i \in 1 .. 2 * 11
        /\ ((2 * i - 1) + 1) \div 2 = i /\ 2 - ((2 * i - 1) % 2) = 1
        /\ (2 * i + 1) \div 2 = i /\ 2 - ((2 * i) % 2) = 2
    BY SMT
  <2> QED BY <1>2, <2>1, Zenon
<1>9. SlotsAt(w, 0, map)
  <2>1. ASSUME NEW i \in 1 .. 11
        PROVE  map[i] = w[0 + (2 * i - 1)] + 256 * w[0 + 2 * i]
    <3>1. w[2 * i - 1] = Put16(map[i])[1] /\ w[2 * i] = Put16(map[i])[2]
      BY <1>8
    <3>2. map[i] = Put16(map[i])[1] + 256 * Put16(map[i])[2]
      BY <1>4
    <3>3. 0 + (2 * i - 1) = 2 * i - 1 /\ 0 + 2 * i = 2 * i
      OBVIOUS
    <3> QED BY <3>1, <3>2, <3>3
  <2> QED BY <2>1 DEF SlotsAt
<1>10. w \in Seq(Int) /\ Len(w) = 22
  <2>1. 22 \in Nat
    OBVIOUS
  <2> QED BY <1>7, <2>1, SeqOfInts
<1> QED BY <1>9, <1>10

BeaconLayout(g, ctr, map) ==
  g[11] = PROTO_VER /\ Word32At(g, 11, ctr) /\ SlotsAt(g, 15, map)

LEMMA BeaconBytes ==
  ASSUME NEW ctr \in Word32, NEW map \in [1 .. 11 -> Word16], NEW g
  PROVE  g = BeaconBuild(ctr, map) =>
           Frames(g, 37, BEACON) /\ BeaconLayout(g, ctr, map)
<1>0. HAVE g = BeaconBuild(ctr, map)
<1>1. PICK h, v, u, w : h = Hdr(BCAST, GATEWAY, BEACON) /\ v = <<PROTO_VER>>
                        /\ u = Put32(ctr) /\ w = Words(map)
  BY Zenon
<1>3. /\ h \in Seq(Int) /\ Len(h) = 10 /\ h[10] = BEACON
      /\ h[1] = 65 /\ h[2] = 136 /\ h[4] = 202 /\ h[5] = 222
  BY <1>1, GatewayHdr
<1>5. v \in Seq(Int) /\ Len(v) = 1 /\ v[1] = PROTO_VER
  BY <1>1, SMT DEF PROTO_VER
<1>6. u \in Seq(Int) /\ Len(u) = 4 /\ Word32At(u, 0, ctr)
  BY <1>1, Put32As
<1>7. w \in Seq(Int) /\ Len(w) = 22 /\ SlotsAt(w, 0, map)
  BY <1>1, WordsBytes
<1>8. PICK r : r = h \o v
  BY Zenon
<1>9. PICK s : s = r \o u
  BY Zenon
<1>10. g = s \o w
  BY <1>0, <1>1, <1>8, <1>9, SMT DEF BeaconBuild
<1>11. /\ r \in Seq(Int) /\ Len(r) = 11 /\ r[11] = PROTO_VER
       /\ \A i \in 1 .. 10 : r[i] = h[i]
  <2>1. h \in Seq(Int) /\ v \in Seq(Int)
    BY <1>3, <1>5
  <2>2. Joins(r, h, v)
    BY <2>1, <1>8, JoinedAs, Zenon
  <2> QED BY <1>3, <1>5, <2>2 DEF Joins
<1>12. /\ s \in Seq(Int) /\ Len(s) = 15
       /\ \A i \in 1 .. 11 : s[i] = r[i]
       /\ s[12] = u[1] /\ s[13] = u[2] /\ s[14] = u[3] /\ s[15] = u[4]
  <2>1. r \in Seq(Int) /\ u \in Seq(Int)
    BY <1>6, <1>11
  <2>2. Joins(s, r, u)
    BY <2>1, <1>9, JoinedAs, Zenon
  <2> QED BY <1>6, <1>11, <2>2 DEF Joins
<1>13. /\ g \in Seq(Int) /\ Len(g) = 37
       /\ \A i \in 1 .. 15 : g[i] = s[i]
       /\ \A i \in 1 .. 22 : g[15 + i] = w[i]
  <2>1. s \in Seq(Int) /\ w \in Seq(Int)
    BY <1>7, <1>12
  <2>2. Joins(g, s, w)
    BY <2>1, <1>10, JoinedAs, Zenon
  <2> QED BY <1>7, <1>12, <2>2 DEF Joins
<1>14. \A i \in 1 .. 10 : g[i] = h[i]
  <2>1. \A i \in 1 .. 10 : i \in 1 .. 11 /\ i \in 1 .. 15
    OBVIOUS
  <2> QED BY <2>1, <1>11, <1>12, <1>13, Zenon
<1>15. Frames(g, 37, BEACON)
  <2>1. g[1] = 65 /\ g[2] = 136 /\ g[4] = 202 /\ g[5] = 222 /\ g[10] = BEACON
    BY <1>3, <1>14
  <2> QED BY <1>13, <2>1, SMT DEF Frames
<1>16. g[11] = PROTO_VER
  BY <1>11, <1>12, <1>13
<1>17. g[12] = u[1] /\ g[13] = u[2] /\ g[14] = u[3] /\ g[15] = u[4]
  BY <1>12, <1>13
<1>18. Word32At(g, 11, ctr)
  <2>1. ctr = (u[1] + 256 * u[2]) + 65536 * (u[3] + 256 * u[4])
    BY <1>6, SMT DEF Word32At
  <2> QED BY <1>17, <2>1, SMT DEF Word32At
<1>19. SlotsAt(g, 15, map)
  <2>1. ASSUME NEW i \in 1 .. 11
        PROVE  map[i] = g[15 + (2 * i - 1)] + 256 * g[15 + 2 * i]
    <3>1. map[i] = w[0 + (2 * i - 1)] + 256 * w[0 + 2 * i]
      BY <1>7 DEF SlotsAt
    <3>2. 0 + (2 * i - 1) = 2 * i - 1 /\ 0 + 2 * i = 2 * i
      OBVIOUS
    <3>3. 2 * i - 1 \in 1 .. 22 /\ 2 * i \in 1 .. 22
      OBVIOUS
    <3>4. g[15 + (2 * i - 1)] = w[2 * i - 1] /\ g[15 + 2 * i] = w[2 * i]
      BY <1>13, <3>3
    <3> QED BY <3>1, <3>2, <3>4
  <2> QED BY <2>1 DEF SlotsAt
<1>20. BeaconLayout(g, ctr, map)
  BY <1>16, <1>18, <1>19 DEF BeaconLayout
<1> QED BY <1>15, <1>20

\* A beacon is numbered by its sender and has its sender's version.
LEMMA BeaconRead ==
  ASSUME NEW ctr \in Word32, NEW map \in [1 .. 11 -> Word16],
         NEW y \in Seq(Int), NEW b \in Seq(Int)
  PROVE  [SetSeqNum(y, 0) EXCEPT ![11] = PROTO_VER] = BeaconBuild(ctr, map) =>
         /\ Len(y) = 37 /\ y[10] = BEACON
         /\ Len(b) = 37 /\ Same(b, y, 37)
              => ParseBeacon(b) = [ver |-> y[11], ctr |-> ctr, map |-> map]
<1>1. HAVE [SetSeqNum(y, 0) EXCEPT ![11] = PROTO_VER] = BeaconBuild(ctr, map)
<1>2. PICK g : g = [SetSeqNum(y, 0) EXCEPT ![11] = PROTO_VER]
  BY Zenon
<1>3. g = BeaconBuild(ctr, map)
  BY <1>1, <1>2, Zenon
<1>4. Frames(g, 37, BEACON) /\ BeaconLayout(g, ctr, map)
  BY <1>3, BeaconBytes
<1>5. Len(y) = Len(g) /\ \A i \in 1 .. Len(y) : i \notin {3, 11} => y[i] = g[i]
  <2>1. PICK s : s = SetSeqNum(y, 0)
    BY Zenon
  <2>3. /\ s \in Seq(Int) /\ Len(s) = Len(y)
        /\ \A i \in 1 .. Len(y) : i # 3 => y[i] = s[i]
    <3>1. s \in Seq(Int) /\ Carries(y, s)
      BY <2>1, CarriesAll
    <3> QED BY <3>1 DEF Carries
  <2>4. g = [s EXCEPT ![11] = PROTO_VER]
    BY <1>2, <2>1
  <2>5. PROTO_VER \in Int
    BY DEF PROTO_VER
  <2>6. Len(g) = Len(s) /\ \A i \in 1 .. Len(s) : i # 11 => s[i] = g[i]
    BY <2>3, <2>4, <2>5, OneChanged
  <2> QED BY <2>3, <2>6
<1>6. Len(y) = 37 /\ \A i \in 1 .. 37 : i \notin {3, 11} => y[i] = g[i]
  BY <1>4, <1>5 DEF Frames
<1>7. y[10] = BEACON
  <2>1. g[10] = BEACON
    BY <1>4 DEF Frames
  <2> QED BY <1>6, <2>1
<1>8. ASSUME Len(b) = 37, Same(b, y, 37)
      PROVE  ParseBeacon(b) = [ver |-> y[11], ctr |-> ctr, map |-> map]
  <2>1. \A i \in 1 .. 37 : b[i] = y[i]
    BY <1>8 DEF Same
  <2>2. \A i \in 1 .. 37 : i \notin {3, 11} => b[i] = g[i]
    BY <1>6, <2>1
  <2>3. b[1] = 65 /\ b[2] = 136 /\ b[4] = 202 /\ b[5] = 222 /\ b[10] = BEACON
    BY <1>4, <2>2 DEF Frames
  <2>4. IsBeacon(b)
    BY <1>8, <2>3 DEF IsBeacon, IsType, IsValid, At, MAX_LEN, Hdr, Put16
  <2>5. (Len(b) - 15) % 2 = 0 /\ (Len(b) - 15) \div 2 = 11
    BY <1>8
  <2>6. At(b, 10) = y[11]
    BY <2>1 DEF At
  <2>7. Get32(b, 11) = ctr
    <3>1. Get32(b, 11) = (b[12] + 256 * b[13]) + 65536 * (b[14] + 256 * b[15])
      BY SMT DEF Get32, Get16, At
    <3>2. b[12] = g[12] /\ b[13] = g[13] /\ b[14] = g[14] /\ b[15] = g[15]
      BY <2>2
    <3>3. Word32At(g, 11, ctr)
      BY <1>4 DEF BeaconLayout
    <3>4. ctr = (g[12] + 256 * g[13]) + 65536 * (g[14] + 256 * g[15])
      BY <3>3, SMT DEF Word32At
    <3> QED BY <3>1, <3>2, <3>4, SMT
  <2>8. \A i \in 1 .. 11 : Get16(b, 13 + 2 * i) = map[i]
    <3>1. TAKE i \in 1 .. 11
    <3>2. SlotsAt(g, 15, map)
      BY <1>4 DEF BeaconLayout
    <3>3. map[i] = g[15 + (2 * i - 1)] + 256 * g[15 + 2 * i]
      BY <3>2 DEF SlotsAt
    <3>4. /\ 15 + (2 * i - 1) \in 1 .. 37 /\ 15 + (2 * i - 1) \notin {3, 11}
          /\ 15 + 2 * i \in 1 .. 37 /\ 15 + 2 * i \notin {3, 11}
      OBVIOUS
    <3>5. b[15 + (2 * i - 1)] = g[15 + (2 * i - 1)] /\ b[15 + 2 * i] = g[15 + 2 * i]
      BY <2>2, <3>4
    <3>6. /\ (13 + 2 * i) + 1 = 15 + (2 * i - 1)
          /\ ((13 + 2 * i) + 1) + 1 = 15 + 2 * i
      OBVIOUS
    <3>7. Get16(b, 13 + 2 * i) = b[15 + (2 * i - 1)] + 256 * b[15 + 2 * i]
      BY <3>6 DEF Get16, At
    <3> QED BY <3>3, <3>5, <3>7
  <2>9. map = [i \in 1 .. 11 |-> map[i]]
    OBVIOUS
  <2>10. [i \in 1 .. (Len(b) - 15) \div 2 |-> Get16(b, 13 + 2 * i)] = map
    BY <2>5, <2>8, <2>9
  <2> QED BY <2>4, <2>5, <2>6, <2>7, <2>10 DEF ParseBeacon
<1> QED BY <1>6, <1>7, <1>8

LEMMA RefBytes ==
  PosRespRef \in Seq(Int) /\ Len(PosRespRef) = 10 /\ PosRespRef[10] = 225
<1>3. PICK h : h = PosRespRef
  BY Zenon
<1>6. h \in Seq(Int) /\ Len(h) = 10 /\ h[10] = 225
  <2>1. PICK k, t, z : k = <<65, 136, 0, 202, 222>> /\ t = <<86, 69, 87, 65>> /\ z = <<225>>
    BY ZenonT(60)
  <2>2. PICK c : c = k \o t
    BY Zenon
  <2>3. h = c \o z
    BY <1>3, <2>1, <2>2, SMT DEF PosRespRef, WaveHdr
  <2>4. k \in Seq(Int) /\ t \in Seq(Int) /\ z \in Seq(Int)
    BY <2>1, SMT
  <2>5. Len(k) = 5 /\ Len(t) = 4 /\ Len(z) = 1 /\ z[1] = 225
    BY <2>1, SMT
  <2>6. c \in Seq(Int) /\ Len(c) = 9
    <3>1. Joins(c, k, t)
      BY <2>2, <2>4, JoinedAs, Zenon
    <3> QED BY <2>5, <3>1 DEF Joins
  <2>7. /\ h \in Seq(Int) /\ Len(h) = Len(c) + Len(z)
        /\ \A i \in 1 .. Len(z) : h[Len(c) + i] = z[i]
    <3>1. c \in Seq(Int) /\ z \in Seq(Int)
      BY <2>4, <2>6
    <3>2. Joins(h, c, z)
      BY <2>3, <3>1, JoinedAs, Zenon
    <3> QED BY <3>2 DEF Joins
  <2> QED BY <2>5, <2>6, <2>7
<1> QED BY <1>3, <1>6, Zenon

\* A ranging answer: the reference header, who answers, and two timestamps.
LEMMA RangeRead ==
  ASSUME NEW aid \in Octet, NEW ts \in [1 .. 16 -> Octet],
         NEW y \in Seq(Int), NEW b \in Seq(Int)
  PROVE  SetSeqNum(y, 0) = PosRespRef \o <<aid>> \o ts =>
         /\ Len(y) = 27 /\ y[10] = At(PosRespRef, 9)
         /\ Len(b) >= 27 /\ Same(b, y, 27) => At(b, 10) = aid /\ Bytes(b, 11, 16) = ts
<1>1. HAVE SetSeqNum(y, 0) = PosRespRef \o <<aid>> \o ts
<1>2. PICK g : g = SetSeqNum(y, 0)
  BY Zenon
<1>3. PICK h, e : h = PosRespRef /\ e = <<aid>>
  BY Zenon
<1>4. PICK r : r = h \o e
  BY Zenon
<1>5. g = r \o ts
  BY <1>1, <1>2, <1>3, <1>4
<1>6. h \in Seq(Int) /\ Len(h) = 10 /\ h[10] = 225
  BY <1>3, RefBytes
<1>7. e \in Seq(Int) /\ Len(e) = 1 /\ e[1] = aid
  <2>1. aid \in Int
    BY DEF Octet
  <2>2. e = <<aid>>
    BY <1>3
  <2> QED BY <2>1, <2>2
<1>8. ts \in Seq(Int) /\ Len(ts) = 16
  BY Octets
<1>9. r \in Seq(Int) /\ Len(r) = 11 /\ r[11] = aid /\ r[10] = h[10]
  <2>1. h \in Seq(Int) /\ e \in Seq(Int)
    BY <1>6, <1>7
  <2>2. Joins(r, h, e)
    BY <2>1, <1>4, JoinedAs, Zenon
  <2> QED BY <1>6, <1>7, <2>2 DEF Joins
<1>10. /\ g \in Seq(Int) /\ Len(g) = 27 /\ g[10] = r[10] /\ g[11] = r[11]
       /\ \A i \in 1 .. 16 : g[11 + i] = ts[i]
  <2>1. r \in Seq(Int) /\ ts \in Seq(Int)
    BY <1>8, <1>9
  <2>2. Joins(g, r, ts)
    BY <2>1, <1>5, JoinedAs, Zenon
  <2> QED BY <1>8, <1>9, <2>2 DEF Joins
<1>11. Len(y) = 27 /\ \A i \in 1 .. 27 : i # 3 => y[i] = g[i]
  <2>1. Carries(y, g)
    BY <1>2, CarriesAll
  <2> QED BY <1>10, <2>1 DEF Carries
<1>12. y[10] = At(PosRespRef, 9)
  <2>1. At(PosRespRef, 9) = h[10]
    BY <1>3 DEF At
  <2>2. y[10] = g[10]
    BY <1>11
  <2> QED BY <2>1, <2>2, <1>9, <1>10
<1>13. ASSUME Len(b) >= 27, Same(b, y, 27)
       PROVE  At(b, 10) = aid /\ Bytes(b, 11, 16) = ts
  <2>1. \A i \in 1 .. 27 : i # 3 => b[i] = g[i]
    BY <1>11, <1>13 DEF Same
  <2>2. \A i \in 1 .. 16 : 11 + i \in 1 .. 27 /\ 11 + i # 3
    OBVIOUS
  <2>3. Field(b, 11, 16, ts)
    <3>1. ASSUME NEW i \in 1 .. 16 PROVE b[11 + i] = ts[i]
      BY <1>10, <2>1, <2>2
    <3> QED BY <3>1 DEF Field
  <2>4. 11 \in Nat /\ 16 \in Nat /\ 11 + 16 <= Len(b)
    BY <1>13
  <2>5. Bytes(b, 11, 16) = ts
    BY <2>3, <2>4, BytesRead
  <2>6. At(b, 10) = aid
    BY <1>9, <1>10, <2>1 DEF At
  <2> QED BY <2>5, <2>6
<1> QED BY <1>11, <1>12, <1>13

\* What a station's frame is to whoever reads its length and its type.
Shaped(f) ==
  /\ f.bytes \in Seq(Int) /\ Len(f.bytes) >= 10
  /\ f.kind = "grant"  => Len(f.bytes) = 24 /\ f.bytes[10] = GRANT
  /\ f.kind = "beacon" => Len(f.bytes) = 37 /\ f.bytes[10] = BEACON
  /\ f.kind = "resp"   => Len(f.bytes) = 20 /\ f.bytes[10] = RESP
  /\ f.kind = "range"  => Len(f.bytes) = 27 /\ f.bytes[10] = 225
  /\ f.kind \notin {"grant", "beacon", "resp", "range"}
       => f.bytes[10] \notin {GRANT, BEACON, RESP, 225}

LEMMA RangeType == At(PosRespRef, 9) = 225
<1>1. PosRespRef \in Seq(Int) /\ Len(PosRespRef) = 10 /\ PosRespRef[10] = 225
  BY RefBytes
<1> QED BY <1>1 DEF At

LEMMA OctetSeq ==
  ASSUME NEW y \in Seq(Octet)
  PROVE  y \in Seq(Int) /\ \A i \in 1 .. Len(y) : y[i] \in Nat
<1>1. PICK n \in Nat : n = Len(y)
  OBVIOUS
<1>2. y \in [1 .. n -> Octet]
  BY <1>1
<1>3. y \in Seq(Int)
  BY <1>2, Octets
<1>4. \A i \in 1 .. n : y[i] \in Octet
  BY <1>2
<1>5. \A x \in Octet : x \in Nat
  BY DEF Octet
<1> QED BY <1>1, <1>3, <1>4, <1>5

LEMMA AirBytes ==
  ASSUME NEW f \in Air
  PROVE  /\ f.bytes \in Seq(Octet) /\ f.bytes \in Seq(Int)
         /\ Built(f, SetSeqNum(f.bytes, 0))
<1>1. f.bytes \in Seq(Octet) /\ Built(f, SetSeqNum(f.bytes, 0))
  BY AirAssumption
<1> QED BY <1>1, OctetSeq

\* A GRANT on the air, and what its reader gets of it.
LEMMA AirGrant ==
  ASSUME NEW f \in Air, f.kind = "grant", NEW b \in Seq(Int)
  PROVE  /\ Len(f.bytes) = 24 /\ f.bytes[10] = GRANT
         /\ Len(b) = 24 /\ Same(b, f.bytes, 24) => ParseGrant(b) = f.fields
<1>1. f.bytes \in Seq(Int) /\ Built(f, SetSeqNum(f.bytes, 0))
  BY AirBytes
<1>2. PICK v, y : v = f.fields /\ y = f.bytes
  BY Zenon
<1>3. /\ v \in [eui : [1 .. 8 -> Octet], addr : Word16, slot : Octet, tier : Octet,
                lease : Word16]
      /\ SetSeqNum(y, 0) = GrantBuild(v.eui, v.addr, v.slot, v.tier, v.lease)
  BY <1>1, <1>2, Zenon DEF Built
<1>4. /\ v.eui \in [1 .. 8 -> Octet] /\ v.addr \in Word16 /\ v.slot \in Octet
      /\ v.tier \in Octet /\ v.lease \in Word16
      /\ v = [eui |-> v.eui, addr |-> v.addr, slot |-> v.slot, tier |-> v.tier,
              lease |-> v.lease]
  BY <1>3
<1>5. y \in Seq(Int)
  BY <1>1, <1>2
<1>6. PICK e \in [1 .. 8 -> Octet], a \in Word16, s \in Octet, t \in Octet, l \in Word16 :
        e = v.eui /\ a = v.addr /\ s = v.slot /\ t = v.tier /\ l = v.lease
  BY <1>4, Zenon
<1>7. /\ Len(y) = 24 /\ y[10] = GRANT
      /\ Len(b) = 24 /\ Same(b, y, 24)
           => ParseGrant(b) = [eui |-> e, addr |-> a, slot |-> s, tier |-> t, lease |-> l]
  <2>1. SetSeqNum(y, 0) = GrantBuild(e, a, s, t, l)
    BY <1>3, <1>6, Zenon
  <2> QED BY <1>5, <2>1, GrantRead
<1>8. v = [eui |-> e, addr |-> a, slot |-> s, tier |-> t, lease |-> l]
  BY <1>4, <1>6, Zenon
<1> QED BY <1>2, <1>7, <1>8, Zenon

LEMMA AirResponse ==
  ASSUME NEW f \in Air, f.kind = "resp", NEW b \in Seq(Int)
  PROVE  /\ Len(f.bytes) = 20 /\ f.bytes[10] = RESP
         /\ Len(b) = 20 /\ Same(b, f.bytes, 20) => ParseResponse(b) = f.fields
<1>1. /\ f.bytes \in Seq(Octet) /\ f.bytes \in Seq(Int)
      /\ Built(f, SetSeqNum(f.bytes, 0))
  BY AirBytes
<1>2. PICK v, y : v = f.fields /\ y = f.bytes
  BY Zenon
<1>3. PICK g : g = SetSeqNum(y, 0)
  BY Zenon
<1>4. /\ v \in [src : Word16, p : Word32, q : Word16]
      /\ Len(g) = 20 /\ g = ResponseBuild(v.src, GetDest(g), Get32(g, 10), v.p, v.q)
  BY <1>1, <1>2, <1>3, Zenon DEF Built
<1>5. /\ v.src \in Word16 /\ v.p \in Word32 /\ v.q \in Word16
      /\ v = [src |-> v.src, p |-> v.p, q |-> v.q]
  BY <1>4
<1>6. y \in Seq(Octet) /\ y \in Seq(Int)
  BY <1>1, <1>2
<1>7. Carries(y, g)
  BY <1>3, <1>6, CarriesAll
<1>8. GetDest(g) \in Nat /\ Get32(g, 10) \in Nat
  <2>1. Len(y) = 20 /\ \A i \in 1 .. 20 : i # 3 => y[i] = g[i]
    BY <1>4, <1>7 DEF Carries
  <2>2. \A i \in 1 .. Len(y) : y[i] \in Nat
    BY <1>6, OctetSeq
  <2>3. \A i \in 1 .. 20 : y[i] \in Nat
    BY <2>1, <2>2
  <2>4. /\ g[6] \in Nat /\ g[7] \in Nat /\ g[11] \in Nat /\ g[12] \in Nat
        /\ g[13] \in Nat /\ g[14] \in Nat
    <3>1. \A i \in 1 .. 20 : i # 3 => g[i] \in Nat
      BY <2>1, <2>3, Zenon
    <3> QED BY <3>1
  <2>5. /\ GetDest(g) = g[6] + 256 * g[7]
        /\ Get32(g, 10) = (g[11] + 256 * g[12]) + 65536 * (g[13] + 256 * g[14])
    BY SMT DEF GetDest, Get32, Get16, At
  <2>6. PICK i \in Nat, j \in Nat, k \in Nat, l \in Nat, m \in Nat, n \in Nat :
          /\ i = g[6] /\ j = g[7] /\ k = g[11] /\ l = g[12] /\ m = g[13] /\ n = g[14]
    BY <2>4, Zenon
  <2>7. i + 256 * j \in Nat /\ (k + 256 * l) + 65536 * (m + 256 * n) \in Nat
    BY SMT
  <2> QED BY <2>5, <2>6, <2>7, SMT
<1>9. PICK s \in Word16, p \in Word32, q \in Word16, d \in Nat, t \in Nat :
        s = v.src /\ p = v.p /\ q = v.q /\ d = GetDest(g) /\ t = Get32(g, 10)
  BY <1>5, <1>8, Zenon
<1>10. /\ Len(y) = 20 /\ y[10] = RESP
       /\ Len(b) = 20 /\ Same(b, y, 20) => ParseResponse(b) = [src |-> s, p |-> p, q |-> q]
  <2>1. SetSeqNum(y, 0) = ResponseBuild(s, d, t, p, q)
    BY <1>3, <1>4, <1>9, Zenon
  <2> QED BY <1>6, <2>1, ResponseRead
<1>11. v = [src |-> s, p |-> p, q |-> q]
  BY <1>5, <1>9, Zenon
<1> QED BY <1>2, <1>10, <1>11, Zenon

LEMMA AirBeacon ==
  ASSUME NEW f \in Air, f.kind = "beacon", NEW b \in Seq(Int)
  PROVE  /\ Len(f.bytes) = 37 /\ f.bytes[10] = BEACON
         /\ Len(b) = 37 /\ Same(b, f.bytes, 37) => ParseBeacon(b) = f.fields
<1>1. f.bytes \in Seq(Int) /\ Built(f, SetSeqNum(f.bytes, 0))
  BY AirBytes
<1>2. PICK v, y : v = f.fields /\ y = f.bytes
  BY Zenon
<1>3. PICK g : g = SetSeqNum(y, 0)
  BY Zenon
<1>4. /\ v \in [ver : {At(g, 10)}, ctr : Word32, map : [1 .. 11 -> Word16]]
      /\ [g EXCEPT ![11] = PROTO_VER] = BeaconBuild(v.ctr, v.map)
  BY <1>1, <1>2, <1>3, Zenon DEF Built
<1>5. /\ v.ver = At(g, 10) /\ v.ctr \in Word32 /\ v.map \in [1 .. 11 -> Word16]
      /\ v = [ver |-> v.ver, ctr |-> v.ctr, map |-> v.map]
  BY <1>4
<1>6. y \in Seq(Int)
  BY <1>1, <1>2
<1>7. PICK c \in Word32, m \in [1 .. 11 -> Word16] : c = v.ctr /\ m = v.map
  BY <1>5, Zenon
<1>8. /\ Len(y) = 37 /\ y[10] = BEACON
      /\ Len(b) = 37 /\ Same(b, y, 37)
           => ParseBeacon(b) = [ver |-> y[11], ctr |-> c, map |-> m]
  <2>1. [SetSeqNum(y, 0) EXCEPT ![11] = PROTO_VER] = BeaconBuild(c, m)
    BY <1>3, <1>4, <1>7, Zenon
  <2> QED BY <1>6, <2>1, BeaconRead
<1>9. At(g, 10) = y[11]
  <2>1. Carries(y, g)
    BY <1>3, <1>6, CarriesAll
  <2>2. y[11] = g[11]
    BY <1>8, <2>1 DEF Carries
  <2> QED BY <2>2 DEF At
<1>10. v = [ver |-> y[11], ctr |-> c, map |-> m]
  BY <1>5, <1>7, <1>9, Zenon
<1> QED BY <1>2, <1>8, <1>10, Zenon

\* What a ranging answer is taken for.
RangeIn(b) == [aid |-> At(b, 10), ts |-> Bytes(b, 11, 16)]

LEMMA AirRange ==
  ASSUME NEW f \in Air, f.kind = "range", NEW b \in Seq(Int)
  PROVE  /\ Len(f.bytes) = 27 /\ f.bytes[10] = 225
         /\ Len(b) >= 27 /\ Same(b, f.bytes, 27) => RangeIn(b) = f.fields
<1>1. f.bytes \in Seq(Int) /\ Built(f, SetSeqNum(f.bytes, 0))
  BY AirBytes
<1>2. PICK v, y : v = f.fields /\ y = f.bytes
  BY Zenon
<1>3. /\ v \in [aid : Octet, ts : [1 .. 16 -> Octet]]
      /\ SetSeqNum(y, 0) = PosRespRef \o <<v.aid>> \o v.ts
  BY <1>1, <1>2, Zenon DEF Built
<1>4. /\ v.aid \in Octet /\ v.ts \in [1 .. 16 -> Octet]
      /\ v = [aid |-> v.aid, ts |-> v.ts]
  BY <1>3
<1>5. y \in Seq(Int)
  BY <1>1, <1>2
<1>6. PICK a \in Octet, t \in [1 .. 16 -> Octet] : a = v.aid /\ t = v.ts
  BY <1>4, Zenon
<1>7. /\ Len(y) = 27 /\ y[10] = At(PosRespRef, 9)
      /\ Len(b) >= 27 /\ Same(b, y, 27) => At(b, 10) = a /\ Bytes(b, 11, 16) = t
  <2>1. SetSeqNum(y, 0) = PosRespRef \o <<a>> \o t
    BY <1>3, <1>6, Zenon
  <2> QED BY <1>5, <2>1, RangeRead
<1>8. v = [aid |-> a, ts |-> t]
  BY <1>4, <1>6, Zenon
<1>9. Len(b) >= 27 /\ Same(b, y, 27) => RangeIn(b) = v
  BY <1>7, <1>8 DEF RangeIn
<1> QED BY <1>2, <1>7, <1>9, RangeType

\* The type of a frame tells its kind, and its kind how long it is.
LEMMA AirShaped == ASSUME NEW f \in Air PROVE Shaped(f)
<1>1. f.bytes \in Seq(Int) /\ Built(f, SetSeqNum(f.bytes, 0))
  BY AirBytes
<1>2. f.kind = "grant" => Len(f.bytes) = 24 /\ f.bytes[10] = GRANT
  BY <1>1, AirGrant
<1>3. f.kind = "beacon" => Len(f.bytes) = 37 /\ f.bytes[10] = BEACON
  BY <1>1, AirBeacon
<1>4. f.kind = "resp" => Len(f.bytes) = 20 /\ f.bytes[10] = RESP
  BY <1>1, AirResponse
<1>5. f.kind = "range" => Len(f.bytes) = 27 /\ f.bytes[10] = 225
  BY <1>1, AirRange
<1>6. ASSUME f.kind \notin {"grant", "beacon", "resp", "range"}
      PROVE  Len(f.bytes) >= 10 /\ f.bytes[10] \notin {GRANT, BEACON, RESP, 225}
  <2>1. PICK y, g : y = f.bytes /\ g = SetSeqNum(y, 0)
    BY Zenon
  <2>2. Len(g) >= 10 /\ At(g, 9) \notin {GRANT, BEACON, RESP, 225}
    BY <1>1, <1>6, <2>1, RangeType DEF Built
  <2>3. g \in Seq(Int) /\ Carries(y, g)
    BY <1>1, <2>1, CarriesAll
  <2>4. Len(y) = Len(g) /\ y[10] = g[10]
    <3>1. Len(y) = Len(g) /\ \A i \in 1 .. Len(y) : i # 3 => y[i] = g[i]
      BY <2>3 DEF Carries
    <3>2. Len(g) \in Nat /\ Len(g) >= 10
      BY <2>2, <2>3
    <3>3. 10 \in 1 .. Len(g) /\ 10 # 3
      BY <3>2
    <3> QED BY <3>1, <3>3
  <2>5. At(g, 9) = g[10]
    BY DEF At
  <2> QED BY <2>1, <2>2, <2>4, <2>5
<1>7. Len(f.bytes) >= 10
  BY <1>2, <1>3, <1>4, <1>5, <1>6
<1> QED BY <1>1, <1>2, <1>3, <1>4, <1>5, <1>6, <1>7 DEF Shaped

\* The part of what is read that lies within the frame f.
Prefix(b, f) == \A i \in 1 .. Len(b) : i <= Len(f.bytes) => b[i] = f.bytes[i]

LEMMA PrefixSame ==
  ASSUME NEW f \in Air, NEW b \in Seq(Int), Prefix(b, f), Len(b) >= Len(f.bytes)
  PROVE  Same(b, f.bytes, Len(f.bytes))
<1>1. PICK y, n : y = f.bytes /\ n = Len(y)
  BY Zenon
<1>2. n \in Nat
  BY <1>1, AirBytes
<1>3. Len(b) \in Nat /\ n <= Len(b)
  BY <1>1
<1>4. \A i \in 1 .. n : i \in 1 .. Len(b) /\ i <= n
  BY <1>2, <1>3
<1>5. \A i \in 1 .. n : b[i] = y[i]
  BY <1>1, <1>4 DEF Prefix
<1> QED BY <1>1, <1>5 DEF Same

\* A byte of the header that is read is one of the frame's.
LEMMA PrefixType ==
  ASSUME NEW f \in Air, NEW b \in Seq(Int), Prefix(b, f), Len(b) >= 10
  PROVE  At(b, 9) = f.bytes[10]
<1>1. Len(f.bytes) >= 10 /\ 10 \in 1 .. Len(b)
  BY AirShaped DEF Shaped
<1>2. b[10] = f.bytes[10]
  BY <1>1 DEF Prefix
<1> QED BY <1>2 DEF At

\* What a caller takes is what the station sent, whatever lies behind the frame.
LEMMA FitsRoom ==
  ASSUME NEW o, NEW n, Fits(o, n)
  PROVE  /\ o = "resp" => n \in 1 .. 20
         /\ o = "range" => n \in 27 .. 30
<1>1. ASSUME o = "resp" PROVE n \in 1 .. 20
  BY <1>1 DEF Fits
<1>2. ASSUME o = "range" PROVE n \in 27 .. 30
  BY <1>2 DEF Fits
<1> QED BY <1>1, <1>2

\* An empty buffer fits nowhere.
LEMMA FitsSome ==
  ASSUME NEW o \in Listens \cup {"range"}, NEW n, Fits(o, n)
  PROVE  n # 0
<1>1. CASE o = "grant"
  BY <1>1 DEF Fits
<1>2. CASE o = "beacon"
  BY <1>2 DEF Fits, MAX_LEN
<1>3. CASE o = "resp" \/ o = "range"
  BY <1>3, FitsRoom
<1> QED BY <1>1, <1>2, <1>3 DEF Listens

LEMMA PrefixAll ==
  ASSUME NEW f \in Air, NEW b \in Seq(Int), Prefix(b, f), NEW n,
         Len(f.bytes) = n, Len(b) >= n
  PROVE  Same(b, f.bytes, n)
BY PrefixSame

LEMMA TakenIsSent ==
  ASSUME NEW f \in Air, NEW b \in Seq(Int), Prefix(b, f),
         NEW o \in Listens \cup {"range"}, Fits(o, Len(b)), Taken(o, b) # None
  PROVE  f.kind = Taken(o, b).as /\ f.fields = Taken(o, b).fields
<1>0. /\ GRANT # BEACON /\ GRANT # RESP /\ BEACON # RESP
      /\ 225 \notin {GRANT, BEACON, RESP}
  BY DEF GRANT, BEACON, RESP
<1>1. CASE o = "grant"
  <2>1. ParseGrant(b) # Bad /\ Taken(o, b) = [as |-> "grant", fields |-> ParseGrant(b)]
    BY <1>1 DEF Taken
  <2>2. Len(b) = 24 /\ At(b, 9) = GRANT
    BY <2>1 DEF ParseGrant, IsGrant, IsType
  <2>3. f.bytes[10] = GRANT
    <3>1. Len(b) >= 10
      BY <2>2
    <3> QED BY <2>2, <3>1, PrefixType
  <2>4. f.kind = "grant"
    BY <1>0, <2>3, AirShaped DEF Shaped
  <2>5. ParseGrant(b) = f.fields
    <3>1. Len(f.bytes) = 24 /\ Len(b) >= 24
      BY <2>2, <2>4, AirShaped DEF Shaped
    <3>2. Same(b, f.bytes, 24)
      BY <3>1, PrefixAll
    <3> QED BY <2>2, <2>4, <3>2, AirGrant
  <2> QED BY <2>1, <2>4, <2>5
<1>2. CASE o = "beacon"
  <2>1. /\ Len(b) = 37 /\ ParseBeacon(b) # Bad
        /\ Taken(o, b) = [as |-> "beacon", fields |-> ParseBeacon(b)]
    BY <1>2 DEF Taken, MAX_LEN
  <2>2. At(b, 9) = BEACON
    BY <2>1 DEF ParseBeacon, IsBeacon, IsType
  <2>3. f.bytes[10] = BEACON
    <3>1. Len(b) >= 10
      BY <2>1
    <3> QED BY <2>2, <3>1, PrefixType
  <2>4. f.kind = "beacon"
    BY <1>0, <2>3, AirShaped DEF Shaped
  <2>5. ParseBeacon(b) = f.fields
    <3>1. Len(f.bytes) = 37 /\ Len(b) >= 37
      BY <2>1, <2>4, AirShaped DEF Shaped
    <3>2. Same(b, f.bytes, 37)
      BY <3>1, PrefixAll
    <3> QED BY <2>1, <2>4, <3>2, AirBeacon
  <2> QED BY <2>1, <2>4, <2>5
<1>3. CASE o = "resp"
  <2>1. ParseResponse(b) # Bad /\ Taken(o, b) = [as |-> "resp", fields |-> ParseResponse(b)]
    BY <1>3 DEF Taken
  <2>2. Len(b) >= 20 /\ At(b, 9) = RESP
    BY <2>1 DEF ParseResponse, IsResponse, IsType
  <2>3. Len(b) = 20
    <3>1. Len(b) \in 1 .. 20
      BY <1>3, FitsRoom
    <3>2. \A n \in 1 .. 20 : n >= 20 => n = 20
      OBVIOUS
    <3> QED BY <2>2, <3>1, <3>2, Zenon
  <2>4. f.bytes[10] = RESP
    BY <2>2, PrefixType
  <2>5. f.kind = "resp"
    BY <1>0, <2>4, AirShaped DEF Shaped
  <2>6. ParseResponse(b) = f.fields
    <3>1. Len(f.bytes) = 20 /\ Len(b) >= 20
      BY <2>3, <2>5, AirShaped DEF Shaped
    <3>2. Same(b, f.bytes, 20)
      BY <3>1, PrefixAll
    <3> QED BY <2>3, <2>5, <3>2, AirResponse
  <2> QED BY <2>1, <2>5, <2>6
<1>4. CASE o = "range"
  <2>1. /\ SubSeq(SetSeqNum(b, 0), 1, 10) = PosRespRef /\ At(b, 10) = Aid
        /\ Taken(o, b) = [as |-> "range", fields |-> [aid |-> Aid, ts |-> Bytes(b, 11, 16)]]
    BY <1>4 DEF Taken
  <2>2. Len(b) >= 27
    <3>1. Len(b) \in 27 .. 30
      BY <1>4, FitsRoom
    <3>2. \A n \in 27 .. 30 : n >= 27
      OBVIOUS
    <3> QED BY <3>1, <3>2, Zenon
  <2>3. At(b, 9) = 225
    <3>1. PICK g : g = SetSeqNum(b, 0)
      BY Zenon
    <3>2. g \in Seq(Int) /\ Carries(b, g)
      BY <3>1, CarriesAll
    <3>3. Len(b) = Len(g) /\ b[10] = g[10]
      BY <2>2, <3>2 DEF Carries
    <3>4. SubSeq(g, 1, 10)[10] = g[10]
      BY <2>2, <3>2, <3>3, SMT
    <3>5. PosRespRef[10] = 225
      BY RefBytes
    <3> QED BY <2>1, <3>1, <3>3, <3>4, <3>5 DEF At
  <2>4. f.bytes[10] = 225
    BY <2>2, <2>3, PrefixType
  <2>5. f.kind = "range"
    BY <1>0, <2>4, AirShaped DEF Shaped
  <2>6. RangeIn(b) = f.fields
    <3>1. Len(f.bytes) = 27
      BY <2>5, AirShaped DEF Shaped
    <3>2. Same(b, f.bytes, 27)
      BY <2>2, <3>1, PrefixAll
    <3> QED BY <2>2, <2>5, <3>2, AirRange
  <2> QED BY <2>1, <2>5, <2>6 DEF RangeIn
<1> QED BY <1>1, <1>2, <1>3, <1>4 DEF Listens

-----------------------------------------------------------------------------
\* What is read of the buffer is a sequence of bytes that begins with the frame.
LEMMA ContentBytes ==
  ASSUME TypeOK, buf[1] \in Air, NEW n \in Nat
  PROVE  Content(n) \in Seq(Int) /\ Len(Content(n)) = n /\ Prefix(Content(n), buf[1])
<1>1. PICK f, x : f = buf[1] /\ x = buf[2]
  BY Zenon
<1>2. f.bytes \in Seq(Int)
  BY <1>1, AirBytes
<1>3. x.bytes \in Seq(Int)
  <2>1. x \in Air \cup {NoFrame}
    <3>1. buf \in Seq(Air \cup {NoFrame}) /\ Len(buf) = 2 /\ 2 \in 1 .. 2
      BY DEF TypeOK
    <3>2. \A s \in Seq(Air \cup {NoFrame}) : \A i \in 1 .. Len(s) : s[i] \in Air \cup {NoFrame}
      OBVIOUS
    <3> QED BY <1>1, <3>1, <3>2
  <2>2. NoFrame.bytes \in Seq(Int)
    BY DEF NoFrame
  <2> QED BY <2>1, <2>2, AirBytes
<1>4. PICK y, z : y = f.bytes /\ z = x.bytes
  BY Zenon
<1>5. y \in Seq(Int) /\ z \in Seq(Int)
  BY <1>2, <1>3, <1>4
<1>6. PICK b : b = Content(n)
  BY Zenon
<1>7. b = [i \in 1 .. n |-> IF i <= Len(y) THEN y[i]
                            ELSE IF i <= Len(z) THEN z[i] ELSE 0]
  BY <1>1, <1>4, <1>6, Zenon DEF Content
<1>8. \A i \in 1 .. n : b[i] \in Int
  <2>1. TAKE i \in 1 .. n
  <2>2. i <= Len(y) => y[i] \in Int
    BY <1>5
  <2>3. i <= Len(z) => z[i] \in Int
    BY <1>5
  <2>4. b[i] = IF i <= Len(y) THEN y[i] ELSE IF i <= Len(z) THEN z[i] ELSE 0
    BY <1>7, Zenon
  <2> QED BY <2>2, <2>3, <2>4
<1>9. b \in [1 .. n -> Int]
  <2>1. b = [i \in 1 .. n |-> b[i]]
    BY <1>7, Zenon
  <2> QED BY <1>8, <2>1, Zenon
<1>10. b \in Seq(Int) /\ Len(b) = n
  BY <1>9, SeqOfInts
<1>11. Prefix(b, f)
  <2>1. \A i \in 1 .. n : i <= Len(y) => b[i] = y[i]
    BY <1>7, Zenon
  <2> QED BY <1>4, <1>10, <2>1 DEF Prefix
<1> QED BY <1>1, <1>6, <1>10, <1>11

\* The strengthening: an exchange is under way wherever the thread is not between
\* two, and once the length of a frame has been accepted the buffer has a frame,
\* though not always the one of that length.
Reading ==
  /\ pc \notin {"idle", "publish"} => op # "none"
  /\ pc = "data" => /\ buf[1] \in Air /\ op \in Listens \cup {"range"}
                    /\ Fits(op, len)

WholeIInv == Reading /\ TakenWhole

LEMMA WholeInitial == Init => WholeIInv
BY DEF Init, WholeIInv, Reading, TakenWhole

LEMMA ReadLengthWhole == ASSUME IInv, WholeIInv, ReadLength PROVE WholeIInv'
<1>1. /\ pc = "ret" /\ op \notin Sends /\ op' = op /\ buf' = buf /\ got' = got
      /\ len' = Len(buf[1].bytes) /\ pc' \in {"data", "idle"}
      /\ pc' = "data" => Fits(op, len')
  BY DEF ReadLength, Go
<1>2. op \in Listens \cup {"range"}
  BY <1>1 DEF IInv, TypeOK, WholeIInv, Reading
<1>3. ASSUME pc' = "data" PROVE buf[1] \in Air
  <2>1. len' # 0
    <3>1. Fits(op, len')
      BY <1>1, <1>3
    <3> QED BY <1>2, <3>1, FitsSome
  <2>2. buf[1] # NoFrame
    BY <1>1, <2>1 DEF NoFrame
  <2> QED BY <2>2, FirstFrame DEF IInv
<1>4. Reading'
  <2>1. op' # "none"
    BY <1>1, <1>2 DEF Listens
  <2>2. pc' = "data" => buf'[1] \in Air /\ op' \in Listens \cup {"range"}
    BY <1>1, <1>2, <1>3
  <2>3. pc' = "data" => Fits(op', len')
    BY <1>1
  <2> QED BY <2>1, <2>2, <2>3 DEF Reading
<1>5. TakenWhole'
  BY <1>1 DEF WholeIInv, TakenWhole
<1> QED BY <1>4, <1>5 DEF WholeIInv

LEMMA ReadDataWhole == ASSUME IInv, WholeIInv, ReadData PROVE WholeIInv'
<1>1. /\ pc = "data" /\ pc' = "clear" /\ op' = op /\ got' = Taken(op, Content(len))
  BY DEF ReadData, Go
<1>2. buf[1] \in Air /\ op \in Listens \cup {"range"} /\ Fits(op, len) /\ len \in Nat
  BY <1>1 DEF WholeIInv, Reading, IInv, TypeOK
<1>3. PICK b, o, f : b = Content(len) /\ o = op /\ f = buf[1]
  BY Zenon
<1>4. b \in Seq(Int) /\ Len(b) = len /\ Prefix(b, f)
  BY <1>2, <1>3, ContentBytes DEF IInv
<1>5. TakenWhole'
  <2>1. ASSUME Taken(o, b) # None
        PROVE  f.kind = Taken(o, b).as /\ f.fields = Taken(o, b).fields
    BY <1>2, <1>3, <1>4, <2>1, TakenIsSent
  <2> QED BY <1>1, <1>2, <1>3, <2>1 DEF TakenWhole
<1>6. Reading'
  BY <1>1 DEF WholeIInv, Reading
<1> QED BY <1>5, <1>6 DEF WholeIInv

\* No other step takes anything, and none but the chip's touches the buffer.
LEMMA ElsewhereWhole ==
  ASSUME IInv, WholeIInv, got' = got \/ got' = None,
         pc' \notin {"idle", "publish"} => op' # "none",
         pc' = "data" => pc = "data" /\ op' = op /\ len' = len
                         /\ (buf' = buf \/ buf'[1] \in Air)
  PROVE  WholeIInv'
<1>1. Reading'
  BY DEF WholeIInv, Reading
<1>2. TakenWhole'
  BY DEF WholeIInv, TakenWhole
<1> QED BY <1>1, <1>2 DEF WholeIInv

LEMMA WholeSteps == IInv /\ WholeIInv /\ [Next]_vars => WholeIInv'
<1> SUFFICES ASSUME IInv, WholeIInv, [Next]_vars PROVE WholeIInv'
  OBVIOUS
<1>0. pc \notin {"idle", "publish"} => op # "none"
  BY DEF WholeIInv, Reading
<1>1. CASE UNCHANGED vars
  BY <1>0, <1>1, ElsewhereWhole DEF vars, chip, line, wait, result
<1>2. CASE Chip
  <2>1. got' = got /\ pc' = pc /\ op' = op /\ len' = len /\ (buf' = buf \/ buf'[1] \in Air)
    BY <1>2 DEF Chip, TxDone, RxFrame, RxFails, wait, result
  <2> QED BY <1>0, <2>1, ElsewhereWhole
<1>3. CASE Interrupt
  <2>1. CASE WatchdogReset
    BY <2>1, ElsewhereWhole DEF WatchdogReset
  <2>2. CASE IsrEnter \/ IsrDrain \/ IsrExit
    <3>1. got' = got /\ pc' = pc /\ op' = op /\ len' = len /\ buf' = buf
      BY <2>2 DEF IsrEnter, IsrDrain, IsrExit, chip, wait, result
    <3> QED BY <1>0, <3>1, ElsewhereWhole
  <2> QED BY <1>3, <2>1, <2>2 DEF Interrupt
<1>4. CASE Wait
  <2>1. /\ got' = got /\ op' = op /\ pc' # "data"
        /\ pc \notin {"idle", "publish"}
    BY <1>4 DEF Wait, WaitReset, WaitEnable, WaitCheck, WaitDrain, WaitAgain, WaitTake,
       WaitReturn, Go, result
  <2> QED BY <1>0, <2>1, ElsewhereWhole
<1>5. CASE Exchange
  <2>1. CASE ReadLength
    BY <2>1, ReadLengthWhole
  <2>2. CASE ReadData
    BY <2>2, ReadDataWhole
  <2>3. CASE (\E o \in Listens : RxBeacon(o)) \/ (\E o \in Sends : TxFrame(o)) \/ RangeStart
    <3>1. got' = None /\ pc' \in {"reset", "idle"} /\ (pc' = "reset" => op' # "none")
      BY <2>3 DEF RxBeacon, TxFrame, RangeStart, Listens, Sends
    <3> QED BY <3>1, ElsewhereWhole
  <2>4. CASE Publish \/ PublishEnds \/ SleepAndWake
    <3>1. (got' = got \/ got' = None) /\ pc' \in {"publish", "idle"}
      BY <2>4 DEF Publish, PublishEnds, SleepAndWake, Go, result
    <3> QED BY <3>1, ElsewhereWhole
  <2>5. CASE SendEnds \/ NoReception \/ ClearReception
    <3>1. got' = got /\ pc' = "idle"
      BY <2>5 DEF SendEnds, NoReception, ClearReception, result
    <3> QED BY <3>1, ElsewhereWhole
  <2> QED BY <1>5, <2>1, <2>2, <2>3, <2>4, <2>5 DEF Exchange
<1> QED BY <1>1, <1>2, <1>3, <1>4, <1>5 DEF Next

\* Whatever frames the stations build, and whichever of them arrives while another
\* is read, what the tag takes for a beacon, a GRANT, a discovery answer or a ranging
\* answer is a frame of that kind that a station sent, with the fields it was built
\* from.
THEOREM FramesTakenWhole == Spec => []TakenWhole
<1>1. WholeIInv => TakenWhole
  BY DEF WholeIInv
<1> QED BY <1>1, Inductive, WholeInitial, WholeSteps, PTL DEF Spec

-----------------------------------------------------------------------------
(***************************************************************************)
(* The flood                                                               *)
(***************************************************************************)

FloodFrame == [key : AlertKey, hop : Nat, ttl : Nat]

TagsType == tag \in [Tag -> [state : {"OFF", "HELP", "CANCELLING"},
                             epoch : 0..MaxEpoch, seq : Nat, due : BOOLEAN]]
TableType == table \in [1..LatchN -> Slot \cup {Free}]
ClearedType == cleared \in [Tag -> SUBSET (0..MaxEpoch)]

FloodType == /\ clock \in Nat
             /\ TagsType
             /\ queue \in [Anchor -> SUBSET FloodFrame]
             /\ TableType
             /\ ClearedType

\* A relay that waits is of its tag's last raise.
QueuedIsCurrent ==
    \A a \in Anchor : \A f \in queue[a] : f.key.epoch = tag[f.key.orig].epoch

\* Nothing is cancelled before it is raised.
ClearedIsPast == \A t \in Tag : \A e \in cleared[t] : e <= tag[t].epoch

HoldsSlot(t, i) == table[i] # Free /\ table[i].orig = t

\* A tag has one slot at most, and what the gateway remembers of its cancels goes
\* with the slot.
OneSlot == \A t \in Tag : \A i, j \in 1..LatchN :
              HoldsSlot(t, i) /\ HoldsSlot(t, j) => i = j
MemoryIsSlot ==
    \A t \in Tag : cleared[t] # {} => \E i \in 1..LatchN : HoldsSlot(t, i)

\* A latch is not up for a raise that was cancelled, and it has in
\* last_cancelled the only cancelled epoch that a frame may still carry.
Knows(l, t) == /\ l.active => l.epoch \notin cleared[t]
               /\ tag[t].epoch \in cleared[t] => WasCancelled(l, tag[t].epoch)
LatchKnows == \A t \in Tag : \A i \in 1..LatchN :
                 HoldsSlot(t, i) => Knows(table[i].latch, t)

FloodIInv == /\ FloodType
             /\ QueuedIsCurrent
             /\ ClearedIsPast
             /\ OneSlot
             /\ MemoryIsSlot
             /\ LatchKnows

-----------------------------------------------------------------------------
\* A set of numbers that is not empty has a least.
LEMMA MinIsLeast ==
  ASSUME NEW S \in SUBSET Nat, S # {}
  PROVE  /\ Min(S) \in S
         /\ \A j \in S : Min(S) <= j
<1> DEFINE R == {ss \in Nat \X Nat : ss[1] < ss[2]}
<1>1. R = OpToRel(<, Nat)
  BY DEF OpToRel
<1>2. IsWellFoundedOn(R, Nat)
  BY <1>1, NatLessThanWellFounded
<1>3. PICK i \in S : \A j \in S : <<j, i>> \notin R
  BY <1>2, WFMin
<1>4. ASSUME NEW j \in S PROVE i <= j
  <2>1. i \in Nat /\ j \in Nat /\ ~(j < i)
    BY <1>3
  <2> QED
    BY <2>1
<1> QED
  BY <1>4 DEF Min

\* latch_find_or_alloc() always finds a place, the tag's own when it has one.
LEMMA PlaceFound ==
  ASSUME TableType, NEW t \in Tag
  PROVE  /\ FindOrAlloc(t) \in 1..LatchN
         /\ SlotOf(t) # {} => FindOrAlloc(t) \in SlotOf(t)
<1> DEFINE free == {i \in 1..LatchN : table[i] = Free}
           oldest == {i \in 1..LatchN : \A j \in 1..LatchN :
                                          table[i].heard <= table[j].heard}
           pick == IF SlotOf(t) # {} THEN Min(SlotOf(t))
                   ELSE IF free # {} THEN Min(free) ELSE Min(oldest)
<1>1. LatchN \in Nat \ {0}
  BY FloodAssumption
<1>2. SlotOf(t) \in SUBSET Nat /\ SlotOf(t) \subseteq 1..LatchN
  BY <1>1 DEF SlotOf
<1>3. free \in SUBSET Nat /\ oldest \in SUBSET Nat
  BY <1>1
<1>4. ASSUME free = {} PROVE oldest # {}
  <2> DEFINE heards == {table[i].heard : i \in 1..LatchN}
  <2>1. \A i \in 1..LatchN : table[i] \in Slot
    BY <1>4 DEF TableType
  <2>2. \A i \in 1..LatchN : table[i].heard \in Nat
    BY <2>1 DEF Slot
  <2>3. 1 \in 1..LatchN
    BY <1>1
  <2>4. heards \in SUBSET Nat /\ heards # {}
    BY <2>2, <2>3
  <2>5. Min(heards) \in heards /\ \A h \in heards : Min(heards) <= h
    BY <2>4, MinIsLeast
  <2>6. PICK i \in 1..LatchN : table[i].heard = Min(heards)
    BY <2>5
  <2>7. i \in oldest
    BY <2>5, <2>6
  <2> QED
    BY <2>7
<1>5. pick = FindOrAlloc(t)
  BY DEF FindOrAlloc
<1>6. CASE SlotOf(t) # {}
  <2>1. Min(SlotOf(t)) \in SlotOf(t)
    BY <1>2, <1>6, MinIsLeast
  <2>2. pick \in SlotOf(t)
    BY <1>6, <2>1
  <2> QED
    BY <1>2, <1>5, <2>2
<1>7. CASE SlotOf(t) = {} /\ free # {}
  <2>1. Min(free) \in free
    BY <1>3, <1>7, MinIsLeast
  <2>2. pick \in free
    BY <1>7, <2>1
  <2> QED
    BY <1>5, <1>7, <2>2
<1>8. CASE SlotOf(t) = {} /\ free = {}
  <2>1. Min(oldest) \in oldest
    BY <1>3, <1>4, <1>8, MinIsLeast
  <2>2. pick \in oldest
    BY <1>8, <2>1
  <2> QED
    BY <1>5, <1>8, <2>2
<1> QED
  BY <1>6, <1>7, <1>8

\* A CANCEL lowers the latch and is remembered; a HELP forgets no cancel, and
\* raises for its own epoch and only when that is not the one last cancelled.
LEMMA ApplyFacts ==
  ASSUME NEW l \in LatchEntry, NEW k \in AlertKey
  PROVE  LET m == LatchApply(l, k) IN
         /\ m \in LatchEntry
         /\ ~k.help => /\ ~m.active
                       /\ WasCancelled(m, k.epoch)
         /\ k.help => /\ \A e : WasCancelled(m, e) <=> WasCancelled(l, e)
                      /\ \/ m = l
                         \/ m.epoch = k.epoch /\ ~WasCancelled(l, k.epoch)
<1>1. k.epoch \in Epoch /\ k.help \in BOOLEAN
  BY DEF AlertKey
<1> DEFINE down == [l EXCEPT !.active = FALSE, !.epoch = k.epoch, !.haveEpoch = TRUE,
                             !.cancelled = k.epoch, !.haveCancelled = TRUE]
           up == [l EXCEPT !.active = TRUE, !.epoch = k.epoch, !.haveEpoch = TRUE]
<1>2. /\ down \in LatchEntry /\ ~down.active
      /\ down.cancelled = k.epoch /\ down.haveCancelled
  BY <1>1 DEF LatchEntry
<1>3. /\ up \in LatchEntry /\ up.epoch = k.epoch
      /\ up.cancelled = l.cancelled /\ up.haveCancelled = l.haveCancelled
  BY <1>1 DEF LatchEntry
<1>4. CASE ~k.help
  <2>1. LatchApply(l, k) = down
    BY <1>4 DEF LatchApply
  <2> QED
    BY <1>2, <1>4, <2>1 DEF WasCancelled
<1>5. CASE k.help /\ Raises(l, k.epoch)
  <2>1. LatchApply(l, k) = up
    BY <1>5 DEF LatchApply
  <2>2. ~WasCancelled(l, k.epoch)
    BY <1>5 DEF Raises
  <2> QED
    BY <1>3, <1>5, <2>1, <2>2 DEF WasCancelled
<1>6. CASE k.help /\ ~Raises(l, k.epoch)
  <2>1. LatchApply(l, k) = l
    BY <1>6 DEF LatchApply
  <2> QED
    BY <1>6, <2>1
<1> QED
  BY <1>4, <1>5, <1>6

-----------------------------------------------------------------------------
\* The gateway takes a key in: the entry it changes is the tag's own from now on.
LEMMA TableStep ==
  ASSUME FloodIInv, NEW k \in AlertKey, table' = Latched(k)
  PROVE  \E i \in 1..LatchN : \E l \in LatchEntry :
           /\ table' \in [1..LatchN -> Slot \cup {Free}]
           /\ \A j \in 1..LatchN : j # i => table'[j] = table[j]
           /\ table'[i] # Free /\ table'[i].orig = k.orig
           /\ table'[i].latch = LatchApply(l, k)
           /\ \A j \in 1..LatchN : HoldsSlot(k.orig, j) => j = i
           /\ Knows(l, k.orig)
<1> DEFINE o == k.orig
           i == FindOrAlloc(o)
           known == table[i] # Free /\ table[i].orig = o
           l == IF known THEN table[i].latch ELSE LatchInit
           heard == IF known /\ k.help /\ Ignores(l, k.epoch)
                    THEN table[i].heard ELSE clock
           new == [orig |-> o, heard |-> heard, latch |-> LatchApply(l, k)]
<1>1. FloodType /\ TableType /\ clock \in Nat
  BY DEF FloodIInv, FloodType
<1>2. o \in Tag
  BY DEF AlertKey
<1>3. i \in 1..LatchN /\ (SlotOf(o) # {} => i \in SlotOf(o))
  BY <1>1, <1>2, PlaceFound
<1>4. LatchInit \in LatchEntry /\ ~LatchInit.active
  <2>1. 0 \in Epoch
    BY EpochAssumption DEF Epoch
  <2> QED
    BY <2>1 DEF LatchInit, LatchEntry
<1>5. ASSUME known
      PROVE  table[i] \in Slot
  BY <1>1, <1>3, <1>5 DEF TableType
<1>6. l \in LatchEntry /\ heard \in Nat
  <2>1. CASE known
    BY <1>1, <1>5, <2>1 DEF Slot
  <2>2. CASE ~known
    BY <1>1, <1>4, <2>2
  <2> QED
    BY <2>1, <2>2
<1>7. new \in Slot
  BY <1>2, <1>6, ApplyFacts DEF Slot
<1>8. table' = [table EXCEPT ![i] = new]
  BY DEF Latched
<1>9. /\ table' \in [1..LatchN -> Slot \cup {Free}]
      /\ \A j \in 1..LatchN : j # i => table'[j] = table[j]
      /\ table'[i] = new
  BY <1>1, <1>3, <1>7, <1>8 DEF TableType
<1>10. new # Free
  BY <1>7, FloodAssumption
<1>11. ASSUME NEW j \in 1..LatchN, HoldsSlot(o, j)
       PROVE  j = i /\ known
  <2>1. i \in SlotOf(o)
    BY <1>3, <1>11 DEF SlotOf, HoldsSlot
  <2>2. known
    BY <2>1 DEF SlotOf
  <2> QED
    BY <1>2, <1>3, <1>11, <2>2 DEF FloodIInv, OneSlot, HoldsSlot
<1>12. Knows(l, o)
  <2>1. CASE known
    BY <1>2, <1>3, <2>1 DEF FloodIInv, LatchKnows, HoldsSlot
  <2>2. CASE ~known
    <3>1. cleared[o] = {}
      BY <1>2, <1>11, <2>2 DEF FloodIInv, MemoryIsSlot
    <3> QED
      BY <3>1 DEF Knows
  <2> QED
    BY <2>1, <2>2
<1> QED
  BY <1>3, <1>6, <1>9, <1>10, <1>11, <1>12

\* What a transmission is heard as leaves the table right, whoever hears it.
\* (The tags' epochs are what they were.)
LEMMA HeardTable ==
  ASSUME FloodIInv, NEW f \in FloodFrame, NEW hearers, NEW pending,
         f.key.epoch = tag[f.key.orig].epoch,
         \A t \in Tag : tag'[t].epoch = tag[t].epoch,
         Heard(f, hearers, pending)
  PROVE  /\ TableType' /\ ClearedType' /\ ClearedIsPast'
         /\ OneSlot' /\ MemoryIsSlot' /\ LatchKnows'
<1> DEFINE k == f.key
           o == f.key.orig
           taken == Gateway \in {n \in hearers : New(n, f.key)}
<1>1. /\ TableType /\ ClearedType /\ ClearedIsPast
      /\ OneSlot /\ MemoryIsSlot /\ LatchKnows
  BY DEF FloodIInv, FloodType
<1>2. k \in AlertKey /\ o \in Tag /\ k.epoch \in 0..MaxEpoch /\ k.help \in BOOLEAN
  <2>1. k \in AlertKey /\ o \in Tag /\ k.help \in BOOLEAN
    BY DEF FloodFrame, AlertKey
  <2>2. tag[o].epoch \in 0..MaxEpoch
    BY <2>1 DEF FloodIInv, FloodType, TagsType
  <2> QED
    BY <2>1, <2>2
<1>3. /\ taken => table' = Latched(k)
      /\ ~taken => table' = table
      /\ cleared' = [t \in Tag |->
                       IF t # o /\ t \in Evicted(table') THEN {}
                       ELSE IF taken /\ t = o /\ ~k.help
                       THEN cleared[t] \cup {k.epoch} ELSE cleared[t]]
  BY DEF Heard
<1>4. \A t \in Tag : t # o => cleared'[t] \subseteq cleared[t]
  BY <1>3
<1>5. /\ cleared'[o] = IF taken /\ ~k.help THEN cleared[o] \cup {k.epoch}
                       ELSE cleared[o]
  BY <1>2, <1>3
<1>6. ClearedType'
  BY <1>1, <1>2, <1>3 DEF ClearedType
<1>7. ClearedIsPast'
  <2> SUFFICES ASSUME NEW t \in Tag, NEW e \in cleared'[t]
               PROVE  e <= tag'[t].epoch
    BY DEF ClearedIsPast
  <2>1. tag'[t].epoch = tag[t].epoch
    OBVIOUS
  <2>2. CASE e \in cleared[t]
    BY <1>1, <2>1, <2>2 DEF ClearedIsPast
  <2>3. CASE e \notin cleared[t]
    <3>1. t = o
      BY <1>4, <2>3
    <3>2. cleared'[t] \subseteq cleared[t] \cup {k.epoch}
      BY <1>5, <3>1
    <3>3. e = k.epoch /\ e = tag[t].epoch
      BY <2>3, <3>1, <3>2
    <3>4. e \in Nat
      BY <1>2, <3>3
    <3> QED
      BY <2>1, <3>3, <3>4
  <2> QED
    BY <2>2, <2>3
<1>8. ASSUME NEW t \in Tag, t # o, cleared'[t] # {}
      PROVE  \E j \in 1..LatchN : table'[j] # Free /\ table'[j].orig = t
  <2>1. cleared[t] # {}
    BY <1>4, <1>8
  <2>2. SlotOf(t) # {}
    BY <1>1, <2>1 DEF MemoryIsSlot, SlotOf, HoldsSlot
  <2>3. t \notin Evicted(table')
    BY <1>3, <1>8
  <2> QED
    BY <2>2, <2>3 DEF Evicted
<1>9. CASE ~taken
  <2>1. table' = table /\ cleared'[o] = cleared[o]
    BY <1>3, <1>5, <1>9
  <2>2. \A t \in Tag : cleared'[t] \subseteq cleared[t]
    BY <1>4, <2>1
  <2>3. TableType' /\ OneSlot'
    BY <1>1, <2>1 DEF TableType, OneSlot, HoldsSlot
  <2>4. MemoryIsSlot'
    BY <1>1, <2>1, <2>2, <1>8 DEF MemoryIsSlot, HoldsSlot
  <2>5. LatchKnows'
    <3> SUFFICES ASSUME NEW t \in Tag, NEW j \in 1..LatchN, HoldsSlot(t, j)'
                 PROVE  Knows(table[j].latch, t)'
      BY DEF LatchKnows
    <3>1. Knows(table[j].latch, t)
      BY <1>1, <2>1 DEF LatchKnows, HoldsSlot
    <3> QED
      BY <2>1, <2>2, <3>1 DEF Knows, WasCancelled
  <2> QED
    BY <1>6, <1>7, <2>3, <2>4, <2>5
<1>10. CASE taken
  <2>1. PICK i \in 1..LatchN, l \in LatchEntry :
           /\ table' \in [1..LatchN -> Slot \cup {Free}]
           /\ \A j \in 1..LatchN : j # i => table'[j] = table[j]
           /\ table'[i] # Free /\ table'[i].orig = k.orig
           /\ table'[i].latch = LatchApply(l, k)
           /\ \A j \in 1..LatchN : HoldsSlot(k.orig, j) => j = i
           /\ Knows(l, k.orig)
    BY <1>2, <1>3, <1>10, TableStep
  <2>2. TableType'
    BY <2>1 DEF TableType
  <2>3. ASSUME NEW t \in Tag, NEW j \in 1..LatchN, HoldsSlot(t, j)'
        PROVE  IF t = o THEN j = i ELSE j # i /\ HoldsSlot(t, j)
    BY <2>1, <2>3 DEF HoldsSlot
  <2>4. OneSlot'
    <3> SUFFICES ASSUME NEW t \in Tag, NEW j1 \in 1..LatchN, NEW j2 \in 1..LatchN,
                        HoldsSlot(t, j1)', HoldsSlot(t, j2)'
                 PROVE  j1 = j2
      BY DEF OneSlot
    <3> QED
      BY <1>1, <2>3 DEF OneSlot
  <2>5. MemoryIsSlot'
    BY <1>8, <2>1 DEF MemoryIsSlot, HoldsSlot
  <2>6. LatchKnows'
    <3> SUFFICES ASSUME NEW t \in Tag, NEW j \in 1..LatchN, HoldsSlot(t, j)'
                 PROVE  Knows(table[j].latch, t)'
      BY DEF LatchKnows
    <3>1. tag'[t].epoch = tag[t].epoch
      OBVIOUS
    <3>2. CASE t # o
      <4>1. Knows(table[j].latch, t) /\ table'[j] = table[j]
        BY <1>1, <2>1, <2>3, <3>2 DEF LatchKnows
      <4> QED
        BY <1>4, <3>1, <3>2, <4>1 DEF Knows, WasCancelled
    <3>3. CASE t = o
      <4> DEFINE m == LatchApply(l, k)
      <4>1. table'[j].latch = m /\ Knows(l, o)
        BY <2>1, <2>3, <3>3
      <4>2. /\ ~k.help => ~m.active /\ WasCancelled(m, k.epoch)
            /\ k.help => /\ \A e : WasCancelled(m, e) <=> WasCancelled(l, e)
                         /\ \/ m = l
                            \/ m.epoch = k.epoch /\ ~WasCancelled(l, k.epoch)
        BY <1>2, ApplyFacts
      <4>3. k.epoch = tag[o].epoch /\ k.epoch = tag'[o].epoch
        BY <1>2
      <4>4. CASE ~k.help
        <5>1. m.active => m.epoch \notin cleared'[o]
          BY <4>2, <4>4
        <5>2. WasCancelled(m, tag'[o].epoch)
          BY <4>2, <4>3, <4>4
        <5> QED
          BY <3>3, <4>1, <5>1, <5>2 DEF Knows, WasCancelled
      <4>5. CASE k.help
        <5>1. cleared'[o] = cleared[o]
          BY <1>5, <4>5
        <5>2. m.active => m.epoch \notin cleared[o]
          BY <4>1, <4>2, <4>3, <4>5 DEF Knows
        <5>3. tag[o].epoch \in cleared[o] => WasCancelled(m, tag[o].epoch)
          BY <4>1, <4>2, <4>5 DEF Knows
        <5> QED
          BY <3>3, <4>1, <4>3, <5>1, <5>2, <5>3 DEF Knows, WasCancelled
      <4> QED
        BY <1>2, <4>4, <4>5
    <3> QED
      BY <3>2, <3>3
  <2> QED
    BY <1>6, <1>7, <2>2, <2>4, <2>5, <2>6
<1> QED
  BY <1>9, <1>10

\* What is relayed of a frame is of the same raise.
LEMMA HeardQueue ==
  ASSUME FloodIInv, NEW f \in FloodFrame, NEW hearers, NEW pending,
         f.key.epoch = tag[f.key.orig].epoch,
         \A t \in Tag : tag'[t].epoch = tag[t].epoch,
         \A a \in Anchor : pending[a] \subseteq queue[a],
         Heard(f, hearers, pending)
  PROVE  queue' \in [Anchor -> SUBSET FloodFrame] /\ QueuedIsCurrent'
<1> DEFINE relays == {n \in {n \in hearers : New(n, f.key)} : ShouldRelay(f, n)}
<1>1. queue' = [a \in Anchor |->
                  IF a \in relays THEN pending[a] \cup {PrepareRelay(f, a)}
                  ELSE pending[a]]
  BY DEF Heard
<1>2. queue \in [Anchor -> SUBSET FloodFrame] /\ QueuedIsCurrent
  BY DEF FloodIInv, FloodType
<1>3. ASSUME NEW a \in Anchor, a \in relays
      PROVE  PrepareRelay(f, a) \in FloodFrame /\ PrepareRelay(f, a).key = f.key
  <2>1. Hop[a] \in Nat
    BY FloodAssumption
  <2>2. f.ttl \in Nat /\ f.ttl > 0
    BY <1>3 DEF FloodFrame, ShouldRelay
  <2>3. f.ttl - 1 \in Nat
    BY <2>2
  <2> QED
    BY <2>1, <2>3 DEF PrepareRelay, FloodFrame
<1>4. ASSUME NEW a \in Anchor, NEW g \in queue'[a]
      PROVE  g \in FloodFrame /\ g.key.epoch = tag'[g.key.orig].epoch
  <2>1. \/ g \in pending[a]
        \/ a \in relays /\ g = PrepareRelay(f, a)
    BY <1>1
  <2>2. CASE g \in pending[a]
    <3>1. g \in queue[a] /\ g \in FloodFrame
      BY <1>2, <2>2
    <3>2. g.key.orig \in Tag
      BY <3>1 DEF FloodFrame, AlertKey
    <3> QED
      BY <1>2, <3>1, <3>2 DEF QueuedIsCurrent
  <2>3. CASE a \in relays /\ g = PrepareRelay(f, a)
    <3>1. g \in FloodFrame /\ g.key = f.key
      BY <1>3, <2>3
    <3>2. f.key.orig \in Tag
      BY DEF FloodFrame, AlertKey
    <3> QED
      BY <3>1, <3>2
  <2> QED
    BY <2>1, <2>2, <2>3
<1> QED
  BY <1>1, <1>4 DEF QueuedIsCurrent

-----------------------------------------------------------------------------
LEMMA FloodInitial == FloodInit => FloodIInv
<1> SUFFICES ASSUME FloodInit PROVE FloodIInv
  OBVIOUS
<1>1. 0 \in 0..MaxEpoch
  BY EpochAssumption, FloodAssumption DEF Epoch
<1>2. \A i \in 1..LatchN : \A t \in Tag : ~HoldsSlot(t, i)
  BY DEF FloodInit, HoldsSlot
<1>3. \A t \in Tag : cleared[t] = {}
  BY DEF FloodInit
<1>4. FloodType
  <2>1. TagsType
    BY <1>1 DEF FloodInit, TagsType
  <2>2. TableType /\ ClearedType
    BY DEF FloodInit, TableType, ClearedType
  <2> QED
    BY <2>1, <2>2 DEF FloodInit, FloodType
<1> QED
  BY <1>2, <1>3, <1>4 DEF FloodInit, FloodIInv, QueuedIsCurrent, ClearedIsPast,
     OneSlot, MemoryIsSlot, LatchKnows

\* Nothing of the air changes and no tag raises.
LEMMA SameRaises ==
  ASSUME FloodIInv, TagsType', clock' \in Nat,
         UNCHANGED <<queue, table, cleared>>,
         \A t \in Tag : tag'[t].epoch = tag[t].epoch
  PROVE  FloodIInv'
<1>1. FloodType'
  BY DEF FloodIInv, FloodType, TableType, ClearedType
<1>2. QueuedIsCurrent'
  <2> SUFFICES ASSUME NEW a \in Anchor, NEW f \in queue[a]
               PROVE  f.key.epoch = tag'[f.key.orig].epoch
    BY DEF QueuedIsCurrent
  <2>1. f.key.orig \in Tag
    BY DEF FloodIInv, FloodType, FloodFrame, AlertKey
  <2> QED
    BY <2>1 DEF FloodIInv, QueuedIsCurrent
<1>3. ClearedIsPast' /\ OneSlot' /\ MemoryIsSlot'
  BY DEF FloodIInv, ClearedIsPast, OneSlot, MemoryIsSlot, HoldsSlot
<1>4. LatchKnows'
  BY DEF FloodIInv, LatchKnows, HoldsSlot, Knows, WasCancelled
<1> QED
  BY <1>1, <1>2, <1>3, <1>4 DEF FloodIInv

LEMMA RaiseKeeps ==
  ASSUME FloodIInv, NEW t \in Tag, Raise(t)
  PROVE  FloodIInv'
<1>1. /\ tag[t].epoch < MaxEpoch /\ ~InFlight(t)
      /\ tag' = [tag EXCEPT ![t] = [state |-> "HELP", epoch |-> @.epoch + 1,
                                    seq |-> 0, due |-> TRUE]]
      /\ UNCHANGED <<clock, queue, table, cleared>>
  BY DEF Raise, AirUnchanged, ghosts
<1>2. FloodType /\ TagsType /\ ClearedType /\ MaxEpoch \in Nat
  BY EpochAssumption, FloodAssumption DEF FloodIInv, FloodType, Epoch
<1>3. tag[t].epoch \in 0..MaxEpoch /\ tag[t].epoch + 1 \in 0..MaxEpoch
  <2>1. tag[t].epoch \in 0..MaxEpoch
    BY <1>2 DEF TagsType
  <2> QED
    BY <1>1, <1>2, <2>1
<1>4. /\ TagsType'
      /\ tag'[t].epoch = tag[t].epoch + 1
      /\ \A s \in Tag : s # t => tag'[s] = tag[s]
  BY <1>1, <1>2, <1>3 DEF TagsType
<1>5. FloodType'
  BY <1>1, <1>2, <1>4 DEF FloodType, TableType, ClearedType
<1>6. QueuedIsCurrent'
  <2> SUFFICES ASSUME NEW a \in Anchor, NEW f \in queue[a]
               PROVE  f.key.epoch = tag'[f.key.orig].epoch
    BY <1>1 DEF QueuedIsCurrent
  <2>1. f.key.orig \in Tag
    BY <1>2 DEF FloodType, FloodFrame, AlertKey
  <2>2. f.key.orig # t
    BY <1>1 DEF InFlight
  <2> QED
    BY <1>4, <2>1, <2>2 DEF FloodIInv, QueuedIsCurrent
<1>7. \A e \in cleared[t] : e < tag'[t].epoch
  <2> SUFFICES ASSUME NEW e \in cleared[t] PROVE e < tag'[t].epoch
    OBVIOUS
  <2>1. e <= tag[t].epoch
    BY DEF FloodIInv, ClearedIsPast
  <2>2. e \in Nat /\ tag[t].epoch \in Nat
    BY <1>2, <1>3 DEF ClearedType
  <2> QED
    BY <1>4, <2>1, <2>2
<1>8. \A e \in cleared[t] : e <= tag'[t].epoch /\ e # tag'[t].epoch
  <2>1. \A e \in cleared[t] : e \in Nat
    BY <1>2 DEF ClearedType
  <2>2. tag'[t].epoch \in Nat
    BY <1>3, <1>4
  <2> QED
    BY <1>7, <2>1, <2>2
<1>9. ClearedIsPast' /\ OneSlot' /\ MemoryIsSlot'
  BY <1>1, <1>4, <1>8 DEF FloodIInv, ClearedIsPast, OneSlot, MemoryIsSlot, HoldsSlot
<1>10. LatchKnows'
  <2> SUFFICES ASSUME NEW s \in Tag, NEW i \in 1..LatchN, HoldsSlot(s, i)'
               PROVE  Knows(table[i].latch, s)'
    BY DEF LatchKnows
  <2>1. Knows(table[i].latch, s)
    BY <1>1 DEF FloodIInv, LatchKnows, HoldsSlot
  <2>2. CASE s = t
    BY <1>1, <1>8, <2>1, <2>2 DEF Knows
  <2>3. CASE s # t
    BY <1>1, <1>4, <2>1, <2>3 DEF Knows, WasCancelled
  <2> QED
    BY <2>2, <2>3
<1> QED
  BY <1>5, <1>6, <1>9, <1>10 DEF FloodIInv

LEMMA HeardKeeps ==
  ASSUME FloodIInv, NEW f \in FloodFrame, NEW hearers, NEW pending,
         f.key.epoch = tag[f.key.orig].epoch,
         TagsType', clock' \in Nat,
         \A t \in Tag : tag'[t].epoch = tag[t].epoch,
         \A a \in Anchor : pending[a] \subseteq queue[a],
         Heard(f, hearers, pending)
  PROVE  FloodIInv'
<1>1. /\ TableType' /\ ClearedType' /\ ClearedIsPast'
      /\ OneSlot' /\ MemoryIsSlot' /\ LatchKnows'
  BY HeardTable
<1>2. queue' \in [Anchor -> SUBSET FloodFrame] /\ QueuedIsCurrent'
  BY HeardQueue
<1> QED
  BY <1>1, <1>2 DEF FloodIInv, FloodType

\* A tag numbers its frames modulo SeqMod.
LEMMA NextSeq == ASSUME NEW q \in Nat PROVE (q + 1) % SeqMod \in Nat
<1>1. SeqMod \in Nat \ {0}
  BY FloodAssumption
<1> QED
  BY <1>1

LEMMA SendKeeps ==
  ASSUME FloodIInv, NEW t \in Tag, NEW hearers, Send(t, hearers)
  PROVE  FloodIInv'
<1> DEFINE k == FrameKey(t)
           f == [key |-> k, hop |-> UnknownHop, ttl |-> Ttl]
<1>1. TagsType /\ clock \in Nat /\ clock' = clock
  BY DEF FloodIInv, FloodType, Send
<1>2. tag[t] \in [state : {"OFF", "HELP", "CANCELLING"}, epoch : 0..MaxEpoch,
                  seq : Nat, due : BOOLEAN]
  BY <1>1 DEF TagsType
<1>3. k \in AlertKey /\ k.orig = t /\ k.epoch = tag[t].epoch
  <2>1. 0..MaxEpoch \subseteq Epoch
    BY EpochAssumption, FloodAssumption DEF Epoch
  <2> QED
    BY <1>2, <2>1 DEF FrameKey, AlertKey
<1>4. f \in FloodFrame /\ f.key = k
  BY <1>3, FloodAssumption DEF FloodFrame
<1>5. /\ Heard(f, hearers, queue)
      /\ tag' = [tag EXCEPT ![t].seq = (@ + 1) % SeqMod, ![t].due = FALSE,
                            ![t].state = IF @ = "HELP" THEN @ ELSE "OFF"]
  BY DEF Send
<1>6. (tag[t].seq + 1) % SeqMod \in Nat
  BY <1>2, NextSeq
<1>7. TagsType' /\ \A s \in Tag : tag'[s].epoch = tag[s].epoch
  BY <1>1, <1>2, <1>5, <1>6 DEF TagsType
<1> QED
  BY <1>1, <1>3, <1>4, <1>5, <1>7, HeardKeeps

LEMMA RelayKeeps ==
  ASSUME FloodIInv, NEW a \in Anchor, NEW f \in queue[a], NEW hearers,
         Relay(a, f, hearers)
  PROVE  FloodIInv'
<1> DEFINE pending == [queue EXCEPT ![a] = @ \ {f}]
<1>1. /\ TagsType /\ clock \in Nat
      /\ queue \in [Anchor -> SUBSET FloodFrame] /\ QueuedIsCurrent
  BY DEF FloodIInv, FloodType
<1>2. UNCHANGED <<clock, tag>> /\ Heard(f, hearers, pending)
  BY DEF Relay
<1>3. f \in FloodFrame /\ f.key.epoch = tag[f.key.orig].epoch
  BY <1>1 DEF QueuedIsCurrent
<1>4. \A b \in Anchor : pending[b] \subseteq queue[b]
  BY <1>1
<1>5. TagsType' /\ \A s \in Tag : tag'[s].epoch = tag[s].epoch
  BY <1>1, <1>2 DEF TagsType
<1> HIDE DEF pending
<1> QED
  BY <1>1, <1>2, <1>3, <1>4, <1>5, HeardKeeps

LEMMA FloodSteps == FloodIInv /\ [FloodNext]_floodVars => FloodIInv'
<1> SUFFICES ASSUME FloodIInv, [FloodNext]_floodVars PROVE FloodIInv'
  OBVIOUS
<1>1. TagsType /\ clock \in Nat
  BY DEF FloodIInv, FloodType
<1>2. CASE UNCHANGED floodVars
  BY <1>1, <1>2, SameRaises DEF floodVars, ghosts, TagsType
<1>3. ASSUME NEW t \in Tag, Raise(t) PROVE FloodIInv'
  BY <1>3, RaiseKeeps
<1>4. ASSUME NEW t \in Tag, Cancel(t) \/ Reboot(t) PROVE FloodIInv'
  <2>1. /\ UNCHANGED <<clock, queue, table, cleared>>
        /\ \/ tag' = [tag EXCEPT ![t].state = "CANCELLING", ![t].seq = 0,
                                 ![t].due = TRUE]
           \/ tag' = [tag EXCEPT ![t].state = "HELP", ![t].seq = 0, ![t].due = TRUE]
    BY <1>4 DEF Cancel, Reboot, AirUnchanged, ghosts
  <2>2. TagsType' /\ \A s \in Tag : tag'[s].epoch = tag[s].epoch
    BY <1>1, <2>1 DEF TagsType
  <2> QED
    BY <1>1, <2>1, <2>2, SameRaises
<1>5. ASSUME NEW t \in Tag, NEW hearers, Send(t, hearers) PROVE FloodIInv'
  BY <1>5, SendKeeps
<1>6. ASSUME NEW a \in Anchor, NEW f \in queue[a], NEW hearers, Relay(a, f, hearers)
      PROVE  FloodIInv'
  BY <1>6, RelayKeeps
<1>7. CASE Tick
  <2>1. /\ clock' = (clock + 1) % ClockMod
        /\ tag' = [t \in Tag |-> [tag[t] EXCEPT !.due = tag[t].state # "OFF"]]
        /\ UNCHANGED <<queue, table, cleared>>
    BY <1>7 DEF Tick
  <2>2. clock' \in Nat
    <3>1. ClockMod \in Nat \ {0} /\ clock + 1 \in Nat
      BY <1>1, FloodAssumption
    <3> QED
      BY <2>1, <3>1
  <2>3. TagsType' /\ \A s \in Tag : tag'[s].epoch = tag[s].epoch
    BY <1>1, <2>1 DEF TagsType
  <2> QED
    BY <2>1, <2>2, <2>3, SameRaises
<1> QED
  BY <1>2, <1>3, <1>4, <1>5, <1>6, <1>7 DEF FloodNext, TagNext, RelayNext

\* No stale HELP raises the gateway's alarm for a raise whose CANCEL it has seen,
\* as long as its table keeps the tag's entry: for any number of tags, anchors and
\* slots, whoever hears whom, with frames lost, repeated and out of order
\* (alert_latch_apply and latch_find_or_alloc of src/src/alert_relay.c).
THEOREM NoStaleAlarm == FloodSpec => NoGhostAlarm
<1>1. FloodIInv' =>
        [\A i \in 1..LatchN :
           /\ table'[i] # Free /\ table'[i].latch.active
           /\ table'[i] # table[i]
           => table'[i].latch.epoch \notin cleared'[table'[i].orig]]_floodVars
  <2> SUFFICES ASSUME FloodIInv', NEW i \in 1..LatchN,
                      table'[i] # Free, table'[i].latch.active
               PROVE  table'[i].latch.epoch \notin cleared'[table'[i].orig]
    OBVIOUS
  <2>1. table'[i].orig \in Tag
    BY DEF FloodIInv, FloodType, TableType, Slot
  <2> QED
    BY <2>1 DEF FloodIInv, LatchKnows, HoldsSlot, Knows
<1> QED
  BY <1>1, FloodInitial, FloodSteps, PTL DEF FloodSpec, NoGhostAlarm

-----------------------------------------------------------------------------
(***************************************************************************)
(* The duplicate caches                                                    *)
(***************************************************************************)

CacheType == cache \in [Node -> [1..DedupN -> DedupEntry \cup {Free}]]

\* No entry is there twice.
OneEach == \A n \in Node : \A i, j \in 1..DedupN :
              cache[n][i] # Free /\ cache[n][i] = cache[n][j] => i = j

Fresh(n, k) ==
    \E i \in 1..DedupN : /\ cache[n][i] # Free
                         /\ cache[n][i] = [key |-> k, seen |-> clock]

\* Nothing in the cache looks older than this tick.
Tight(n) == \A i \in 1..DedupN : cache[n][i] # Free /\ Age(cache[n][i]) <= 0

\* What an anchor has relayed or is about to relay, of the floods of this tick, it
\* remembers, unless a full cache had nothing older to give up.
Abroad(a) == relayed[a] \cup {f.key : f \in queue[a]}
Remembered == \A a \in Anchor : \A k \in Abroad(a) :
                 k \in keys /\ (Fresh(a, k) \/ Tight(a))

CacheIInv == /\ clock \in 0..(ClockMod - 1)
             /\ CacheType
             /\ IsFiniteSet(keys)
             /\ OneEach
             /\ Remembered

-----------------------------------------------------------------------------
\* A difference of two readings of a clock that wraps.
LEMMA ClockDifference ==
  ASSUME NEW M \in Nat \ {0}, NEW a \in 0..(M - 1), NEW b \in 0..(M - 1)
  PROVE  (a - b) % M = IF a >= b THEN a - b ELSE a - b + M
OBVIOUS

\* An age is negative or a number of ticks, and nought for what was seen now.
LEMMA AgeFacts ==
  ASSUME clock \in 0..(ClockMod - 1), NEW e \in DedupEntry
  PROVE  /\ Age(e) \in Int
         /\ Age(e) = 0 <=> e.seen = clock
<1>1. ClockMod \in Nat \ {0} /\ e.seen \in 0..(ClockMod - 1)
  BY FloodAssumption DEF DedupEntry
<1> DEFINE d == (clock - e.seen) % ClockMod
<1>2. d = IF clock >= e.seen THEN clock - e.seen ELSE clock - e.seen + ClockMod
  BY <1>1, ClockDifference
<1>3. d \in 0..(ClockMod - 1) /\ (d = 0 <=> e.seen = clock)
  BY <1>1, <1>2
<1>4. Age(e) = IF 2 * d < ClockMod THEN d ELSE d - ClockMod
  BY DEF Age
<1> HIDE DEF d
<1> QED
  BY <1>1, <1>3, <1>4

\* The entry that makes room is one of the cache's; if that one is of this tick,
\* no other looks older.
LEMMA VictimFacts ==
  ASSUME clock \in 0..(ClockMod - 1), CacheType, NEW n \in Node
  PROVE  LET v == Victim(cache[n]) IN
         /\ v \in 1..DedupN
         /\ cache[n][v] # Free /\ Age(cache[n][v]) = 0 => Tight(n)
<1> DEFINE c == cache[n]
           open == {i \in 1..DedupN : c[i] = Free \/ AgedOut(c[i])}
           aged == {i \in 1..DedupN : Age(c[i]) >= 0}
           oldest == {i \in aged : \A j \in aged : Age(c[j]) <= Age(c[i])}
           pick == IF open # {} THEN Min(open)
                   ELSE IF aged # {} THEN Min(oldest) ELSE 1
<1>1. Victim(c) = pick
  BY DEF Victim
<1>2. DedupN \in Nat \ {0} /\ DedupAge \in Nat \ {0}
  BY FloodAssumption
<1>3. c \in [1..DedupN -> DedupEntry \cup {Free}]
  BY DEF CacheType
<1>4. open \in SUBSET Nat /\ oldest \in SUBSET Nat /\ 1 \in 1..DedupN
  BY <1>2
<1>5. CASE open # {}
  <2>1. Min(open) \in open
    BY <1>4, <1>5, MinIsLeast
  <2>2. pick \in open
    BY <1>5, <2>1
  <2>3. c[pick] # Free => Age(c[pick]) >= DedupAge
    BY <2>2 DEF AgedOut
  <2>4. ~(c[pick] # Free /\ Age(c[pick]) = 0)
    <3>1. ~(0 >= DedupAge)
      BY <1>2
    <3> QED BY <2>3, <3>1, Zenon
  <2> QED
    BY <1>1, <2>2, <2>4
<1>6. CASE open = {}
  <2>1. \A i \in 1..DedupN : c[i] # Free /\ c[i] \in DedupEntry /\ ~AgedOut(c[i])
    BY <1>3, <1>6
  <2>2. \A i \in 1..DedupN : Age(c[i]) \in Int /\ Age(c[i]) < DedupAge
    <3> SUFFICES ASSUME NEW i \in 1..DedupN
                 PROVE  Age(c[i]) \in Int /\ Age(c[i]) < DedupAge
      OBVIOUS
    <3>1. Age(c[i]) \in Int
      BY <2>1, AgeFacts
    <3>2. ~(Age(c[i]) >= DedupAge)
      BY <2>1 DEF AgedOut
    <3> QED
      BY <1>2, <3>1, <3>2
  <2>3. CASE aged = {}
    <3>1. \A i \in 1..DedupN : Age(c[i]) <= 0
      BY <2>2, <2>3
    <3>2. pick = 1
      BY <1>6, <2>3
    <3> QED
      BY <1>1, <1>4, <2>1, <3>1, <3>2 DEF Tight
  <2>4. CASE aged # {}
    <3> DEFINE spare == {DedupAge - Age(c[i]) : i \in aged}
    <3>1. spare \in SUBSET Nat /\ spare # {}
      BY <1>2, <2>2, <2>4
    <3>2. Min(spare) \in spare /\ \A s \in spare : Min(spare) <= s
      BY <3>1, MinIsLeast
    <3>3. PICK i \in aged : Min(spare) = DedupAge - Age(c[i])
      BY <3>2
    <3>4. \A j \in aged : DedupAge - Age(c[i]) <= DedupAge - Age(c[j])
      BY <3>2, <3>3
    <3>5. i \in oldest
      BY <1>2, <2>2, <3>4
    <3>6. Min(oldest) \in oldest
      BY <1>4, <3>5, MinIsLeast
    <3>7. pick \in oldest
      BY <1>6, <2>4, <3>6
    <3>8. ASSUME Age(c[pick]) = 0, NEW j \in 1..DedupN
          PROVE  Age(c[j]) <= 0
      <4>1. j \in aged => Age(c[j]) <= Age(c[pick])
        BY <3>7
      <4>2. j \notin aged => ~(Age(c[j]) >= 0)
        OBVIOUS
      <4> QED
        BY <2>2, <3>8, <4>1, <4>2
    <3> QED
      BY <1>1, <2>1, <3>7, <3>8 DEF Tight
  <2> QED
    BY <2>3, <2>4
<1> QED
  BY <1>5, <1>6

\* A full cache that has lost a key of this tick, and has nothing in it that looks
\* younger than it is, has heard of more keys than it can hold.
LEMMA CacheFull ==
  ASSUME CacheIInv, NEW n \in Node, Tight(n), ~WrappedSlot(n),
         NEW K, IsFiniteSet(K), keys \subseteq K,
         NEW k \in K, ~Fresh(n, k)
  PROVE  Cardinality(K) > DedupN
<1> DEFINE held == [i \in 1..DedupN |-> cache[n][i].key]
<1>1. DedupN \in Nat
  BY FloodAssumption
<1>2. \A i \in 1..DedupN : cache[n][i] # Free /\ cache[n][i] \in DedupEntry
  BY DEF CacheIInv, CacheType, Tight
<1>3. ASSUME NEW i \in 1..DedupN
      PROVE  /\ cache[n][i] = [key |-> held[i], seen |-> clock]
             /\ held[i] \in keys
  <2>1. cache[n][i] \in DedupEntry /\ clock \in 0..(ClockMod - 1)
    BY <1>2 DEF CacheIInv
  <2>2. Age(cache[n][i]) \in Int /\ Age(cache[n][i]) <= 0
    BY <2>1, AgeFacts DEF Tight
  <2>3. ~(Age(cache[n][i]) < 0)
    BY <1>2 DEF WrappedSlot
  <2>4. Age(cache[n][i]) = 0
    BY <2>2, <2>3
  <2>5. cache[n][i].seen = clock
    BY <2>1, <2>4, AgeFacts
  <2>6. cache[n][i].key \in keys
    BY <1>2, <2>4 DEF WrappedSlot
  <2> QED
    BY <2>1, <2>5, <2>6 DEF DedupEntry
<1>4. \A i \in 1..DedupN : held[i] \in K \ {k}
  BY <1>2, <1>3 DEF Fresh
<1>5. \A i, j \in 1..DedupN : held[i] = held[j] => i = j
  <2> SUFFICES ASSUME NEW i \in 1..DedupN, NEW j \in 1..DedupN, held[i] = held[j]
               PROVE  i = j
    OBVIOUS
  <2> HIDE DEF held
  <2>1. cache[n][i] = cache[n][j]
    BY <1>3
  <2> QED
    BY <1>2, <2>1 DEF CacheIInv, OneEach
<1>6. held \in Injection(1..DedupN, K \ {k})
  <2>1. held \in [1..DedupN -> K \ {k}]
    BY <1>4
  <2> HIDE DEF held
  <2> QED
    BY <1>5, <2>1 DEF Injection, IsInjective
<1>7. /\ IsFiniteSet(K \ {k}) /\ Cardinality(K \ {k}) = Cardinality(K) - 1
      /\ Cardinality(K) \in Nat
  BY FS_RemoveElement, FS_CardinalityType
<1>8. Cardinality(1..DedupN) <= Cardinality(K \ {k})
  BY <1>6, <1>7, FS_Injection
<1>9. Cardinality(1..DedupN) = DedupN
  <2>1. Cardinality(1..DedupN) = IF 1 > DedupN THEN 0 ELSE DedupN - 1 + 1
    BY <1>1, FS_Interval
  <2> QED
    BY <1>1, <2>1
<1> QED
  BY <1>1, <1>7, <1>8, <1>9

\* A frame that goes through the caches: it is of this tick, and so is all that an
\* anchor has relayed or has yet to.
HeardIn(f, hearers, pending) ==
    /\ f \in FloodFrame /\ f.key \in keys'
    /\ clock' = clock /\ IsFiniteSet(keys') /\ keys \subseteq keys'
    /\ \A a \in Anchor : pending[a] \subseteq queue[a] /\ relayed'[a] \subseteq Abroad(a)
    /\ Heard(f, hearers, pending)

\* What a node hears for the first time it remembers; what it remembered before it
\* has pushed out only when nothing looked older.
LEMMA AdmitKeeps ==
  ASSUME CacheIInv, NEW n \in Node, NEW k \in AlertKey, ~Duplicate(cache[n], k),
         clock' = clock, cache'[n] = Admitted(cache[n], k)
  PROVE  /\ cache'[n] \in [1..DedupN -> DedupEntry \cup {Free}]
         /\ \A i, j \in 1..DedupN :
               cache'[n][i] # Free /\ cache'[n][i] = cache'[n][j] => i = j
         /\ Fresh(n, k)'
         /\ Tight(n) => Tight(n)'
         /\ \A q : Fresh(n, q) => Fresh(n, q)' \/ Tight(n)'
<1> DEFINE c == cache[n]
           v == Victim(c)
           new == [key |-> k, seen |-> clock]
<1>1. /\ clock \in 0..(ClockMod - 1) /\ CacheType
      /\ c \in [1..DedupN -> DedupEntry \cup {Free}]
  BY DEF CacheIInv, CacheType
<1>2. new \in DedupEntry /\ new # Free
  BY <1>1, FloodAssumption DEF DedupEntry
<1>3. Age(new) = 0
  BY <1>1, <1>2, AgeFacts
<1>4. v \in 1..DedupN /\ (c[v] # Free /\ Age(c[v]) = 0 => Tight(n))
  BY <1>1, VictimFacts
<1> HIDE DEF v
<1>5. cache'[n] = [c EXCEPT ![v] = new]
  BY DEF Admitted, v
<1>6. /\ cache'[n] \in [1..DedupN -> DedupEntry \cup {Free}]
      /\ cache'[n][v] = new
      /\ \A i \in 1..DedupN : i # v => cache'[n][i] = c[i]
  BY <1>1, <1>2, <1>4, <1>5
<1>7. \A i \in 1..DedupN : c[i] # new
  <2> SUFFICES ASSUME NEW i \in 1..DedupN, c[i] = new PROVE FALSE
    OBVIOUS
  <2>1. c[i] # Free /\ c[i].key = k /\ Age(c[i]) = 0
    BY <1>2, <1>3
  <2>2. DedupAge \in Nat \ {0}
    BY FloodAssumption
  <2>3. ~AgedOut(c[i])
    BY <2>1, <2>2 DEF AgedOut
  <2> QED
    BY <2>1, <2>3 DEF Duplicate
<1>8. \A i, j \in 1..DedupN : c[i] # Free /\ c[i] = c[j] => i = j
  BY DEF CacheIInv, OneEach
<1>9. \A i, j \in 1..DedupN :
         cache'[n][i] # Free /\ cache'[n][i] = cache'[n][j] => i = j
  <2> SUFFICES ASSUME NEW i \in 1..DedupN, NEW j \in 1..DedupN,
                      cache'[n][i] # Free, cache'[n][i] = cache'[n][j]
               PROVE  i = j
    OBVIOUS
  <2> HIDE DEF new
  <2>1. CASE i = v \/ j = v
    BY <1>6, <1>7, <2>1
  <2>2. CASE i # v /\ j # v
    BY <1>6, <1>8, <2>2
  <2> QED
    BY <2>1, <2>2
<1>10. Fresh(n, k)'
  BY <1>2, <1>4, <1>6 DEF Fresh
<1>11. Tight(n) => Tight(n)'
  <2> SUFFICES ASSUME Tight(n), NEW i \in 1..DedupN
               PROVE  cache'[n][i] # Free /\ Age(cache[n][i])' <= 0
    BY DEF Tight
  <2>1. Age(cache[n][i])' = Age(cache'[n][i])
    BY DEF Age
  <2>2. CASE i = v
    <3>1. cache'[n][i] = new
      BY <1>6, <2>2
    <3> QED
      BY <1>2, <1>3, <2>1, <3>1
  <2>3. CASE i # v
    <3>1. cache'[n][i] = c[i]
      BY <1>6, <2>3
    <3> QED
      BY <2>1, <3>1 DEF Tight
  <2> QED
    BY <2>2, <2>3
<1>12. ASSUME NEW q, Fresh(n, q)
       PROVE  Fresh(n, q)' \/ Tight(n)'
  <2>1. PICK i \in 1..DedupN : c[i] # Free /\ c[i] = [key |-> q, seen |-> clock]
    BY <1>12 DEF Fresh
  <2>2. CASE i # v
    BY <1>6, <2>1, <2>2 DEF Fresh
  <2>3. CASE i = v
    <3>1. c[v] \in DedupEntry /\ c[v].seen = clock
      <4>1. c[v] \in DedupEntry \cup {Free} /\ c[v] # Free
        BY <1>1, <1>4, <2>1, <2>3
      <4>2. c[v].seen = clock
        BY <2>1, <2>3
      <4> QED
        BY <4>1, <4>2
    <3>2. Age(c[v]) = 0 /\ c[v] # Free
      BY <1>1, <2>1, <2>3, <3>1, AgeFacts
    <3> QED
      BY <1>4, <1>11, <3>2
  <2> QED
    BY <2>2, <2>3
<1> QED
  BY <1>6, <1>9, <1>10, <1>11, <1>12

LEMMA HeardRemembers ==
  ASSUME CacheIInv, NEW f, NEW hearers, NEW pending, HeardIn(f, hearers, pending)
  PROVE  CacheIInv'
<1> DEFINE k == f.key
           first == {n \in hearers : New(n, k)}
<1>1. /\ k \in AlertKey /\ k \in keys' /\ clock' = clock
      /\ IsFiniteSet(keys') /\ keys \subseteq keys'
  BY DEF HeardIn, FloodFrame
<1>2. /\ clock \in 0..(ClockMod - 1) /\ CacheType /\ OneEach /\ Remembered
  BY DEF CacheIInv
<1>3. cache' = [n \in Node |-> IF n \in first THEN Admitted(cache[n], k)
                              ELSE cache[n]]
  BY DEF HeardIn, Heard
<1> HIDE DEF first
<1>4. ASSUME NEW n \in Node, n \in first
      PROVE  /\ cache'[n] \in [1..DedupN -> DedupEntry \cup {Free}]
             /\ \A i, j \in 1..DedupN :
                   cache'[n][i] # Free /\ cache'[n][i] = cache'[n][j] => i = j
             /\ Fresh(n, k)'
             /\ Tight(n) => Tight(n)'
             /\ \A q : Fresh(n, q) => Fresh(n, q)' \/ Tight(n)'
  <2>1. ~Duplicate(cache[n], k)
    BY <1>4 DEF first, New
  <2>2. cache'[n] = Admitted(cache[n], k)
    BY <1>3, <1>4
  <2> QED
    BY <1>1, <2>1, <2>2, AdmitKeeps
<1>5. ASSUME NEW n \in Node, n \notin first
      PROVE  cache'[n] = cache[n]
  BY <1>3, <1>5
<1>6. CacheType' /\ OneEach'
  <2>1. \A n \in Node : cache'[n] \in [1..DedupN -> DedupEntry \cup {Free}]
    BY <1>2, <1>4, <1>5 DEF CacheType
  <2>2. \A n \in Node : \A i, j \in 1..DedupN :
          cache'[n][i] # Free /\ cache'[n][i] = cache'[n][j] => i = j
    BY <1>2, <1>4, <1>5 DEF OneEach
  <2> QED
    BY <1>3, <2>1, <2>2 DEF CacheType, OneEach
<1>7. ASSUME NEW a \in Anchor, NEW q \in Abroad(a)'
      PROVE  q \in Abroad(a) \/ (a \in first /\ q = k)
  <2>1. /\ pending[a] \subseteq queue[a] /\ relayed'[a] \subseteq Abroad(a)
        /\ f \in FloodFrame
    BY DEF HeardIn
  <2>2. CASE q \in relayed'[a]
    BY <2>1, <2>2
  <2>3. CASE q \notin relayed'[a]
    <3>1. PICK g \in queue'[a] : q = g.key
      BY <1>7, <2>3 DEF Abroad
    <3>2. CASE g \in pending[a]
      BY <2>1, <3>1, <3>2 DEF Abroad
    <3>3. CASE g \notin pending[a]
      <4>1. a \in first /\ g = PrepareRelay(f, a)
        BY <3>1, <3>3 DEF HeardIn, Heard, first
      <4>2. g.key = k
        BY <2>1, <4>1 DEF PrepareRelay, FloodFrame
      <4> QED
        BY <3>1, <4>1, <4>2
    <3> QED
      BY <3>2, <3>3
  <2> QED
    BY <2>2, <2>3
<1>8. Remembered'
  <2> SUFFICES ASSUME NEW a \in Anchor, NEW q \in Abroad(a)'
               PROVE  q \in keys' /\ (Fresh(a, q)' \/ Tight(a)')
    BY DEF Remembered
  <2>1. a \in Node
    BY DEF Node
  <2>2. CASE a \in first /\ q = k
    BY <1>1, <1>4, <2>1, <2>2
  <2>3. CASE q \in Abroad(a)
    <3>1. q \in keys' /\ (Fresh(a, q) \/ Tight(a))
      BY <1>1, <1>2, <2>3 DEF Remembered
    <3>2. CASE a \in first
      BY <1>4, <2>1, <3>1, <3>2
    <3>3. CASE a \notin first
      <4>1. cache'[a] = cache[a]
        BY <1>5, <2>1, <3>3
      <4>2. Fresh(a, q) => Fresh(a, q)'
        BY <1>1, <4>1 DEF Fresh
      <4>3. Tight(a) => Tight(a)'
        BY <1>1, <4>1 DEF Tight, Age
      <4> QED
        BY <3>1, <4>2, <4>3
    <3> QED
      BY <3>2, <3>3
  <2> QED
    BY <1>7, <2>2, <2>3
<1> QED
  BY <1>1, <1>2, <1>6, <1>8 DEF CacheIInv

\* What an anchor that has relayed an alert puts into its queue again it had lost,
\* and so its cache is as RelayedOnce excepts.
LEMMA HeardOnce ==
  ASSUME CacheIInv, NEW f, NEW hearers, NEW pending, HeardIn(f, hearers, pending),
         NEW a \in Anchor, NEW g \in queue'[a] \ queue[a], g.key \in relayed'[a]
  PROVE  Cardinality(keys') > DedupN \/ WrappedSlot(a)
<1>1. /\ f \in FloodFrame /\ f.key \in keys' /\ IsFiniteSet(keys') /\ keys \subseteq keys'
      /\ pending[a] \subseteq queue[a] /\ relayed'[a] \subseteq Abroad(a)
  BY DEF HeardIn
<1>2. New(a, f.key) /\ g = PrepareRelay(f, a)
  <2>1. g \notin pending[a]
    BY <1>1
  <2> QED
    BY <2>1 DEF HeardIn, Heard
<1>3. g.key = f.key
  BY <1>1, <1>2 DEF PrepareRelay, FloodFrame
<1>4. Fresh(a, f.key) \/ Tight(a)
  BY <1>1, <1>3 DEF CacheIInv, Remembered
<1>5. ~Fresh(a, f.key)
  <2> SUFFICES ASSUME Fresh(a, f.key) PROVE FALSE
    OBVIOUS
  <2>1. a \in Node /\ clock \in 0..(ClockMod - 1)
    BY DEF CacheIInv, Node
  <2>2. PICK i \in 1..DedupN : /\ cache[a][i] # Free
                               /\ cache[a][i] = [key |-> f.key, seen |-> clock]
    BY DEF Fresh
  <2>3. cache[a][i] \in DedupEntry
    BY <2>1, <2>2 DEF CacheIInv, CacheType
  <2>4. cache[a][i].key = f.key /\ cache[a][i].seen = clock
    BY <2>2
  <2>5. Age(cache[a][i]) = 0
    BY <2>1, <2>3, <2>4, AgeFacts
  <2>6. ~AgedOut(cache[a][i])
    <3>1. DedupAge \in Nat \ {0}
      BY FloodAssumption
    <3> QED
      BY <2>5, <3>1 DEF AgedOut
  <2> QED
    BY <1>2, <2>2, <2>4, <2>6 DEF New, Duplicate
<1>6. Tight(a) /\ a \in Node
  BY <1>4, <1>5 DEF Node
<1> QED
  BY <1>1, <1>5, <1>6, CacheFull

LEMMA SendHeard ==
  ASSUME FloodIInv, CacheIInv, NEW t \in Tag, NEW hearers, Send(t, hearers)
  PROVE  HeardIn([key |-> FrameKey(t), hop |-> UnknownHop, ttl |-> Ttl],
                 hearers, queue)
<1> DEFINE k == FrameKey(t)
           f == [key |-> k, hop |-> UnknownHop, ttl |-> Ttl]
<1>1. tag[t] \in [state : {"OFF", "HELP", "CANCELLING"}, epoch : 0..MaxEpoch,
                  seq : Nat, due : BOOLEAN]
  BY DEF FloodIInv, FloodType, TagsType
<1>2. k \in AlertKey
  <2>1. 0..MaxEpoch \subseteq Epoch
    BY EpochAssumption, FloodAssumption DEF Epoch
  <2> QED
    BY <1>1, <2>1 DEF FrameKey, AlertKey
<1>3. f \in FloodFrame /\ f.key = k
  BY <1>2, FloodAssumption DEF FloodFrame
<1>4. /\ Heard(f, hearers, queue)
      /\ keys' = keys \cup {k} /\ UNCHANGED <<clock, relayed>>
  BY DEF Send
<1>5. IsFiniteSet(keys')
  BY <1>4, FS_AddElement DEF CacheIInv
<1>6. \A a \in Anchor : relayed'[a] \subseteq Abroad(a)
  BY <1>4 DEF Abroad
<1> HIDE DEF f
<1>7. HeardIn(f, hearers, queue)
  BY <1>3, <1>4, <1>5, <1>6 DEF HeardIn
<1> QED
  BY <1>7 DEF f

LEMMA RelayHeard ==
  ASSUME FloodIInv, CacheIInv, NEW a \in Anchor, NEW f \in queue[a], NEW hearers,
         Relay(a, f, hearers)
  PROVE  HeardIn(f, hearers, [queue EXCEPT ![a] = @ \ {f}])
<1> DEFINE pending == [queue EXCEPT ![a] = @ \ {f}]
<1>1. queue \in [Anchor -> SUBSET FloodFrame]
  BY DEF FloodIInv, FloodType
<1>2. /\ Heard(f, hearers, pending) /\ UNCHANGED <<clock, keys>>
      /\ relayed' = [relayed EXCEPT ![a] = @ \cup {f.key}]
  BY DEF Relay
<1>3. f.key \in Abroad(a)
  BY DEF Abroad
<1>4. f.key \in keys
  BY <1>3 DEF CacheIInv, Remembered
<1>5. \A b \in Anchor : pending[b] \subseteq queue[b]
  BY <1>1
<1>6. ASSUME NEW b \in Anchor PROVE relayed'[b] \subseteq Abroad(b)
  <2>1. relayed'[b] \subseteq relayed[b] \cup (IF b = a THEN {f.key} ELSE {})
    BY <1>2
  <2> QED
    BY <1>3, <2>1 DEF Abroad
<1>7. f \in FloodFrame /\ IsFiniteSet(keys)
  BY <1>1 DEF CacheIInv
<1> HIDE DEF pending
<1>8. HeardIn(f, hearers, pending)
  BY <1>2, <1>4, <1>5, <1>6, <1>7 DEF HeardIn
<1> QED
  BY <1>8 DEF pending

LEMMA CacheInitial == FloodInit => CacheIInv
<1> SUFFICES ASSUME FloodInit PROVE CacheIInv
  OBVIOUS
<1>1. clock \in 0..(ClockMod - 1)
  BY FloodAssumption DEF FloodInit
<1>2. CacheType /\ OneEach
  BY DEF FloodInit, CacheType, OneEach
<1>3. IsFiniteSet(keys)
  BY FS_EmptySet DEF FloodInit
<1>4. Remembered
  BY DEF FloodInit, Remembered, Abroad
<1> QED
  BY <1>1, <1>2, <1>3, <1>4 DEF CacheIInv

\* The air stands still.
LEMMA SameCaches ==
  ASSUME CacheIInv, UNCHANGED <<clock, cache, queue, keys, relayed>>
  PROVE  CacheIInv'
<1>1. CacheType' /\ OneEach'
  BY DEF CacheIInv, CacheType, OneEach
<1>2. Remembered'
  BY DEF CacheIInv, Remembered, Abroad, Fresh, Tight, Age
<1> QED
  BY <1>1, <1>2 DEF CacheIInv

LEMMA CacheSteps == FloodIInv /\ CacheIInv /\ [FloodNext]_floodVars => CacheIInv'
<1> SUFFICES ASSUME FloodIInv, CacheIInv, [FloodNext]_floodVars PROVE CacheIInv'
  OBVIOUS
<1>1. CASE UNCHANGED floodVars
  BY <1>1, SameCaches DEF floodVars, ghosts
<1>2. ASSUME NEW t \in Tag, Raise(t) \/ Cancel(t) \/ Reboot(t) PROVE CacheIInv'
  BY <1>2, SameCaches DEF Raise, Cancel, Reboot, AirUnchanged, ghosts
<1>3. ASSUME NEW t \in Tag, NEW hearers, Send(t, hearers) PROVE CacheIInv'
  BY <1>3, SendHeard, HeardRemembers
<1>4. ASSUME NEW a \in Anchor, NEW f \in queue[a], NEW hearers, Relay(a, f, hearers)
      PROVE  CacheIInv'
  BY <1>4, RelayHeard, HeardRemembers
<1>5. CASE Tick
  <2>1. /\ \A a \in Anchor : queue'[a] = {} /\ relayed'[a] = {}
        /\ clock' = (clock + 1) % ClockMod /\ keys' = {} /\ cache' = cache
    BY <1>5 DEF Tick
  <2>2. clock' \in 0..(ClockMod - 1)
    <3>1. ClockMod \in Nat \ {0} /\ clock + 1 \in Nat
      BY FloodAssumption DEF CacheIInv
    <3> QED
      BY <2>1, <3>1
  <2>3. CacheType' /\ OneEach'
    BY <2>1 DEF CacheIInv, CacheType, OneEach
  <2>4. IsFiniteSet(keys')
    BY <2>1, FS_EmptySet
  <2>5. Remembered'
    BY <2>1 DEF Remembered, Abroad
  <2> QED
    BY <2>2, <2>3, <2>4, <2>5 DEF CacheIInv
<1> QED
  BY <1>1, <1>2, <1>3, <1>4, <1>5 DEF FloodNext, TagNext, RelayNext

RelaysOnce == \A a \in Anchor : \A f \in queue'[a] \ queue[a] :
                 \/ f.key \notin relayed'[a]
                 \/ Cardinality(keys') > DedupN
                 \/ WrappedSlot(a)

LEMMA OnceStep == FloodIInv /\ CacheIInv /\ [FloodNext]_floodVars
                     => [RelaysOnce]_floodVars
<1> SUFFICES ASSUME FloodIInv, CacheIInv, FloodNext,
                    NEW a \in Anchor, NEW g \in queue'[a] \ queue[a],
                    g.key \in relayed'[a]
             PROVE  Cardinality(keys') > DedupN \/ WrappedSlot(a)
  BY DEF RelaysOnce
<1>1. ASSUME NEW t \in Tag, Raise(t) \/ Cancel(t) \/ Reboot(t) PROVE FALSE
  BY <1>1 DEF Raise, Cancel, Reboot, AirUnchanged
<1>2. ASSUME NEW t \in Tag, NEW hearers, Send(t, hearers)
      PROVE  Cardinality(keys') > DedupN \/ WrappedSlot(a)
  BY <1>2, SendHeard, HeardOnce
<1>3. ASSUME NEW b \in Anchor, NEW f \in queue[b], NEW hearers, Relay(b, f, hearers)
      PROVE  Cardinality(keys') > DedupN \/ WrappedSlot(a)
  BY <1>3, RelayHeard, HeardOnce
<1>4. CASE Tick
  BY <1>4 DEF Tick
<1> QED
  BY <1>1, <1>2, <1>3, <1>4 DEF FloodNext, TagNext, RelayNext

\* An anchor relays an alert once, however many copies of it come and in whatever
\* order, as long as its cache can hold the alerts of the moment and no entry of it
\* has outlived the clock: for every size of the cache, every network and every
\* length of the clock (alert_dedup_admit of src/src/alert_relay.c).
THEOREM CopiesRelayedOnce == FloodSpec => RelayedOnce
<1>1. [RelaysOnce]_floodVars <=>
        [\A a \in Anchor : \A f \in queue'[a] \ queue[a] :
           \/ f.key \notin relayed'[a]
           \/ Cardinality(keys') > DedupN
           \/ WrappedSlot(a)]_floodVars
  BY DEF RelaysOnce
<1> QED
  BY <1>1, FloodInitial, FloodSteps, CacheInitial, CacheSteps, OnceStep, PTL
     DEF FloodSpec, RelayedOnce
=============================================================================
