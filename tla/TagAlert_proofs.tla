---------------------------- MODULE TagAlert_proofs ----------------------------
(***************************************************************************)
(* The safety properties of TagAlert hold of every behaviour, for every    *)
(* epoch width.  An epoch counter that wraps has no order of its own; the  *)
(* proof orders the epochs by how many raises after StartEpoch they were   *)
(* made (Dist), and that order agrees with the code's signed comparison as *)
(* long as fewer than half the epochs are in use.                          *)
(***************************************************************************)
EXTENDS TagAlert, TagUi, TLAPS

\* How many raises after StartEpoch an epoch is made.
Dist(e) == (e - StartEpoch) % EpochMod

\* The last repeat of a CANCEL ends it, so the count never falls below zero.
RepeatsLeft == core.state = "CANCELLING" => core.left >= 1

\* The record has the epoch, and is active from the raise to the last CANCEL.
RecordFits == /\ nvs.epoch = core.epoch
              /\ nvs.active <=> core.state # "OFF"

\* Only the epochs of the raises are in use.
RaisesBounded == Dist(core.epoch) <= MaxRaises

\* Nothing on its way to the gateway is later than the tag.
FramesBehind == \A f \in air \cup {frame} : Dist(f.epoch) <= Dist(core.epoch)

\* Nor is anything the gateway remembers.
LatchBehind ==
    /\ latch.active => latch.haveEpoch
    /\ latch.haveEpoch => Dist(latch.epoch) <= Dist(core.epoch)
    /\ latch.haveCancelled => Dist(latch.cancelled) <= Dist(core.epoch)

\* What was cancelled is not later than the latch, and if it is the latch's own
\* epoch, it is the one that the latch remembers as cancelled.
ClearedBehind ==
    \A c \in cleared :
        /\ latch.haveEpoch
        /\ Dist(c) <= Dist(latch.epoch)
        /\ c = latch.epoch => WasCancelled(latch, c)

IInv == /\ TypeOK
        /\ RepeatsLeft
        /\ RecordFits
        /\ RaisesBounded
        /\ FramesBehind
        /\ LatchBehind
        /\ ClearedBehind

-----------------------------------------------------------------------------
(* The epochs as a circle                                                  *)

\* A difference of two epochs modulo EpochMod wraps at most once.
LEMMA ModOfDifference ==
  ASSUME NEW a \in Epoch, NEW b \in Epoch
  PROVE  (a - b) % EpochMod = IF a >= b THEN a - b ELSE a - b + EpochMod
BY EpochAssumption DEF Epoch

\* The next epoch wraps at the end.
LEMMA ModOfSuccessor ==
  ASSUME NEW a \in Epoch
  PROVE  (a + 1) % EpochMod = IF a + 1 = EpochMod THEN 0 ELSE a + 1
BY EpochAssumption DEF Epoch

\* A distance is less than the width.
LEMMA DistType == \A e \in Epoch : Dist(e) \in Epoch
BY ModOfDifference, EpochAssumption, AlertAssumption DEF Dist, Epoch

\* Every epoch has a distance of its own.
LEMMA DistInjective ==
  ASSUME NEW a \in Epoch, NEW b \in Epoch, Dist(a) = Dist(b)
  PROVE  a = b
<1>1. StartEpoch \in Epoch BY AlertAssumption
<1>2. /\ Dist(a) = IF a >= StartEpoch THEN a - StartEpoch
                   ELSE a - StartEpoch + EpochMod
      /\ Dist(b) = IF b >= StartEpoch THEN b - StartEpoch
                   ELSE b - StartEpoch + EpochMod
  BY <1>1, ModOfDifference DEF Dist
<1>3. a \in Int /\ b \in Int /\ StartEpoch \in Int /\ EpochMod \in Int
      /\ 0 <= a /\ a < EpochMod /\ 0 <= b /\ b < EpochMod
  BY <1>1, EpochAssumption DEF Epoch
<1>4. (IF a >= StartEpoch THEN a - StartEpoch ELSE a - StartEpoch + EpochMod)
        = (IF b >= StartEpoch THEN b - StartEpoch ELSE b - StartEpoch + EpochMod)
  BY <1>2
<1>5. QED BY <1>1, <1>3, <1>4 DEF Epoch

\* Among the epochs in use the code's signed comparison is the order of raising.
LEMMA NewerIsLater ==
  ASSUME NEW a \in Epoch, NEW b \in Epoch,
         Dist(a) <= MaxRaises, Dist(b) <= MaxRaises
  PROVE  Newer(a, b) <=> Dist(a) > Dist(b)
<1>1. StartEpoch \in Epoch /\ MaxRaises \in Nat /\ 2 * MaxRaises < EpochMod
  BY AlertAssumption
<1>2. /\ Dist(a) = IF a >= StartEpoch THEN a - StartEpoch
                   ELSE a - StartEpoch + EpochMod
      /\ Dist(b) = IF b >= StartEpoch THEN b - StartEpoch
                   ELSE b - StartEpoch + EpochMod
  BY <1>1, ModOfDifference DEF Dist
<1>3. (a - b) % EpochMod = IF Dist(a) >= Dist(b) THEN Dist(a) - Dist(b)
                           ELSE Dist(a) - Dist(b) + EpochMod
  BY <1>1, <1>2, ModOfDifference, EpochAssumption DEF Epoch
<1>4. Dist(a) \in Epoch /\ Dist(b) \in Epoch BY DistType
<1>5. (EpochMod - 1) \div 2 >= MaxRaises /\ 2 * ((EpochMod - 1) \div 2) < EpochMod
      /\ (EpochMod - 1) \div 2 \in Nat
  BY <1>1, EpochAssumption
<1>6. QED BY <1>1, <1>3, <1>4, <1>5, EpochAssumption DEF Newer, Epoch

\* A raise makes the next epoch of the order.
LEMMA RaiseIsNext ==
  ASSUME NEW e \in Epoch, Dist(e) < MaxRaises
  PROVE  (e + 1) % EpochMod \in Epoch /\ Dist((e + 1) % EpochMod) = Dist(e) + 1
<1>1. StartEpoch \in Epoch /\ MaxRaises \in Nat /\ 2 * MaxRaises < EpochMod
  BY AlertAssumption
<1>2. (e + 1) % EpochMod \in Epoch
  BY ModOfSuccessor, EpochAssumption DEF Epoch
<1>3. QED
  BY <1>1, <1>2, ModOfSuccessor, ModOfDifference, EpochAssumption DEF Dist, Epoch

-----------------------------------------------------------------------------
(* The invariant                                                           *)

LEMMA DistOfStart == Dist(StartEpoch) = 0
BY ModOfDifference, AlertAssumption, EpochAssumption DEF Dist, Epoch

LEMMA InitIInv == Init => IInv
<1> SUFFICES ASSUME Init PROVE IInv
  OBVIOUS
<1>1. /\ StartEpoch \in Epoch /\ 0 \in Epoch /\ 0 \in 0..CancelRepeats
      /\ MaxRaises \in Nat
  BY AlertAssumption, EpochAssumption DEF Epoch
<1>2. TypeOK
  BY <1>1 DEF Init, TypeOK, CoreInit, Core, HelpFrame, AlertFrame, LatchInit,
              LatchEntry
<1>3. RepeatsLeft /\ RecordFits BY DEF Init, CoreInit, RepeatsLeft, RecordFits
<1>4. RaisesBounded /\ FramesBehind
  BY <1>1, DistOfStart
     DEF Init, CoreInit, RaisesBounded, FramesBehind, HelpFrame
<1>5. LatchBehind /\ ClearedBehind
  BY DEF Init, LatchInit, LatchBehind, ClearedBehind
<1>6. QED BY <1>2, <1>3, <1>4, <1>5 DEF IInv

\* A new epoch is one later than everything that is about.
LEMMA RaiseStep == ASSUME IInv, Raise PROVE IInv'
<1> USE DEF IInv
<1>1. core.epoch \in Epoch BY DEF TypeOK, Core
<1>2. /\ Dist(core.epoch) < MaxRaises
      /\ core' = [core EXCEPT !.state = "HELP", !.due = TRUE,
                              !.epoch = (core.epoch + 1) % EpochMod]
      /\ nvs' = Record(core')
      /\ UNCHANGED <<runner, frame, air, latch, cleared>>
  BY DEF Raise, RaisedSoFar, Dist
<1>3. /\ core'.state = "HELP" /\ core'.left = core.left
      /\ core'.epoch = (core.epoch + 1) % EpochMod
      /\ core' \in Core
  BY <1>1, <1>2, RaiseIsNext DEF TypeOK, Core
<1>4. core'.epoch \in Epoch /\ Dist(core'.epoch) = Dist(core.epoch) + 1
  BY <1>1, <1>2, <1>3, RaiseIsNext
<1>5. nvs' = [epoch |-> core'.epoch, active |-> TRUE]
  BY <1>2, <1>3 DEF Record
<1>6. TypeOK'
  <2>1. nvs' \in [epoch : Epoch, active : BOOLEAN] BY <1>4, <1>5
  <2>2. QED BY <1>2, <1>3, <2>1 DEF TypeOK
<1>7. RepeatsLeft' /\ RecordFits' BY <1>3, <1>5 DEF RepeatsLeft, RecordFits
<1>8. Dist(core.epoch) \in Nat /\ MaxRaises \in Nat
  BY <1>1, DistType, AlertAssumption, EpochAssumption DEF Epoch
<1>9. RaisesBounded' BY <1>2, <1>4, <1>8 DEF RaisesBounded
<1>10. FramesBehind'
  <2> SUFFICES ASSUME NEW f \in air \cup {frame}
               PROVE  Dist(f.epoch) <= Dist(core'.epoch)
    BY <1>2 DEF FramesBehind
  <2>1. f.epoch \in Epoch BY DEF TypeOK, AlertFrame
  <2>2. Dist(f.epoch) \in Nat BY <2>1, DistType, EpochAssumption DEF Epoch
  <2>3. Dist(f.epoch) <= Dist(core.epoch) BY DEF FramesBehind
  <2>4. QED BY <1>4, <1>8, <2>2, <2>3
<1>11. LatchBehind'
  <2>1. latch.epoch \in Epoch /\ latch.cancelled \in Epoch
    BY DEF TypeOK, LatchEntry
  <2>2. Dist(latch.epoch) \in Nat /\ Dist(latch.cancelled) \in Nat
    BY <2>1, DistType, EpochAssumption DEF Epoch
  <2>3. QED BY <1>2, <1>4, <1>8, <2>2 DEF LatchBehind
<1>12. ClearedBehind' BY <1>2 DEF ClearedBehind, WasCancelled
<1>13. QED BY <1>6, <1>7, <1>9, <1>10, <1>11, <1>12

\* The steps that leave epoch, air and latch alone.
LEMMA TagStep ==
  ASSUME IInv, Cancel \/ RepeatDue \/ Choose \/ Sent \/ Reboot
  PROVE  IInv'
<1> USE DEF IInv
<1>1. CancelRepeats \in Nat /\ CancelRepeats >= 1 /\ StartEpoch \in Epoch
  BY AlertAssumption
<1>2. /\ core'.epoch = core.epoch /\ core' \in Core
      /\ RepeatsLeft' /\ RecordFits'
      /\ nvs' \in [epoch : Epoch, active : BOOLEAN]
      /\ runner' \in {"listening", "chosen", "built", "sent"}
  <2> USE <1>1 DEF TypeOK, Core, RepeatsLeft, RecordFits
  <2>1. CASE Cancel
    <3>1. /\ core.state = "HELP" /\ UNCHANGED <<nvs, runner>>
          /\ core' = [core EXCEPT !.state = "CANCELLING", !.due = TRUE,
                                  !.left = CancelRepeats]
      BY <2>1 DEF Cancel
    <3>2. CancelRepeats \in 0..CancelRepeats BY <1>1
    <3>3. /\ core'.state = "CANCELLING" /\ core'.left = CancelRepeats
          /\ core'.epoch = core.epoch /\ core' \in Core
      BY <3>1, <3>2
    <3>4. nvs.active BY <3>1
    <3>5. QED BY <1>1, <3>1, <3>3, <3>4
  <2>2. CASE RepeatDue BY <2>2 DEF RepeatDue
  <2>3. CASE Choose BY <2>3 DEF Choose
  <2>4. CASE Sent
    <3>1. /\ runner' = "listening" /\ core' = AfterSent(core)
          /\ nvs' = IF core.state = "CANCELLING" /\ core'.state = "OFF"
                    THEN Record(core') ELSE nvs
      BY <2>4 DEF Sent
    <3>2. CASE core.state # "CANCELLING"
      <4>1. core' = [core EXCEPT !.due = FALSE] BY <3>1, <3>2 DEF AfterSent
      <4>2. /\ core'.state = core.state /\ core'.epoch = core.epoch
            /\ core' \in Core
        BY <4>1
      <4>3. QED BY <3>1, <3>2, <4>2
    <3>3. CASE core.state = "CANCELLING" /\ core.left = 1
      <4>1. core' = [core EXCEPT !.due = FALSE, !.left = core.left - 1,
                                 !.state = "OFF"]
        BY <3>1, <3>3 DEF AfterSent
      <4>2. /\ core'.state = "OFF" /\ core'.epoch = core.epoch
            /\ core' \in Core
        <5>1. core.left - 1 \in 0..CancelRepeats BY <1>1, <3>3
        <5>2. QED BY <4>1, <5>1
      <4>3. nvs' = [epoch |-> core.epoch, active |-> FALSE]
        BY <3>1, <3>3, <4>2 DEF Record
      <4>4. nvs' \in [epoch : Epoch, active : BOOLEAN]
            /\ nvs'.epoch = core.epoch /\ nvs'.active = FALSE
        BY <4>3
      <4>5. QED BY <3>1, <4>2, <4>4
    <3>4. CASE core.state = "CANCELLING" /\ core.left # 1
      <4>1. core' = [core EXCEPT !.due = FALSE, !.left = core.left - 1,
                                 !.state = core.state]
        BY <3>1, <3>4 DEF AfterSent
      <4>2. core.left \in Int /\ core.left > 1 /\ core.left <= CancelRepeats
        BY <1>1, <3>4
      <4>3. /\ core'.state = "CANCELLING" /\ core'.epoch = core.epoch
            /\ core'.left = core.left - 1 /\ core' \in Core
        <5>1. core.left - 1 \in 0..CancelRepeats BY <1>1, <4>2
        <5>2. QED BY <3>4, <4>1, <5>1
      <4>4. QED BY <3>1, <3>4, <4>2, <4>3
    <3>5. QED BY <3>2, <3>3, <3>4
  <2>5. CASE Reboot
    <3>1. /\ runner' = "listening" /\ nvs' = nvs
          /\ core' = [CoreInit(nvs.epoch) EXCEPT
                        !.due = nvs.active,
                        !.state = IF nvs.active THEN "HELP" ELSE "OFF"]
      BY <2>5 DEF Reboot
    <3>2. core' = [state |-> IF nvs.active THEN "HELP" ELSE "OFF",
                   epoch |-> nvs.epoch, left |-> 0, due |-> nvs.active]
      BY <3>1, Zenon DEF CoreInit
    <3>3. 0 \in 0..CancelRepeats BY <1>1
    <3>4. core' \in Core BY <3>2, <3>3
    <3>5. core'.state = (IF nvs.active THEN "HELP" ELSE "OFF")
          /\ core'.epoch = nvs.epoch
      BY <3>2
    <3>6. RepeatsLeft' /\ RecordFits' BY <3>1, <3>5
    <3>7. QED BY <3>1, <3>4, <3>5, <3>6
  <2>6. QED BY <2>1, <2>2, <2>3, <2>4, <2>5
<1>3. /\ UNCHANGED <<air, latch, cleared>>
      /\ frame' = frame \/ frame' = HelpFrame(StartEpoch)
  BY DEF Cancel, RepeatDue, Choose, Sent, Reboot
<1>4. HelpFrame(StartEpoch) \in AlertFrame
      /\ HelpFrame(StartEpoch).epoch = StartEpoch
  BY <1>1 DEF HelpFrame, AlertFrame
<1>5. TypeOK' BY <1>2, <1>3, <1>4 DEF TypeOK
<1>6. RaisesBounded' /\ LatchBehind' /\ ClearedBehind'
  BY <1>2, <1>3 DEF RaisesBounded, LatchBehind, ClearedBehind, WasCancelled
<1>7. Dist(core.epoch) >= 0
  BY DistType, EpochAssumption DEF TypeOK, Core, Epoch
<1>8. FramesBehind' BY <1>2, <1>3, <1>4, <1>7, DistOfStart DEF FramesBehind
<1>9. QED BY <1>2, <1>5, <1>6, <1>8

\* The frame built is of the state of now, and what is sent is that frame.
LEMMA FrameStep ==
  ASSUME IInv, FrameDue \/ (\E ok \in BOOLEAN : Transmit(ok)) \/ (\E f \in air : Fade(f))
  PROVE  IInv'
<1> USE DEF IInv
<1>1. UNCHANGED <<core, nvs, latch, cleared>>
  BY DEF FrameDue, Transmit, Fade
<1>2. /\ runner' \in {"listening", "chosen", "built", "sent"}
      /\ frame' = frame \/ frame' = [help |-> core.state = "HELP",
                                     epoch |-> core.epoch]
      /\ air' \subseteq air \cup {frame}
  BY DEF FrameDue, Transmit, Fade, TypeOK
<1>3. Dist(core.epoch) <= Dist(core.epoch)
  BY DistType, EpochAssumption DEF TypeOK, Core, Epoch
<1>4. [help |-> core.state = "HELP", epoch |-> core.epoch] \in AlertFrame
  BY DEF TypeOK, Core, AlertFrame
<1>5. TypeOK' BY <1>1, <1>2, <1>4 DEF TypeOK
<1>6. FramesBehind'
  <2> SUFFICES ASSUME NEW f \in air' \cup {frame'}
               PROVE  Dist(f.epoch) <= Dist(core.epoch)
    BY <1>1 DEF FramesBehind
  <2>1. CASE f \in air \cup {frame} BY <2>1 DEF FramesBehind
  <2>2. CASE f = [help |-> core.state = "HELP", epoch |-> core.epoch]
    BY <2>2, <1>3
  <2>3. QED BY <1>2, <2>1, <2>2
<1>7. QED
  BY <1>1, <1>5, <1>6 DEF RepeatsLeft, RecordFits, RaisesBounded, LatchBehind,
                          ClearedBehind, WasCancelled

\* What a frame that may be delivered is to the latch: not earlier than what it
\* holds, and later than that if it raises it.
LEMMA DeliveredInOrder ==
  ASSUME IInv, NEW f \in air, ~Outdated(f)
  PROVE  /\ f.epoch \in Epoch /\ f.help \in BOOLEAN
         /\ Dist(f.epoch) \in Nat /\ Dist(f.epoch) <= Dist(core.epoch)
         /\ latch.haveEpoch =>
              /\ Dist(latch.epoch) \in Nat
              /\ Dist(latch.epoch) <= Dist(f.epoch)
              /\ Raises(latch, f.epoch) => Dist(latch.epoch) < Dist(f.epoch)
<1> USE DEF IInv
<1>1. /\ f.epoch \in Epoch /\ f.help \in BOOLEAN
      /\ latch.epoch \in Epoch /\ core.epoch \in Epoch
  BY DEF TypeOK, AlertFrame, LatchEntry, Core
<1>2. /\ Dist(f.epoch) \in Nat /\ Dist(latch.epoch) \in Nat
      /\ Dist(core.epoch) \in Nat /\ MaxRaises \in Nat
  BY <1>1, DistType, EpochAssumption, AlertAssumption DEF Epoch
<1>3. Dist(f.epoch) <= Dist(core.epoch) /\ Dist(core.epoch) <= MaxRaises
  BY DEF FramesBehind, RaisesBounded
<1>4. ASSUME latch.haveEpoch
      PROVE  /\ Dist(latch.epoch) <= Dist(f.epoch)
             /\ Raises(latch, f.epoch) => Dist(latch.epoch) < Dist(f.epoch)
  <2>1. Dist(latch.epoch) <= Dist(core.epoch) BY <1>4 DEF LatchBehind
  <2>2. Dist(latch.epoch) <= MaxRaises /\ Dist(f.epoch) <= MaxRaises
    BY <1>2, <1>3, <2>1
  <2>3. ~Newer(latch.epoch, f.epoch) BY <1>4 DEF Outdated
  <2>4. ~(Dist(latch.epoch) > Dist(f.epoch))
    BY <1>1, <2>2, <2>3, NewerIsLater
  <2>5. Raises(latch, f.epoch) => Dist(f.epoch) > Dist(latch.epoch)
    BY <1>1, <1>4, <2>2, NewerIsLater DEF Raises
  <2>6. QED BY <1>2, <2>4, <2>5
<1>5. QED BY <1>1, <1>2, <1>3, <1>4

LEMMA DeliverStep ==
  ASSUME IInv, NEW f \in air, Deliver(f)
  PROVE  IInv'
<1> USE DEF IInv
<1>1. /\ ~Outdated(f) /\ latch' = LatchApply(latch, f)
      /\ cleared' = IF f.help THEN cleared ELSE cleared \cup {f.epoch}
      /\ UNCHANGED <<core, nvs, runner, frame, air>>
  BY DEF Deliver
<1>2. /\ f.epoch \in Epoch /\ Dist(f.epoch) \in Nat
      /\ Dist(f.epoch) <= Dist(core.epoch)
      /\ latch.haveEpoch =>
           /\ Dist(latch.epoch) \in Nat
           /\ Dist(latch.epoch) <= Dist(f.epoch)
           /\ Raises(latch, f.epoch) => Dist(latch.epoch) < Dist(f.epoch)
  BY <1>1, DeliveredInOrder
<1>3. \A c \in cleared : c \in Epoch /\ Dist(c) \in Nat
  BY DistType, EpochAssumption DEF TypeOK, Epoch
<1>4. /\ latch' \in LatchEntry /\ cleared' \subseteq Epoch
      /\ LatchBehind' /\ ClearedBehind'
  <2>1. CASE ~f.help
    <3>1. /\ latch' = [latch EXCEPT
                !.active = FALSE, !.epoch = f.epoch, !.haveEpoch = TRUE,
                !.cancelled = f.epoch, !.haveCancelled = TRUE]
          /\ cleared' = cleared \cup {f.epoch}
      BY <1>1, <2>1 DEF LatchApply
    <3>2. latch' \in LatchEntry BY <1>2, <3>1 DEF TypeOK, LatchEntry
    <3>3. /\ ~latch'.active /\ latch'.epoch = f.epoch /\ latch'.haveEpoch
          /\ latch'.cancelled = f.epoch /\ latch'.haveCancelled
      BY <3>1 DEF TypeOK, LatchEntry
    <3>4. LatchBehind' BY <1>1, <1>2, <3>3 DEF LatchBehind
    <3>5. \A c \in cleared' : Dist(c) <= Dist(f.epoch)
      BY <1>2, <1>3, <3>1 DEF ClearedBehind
    <3>6. ClearedBehind' BY <3>3, <3>5 DEF ClearedBehind, WasCancelled
    <3>7. QED BY <1>2, <3>1, <3>2, <3>4, <3>6 DEF TypeOK
  <2>2. CASE f.help /\ Raises(latch, f.epoch)
    <3>1. /\ latch' = [latch EXCEPT !.active = TRUE, !.epoch = f.epoch,
                                    !.haveEpoch = TRUE]
          /\ cleared' = cleared
      BY <1>1, <2>2 DEF LatchApply
    <3>2. latch' \in LatchEntry BY <1>2, <3>1 DEF TypeOK, LatchEntry
    <3>3. /\ latch'.epoch = f.epoch /\ latch'.haveEpoch
          /\ latch'.cancelled = latch.cancelled
          /\ latch'.haveCancelled = latch.haveCancelled
      BY <3>1 DEF TypeOK, LatchEntry
    <3>4. LatchBehind' BY <1>1, <1>2, <3>3 DEF LatchBehind
    <3>5. \A c \in cleared : Dist(c) < Dist(f.epoch)
      BY <1>2, <1>3, <2>2 DEF ClearedBehind
    <3>6. \A c \in cleared : Dist(c) <= Dist(f.epoch) /\ c # f.epoch
      BY <1>2, <1>3, <3>5
    <3>7. ClearedBehind' BY <3>1, <3>3, <3>6 DEF ClearedBehind
    <3>8. QED BY <3>1, <3>2, <3>4, <3>7 DEF TypeOK
  <2>3. CASE f.help /\ ~Raises(latch, f.epoch)
    <3>1. latch' = latch /\ cleared' = cleared
      BY <1>1, <2>3 DEF LatchApply
    <3>2. QED
      BY <1>1, <3>1 DEF TypeOK, LatchBehind, ClearedBehind, WasCancelled
  <2>4. QED BY <2>1, <2>2, <2>3
<1>5. TypeOK' BY <1>1, <1>4 DEF TypeOK
<1>6. RepeatsLeft' /\ RecordFits' /\ RaisesBounded' /\ FramesBehind'
  BY <1>1 DEF RepeatsLeft, RecordFits, RaisesBounded, FramesBehind
<1>7. QED BY <1>4, <1>5, <1>6

LEMMA NextIInv == IInv /\ [Next]_vars => IInv'
<1> SUFFICES ASSUME IInv, [Next]_vars PROVE IInv'
  OBVIOUS
<1>1. CASE Raise BY <1>1, RaiseStep
<1>2. CASE Cancel \/ RepeatDue \/ Choose \/ Sent \/ Reboot
  BY <1>2, TagStep
<1>3. CASE \/ FrameDue \/ \E ok \in BOOLEAN : Transmit(ok)
           \/ \E f \in air : Fade(f)
  BY <1>3, FrameStep
<1>4. CASE \E f \in air : Deliver(f) BY <1>4, DeliverStep
<1>5. CASE UNCHANGED vars
  BY <1>5 DEF vars, IInv, TypeOK, RepeatsLeft, RecordFits, RaisesBounded,
              FramesBehind, LatchBehind, ClearedBehind, WasCancelled
<1>6. QED
  BY <1>1, <1>2, <1>3, <1>4, <1>5 DEF Next, UINext, RunnerNext, AirNext

\* The invariant above holds in every reachable state.
THEOREM Inductive == Spec => []IInv
BY InitIInv, NextIInv, PTL DEF Spec

-----------------------------------------------------------------------------
(* What follows                                                            *)

\* No frame and no latch is ahead of the record in flash, so that no reset of
\* the tag can bring an epoch back (tag_alert.c).
THEOREM RecordLeads == Spec => []EpochSound
<1>1. ASSUME IInv PROVE EpochSound
  <2> USE <1>1 DEF IInv
  <2>1. /\ nvs.epoch = core.epoch /\ core.epoch \in Epoch
        /\ latch.epoch \in Epoch
        /\ \A f \in air \cup {frame} : f.epoch \in Epoch
    BY DEF TypeOK, Core, LatchEntry, AlertFrame, RecordFits
  <2>2. Dist(core.epoch) \in Nat /\ MaxRaises \in Nat
        /\ Dist(core.epoch) <= MaxRaises
    BY <2>1, DistType, EpochAssumption, AlertAssumption
       DEF Epoch, RaisesBounded
  <2>3. ASSUME NEW e \in Epoch, Dist(e) <= Dist(core.epoch)
        PROVE  ~Newer(e, core.epoch)
    <3>1. Dist(e) \in Nat BY DistType, EpochAssumption DEF Epoch
    <3>2. Dist(e) <= MaxRaises BY <2>2, <2>3, <3>1
    <3>3. QED BY <2>1, <2>2, <2>3, <3>1, <3>2, NewerIsLater
  <2>4. EpochOnRecord
    BY <2>1, <2>3 DEF EpochOnRecord, FramesBehind, LatchBehind
  <2>5. QED BY <2>4 DEF EpochSound
<1>2. QED BY <1>1, Inductive, PTL

\* A HELP pressed anew raises the latch of every gateway state that can occur.
THEOREM FreshHelpRaises == Spec => NewHelpIsNews
<1>1. ASSUME IInv, Raise PROVE Raises(latch, core'.epoch)
  <2> USE <1>1 DEF IInv
  <2>1. /\ core.epoch \in Epoch /\ latch.epoch \in Epoch
        /\ latch.cancelled \in Epoch
    BY DEF TypeOK, Core, LatchEntry
  <2>2. /\ Dist(core.epoch) < MaxRaises
        /\ core'.epoch = (core.epoch + 1) % EpochMod
    BY DEF Raise, RaisedSoFar, Dist, TypeOK, Core
  <2>3. core'.epoch \in Epoch /\ Dist(core'.epoch) = Dist(core.epoch) + 1
    BY <2>1, <2>2, RaiseIsNext
  <2>4. /\ Dist(core.epoch) \in Nat /\ Dist(latch.epoch) \in Nat
        /\ Dist(latch.cancelled) \in Nat /\ MaxRaises \in Nat
    BY <2>1, DistType, EpochAssumption, AlertAssumption DEF Epoch
  <2>5. ~WasCancelled(latch, core'.epoch)
    BY <2>3, <2>4 DEF WasCancelled, LatchBehind
  <2>6. ASSUME latch.haveEpoch
        PROVE  Newer(core'.epoch, latch.epoch) /\ core'.epoch # latch.epoch
    <3>1. Dist(latch.epoch) <= Dist(core.epoch) BY <2>6 DEF LatchBehind
    <3>2. /\ Dist(core'.epoch) <= MaxRaises /\ Dist(latch.epoch) <= MaxRaises
          /\ Dist(core'.epoch) > Dist(latch.epoch)
      BY <2>2, <2>3, <2>4, <3>1
    <3>3. QED BY <2>1, <2>3, <2>4, <3>2, NewerIsLater
  <2>7. ~IsRefresh(latch, core'.epoch)
    BY <2>6 DEF IsRefresh, LatchBehind
  <2>8. QED BY <2>5, <2>6, <2>7 DEF Raises
<1>2. IInv /\ [Next]_vars => [Raise => Raises(latch, core'.epoch)]_vars
  BY <1>1
<1>3. QED BY <1>2, Inductive, PTL DEF Spec, NewHelpIsNews

\* A reset resumes what stood, or was not completely cancelled, at its epoch.
THEOREM ResetResumes == Spec => ResetKeepsHelp
<1>1. ASSUME IInv, Reboot
      PROVE  /\ core'.state = "HELP" <=> core.state # "OFF"
             /\ core'.epoch = core.epoch
  <2>1. core'.state = (IF nvs.active THEN "HELP" ELSE "OFF")
        /\ core'.epoch = nvs.epoch
    BY <1>1 DEF Reboot, CoreInit
  <2>2. QED BY <1>1, <2>1 DEF IInv, RecordFits
<1>2. IInv /\ [Next]_vars =>
        [Reboot => /\ core'.state = "HELP" <=> core.state # "OFF"
                   /\ core'.epoch = core.epoch]_vars
  BY <1>1
<1>3. QED BY <1>2, Inductive, PTL DEF Spec, ResetKeepsHelp

\* No late copy of a HELP raises a latch again that its CANCEL has cleared.
THEOREM CancelledStaysDown == Spec => NeverRelatched
<1>1. ASSUME IInv, [Next]_vars, ~latch.active, latch'.active,
             latch'.epoch \in cleared
      PROVE  FALSE
  <2> USE <1>1 DEF IInv
  <2>1. PICK f \in air : Deliver(f)
    BY DEF Next, UINext, RunnerNext, AirNext, vars, Raise, Cancel, RepeatDue,
           Choose, FrameDue, Sent, Transmit, Reboot, Fade
  <2>2. ~Outdated(f) /\ latch' = LatchApply(latch, f) BY <2>1 DEF Deliver
  <2>3. f.help /\ Raises(latch, f.epoch)
    BY <2>2 DEF LatchApply, TypeOK, LatchEntry
  <2>4. latch'.epoch = f.epoch
    BY <2>2, <2>3 DEF LatchApply, TypeOK, LatchEntry
  <2>5. latch.haveEpoch /\ Dist(f.epoch) <= Dist(latch.epoch)
    BY <2>4 DEF ClearedBehind
  <2>6. /\ Dist(f.epoch) \in Nat /\ Dist(latch.epoch) \in Nat
        /\ Dist(latch.epoch) < Dist(f.epoch)
    BY <2>2, <2>3, <2>5, DeliveredInOrder
  <2>7. QED BY <2>5, <2>6
<1>2. IInv /\ [Next]_vars =>
        [~latch.active /\ latch'.active => latch'.epoch \notin cleared]_vars
  BY <1>1
<1>3. QED BY <1>2, Inductive, PTL DEF Spec, NeverRelatched

-----------------------------------------------------------------------------
(***************************************************************************)
(* Where a HELP and a CANCEL come from: TagUi, for every length of its     *)
(* times.  The proof ties the age the thread measures to the time the      *)
(* button was really down, and the colour that hides a HELP to what is     *)
(* left of the slice it is shown for, as long as every edge was taken      *)
(* before the next one came.                                               *)
(***************************************************************************)

\* A button that is down has been held since its last press.
HeldSincePress == down => held = since

\* The edge that waits is the last one of the button.
EdgeIsLast ==
    /\ Len(press_q) <= 1
    /\ press_q # <<>> => /\ press_q[1].pressed = down
                         /\ down => press_q[1].age = since

\* Before its release the gesture is as old as the button has been down; after
\* it, as long ago as the last press or, once that is in the queue, the last but
\* one.
GestureTimed ==
    /\ pc = "restart" => press_q = <<>> /\ down /\ t1 = since
    /\ pc = "hold" \/ (pc = "double" /\ ~released) =>
         /\ t1 = since /\ t1 = held
         /\ down <=> press_q = <<>>
    /\ pc = "double" /\ released =>
         /\ down <=> press_q # <<>>
         /\ t1 = IF down THEN gap ELSE since
    /\ pc \in {"readout", "battery"} => (down <=> press_q # <<>>)

\* A HELP that the battery colour hides is shown at the next blink; one that was
\* hidden a moment ago was not followed by a gesture yet.
Covered ==
    /\ hidden <= Blink
    /\ pc = "battery" =>
         /\ wait <= Blink
         /\ led = "battery" => hidden + wait <= Blink
         /\ ~alert => hidden = 0
         /\ hidden > 0 /\ press_q # <<>> => press_q[1].age = 0
    /\ pc # "battery" /\ hidden > 0 =>
         /\ pc \in {"idle", "double", "saving", "restart"}
         /\ pc \in {"double", "restart"} => t1 = 0
         /\ press_q # <<>> => press_q[1].age = 0

UiIInv == /\ UiTypeOK
          /\ led = "battery" => pc = "battery"
          /\ HeldSincePress
          /\ prompt => EdgeIsLast /\ GestureTimed /\ Covered

-----------------------------------------------------------------------------

\* What the thread takes is the oldest edge.
LEMMA TakeTypes ==
  ASSUME UiTypeOK, Take
  PROVE  /\ Taken \in Edge /\ Taken.age \in Age /\ Taken.pressed \in BOOLEAN
         /\ press_q' \in Seq(Edge) /\ Len(press_q') <= QueueLen
         /\ press_q # <<>> /\ Taken = press_q[1]
         /\ Len(press_q) <= 1 => press_q' = <<>>
         /\ UNCHANGED <<down, quiet, held, gap, since, prompt, hidden>>
<1>1. press_q \in Seq(Edge) /\ press_q # <<>> /\ press_q' = Tail(press_q)
      /\ Len(press_q) <= QueueLen
  BY DEF UiTypeOK, Take
<1>2. Taken \in Edge /\ Taken = press_q[1]
  BY <1>1 DEF Taken
<1>3. press_q' \in Seq(Edge) /\ Len(press_q') = Len(press_q) - 1
  BY <1>1
<1>4. Len(press_q) \in Nat /\ QueueLen \in Nat
  BY <1>1, UiAssumption
<1>5. Len(press_q) <= 1 => press_q' = <<>>
  BY <1>1, <1>3, <1>4
<1> QED
  BY <1>1, <1>2, <1>3, <1>4, <1>5 DEF Edge, Take, ghosts

LEMMA TimesTypes == /\ 0 \in Age /\ Blink \in Nat /\ Flash \in Nat /\ SlowMax \in Nat
                    /\ {0, Battery} \subseteq 0 .. Battery /\ AgeCap \in Age
                    /\ Double \in Nat \ {0} /\ Long \in Nat \ {0} /\ QueueLen \in Nat \ {0}
                    /\ Age \subseteq Nat
                    /\ \A a \in Age : /\ Older(a) \in Age
                                      /\ Older(a) <= a + 1
BY UiAssumption DEF Age, AgeCap, Older

LEMMA IdleStep ==
  ASSUME UiIInv, Idle
  PROVE  UiIInv'
<1> USE DEF UiIInv
<1>0. Take
  BY DEF Idle
<1>t. /\ Taken \in Edge /\ Taken.age \in Age /\ Taken.pressed \in BOOLEAN
      /\ press_q' \in Seq(Edge) /\ Len(press_q') <= QueueLen
      /\ press_q # <<>> /\ Taken = press_q[1]
      /\ Len(press_q) <= 1 => press_q' = <<>>
      /\ UNCHANGED <<down, quiet, held, gap, since, prompt, hidden>>
  BY <1>0, TakeTypes
<1>1. UiTypeOK'
  BY <1>t, TimesTypes DEF UiTypeOK, Idle, EnterIdle, IdleLed, Single, Waits, Slow
<1>2. (led' = "battery" => pc' = "battery") /\ HeldSincePress'
  BY <1>t DEF HeldSincePress, Idle, EnterIdle, IdleLed, Single
<1>3. prompt => EdgeIsLast'
  BY <1>t DEF EdgeIsLast
<1>4. prompt => GestureTimed'
  BY <1>t DEF GestureTimed, EdgeIsLast, HeldSincePress, Idle, EnterIdle
<1>5. prompt => Covered'
  BY <1>t, TimesTypes DEF Covered, EdgeIsLast, GestureTimed, UiTypeOK, Idle, EnterIdle, IdleLed, Single
<1> QED
  BY <1>t, <1>1, <1>2, <1>3, <1>4, <1>5

LEMMA IdleBlinkStep ==
  ASSUME UiIInv, IdleBlink
  PROVE  UiIInv'
<1> USE DEF UiIInv
<1>0. UNCHANGED <<down, quiet, press_q, held, gap, since, prompt, hidden>>
  BY DEF IdleBlink, NoTake, ghosts
<1>1. UiTypeOK'
  BY <1>0, TimesTypes DEF UiTypeOK, IdleBlink, EnterIdle, IdleLed, Single, Waits, Slow
<1>2. (led' = "battery" => pc' = "battery") /\ HeldSincePress'
  BY <1>0 DEF HeldSincePress, IdleBlink, EnterIdle, IdleLed, Single
<1>3. prompt => EdgeIsLast'
  BY <1>0 DEF EdgeIsLast
<1>4. prompt => GestureTimed'
  BY <1>0 DEF GestureTimed, EdgeIsLast, IdleBlink, EnterIdle, Single
<1>5. prompt => Covered'
  BY <1>0, TimesTypes DEF Covered, EdgeIsLast, GestureTimed, UiTypeOK, IdleBlink, EnterIdle, IdleLed, Single
<1> QED
  BY <1>0, <1>1, <1>2, <1>3, <1>4, <1>5

LEMMA SecondStep ==
  ASSUME UiIInv, SecondPress
  PROVE  UiIInv'
<1> USE DEF UiIInv
<1>0. Take
  BY DEF SecondPress
<1>t. /\ Taken \in Edge /\ Taken.age \in Age /\ Taken.pressed \in BOOLEAN
      /\ press_q' \in Seq(Edge) /\ Len(press_q') <= QueueLen
      /\ press_q # <<>> /\ Taken = press_q[1]
      /\ Len(press_q) <= 1 => press_q' = <<>>
      /\ UNCHANGED <<down, quiet, held, gap, since, prompt, hidden>>
  BY <1>0, TakeTypes
<1>1. UiTypeOK'
  BY <1>t, TimesTypes DEF UiTypeOK, SecondPress, EnterIdle, IdleLed, Single, Waits, Slow
<1>2. (led' = "battery" => pc' = "battery") /\ HeldSincePress'
  BY <1>t DEF HeldSincePress, SecondPress, EnterIdle, IdleLed, Single
<1>3. prompt => EdgeIsLast'
  BY <1>t DEF EdgeIsLast
<1>4. prompt => GestureTimed'
  BY <1>t DEF GestureTimed, EdgeIsLast, SecondPress, EnterIdle, Single
<1>5. prompt => Covered'
  BY <1>t, TimesTypes DEF Covered, EdgeIsLast, GestureTimed, UiTypeOK, SecondPress, EnterIdle, IdleLed, Single
<1> QED
  BY <1>t, <1>1, <1>2, <1>3, <1>4, <1>5

LEMMA SavedStep ==
  ASSUME UiIInv, Saved
  PROVE  UiIInv'
<1> USE DEF UiIInv
<1>0. UNCHANGED <<down, quiet, press_q, held, gap, since, prompt, hidden>>
  BY DEF Saved, NoTake, ghosts
<1>1. UiTypeOK'
  BY <1>0, TimesTypes DEF UiTypeOK, Saved, EnterIdle, IdleLed, Single, Waits, Slow
<1>2. (led' = "battery" => pc' = "battery") /\ HeldSincePress'
  BY <1>0 DEF HeldSincePress, Saved, EnterIdle, IdleLed, Single
<1>3. prompt => EdgeIsLast'
  BY <1>0 DEF EdgeIsLast
<1>4. prompt => GestureTimed'
  BY <1>0 DEF GestureTimed, EdgeIsLast, Saved, EnterIdle, Single
<1>5. prompt => Covered'
  BY <1>0, TimesTypes DEF Covered, EdgeIsLast, GestureTimed, UiTypeOK, Saved, EnterIdle, IdleLed, Single
<1> QED
  BY <1>0, <1>1, <1>2, <1>3, <1>4, <1>5

LEMMA WindowStep ==
  ASSUME UiIInv, WindowOver
  PROVE  UiIInv'
<1> USE DEF UiIInv
<1>0. UNCHANGED <<down, quiet, press_q, held, gap, since, prompt, hidden>>
  BY DEF WindowOver, NoTake, ghosts
<1>1. UiTypeOK'
  BY <1>0, TimesTypes DEF UiTypeOK, WindowOver, EnterIdle, IdleLed, Single, Waits, Slow
<1>2. (led' = "battery" => pc' = "battery") /\ HeldSincePress'
  BY <1>0 DEF HeldSincePress, WindowOver, EnterIdle, IdleLed, Single
<1>3. prompt => EdgeIsLast'
  BY <1>0 DEF EdgeIsLast
<1>4. prompt => GestureTimed'
  BY <1>0 DEF GestureTimed, EdgeIsLast, WindowOver, EnterIdle, Single
<1>5. prompt => Covered'
  BY <1>0, TimesTypes DEF Covered, EdgeIsLast, GestureTimed, UiTypeOK, WindowOver, EnterIdle, IdleLed, Single
<1> QED
  BY <1>0, <1>1, <1>2, <1>3, <1>4, <1>5

LEMMA HoldingStep ==
  ASSUME UiIInv, Holding
  PROVE  UiIInv'
<1> USE DEF UiIInv
<1>0. Take
  BY DEF Holding
<1>t. /\ Taken \in Edge /\ Taken.age \in Age /\ Taken.pressed \in BOOLEAN
      /\ press_q' \in Seq(Edge) /\ Len(press_q') <= QueueLen
      /\ press_q # <<>> /\ Taken = press_q[1]
      /\ Len(press_q) <= 1 => press_q' = <<>>
      /\ UNCHANGED <<down, quiet, held, gap, since, prompt, hidden>>
  BY <1>0, TakeTypes
<1>1. UiTypeOK'
  BY <1>t, TimesTypes DEF UiTypeOK, Holding, EnterIdle, IdleLed, Single, Waits, Slow
<1>2. (led' = "battery" => pc' = "battery") /\ HeldSincePress'
  BY <1>t DEF HeldSincePress, Holding, EnterIdle, IdleLed, Single
<1>3. prompt => EdgeIsLast'
  BY <1>t DEF EdgeIsLast
<1>4. prompt => GestureTimed'
  BY <1>t DEF GestureTimed, EdgeIsLast, Holding, EnterIdle, Single
<1>5. prompt => Covered'
  BY <1>t, TimesTypes DEF Covered, EdgeIsLast, GestureTimed, UiTypeOK, Holding, EnterIdle, IdleLed, Single
<1> QED
  BY <1>t, <1>1, <1>2, <1>3, <1>4, <1>5

LEMMA LongStep ==
  ASSUME UiIInv, LongPress
  PROVE  UiIInv'
<1> USE DEF UiIInv
<1>0. UNCHANGED <<down, quiet, press_q, held, gap, since, prompt, hidden>>
  BY DEF LongPress, NoTake, ghosts
<1>1. UiTypeOK'
  BY <1>0, TimesTypes DEF UiTypeOK, LongPress, EnterIdle, IdleLed, Single, Waits, Slow
<1>2. (led' = "battery" => pc' = "battery") /\ HeldSincePress'
  BY <1>0 DEF HeldSincePress, LongPress, EnterIdle, IdleLed, Single
<1>3. prompt => EdgeIsLast'
  BY <1>0 DEF EdgeIsLast
<1>4. prompt => GestureTimed'
  BY <1>0 DEF GestureTimed, EdgeIsLast, LongPress, EnterIdle, Single
<1>5. prompt => Covered'
  BY <1>0, TimesTypes DEF Covered, EdgeIsLast, GestureTimed, UiTypeOK, LongPress, EnterIdle, IdleLed, Single
<1> QED
  BY <1>0, <1>1, <1>2, <1>3, <1>4, <1>5

LEMMA FlashStep ==
  ASSUME UiIInv, FlashOver
  PROVE  UiIInv'
<1> USE DEF UiIInv
<1>0. UNCHANGED <<down, quiet, press_q, held, gap, since, prompt, hidden>>
  BY DEF FlashOver, NoTake, ghosts
<1>1. UiTypeOK'
  BY <1>0, TimesTypes DEF UiTypeOK, FlashOver, EnterIdle, IdleLed, Single, Waits, Slow
<1>2. (led' = "battery" => pc' = "battery") /\ HeldSincePress'
  BY <1>0 DEF HeldSincePress, FlashOver, EnterIdle, IdleLed, Single
<1>3. prompt => EdgeIsLast'
  BY <1>0 DEF EdgeIsLast
<1>4. prompt => GestureTimed'
  BY <1>0 DEF GestureTimed, EdgeIsLast, FlashOver, EnterIdle, Single
<1>5. prompt => Covered'
  BY <1>0, TimesTypes DEF Covered, EdgeIsLast, GestureTimed, UiTypeOK, FlashOver, EnterIdle, IdleLed, Single
<1> QED
  BY <1>0, <1>1, <1>2, <1>3, <1>4, <1>5

LEMMA ShowStep ==
  ASSUME UiIInv, ShowBattery
  PROVE  UiIInv'
<1> USE DEF UiIInv
<1>0. UNCHANGED <<down, quiet, press_q, held, gap, since, prompt, hidden>>
  BY DEF ShowBattery, NoTake, ghosts
<1>1. UiTypeOK'
  BY <1>0, TimesTypes DEF UiTypeOK, ShowBattery, EnterIdle, IdleLed, Single, Waits, Slow
<1>2. (led' = "battery" => pc' = "battery") /\ HeldSincePress'
  BY <1>0 DEF HeldSincePress, ShowBattery, EnterIdle, IdleLed, Single
<1>3. prompt => EdgeIsLast'
  BY <1>0 DEF EdgeIsLast
<1>4. prompt => GestureTimed'
  BY <1>0 DEF GestureTimed, EdgeIsLast, ShowBattery, EnterIdle, Single
<1>5. prompt => Covered'
  <2> SUFFICES ASSUME prompt PROVE Covered'
    OBVIOUS
  <2>1. hidden \in Nat /\ pc = "readout" /\ pc' = "battery" /\ wait' = Blink
    BY TimesTypes DEF UiTypeOK, ShowBattery
  <2>2. hidden = 0
    BY <2>1 DEF Covered
  <2> QED
    BY <1>0, <2>1, <2>2, TimesTypes DEF Covered
<1> QED
  BY <1>0, <1>1, <1>2, <1>3, <1>4, <1>5

LEMMA BatteryTakeStep ==
  ASSUME UiIInv, BatteryTake
  PROVE  UiIInv'
<1> USE DEF UiIInv
<1>0. Take
  BY DEF BatteryTake
<1>t. /\ Taken \in Edge /\ Taken.age \in Age /\ Taken.pressed \in BOOLEAN
      /\ press_q' \in Seq(Edge) /\ Len(press_q') <= QueueLen
      /\ press_q # <<>> /\ Taken = press_q[1]
      /\ Len(press_q) <= 1 => press_q' = <<>>
      /\ UNCHANGED <<down, quiet, held, gap, since, prompt, hidden>>
  BY <1>0, TakeTypes
<1>1. UiTypeOK'
  BY <1>t, TimesTypes DEF UiTypeOK, BatteryTake, EnterIdle, IdleLed, Single, Waits, Slow
<1>2. (led' = "battery" => pc' = "battery") /\ HeldSincePress'
  BY <1>t DEF HeldSincePress, BatteryTake, EnterIdle, IdleLed, Single
<1>3. prompt => EdgeIsLast'
  BY <1>t DEF EdgeIsLast
<1>4. prompt => GestureTimed'
  BY <1>t DEF GestureTimed, EdgeIsLast, BatteryTake, EnterIdle, Single
<1>5. prompt => Covered'
  BY <1>t, TimesTypes DEF Covered, EdgeIsLast, GestureTimed, UiTypeOK, BatteryTake, EnterIdle, IdleLed, Single
<1> QED
  BY <1>t, <1>1, <1>2, <1>3, <1>4, <1>5

LEMMA BatteryBlinkStep ==
  ASSUME UiIInv, BatteryBlink
  PROVE  UiIInv'
<1> USE DEF UiIInv
<1>0. UNCHANGED <<down, quiet, press_q, held, gap, since, prompt, hidden>>
  BY DEF BatteryBlink, NoTake, ghosts
<1>1. UiTypeOK'
  BY <1>0, TimesTypes DEF UiTypeOK, BatteryBlink, EnterIdle, IdleLed, Single, Waits, Slow
<1>2. (led' = "battery" => pc' = "battery") /\ HeldSincePress'
  BY <1>0 DEF HeldSincePress, BatteryBlink, EnterIdle, IdleLed, Single
<1>3. prompt => EdgeIsLast'
  BY <1>0 DEF EdgeIsLast
<1>4. prompt => GestureTimed'
  BY <1>0 DEF GestureTimed, EdgeIsLast, BatteryBlink, EnterIdle, Single
<1>5. prompt => Covered'
  BY <1>0, TimesTypes DEF Covered, EdgeIsLast, GestureTimed, UiTypeOK, BatteryBlink, EnterIdle, IdleLed, Single
<1> QED
  BY <1>0, <1>1, <1>2, <1>3, <1>4, <1>5

LEMMA BatteryOverStep ==
  ASSUME UiIInv, BatteryOver
  PROVE  UiIInv'
<1> USE DEF UiIInv
<1>0. UNCHANGED <<down, quiet, press_q, held, gap, since, prompt, hidden>>
  BY DEF BatteryOver, NoTake, ghosts
<1>1. UiTypeOK'
  BY <1>0, TimesTypes DEF UiTypeOK, BatteryOver, EnterIdle, IdleLed, Single, Waits, Slow
<1>2. (led' = "battery" => pc' = "battery") /\ HeldSincePress'
  BY <1>0 DEF HeldSincePress, BatteryOver, EnterIdle, IdleLed, Single
<1>3. prompt => EdgeIsLast'
  BY <1>0 DEF EdgeIsLast
<1>4. prompt => GestureTimed'
  BY <1>0 DEF GestureTimed, EdgeIsLast, BatteryOver, EnterIdle, Single
<1>5. prompt => Covered'
  BY <1>0, TimesTypes DEF Covered, EdgeIsLast, GestureTimed, UiTypeOK, BatteryOver, EnterIdle, IdleLed, Single
<1> QED
  BY <1>0, <1>1, <1>2, <1>3, <1>4, <1>5


\* What waits to be drained is dropped, whatever it is.
LEMMA DrainStep ==
  ASSUME UiIInv, Drain
  PROVE  UiIInv'
<1> USE DEF UiIInv
<1>1. /\ pc = "drain" /\ pc' \in {"drain", "idle"}
      /\ wait' = wait \/ wait' = Blink
      /\ led' \in {led, "red", "dark"}
      /\ pc' = "idle" => led' # "battery"
      /\ UNCHANGED <<t1, released, shown, readAlert, alert>>
  BY DEF Drain, EnterIdle, IdleLed
<1>2. /\ press_q' \in Seq(Edge) /\ Len(press_q') <= QueueLen
      /\ Len(press_q) <= 1 => press_q' = press_q \/ press_q' = <<>>
      /\ UNCHANGED <<down, quiet, held, gap, since, prompt, hidden>>
  <2>1. CASE Take
    BY <2>1, TakeTypes
  <2>2. CASE NoTake
    BY <2>2 DEF NoTake, ghosts, UiTypeOK
  <2> QED
    BY <2>1, <2>2 DEF Drain
<1>3. UiTypeOK'
  BY <1>1, <1>2, TimesTypes DEF UiTypeOK, Waits
<1>4. (led' = "battery" => pc' = "battery") /\ HeldSincePress'
  BY <1>1, <1>2 DEF HeldSincePress
<1>5. prompt => EdgeIsLast' /\ GestureTimed' /\ Covered'
  BY <1>1, <1>2 DEF EdgeIsLast, GestureTimed, Covered
<1> QED
  BY <1>2, <1>3, <1>4, <1>5

\* The press of a display that is over is the last one, and goes back as such.
LEMMA PutBackStep ==
  ASSUME UiIInv, PutBack
  PROVE  UiIInv'
<1> USE DEF UiIInv
<1>1. /\ pc = "restart" /\ pc' = "idle" /\ wait' = Blink /\ led' \in {"red", "dark"}
      /\ UNCHANGED <<down, quiet, t1, released, shown, readAlert, alert,
                     held, gap, since, prompt, hidden>>
  BY DEF PutBack, EnterIdle, IdleLed, ghosts
<1> DEFINE e == [age |-> t1, pressed |-> TRUE]
<1>2. e \in Edge /\ e.age = t1 /\ e.pressed = TRUE
  BY DEF UiTypeOK, Edge
<1>3. press_q' = IF Len(press_q) < QueueLen THEN Append(press_q, e) ELSE press_q
  BY DEF PutBack
<1> HIDE DEF e
<1>4. press_q' \in Seq(Edge) /\ Len(press_q') <= QueueLen
  BY <1>2, <1>3, TimesTypes DEF UiTypeOK
<1>5. press_q = <<>> => Len(press_q') = 1 /\ press_q'[1] = e
  BY <1>2, <1>3, TimesTypes
<1>6. UiTypeOK'
  BY <1>1, <1>4, TimesTypes DEF UiTypeOK, Waits
<1>7. HeldSincePress' /\ led' # "battery"
  BY <1>1 DEF HeldSincePress
<1>8. prompt => EdgeIsLast' /\ GestureTimed' /\ Covered'
  <2> SUFFICES ASSUME prompt PROVE EdgeIsLast' /\ GestureTimed' /\ Covered'
    OBVIOUS
  <2>1. press_q = <<>> /\ down = TRUE /\ t1 = since /\ Len(press_q') = 1 /\ press_q'[1] = e
    BY <1>1, <1>5 DEF GestureTimed, UiTypeOK
  <2>2. press_q'[1].age = since' /\ press_q'[1].pressed = down'
    BY <1>1, <1>2, <2>1
  <2>3. EdgeIsLast'
    BY <2>1, <2>2 DEF EdgeIsLast
  <2>4. GestureTimed'
    BY <1>1 DEF GestureTimed
  <2>5. Covered'
    BY <1>1, <1>2, <2>1 DEF Covered
  <2> QED
    BY <2>3, <2>4, <2>5
<1> QED
  BY <1>1, <1>6, <1>7, <1>8

LEMMA CommandStep ==
  ASSUME UiIInv, NEW on \in BOOLEAN, Command(on)
  PROVE  UiIInv'
<1> USE DEF UiIInv
<1>1. /\ UNCHANGED <<down, quiet, press_q, pc, t1, released, wait, shown, readAlert, led,
                     held, gap, since, prompt>>
      /\ alert' = on /\ hidden' = IF on = alert THEN hidden ELSE 0
  BY DEF Command, ui
<1>2. UiTypeOK'
  BY <1>1, TimesTypes DEF UiTypeOK
<1>3. (led' = "battery" => pc' = "battery") /\ HeldSincePress'
  BY <1>1 DEF HeldSincePress
<1>4. prompt => EdgeIsLast' /\ GestureTimed'
  BY <1>1 DEF EdgeIsLast, GestureTimed
<1>5. prompt => Covered'
  <2>1. CASE on = alert
    BY <1>1, <2>1 DEF Covered
  <2>2. CASE hidden' = 0
    <3>1. wait \in Nat
      BY DEF UiTypeOK
    <3> QED
      BY <1>1, <2>2, <3>1, TimesTypes DEF Covered
  <2> QED
    BY <1>1, <2>1, <2>2
<1> QED
  BY <1>1, <1>2, <1>3, <1>4, <1>5

\* An edge that keeps the account found the thread waiting and the queue empty.
LEMMA EdgeStep ==
  ASSUME UiIInv, ButtonEdge
  PROVE  UiIInv'
<1> USE DEF UiIInv
<1> DEFINE e == [age |-> 0, pressed |-> down']
<1>1. /\ down' = ~down /\ down' \in BOOLEAN /\ quiet' = FALSE
      /\ held' = IF down' THEN 0 ELSE held
      /\ gap' = IF down' THEN since ELSE gap
      /\ since' = IF down' THEN 0 ELSE since
      /\ prompt' = (prompt /\ quiet /\ pc \in Waits /\ press_q = <<>>)
      /\ UNCHANGED <<pc, t1, released, wait, shown, readAlert, led, alert, hidden>>
      /\ press_q' = IF quiet /\ Len(press_q) < QueueLen THEN Append(press_q, e) ELSE press_q
  BY DEF ButtonEdge
<1>2. e \in Edge /\ e.age = 0 /\ e.pressed = down'
  BY <1>1, TimesTypes DEF Edge
<1> HIDE DEF e
<1>3. press_q' \in Seq(Edge) /\ Len(press_q') <= QueueLen
  BY <1>1, <1>2, TimesTypes DEF UiTypeOK
<1>4. prompt' => Len(press_q') = 1 /\ press_q'[1] = e /\ press_q' # <<>>
  <2> SUFFICES ASSUME prompt' PROVE Len(press_q') = 1 /\ press_q'[1] = e /\ press_q' # <<>>
    OBVIOUS
  <2>1. press_q = <<>> /\ quiet
    BY <1>1
  <2>2. Len(press_q) < QueueLen
    BY <2>1, TimesTypes
  <2>3. press_q' = Append(<<>>, e)
    BY <1>1, <2>1, <2>2
  <2> QED
    BY <1>2, <2>3
<1>5. UiTypeOK'
  BY <1>1, <1>3, TimesTypes DEF UiTypeOK
<1>6. (led' = "battery" => pc' = "battery") /\ HeldSincePress'
  BY <1>1 DEF HeldSincePress
<1>7. prompt' => EdgeIsLast' /\ Covered'
  <2> SUFFICES ASSUME prompt' PROVE EdgeIsLast' /\ Covered'
    OBVIOUS
  <2>0. press_q'[1].pressed = down' /\ (down' => press_q'[1].age = since')
    BY <1>1, <1>2, <1>4
  <2>z. Len(press_q') <= 1
    BY <1>4
  <2>1. EdgeIsLast'
    BY <2>0, <2>z DEF EdgeIsLast
  <2>2. pc \in Waits /\ prompt /\ press_q'[1].age = 0
    BY <1>1, <1>2, <1>4
  <2>3. Covered'
    BY <1>1, <2>2 DEF Covered
  <2> QED
    BY <2>1, <2>3
<1>8. prompt' => GestureTimed'
  <2> SUFFICES ASSUME prompt' PROVE GestureTimed'
    OBVIOUS
  <2>1. prompt /\ pc \in Waits /\ press_q = <<>> /\ press_q' # <<>>
    BY <1>1, <1>4
  <2>2. pc # "restart" /\ pc # "readout"
    BY <2>1 DEF Waits
  <2> QED
    BY <1>1, <2>1, <2>2 DEF GestureTimed, UiTypeOK
<1> QED
  BY <1>5, <1>6, <1>7, <1>8

\* What a tick adds to the time hidden it takes from the slice.
LEMMA SliceLeft ==
  ASSUME NEW b \in Nat, NEW w \in Nat, NEW h \in Nat, NEW h2 \in Nat,
         w > 0, h2 <= h + 1, h + w <= b
  PROVE  h2 <= b /\ h2 + (w - 1) <= b /\ w - 1 <= b
OBVIOUS

\* Everything that has an age grows older by the same.
LEMMA TickStep ==
  ASSUME UiIInv, Tick
  PROVE  UiIInv'
<1> USE DEF UiIInv
<1>1. /\ Blocked /\ quiet' = TRUE /\ t1' = Older(t1) /\ since' = Older(since)
      /\ wait' = IF wait > 0 THEN wait - 1 ELSE 0
      /\ shown' = IF shown > 0 THEN shown - 1 ELSE 0
      /\ held' = IF down THEN Older(held) ELSE held
      /\ prompt' = (prompt \/ (pc = "idle" /\ press_q = <<>> /\ ~down))
      /\ hidden' = IF alert /\ led = "battery" THEN Older(hidden) ELSE 0
      /\ UNCHANGED <<down, pc, released, readAlert, alert, led, gap>>
  BY DEF Tick
<1>2. press_q' = [i \in DOMAIN press_q |-> [press_q[i] EXCEPT !.age = Older(@)]]
  BY DEF Tick
<1>3. press_q \in Seq(Edge) /\ Len(press_q) <= QueueLen
  BY DEF UiTypeOK
<1>4. ASSUME NEW i \in DOMAIN press_q
      PROVE  /\ press_q'[i] \in Edge
             /\ press_q'[i].pressed = press_q[i].pressed
             /\ press_q'[i].age = Older(press_q[i].age)
  <2>0. press_q[i] \in Edge
    BY <1>3, <1>4
  <2>1. press_q[i] \in Edge /\ press_q[i].age \in Age
    BY <2>0 DEF Edge
  <2>2. Older(press_q[i].age) \in Age
    BY <2>1, TimesTypes
  <2>3. press_q'[i] = [press_q[i] EXCEPT !.age = Older(press_q[i].age)]
    BY <1>2
  <2>4. press_q'[i] \in Edge
    BY ONLY <2>1, <2>2, <2>3, Zenon DEF Edge
  <2>5. press_q'[i].pressed = press_q[i].pressed
    BY <2>1, <2>3 DEF Edge
  <2>6. press_q'[i].age = Older(press_q[i].age)
    BY <2>1, <2>3 DEF Edge
  <2> QED
    BY <2>4, <2>5, <2>6
<1>5. press_q' \in Seq(Edge) /\ Len(press_q') = Len(press_q) /\ (press_q' = <<>> <=> press_q = <<>>)
  <2>1. DOMAIN press_q = 1 .. Len(press_q) /\ Len(press_q) \in Nat
    BY <1>3
  <2>2. press_q' \in [1 .. Len(press_q) -> Edge]
    BY <1>2, <1>4, <2>1
  <2>3. press_q' \in Seq(Edge) /\ Len(press_q') = Len(press_q)
    BY <2>1, <2>2
  <2> QED
    BY <1>3, <2>3
<1>6. UiTypeOK'
  <2>1. {t1', held', gap', since', hidden'} \subseteq Age
    BY <1>1, TimesTypes DEF UiTypeOK
  <2>2. wait' \in Nat /\ shown' \in 0 .. Battery
    BY <1>1, TimesTypes DEF UiTypeOK
  <2> QED
    BY <1>1, <1>3, <1>5, <2>1, <2>2 DEF UiTypeOK
<1>7. (led' = "battery" => pc' = "battery") /\ HeldSincePress'
  BY <1>1 DEF HeldSincePress
<1>p. CASE ~prompt
  <2>1. CASE pc = "idle" /\ press_q = <<>> /\ ~down
    <3>1. pc' = "idle" /\ press_q' = <<>> /\ hidden' = 0
      BY <1>1, <1>5, <2>1
    <3>2. Len(press_q') <= 1
      BY <3>1
    <3>3. EdgeIsLast' /\ GestureTimed'
      BY <3>1, <3>2 DEF EdgeIsLast, GestureTimed
    <3>4. Covered'
      BY <3>1, TimesTypes DEF Covered
    <3> QED
      BY <1>6, <1>7, <3>3, <3>4
  <2>2. CASE ~prompt'
    BY <1>6, <1>7, <2>2
  <2> QED
    BY <1>1, <1>p, <2>1, <2>2
<1>q. CASE prompt
  <2>1. press_q # <<>> => /\ 1 \in DOMAIN press_q
                          /\ press_q'[1].pressed = press_q[1].pressed
                          /\ press_q'[1].age = Older(press_q[1].age)
    <3>1. press_q # <<>> => 1 \in DOMAIN press_q
      BY <1>3
    <3> QED
      BY <3>1, <1>4
  <2>2. EdgeIsLast'
    BY <1>1, <1>5, <1>q, <2>1 DEF EdgeIsLast
  <2>3. GestureTimed'
    BY <1>1, <1>5, <1>q DEF GestureTimed, HeldSincePress, Blocked, Slow
  <2>4. Covered'
    <3>1. CASE pc = "battery" /\ alert /\ led = "battery"
      <4>1. press_q = <<>> /\ wait > 0 /\ wait' = wait - 1 /\ hidden' <= hidden + 1
        BY <1>1, <3>1, TimesTypes DEF Blocked, Slow, UiTypeOK
      <4>b. Blink \in Nat
        BY TimesTypes
      <4>2. wait \in Nat /\ hidden \in Nat /\ hidden' \in Nat /\ press_q' = <<>>
        BY <1>1, <1>5, <4>1, TimesTypes DEF UiTypeOK
      <4>3. hidden + wait <= Blink /\ wait <= Blink
        BY <1>q, <3>1 DEF Covered
      <4>4. hidden' <= Blink /\ hidden' + wait' <= Blink /\ wait' <= Blink
        <5>1. wait \in Nat /\ wait' \in Nat /\ wait > 0 /\ wait' = wait - 1
          BY <4>1, <4>2
        <5>2. hidden \in Nat /\ hidden' \in Nat /\ hidden' <= hidden + 1
          BY <4>1, <4>2
        <5> QED
          BY <4>3, <4>b, <5>1, <5>2, SliceLeft
      <4> QED
        BY <1>1, <3>1, <4>2, <4>4 DEF Covered
    <3>2. CASE hidden' = 0
      <4>1. pc = "battery" => wait' <= Blink
        BY <1>1, <1>q, TimesTypes DEF Covered, UiTypeOK
      <4> QED
        BY <1>1, <1>q, <3>2, <4>1, TimesTypes DEF Covered
    <3> QED
      BY <1>1, <3>1, <3>2
  <2> QED
    BY <1>6, <1>7, <2>2, <2>3, <2>4
<1> QED
  BY <1>p, <1>q DEF UiTypeOK

LEMMA UiStart == UiInit => UiIInv
<1> SUFFICES ASSUME UiInit PROVE UiIInv
  OBVIOUS
<1> USE DEF UiInit
<1>1. UiTypeOK
  <2>1. press_q \in Seq(Edge) /\ Len(press_q) <= QueueLen
    BY TimesTypes
  <2>2. wait \in Nat /\ shown \in 0 .. Battery /\ {t1, held, gap, since, hidden} \subseteq Age
    BY TimesTypes
  <2> QED
    BY <2>1, <2>2 DEF UiTypeOK, Waits
<1>2. HeldSincePress /\ EdgeIsLast /\ GestureTimed
  BY DEF HeldSincePress, EdgeIsLast, GestureTimed
<1>3. Covered
  BY TimesTypes DEF Covered
<1> QED
  BY <1>1, <1>2, <1>3 DEF UiIInv

LEMMA UiNextStep == UiIInv /\ [UiNext]_uiVars => UiIInv'
<1> SUFFICES ASSUME UiIInv, [UiNext]_uiVars PROVE UiIInv'
  OBVIOUS
<1>1. CASE UiThread
  BY <1>1, IdleStep, IdleBlinkStep, SecondStep, SavedStep, WindowStep, HoldingStep,
     LongStep, FlashStep, DrainStep, ShowStep, BatteryTakeStep, BatteryBlinkStep,
     BatteryOverStep, PutBackStep DEF UiThread
<1>2. CASE ButtonEdge \/ Tick \/ \E on \in BOOLEAN : Command(on)
  BY <1>2, EdgeStep, TickStep, CommandStep
<1>3. CASE UNCHANGED uiVars
  <2>1. UNCHANGED <<down, quiet, press_q, pc, t1, released, wait, shown, readAlert, led,
                    alert, held, gap, since, prompt, hidden>>
    BY <1>3 DEF uiVars, ui, ghosts
  <2>2. UiTypeOK' /\ HeldSincePress' /\ (led' = "battery" => pc' = "battery")
    BY <2>1 DEF UiIInv, UiTypeOK, HeldSincePress
  <2>3. prompt' => EdgeIsLast' /\ GestureTimed' /\ Covered'
    BY <2>1 DEF UiIInv, EdgeIsLast, GestureTimed, Covered
  <2> QED
    BY <2>2, <2>3 DEF UiIInv
<1> QED
  BY <1>1, <1>2, <1>3 DEF UiNext

LEMMA UiInvariant == UiSpec => []UiIInv
<1> QED
  BY UiStart, UiNextStep, PTL DEF UiSpec

\* The LED shows a standing alert again within one blink, however the HELP falls
\* between the sends of a readout, for gestures whose edges were all taken.
THEOREM LedShowsHelp == UiSpec => []UiSound
<1>1. UiIInv => UiSound
  BY DEF UiIInv, UiSound, HelpShown, Covered
<1> QED
  BY <1>1, UiInvariant, PTL

\* A CANCEL is a button held for LONG_MS, for every order of its edges and the
\* thread's steps.
THEOREM CancelIsHeld == UiSpec => CancelMeansHold
<1>1. UiIInv /\ [UiNext]_uiVars => [LongPress => held >= Long \/ ~prompt]_uiVars
  <2> SUFFICES ASSUME UiIInv, LongPress, prompt PROVE held >= Long
    OBVIOUS
  <2> QED
    BY DEF UiIInv, LongPress, GestureTimed
<1> QED
  BY <1>1, UiInvariant, PTL DEF UiSpec, CancelMeansHold

\* A HELP is two presses within DOUBLE_MS of each other, likewise.
THEOREM HelpIsDouble == UiSpec => HelpMeansDouble
<1> DEFINE Step == pc = "double" /\ pc' = "saving" => gap <= Double \/ ~prompt
<1>1. UiIInv /\ [UiNext]_uiVars => [Step]_uiVars
  <2> SUFFICES ASSUME UiIInv, UiNext, pc = "double", pc' = "saving", prompt
               PROVE  gap <= Double
    OBVIOUS
  <2>1. SecondPress /\ Taken.pressed
    <3>1. SecondPress
      BY DEF UiNext, UiThread, Idle, IdleBlink, Saved, WindowOver, Holding, LongPress,
         FlashOver, Drain, ShowBattery, BatteryTake, BatteryBlink, BatteryOver, PutBack,
         ButtonEdge, Tick, Command, ui, Single, EnterIdle
    <3> QED
      BY <3>1 DEF SecondPress
  <2>2. t1 < Double /\ press_q # <<>> /\ press_q[1].pressed
    BY <2>1, TakeTypes DEF SecondPress, UiIInv
  <2>3. t1 = gap
    BY <2>2 DEF UiIInv, UiTypeOK, GestureTimed, EdgeIsLast
  <2>4. t1 \in Nat /\ Double \in Nat
    BY TimesTypes DEF UiIInv, UiTypeOK
  <2> QED
    BY <2>2, <2>3, <2>4
<1> QED
  BY <1>1, UiInvariant, PTL DEF UiSpec, HelpMeansDouble
=============================================================================
