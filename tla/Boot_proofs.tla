------------------------------ MODULE Boot_proofs ------------------------------
(***************************************************************************)
(* What a boot finds of the time before it: the fault record is of one     *)
(* fault, the reset reason of one reset and the name the last one written, *)
(* for every set of names and every number of attempts at the radio.       *)
(***************************************************************************)
EXTENDS Boot, TLAPS

Records == [valid : BOOLEAN, reason : Faults \cup {0}, pc : Faults \cup {0},
            lr : Faults \cup {0}, bfar : Faults \cup {0}, thread : Faults \cup {0}]

\* While the fatal handler runs, the fields behind it are of this fault; the
\* record is valid then only where it was before, and that is remembered.
HalfWritten ==
    state = "faulted" =>
       /\ writing \in 1..(Len(Order) + 1)
       /\ \A i \in 1..Len(Order) : i < writing => record[Order[i]] = nth
       /\ record.valid => torn

\* Flash has the last name that was taken and written, or none was.
FlashHasKept == kept = IF stored = "none" THEN Default ELSE stored

IInv == /\ TypeOK
        /\ record \in Records
        /\ HalfWritten
        /\ RecordWhole
        /\ resetreas = {}
        /\ OwnCause
        /\ FlashHasKept

-----------------------------------------------------------------------------
(* The table of fields the handler goes through.                           *)

LEMMA OrderFacts ==
  /\ Len(Order) = 5
  /\ \A i \in 1..5 : Order[i] \in Field
  /\ \A f \in Field : \E i \in 1..5 : Order[i] = f
<1>1. Len(Order) = 5 BY DEF Order
<1>2. \A i \in 1..5 : Order[i] \in Field
  <2>1. \A i \in 1..5 : i = 1 \/ i = 2 \/ i = 3 \/ i = 4 \/ i = 5 OBVIOUS
  <2>2. QED BY <2>1 DEF Order, Field
<1>3. /\ Order[1] = "reason" /\ Order[2] = "pc" /\ Order[3] = "lr"
      /\ Order[4] = "bfar" /\ Order[5] = "thread"
  BY DEF Order
<1>4. QED BY <1>1, <1>2, <1>3 DEF Field

LEMMA InitIInv == Init => IInv
<1> SUFFICES ASSUME Init PROVE IInv
  OBVIOUS
<1> USE DEF Init
<1>1. record \in Records /\ ~record.valid
  BY DEF Blank, Records
<1>2. \A f \in Field : record[f] \in Faults \cup {0}
  BY DEF Blank, Field
<1>3. TypeOK
  <2>1. 0 \in 0..Timeout /\ Attempts \in 0..Attempts /\ 0 \in 0..(Len(Order) + 1)
    BY OrderFacts, BootAssumption DEF Timeout
  <2>2. {cal, mounted, guarded, feeding, torn, record.valid} \subseteq BOOLEAN
    BY <1>1 DEF Records
  <2>3. QED BY <1>2, <2>1, <2>2 DEF TypeOK, Faults
<1>4. HalfWritten /\ RecordWhole /\ OwnCause /\ FlashHasKept
  BY <1>1 DEF HalfWritten, RecordWhole, OwnCause, FlashHasKept
<1>5. QED BY <1>1, <1>3, <1>4 DEF IInv

-----------------------------------------------------------------------------
(* main() and the phone touch neither the record nor the resets.           *)

LEMMA MainStep == ASSUME IInv, MainNext PROVE IInv'
<1> USE DEF IInv, TypeOK, HalfWritten, RecordWhole, OwnCause, FlashHasKept,
            fault, resets, nfc, Wdt, Goto
<1>0. /\ UNCHANGED <<cal, state, fault, resets, stored, kept>>
      /\ state = "runs"
  BY DEF MainNext, At, Strip, Ble, StorageInit, StartBootGuard, UwbAttempt,
         Configure, StartThreads, RunFeeder
<1>1. /\ pc' \in {"strip", "ble", "storage", "guard", "uwb", "config", "start",
                  "feeder", "up", "failed", "stopped"}
      /\ tries' \in 0..Attempts
      /\ unfed' \in 0..Timeout
      /\ mounted' \in BOOLEAN /\ guarded' \in BOOLEAN /\ feeding' \in BOOLEAN
      /\ name' \in Names \cup {Default} /\ ndef' \in Names \cup {Default, Foreign}
  <2>1. 0 \in 0..Timeout BY DEF Timeout
  <2>2. CASE \E ok \in BOOLEAN : UwbAttempt(ok)
    BY <2>2, BootAssumption DEF UwbAttempt, At
  <2>3. CASE Configure
    <3>1. Read \in Names \cup {Default}
      BY DEF Read
    <3>2. QED BY <2>3, <3>1 DEF Configure, At
  <2>4. CASE \E ok \in BOOLEAN : Strip(ok) \/ Ble(ok)
    BY <2>4 DEF Strip, Ble, At
  <2>5. CASE \E ok \in BOOLEAN : StorageInit(ok) \/ StartBootGuard(ok)
    BY <2>1, <2>5 DEF StorageInit, StartBootGuard, At
  <2>6. CASE StartThreads \/ RunFeeder
    BY <2>1, <2>6 DEF StartThreads, RunFeeder, At
  <2>7. QED BY <2>2, <2>3, <2>4, <2>5, <2>6 DEF MainNext
<1>2. QED BY <1>0, <1>1

LEMMA QuietStep ==
  ASSUME IInv,
         \/ Hang \/ Feed \/ Tick
         \/ \E n \in Names \cup {Foreign} : PhoneWrites(n)
         \/ \E written \in BOOLEAN : OnNfcWrite(written)
  PROVE  IInv'
<1> USE DEF IInv, TypeOK, HalfWritten, RecordWhole, OwnCause, FlashHasKept,
            main, fault, resets, nfc
<1>1. CASE Hang BY <1>1 DEF Hang
<1>2. CASE Feed BY <1>2 DEF Feed, Timeout
<1>3. CASE Tick BY <1>3 DEF Tick, Timeout
<1>4. ASSUME NEW n \in Names \cup {Foreign}, PhoneWrites(n) PROVE IInv'
  BY <1>4 DEF PhoneWrites
<1>5. ASSUME NEW written \in BOOLEAN, OnNfcWrite(written) PROVE IInv'
  BY <1>5, BootAssumption DEF OnNfcWrite, Extracted
<1>6. QED BY <1>1, <1>2, <1>3, <1>4, <1>5

-----------------------------------------------------------------------------
(* The fatal handler.                                                      *)

LEMMA WriteFieldStep == ASSUME IInv, WriteField PROVE IInv'
<1> USE DEF IInv
<1>1. writing \in 1..5 /\ writing' = writing + 1 /\ state' = "faulted"
  BY OrderFacts DEF WriteField, HalfWritten
<1>2. PICK f \in Field : f = Order[writing]
  BY <1>1, OrderFacts
<1>3. record' = [record EXCEPT ![f] = nth] /\ nth' = nth /\ torn' = torn
  BY <1>2 DEF WriteField
<1>4. /\ record' \in Records /\ record'.valid = record.valid
      /\ record'[f] = nth
      /\ \A g \in Field \ {f} : record'[g] = record[g]
  BY <1>3 DEF Records, Field, TypeOK, Faults
<1>5. \A g \in Field : record'[g] \in Faults \cup {0}
  BY <1>4 DEF TypeOK
<1>6. TypeOK'
  BY <1>1, <1>4, <1>5, OrderFacts DEF TypeOK, WriteField, main, nfc, resets
<1>7. HalfWritten'
  <2>1. ASSUME NEW i \in 1..5, i < writing + 1 PROVE record'[Order[i]] = nth
    <3>1. CASE Order[i] = f BY <3>1, <1>4
    <3>2. CASE Order[i] # f
      BY <3>2, <2>1, <1>1, <1>2, <1>4, OrderFacts DEF HalfWritten, WriteField
    <3>3. QED BY <3>1, <3>2
  <2>2. record'.valid => torn'
    BY <1>3, <1>4 DEF HalfWritten, WriteField
  <2>3. writing' \in 1..6 BY <1>1
  <2>4. QED BY <1>1, <1>3, <2>1, <2>2, <2>3, OrderFacts DEF HalfWritten
<1>8. RecordWhole'
  BY <1>3, <1>4 DEF RecordWhole, HalfWritten, WriteField
<1>9. OwnCause' /\ resetreas' = {} /\ FlashHasKept'
  BY DEF WriteField, OwnCause, FlashHasKept, nfc, resets
<1>10. QED BY <1>4, <1>6, <1>7, <1>8, <1>9

LEMMA WriteMagicStep == ASSUME IInv, WriteMagic PROVE IInv'
<1> USE DEF IInv
<1>1. /\ record' = [record EXCEPT !.valid = TRUE]
      /\ state' = "halted" /\ writing' = 0 /\ torn' = FALSE /\ nth' = nth
  BY DEF WriteMagic
<1>2. /\ record' \in Records /\ record'.valid = TRUE
      /\ \A g \in Field : record'[g] = record[g]
  BY <1>1 DEF Records, Field
<1>3. \A g \in Field : record[g] = nth
  <2>1. \A i \in 1..5 : record[Order[i]] = nth
    BY OrderFacts DEF WriteMagic, HalfWritten
  <2>2. QED BY <2>1, OrderFacts
<1>4. RecordWhole'
  <2>1. record'.reason = nth /\ nth \in Faults
    BY <1>2, <1>3 DEF Field, TypeOK
  <2>2. QED BY <2>1, <1>2, <1>3 DEF RecordWhole
<1>5. TypeOK'
  <2>1. writing' \in 0..(Len(Order) + 1) BY <1>1, OrderFacts
  <2>2. \A g \in Field : record'[g] \in Faults \cup {0}
    BY <1>2 DEF TypeOK
  <2>3. {torn', record'.valid} \subseteq BOOLEAN BY <1>1, <1>2
  <2>4. QED BY <1>1, <2>1, <2>2, <2>3 DEF TypeOK, WriteMagic, main, nfc, resets
<1>6. HalfWritten' BY <1>1 DEF HalfWritten
<1>7. OwnCause' /\ resetreas' = {} /\ FlashHasKept'
  BY DEF WriteMagic, OwnCause, FlashHasKept, nfc, resets
<1>8. QED BY <1>2, <1>4, <1>5, <1>6, <1>7

LEMMA FaultStep == ASSUME IInv, FaultRaised \/ FaultClear PROVE IInv'
<1> USE DEF IInv
<1>1. CASE FaultRaised
  <2>1. /\ state' = "faulted" /\ writing' = 1 /\ torn' = record.valid
        /\ record' = record /\ nth' = 3 - nth
    BY <1>1 DEF FaultRaised
  <2>2. nth' \in Faults BY <2>1 DEF TypeOK, Faults
  <2>3. TypeOK'
    BY <1>1, <2>1, <2>2, OrderFacts DEF TypeOK, FaultRaised, main, nfc, resets
  <2>4. HalfWritten' BY <2>1, OrderFacts DEF HalfWritten
  <2>5. RecordWhole' BY <2>1 DEF RecordWhole
  <2>6. QED BY <1>1, <2>1, <2>3, <2>4, <2>5
            DEF FaultRaised, OwnCause, FlashHasKept, nfc, resets
<1>2. CASE FaultClear
  <2>1. /\ record' = [record EXCEPT !.valid = FALSE] /\ state' = "runs"
        /\ UNCHANGED <<cal, main, writing, nth, torn, nfc, resets>>
    BY <1>2 DEF FaultClear
  <2>2. /\ record' \in Records /\ record'.valid = FALSE
        /\ \A g \in Field : record'[g] = record[g]
    BY <2>1 DEF Records, Field
  <2>3. TypeOK' BY <2>1, <2>2 DEF TypeOK, main, nfc, resets
  <2>4. QED BY <2>1, <2>2, <2>3
            DEF RecordWhole, HalfWritten, OwnCause, FlashHasKept, nfc, resets
<1>3. QED BY <1>1, <1>2

-----------------------------------------------------------------------------
(* A reset: the register had been cleared, so it brings its own bit only.  *)

LEMMA ResetStep ==
  ASSUME IInv, WatchdogFires \/ PinReset \/ PowerCycle
  PROVE  IInv'
<1> USE DEF IInv
<1>1. /\ pc' = "strip" /\ tries' = Attempts /\ state' = "runs" /\ writing' = 0
      /\ mounted' = FALSE /\ guarded' = FALSE /\ feeding' = FALSE /\ unfed' = 0
      /\ name' = Default /\ ndef' = Default
      /\ UNCHANGED <<cal, nth, stored, kept>>
  BY DEF WatchdogFires, PinReset, PowerCycle, Restart
<1>2. /\ resetreas' = {} /\ reason' = {cause'} \ {"power"}
      /\ reason' \subseteq {"pin", "dog", "soft"}
  BY DEF WatchdogFires, PinReset, PowerCycle, Restart, Latch
<1>3. \/ record' = record /\ torn' = torn
      \/ record' = Blank /\ torn' = FALSE
  BY DEF WatchdogFires, PinReset, PowerCycle
<1>4. /\ record' \in Records /\ torn' \in BOOLEAN
      /\ \A f \in Field : record'[f] \in Faults \cup {0}
      /\ RecordWhole'
  <2>1. CASE record' = record /\ torn' = torn
    BY <2>1 DEF TypeOK, RecordWhole
  <2>2. CASE record' = Blank /\ torn' = FALSE
    <3>1. Blank \in Records /\ Blank.valid = FALSE
      BY DEF Blank, Records
    <3>2. \A f \in Field : Blank[f] = 0
      BY DEF Blank, Field
    <3>3. QED BY <2>2, <3>1, <3>2 DEF RecordWhole
  <2>3. QED BY <1>3, <2>1, <2>2
<1>5. record'.valid \in BOOLEAN BY <1>4 DEF Records
<1>6. TypeOK'
  <2>1. 0 \in 0..Timeout /\ Attempts \in 0..Attempts /\ 0 \in 0..(Len(Order) + 1)
    BY OrderFacts, BootAssumption DEF Timeout
  <2>2. {cal', mounted', guarded', feeding', torn', record'.valid} \subseteq BOOLEAN
    BY <1>1, <1>4, <1>5 DEF TypeOK
  <2>3. QED BY <1>1, <1>2, <1>4, <2>1, <2>2 DEF TypeOK
<1>7. HalfWritten' BY <1>1 DEF HalfWritten
<1>8. OwnCause' /\ FlashHasKept'
  BY <1>1, <1>2 DEF OwnCause, FlashHasKept
<1>9. QED BY <1>2, <1>4, <1>6, <1>7, <1>8

-----------------------------------------------------------------------------
\* The invariant the theorems rest on holds throughout.
THEOREM Inductive == Spec => []IInv
<1>1. Init => IInv BY InitIInv
<1>2. ASSUME IInv, [Next]_vars PROVE IInv'
  <2>1. CASE UNCHANGED vars
    BY <1>2, <2>1 DEF IInv, TypeOK, HalfWritten, RecordWhole, OwnCause,
       FlashHasKept, vars, main, fault, nfc, resets
  <2>2. CASE Next
    BY <1>2, <2>2, MainStep, QuietStep, WriteFieldStep, WriteMagicStep,
       FaultStep, ResetStep DEF Next
  <2>3. QED BY <1>2, <2>1, <2>2
<1>3. QED BY <1>1, <1>2, PTL DEF Spec

\* Whatever resets the tag, and wherever it cuts the fatal handler short, the
\* record the next boot finds valid is of one fault unless the handler went over
\* a valid one, and the reason it reports is that of its own reset alone.
THEOREM RecordSurvives == Spec => []Retained
<1>1. IInv => Retained BY DEF IInv, Retained
<1>2. QED BY <1>1, Inductive, PTL

\* A production boot that finds its flash has the last name that was taken from
\* the phone and written, however many resets came in between.
THEOREM NameOutlivesReset == Spec => NameKept
<1>1. ASSUME IInv, [Next]_vars
      PROVE  [Configure /\ ~cal /\ mounted => name' = kept]_vars
  BY <1>1 DEF Configure, Read, IInv, FlashHasKept
<1>2. QED BY <1>1, Inductive, PTL DEF Spec, NameKept
=============================================================================
