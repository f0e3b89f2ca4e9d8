-------------------------------- MODULE Boot --------------------------------
(***************************************************************************)
(* From reset to a running tag: the order of src/src/main.c, the attempts  *)
(* of src/src/uwb.c, the watchdog and the records of src/src/wdt.c that    *)
(* outlive a reset, and the name of src/src/nfc_tag.c that flash keeps     *)
(* through src/src/storage.c.  A tick is a third of WDT_TIMEOUT_MS, the    *)
(* period of the feeder; the steps of main() take no time.                 *)
(***************************************************************************)
EXTENDS Integers, Sequences

CONSTANTS Names,      \* what a phone may write
          Default,    \* "User name"
          Foreign,    \* a record the tag does not accept
          Attempts    \* uwb_init()'s max_retries

ASSUME BootAssumption == /\ {Default, Foreign, "none"} \cap Names = {}
                         /\ Default # Foreign
                         /\ Attempts \in Nat \ {0}

Timeout == 3          \* WDT_TIMEOUT_MS, in ticks

VARIABLES cal,        \* the calibration image
          pc,         \* how far main() is
          tries,      \* attempts left of uwb_init()
          mounted,    \* fs_ready
          guarded,    \* wdt_channel is valid
          feeding,    \* the feeder thread runs
          unfed,      \* ticks since the watchdog was fed
          state,      \* the processor
          resetreas,  \* RESETREAS, sticky
          reason,     \* reset_reason
          record,     \* fault_rec, in retained RAM
          writing,    \* the field the fatal handler writes next
          stored,     \* the name in NVS
          name,       \* current_name
          ndef,       \* what ndef_buf holds
          nth,        \* which fault is the last one
          torn,       \* its handler goes over a valid record
          cause,      \* of the last reset
          kept        \* the last accepted name that was written

main == <<pc, tries, mounted, guarded, feeding, unfed>>
fault == <<record, writing, nth, torn>>
nfc == <<stored, name, ndef, kept>>
resets == <<resetreas, reason, cause>>
vars == <<cal, main, state, fault, nfc, resets>>

Field == {"reason", "pc", "lr", "bfar", "thread"}
Order == <<"reason", "pc", "lr", "bfar", "thread">>
Faults == {1, 2}

TypeOK == /\ {cal, mounted, guarded, feeding, torn, record.valid} \subseteq BOOLEAN
          /\ pc \in {"strip", "ble", "storage", "guard", "uwb", "config", "start",
                     "feeder", "up", "failed", "stopped"}
          /\ tries \in 0..Attempts /\ unfed \in 0..Timeout
          /\ state \in {"runs", "hangs", "faulted", "halted"}
          /\ resetreas \cup reason \subseteq {"pin", "dog", "soft"}
          /\ \A f \in Field : record[f] \in Faults \cup {0}
          /\ nth \in Faults /\ writing \in 0..(Len(Order) + 1)
          /\ stored \in Names \cup {"none"}
          /\ name \in Names \cup {Default}
          /\ ndef \in Names \cup {Default, Foreign}

Blank == [valid |-> FALSE, reason |-> 0, pc |-> 0, lr |-> 0, bfar |-> 0,
          thread |-> 0]

Init == /\ cal \in BOOLEAN
        /\ pc = "strip" /\ tries = Attempts
        /\ mounted = FALSE /\ guarded = FALSE /\ feeding = FALSE /\ unfed = 0
        /\ state = "runs"
        /\ resetreas = {} /\ reason = {} /\ cause = "power"
        /\ record = Blank /\ writing = 0 /\ nth = 1 /\ torn = FALSE
        /\ stored = "none" /\ name = Default /\ ndef = Default /\ kept = Default

-----------------------------------------------------------------------------
(* main()                                                                  *)

At(step) == /\ state = "runs" /\ pc = step
            /\ UNCHANGED <<cal, state, fault, resets>>
Goto(step) == pc' = step
Wdt == <<guarded, feeding, unfed>>

\* No LED strip, or no BLE: main() sleeps for good, nothing is armed yet.
Strip(ok) == /\ At("strip")
             /\ Goto(IF ok THEN "ble" ELSE "stopped")
             /\ UNCHANGED <<tries, mounted, Wdt, nfc>>

Ble(ok) == /\ At("ble")
           /\ Goto(IF ok THEN "storage" ELSE "stopped")
           /\ UNCHANGED <<tries, mounted, Wdt, nfc>>

\* Without flash every storage call returns an error, and the tag goes on.
StorageInit(ok) == /\ At("storage")
                   /\ mounted' = ok
                   /\ Goto("guard")
                   /\ UNCHANGED <<tries, Wdt, nfc>>

\* Mutation: the feeder starts with the guard.
StartBootGuard_Fed(ok) == /\ At("guard")
                          /\ guarded' = ok /\ unfed' = 0 /\ feeding' = ok
                          /\ Goto("uwb")
                          /\ UNCHANGED <<tries, mounted, nfc>>

StartBootGuard(ok) == /\ At("guard")
                      /\ guarded' = ok /\ unfed' = 0
                      /\ Goto("uwb")
                      /\ UNCHANGED <<tries, mounted, feeding, nfc>>

\* uwb_init(): a probe, the driver's initialisation or its configuration fails.
UwbAttempt(ok) ==
    /\ At("uwb") /\ tries > 0
    /\ IF ok THEN Goto("config") /\ UNCHANGED tries
       ELSE /\ tries' = tries - 1
            /\ Goto(IF tries = 1 THEN "failed" ELSE "uwb")
    /\ UNCHANGED <<mounted, Wdt, nfc>>

Read == IF mounted /\ stored # "none" THEN stored ELSE Default

\* nfc_tag_init(), in the production image.
Configure == /\ At("config")
             /\ IF cal THEN UNCHANGED nfc
                ELSE /\ name' = Read /\ ndef' = Read
                     /\ UNCHANGED <<stored, kept>>
             /\ Goto("start")
             /\ UNCHANGED <<tries, mounted, Wdt>>

StartThreads == /\ At("start")
                /\ Goto("feeder")
                /\ UNCHANGED <<tries, mounted, Wdt, nfc>>

RunFeeder == /\ At("feeder")
             /\ feeding' = guarded /\ unfed' = 0
             /\ Goto("up")
             /\ UNCHANGED <<tries, mounted, guarded, nfc>>

MainNext == \/ \E ok \in BOOLEAN : \/ Strip(ok) \/ Ble(ok) \/ StorageInit(ok)
                                   \/ StartBootGuard(ok) \/ UwbAttempt(ok)
            \/ Configure \/ StartThreads \/ RunFeeder

-----------------------------------------------------------------------------
(* Hangs and faults                                                        *)

\* A loop without end: the bring-up waits for the DW3000, or a thread above the
\* feeder never sleeps.
Hang == /\ state = "runs" /\ pc # "stopped"
        /\ state' = "hangs"
        /\ UNCHANGED <<cal, main, fault, nfc, resets>>

\* k_sys_fatal_error_handler(), field by field; the magic word comes last.
FaultRaised == /\ state = "runs" /\ pc # "stopped"
               /\ state' = "faulted"
               /\ nth' = 3 - nth
               /\ torn' = record.valid
               /\ writing' = 1
               /\ UNCHANGED <<cal, main, record, nfc, resets>>

\* Mutation: the magic word is written with the first field.
WriteField_MagicFirst ==
    /\ state = "faulted" /\ writing <= Len(Order)
    /\ record' = [record EXCEPT ![Order[writing]] = nth, !.valid = TRUE]
    /\ writing' = writing + 1
    /\ UNCHANGED <<cal, main, state, nth, torn, nfc, resets>>

WriteField == /\ state = "faulted" /\ writing <= Len(Order)
              /\ record' = [record EXCEPT ![Order[writing]] = nth]
              /\ writing' = writing + 1
              /\ UNCHANGED <<cal, main, state, nth, torn, nfc, resets>>

WriteMagic == /\ state = "faulted" /\ writing > Len(Order)
              /\ record' = [record EXCEPT !.valid = TRUE]
              /\ writing' = 0 /\ torn' = FALSE
              /\ state' = "halted"
              /\ UNCHANGED <<cal, main, nth, nfc, resets>>

\* The command "fault clear".
FaultClear == /\ state = "runs" /\ pc = "up" /\ record.valid
              /\ record' = [record EXCEPT !.valid = FALSE]
              /\ UNCHANGED <<cal, main, state, writing, nth, torn, nfc, resets>>

-----------------------------------------------------------------------------
(* Resets and the watchdog                                                 *)

\* Mutation: the register is read and left as it is.
Latch_Sticky(c) == resetreas' = resetreas \cup c /\ reason' = resetreas \cup c

\* The hardware adds a bit; reset_reason_latch() takes them all and clears.
Latch(c) == resetreas' = {} /\ reason' = resetreas \cup c

Restart(c, bits) ==
    /\ pc' = "strip" /\ tries' = Attempts
    /\ mounted' = FALSE /\ guarded' = FALSE /\ feeding' = FALSE /\ unfed' = 0
    /\ state' = "runs" /\ writing' = 0
    /\ cause' = c /\ Latch(bits)
    /\ UNCHANGED <<cal, nth, stored, kept>>
    /\ name' = Default /\ ndef' = Default

\* The channel runs out while the kernel's timers run: task_wdt reboots.  Once
\* the kernel has halted, the hardware watchdog behind it bites.
WatchdogFires ==
    /\ guarded
    /\ \/ /\ state \in {"runs", "hangs"} /\ unfed = Timeout
          /\ Restart("soft", {"soft"})
       \/ state = "halted" /\ Restart("dog", {"dog"})
    /\ UNCHANGED <<record, torn>>

PinReset == /\ state # "runs" \/ pc \in {"up", "failed", "stopped"}
            /\ Restart("pin", {"pin"})
            /\ UNCHANGED <<record, torn>>

\* RAM is lost, the register is clear.
PowerCycle == /\ state # "runs" \/ pc \in {"up", "failed", "stopped"}
              /\ resetreas' = {} /\ reason' = {} /\ cause' = "power"
              /\ pc' = "strip" /\ tries' = Attempts
              /\ mounted' = FALSE /\ guarded' = FALSE /\ feeding' = FALSE
              /\ unfed' = 0 /\ state' = "runs" /\ writing' = 0
              /\ record' = Blank /\ torn' = FALSE
              /\ name' = Default /\ ndef' = Default
              /\ UNCHANGED <<cal, nth, stored, kept>>

\* wdt_feed_fn(), once a tick and at most a tick late.
Feed == /\ feeding /\ state = "runs" /\ unfed > 0
        /\ unfed' = 0
        /\ UNCHANGED <<cal, pc, tries, mounted, guarded, feeding, state, fault,
                       nfc, resets>>

Tick == /\ \/ state = "hangs"
           \/ state = "runs" /\ pc \in {"up", "failed"}
        /\ guarded /\ unfed < Timeout
        /\ feeding /\ state = "runs" => unfed < 2
        /\ unfed' = unfed + 1
        /\ UNCHANGED <<cal, pc, tries, mounted, guarded, feeding, state, fault,
                       nfc, resets>>

-----------------------------------------------------------------------------
(* The NFC tag                                                             *)

\* The phone overwrites the buffer the tag serves; the callback comes after.
PhoneWrites(n) == /\ state = "runs" /\ pc = "up" /\ ~cal
                  /\ ndef' = n
                  /\ UNCHANGED <<cal, main, state, fault, resets, stored, name, kept>>

\* Mutation: encode_name() runs before the name is copied out of its buffer.
Extracted_Late == name

Extracted == ndef

\* on_nfc_write(): what is not a text record is left where the phone put it.
OnNfcWrite(written) ==
    /\ state = "runs" /\ pc = "up" /\ ~cal
    /\ ndef \in Names
    /\ name' = Extracted /\ ndef' = Extracted
    /\ IF mounted /\ written THEN stored' = Extracted /\ kept' = ndef
       ELSE UNCHANGED <<stored, kept>>
    /\ UNCHANGED <<cal, main, state, fault, resets>>

-----------------------------------------------------------------------------

Next == \/ MainNext \/ Hang \/ FaultRaised \/ WriteField \/ WriteMagic \/ FaultClear
        \/ WatchdogFires \/ PinReset \/ PowerCycle \/ Feed \/ Tick
        \/ \E n \in Names \cup {Foreign} : PhoneWrites(n)
        \/ \E written \in BOOLEAN : OnNfcWrite(written)

Spec == Init /\ [][Next]_vars

\* Threads run, time passes, and hardware counts.
Fairness == /\ WF_vars(MainNext) /\ WF_vars(WriteField) /\ WF_vars(WriteMagic)
            /\ WF_vars(Feed) /\ WF_vars(Tick) /\ WF_vars(WatchdogFires)

FairSpec == Spec /\ Fairness

-----------------------------------------------------------------------------
(* Properties *)

\* Wherever the tag hangs, crashes or gives its radio up once the boot guard is
\* armed, it comes back; nothing feeds a dead tag.
Recovers == guarded /\ (state # "runs" \/ pc = "failed") ~> (pc = "strip")

\* The record a boot finds is of one fault from the first field to the last,
\* also when a reset cut its handler short; over a record that was still valid
\* the handler can leave a mixture.
RecordWhole == record.valid /\ ~torn =>
                  \A f \in Field : record[f] \in Faults /\ record[f] = record.reason

\* wdt.h:25: "each boot reports its own cause".
OwnCause == reason = {cause} \ {"power"}

\* What a boot may read of the time before it.
Retained == TypeOK /\ RecordWhole /\ OwnCause

\* A name the tag took and wrote is the one it has after the next boot that
\* finds its flash.
NameKept == [][Configure /\ ~cal /\ mounted => name' = kept]_vars
=============================================================================
