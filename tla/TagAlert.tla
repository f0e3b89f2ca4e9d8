------------------------------ MODULE TagAlert ------------------------------
(***************************************************************************)
(* A HELP from the button to the gateway's latch: src/src/tag_alert_core.c *)
(* (the state), tag_alert.c (the mutex and the NVS record), the runner's   *)
(* alert block (uwb_net_runner.c) and alert_relay.c's latch at the far     *)
(* end.  The UI thread and the runner share the state, and the runner's    *)
(* block is three separate critical sections with a transmission between   *)
(* the last two.                                                           *)
(***************************************************************************)
EXTENDS AlertLatch

CONSTANTS CancelRepeats, \* ALERT_CANCEL_REPEATS
          StartEpoch,    \* the epoch of the last raise of earlier days
          MaxRaises      \* bound: raises from there on

ASSUME AlertAssumption == /\ CancelRepeats \in Nat \ {0}
                          /\ StartEpoch \in Epoch
                          /\ MaxRaises \in Nat
                          /\ 2 * MaxRaises < EpochMod

VARIABLES core,   \* struct tag_alert_core; due: now_ms has reached next_tx_ms
          nvs,    \* the record in storage id 3
          runner, \* where the runner is in its alert block
          frame,  \* the frame it has built
          air,    \* frames that may still reach the gateway, in any order
          latch,  \* the gateway's entry for this tag
          cleared \* epochs whose CANCEL the gateway has seen

vars == <<core, nvs, runner, frame, air, latch, cleared>>

Core == [state : {"OFF", "HELP", "CANCELLING"}, epoch : Epoch,
         left : 0..CancelRepeats, due : BOOLEAN]

TypeOK == /\ core \in Core
          /\ nvs \in [epoch : Epoch, active : BOOLEAN]
          /\ runner \in {"listening", "chosen", "built", "sent"}
          /\ frame \in AlertFrame
          /\ air \subseteq AlertFrame
          /\ latch \in LatchEntry
          /\ cleared \subseteq Epoch

\* tag_alert_core_init()
CoreInit(e) == [state |-> "OFF", epoch |-> e, left |-> 0, due |-> FALSE]

Init == /\ core = CoreInit(StartEpoch)
        /\ nvs = [epoch |-> StartEpoch, active |-> FALSE]
        /\ runner = "listening"
        /\ frame = HelpFrame(StartEpoch)
        /\ air = {}
        /\ latch = LatchInit
        /\ cleared = {}

-----------------------------------------------------------------------------
(* The UI thread: each call is one section of alert_mtx.                   *)

\* alert_persist_locked()
Record(c) == [epoch |-> c.epoch, active |-> c.state = "HELP"]

RaisedSoFar == (core.epoch - StartEpoch) % EpochMod

\* Mutation: the epoch does not wrap.
Raise_Wide ==
    /\ core.state # "HELP"
    /\ RaisedSoFar < MaxRaises
    /\ core' = [core EXCEPT !.state = "HELP", !.due = TRUE, !.epoch = @ + 1]
    /\ nvs' = Record(core')
    /\ UNCHANGED <<runner, frame, air, latch, cleared>>

\* Mutation: the new epoch is not written down.
Raise_Volatile ==
    /\ core.state # "HELP"
    /\ RaisedSoFar < MaxRaises
    /\ core' = [core EXCEPT !.state = "HELP", !.due = TRUE,
                            !.epoch = (@ + 1) % EpochMod]
    /\ UNCHANGED <<nvs, runner, frame, air, latch, cleared>>

\* Mutation: a HELP after a CANCEL keeps the epoch.
Raise_SameEpoch ==
    /\ core.state # "HELP"
    /\ core' = [core EXCEPT !.state = "HELP", !.due = TRUE]
    /\ nvs' = Record(core')
    /\ UNCHANGED <<runner, frame, air, latch, cleared>>

\* A double press.  In HELP it changes nothing.
Raise ==
    /\ core.state # "HELP"
    /\ RaisedSoFar < MaxRaises
    /\ core' = [core EXCEPT !.state = "HELP", !.due = TRUE,
                            !.epoch = (@ + 1) % EpochMod]
    /\ nvs' = Record(core')
    /\ UNCHANGED <<runner, frame, air, latch, cleared>>

\* Mutation: the record is cleared before any CANCEL is sent.
Cancel_Recorded ==
    /\ core.state = "HELP"
    /\ core' = [core EXCEPT !.state = "CANCELLING", !.due = TRUE,
                            !.left = CancelRepeats]
    /\ nvs' = Record(core')
    /\ UNCHANGED <<runner, frame, air, latch, cleared>>

\* A long press: the CANCEL names the epoch it cancels, and the record still
\* says active until the cancel sequence is complete.
Cancel ==
    /\ core.state = "HELP"
    /\ core' = [core EXCEPT !.state = "CANCELLING", !.due = TRUE,
                            !.left = CancelRepeats]
    /\ UNCHANGED <<nvs, runner, frame, air, latch, cleared>>

\* Mutation: only a CANCEL is repeated.
RepeatDue_CancelOnly ==
    /\ core.state = "CANCELLING"
    /\ ~core.due
    /\ core' = [core EXCEPT !.due = TRUE]
    /\ UNCHANGED <<nvs, runner, frame, air, latch, cleared>>

\* ALERT_REPEAT_MS have passed.
RepeatDue ==
    /\ core.state # "OFF"
    /\ ~core.due
    /\ core' = [core EXCEPT !.due = TRUE]
    /\ UNCHANGED <<nvs, runner, frame, air, latch, cleared>>

-----------------------------------------------------------------------------
(* The runner's alert block.                                               *)

\* ev.alert_pending is tag_alert_active(): HELP only.
AlertPending == core.state = "HELP"

\* The event gave the state machine an occasion to send.
Choose ==
    /\ runner = "listening"
    /\ AlertPending
    /\ runner' = "chosen"
    /\ UNCHANGED <<core, nvs, frame, air, latch, cleared>>

\* tag_alert_frame_due(): a frame of what the state is by now.
FrameDue ==
    /\ runner = "chosen"
    /\ IF core.state # "OFF" /\ core.due
       THEN /\ runner' = "built"
            /\ frame' = [help |-> core.state = "HELP", epoch |-> core.epoch]
       ELSE runner' = "listening" /\ UNCHANGED frame
    /\ UNCHANGED <<core, nvs, air, latch, cleared>>

\* uwb_radio_tx_cap(): its result is not looked at.
Transmit(ok) ==
    /\ runner = "built"
    /\ runner' = "sent"
    /\ air' = IF ok THEN air \cup {frame} ELSE air
    /\ UNCHANGED <<core, nvs, frame, latch, cleared>>

\* tag_alert_sent() counts against the state of now, not of the frame's time.
AfterSent(c) ==
    IF c.state # "CANCELLING" THEN [c EXCEPT !.due = FALSE]
    ELSE [c EXCEPT !.due = FALSE, !.left = @ - 1,
                   !.state = IF c.left = 1 THEN "OFF" ELSE @]

Sent ==
    /\ runner = "sent"
    /\ runner' = "listening"
    /\ core' = AfterSent(core)
    /\ nvs' = IF core.state = "CANCELLING" /\ core'.state = "OFF"
              THEN Record(core') ELSE nvs
    /\ UNCHANGED <<frame, air, latch, cleared>>

-----------------------------------------------------------------------------
(* Reset, network and gateway                                              *)

\* tag_alert_init(): a HELP that stood is resumed at its own epoch.
Reboot ==
    /\ core' = [CoreInit(nvs.epoch) EXCEPT
                  !.due = nvs.active,
                  !.state = IF nvs.active THEN "HELP" ELSE "OFF"]
    /\ runner' = "listening"
    /\ frame' = HelpFrame(StartEpoch)
    /\ UNCHANGED <<nvs, air, latch, cleared>>

\* The flood may deliver a frame late, out of order and more than once, but not
\* after one of a later epoch: it is over long before an operator has cancelled
\* one HELP and raised the next.
Outdated(f) == latch.haveEpoch /\ Newer(latch.epoch, f.epoch)

Deliver(f) ==
    /\ f \in air
    /\ ~Outdated(f)
    /\ latch' = LatchApply(latch, f)
    /\ cleared' = IF f.help THEN cleared ELSE cleared \cup {f.epoch}
    /\ UNCHANGED <<core, nvs, runner, frame, air>>

\* The last copy of a frame is gone.
Fade(f) ==
    /\ f \in air
    /\ air' = air \ {f}
    /\ UNCHANGED <<core, nvs, runner, frame, latch, cleared>>

UINext == Raise \/ Cancel
RunnerNext == Choose \/ FrameDue \/ Sent \/ \E ok \in BOOLEAN : Transmit(ok)
AirNext == \E f \in air : Deliver(f) \/ Fade(f)

Next == UINext \/ RepeatDue \/ RunnerNext \/ Reboot \/ AirNext

Spec == Init /\ [][Next]_vars

\* The clock runs; the runner is never held up, and gets an occasion to send
\* again and again (in SCAN at every probe, else at every beacon); not every
\* transmission and not every flood fails.
Fairness == /\ WF_vars(RepeatDue)
            /\ WF_vars(Choose)
            /\ WF_vars(FrameDue)
            /\ SF_vars(Transmit(TRUE))
            /\ WF_vars(\E ok \in BOOLEAN : Transmit(ok))
            /\ WF_vars(Sent)
            /\ SF_vars(Deliver(HelpFrame(core.epoch)))

FairSpec == Spec /\ Fairness

-----------------------------------------------------------------------------
(* Properties *)

\* No frame carries an epoch that is not in the record, so no reset can make
\* the tag raise a new HELP under an epoch the gateway has met before.
EpochOnRecord ==
    /\ core.epoch = nvs.epoch
    /\ \A f \in air \cup {frame} : ~Newer(f.epoch, nvs.epoch)
    /\ latch.haveEpoch => ~Newer(latch.epoch, nvs.epoch)

\* The epochs of tag_alert.c, of every frame in the air and of the gateway's latch
\* are never ahead of the record in flash, so no reset can use one again.
EpochSound == TypeOK /\ EpochOnRecord

\* A HELP pressed anew is news to the gateway: it is never taken for a stale
\* copy, whatever was cancelled, lost or reordered before.
NewHelpIsNews == [][Raise => Raises(latch, core'.epoch)]_vars

\* A reset resumes a HELP exactly when one stood or its CANCEL was not complete,
\* and at the same epoch (the comment on struct alert_nvs_record).
ResetKeepsHelp ==
    [][Reboot => /\ core'.state = "HELP" <=> core.state # "OFF"
                 /\ core'.epoch = core.epoch]_vars

\* "a stale in-flight HELP re-latching an alert the user already cancelled"
\* (design 3): an epoch the gateway has seen cancelled is never raised again.
NeverRelatched ==
    [][~latch.active /\ latch'.active => latch'.epoch \notin cleared]_vars

\* A standing HELP is latched in the end and stays so, through lost frames and
\* failed transmissions, unless its own CANCEL has got through or the tag never
\* stops resetting.
HelpLatched ==
    \/ []<><<Reboot>>_vars
    \/ <>[](core.state = "HELP" /\ core.epoch \notin cleared)
         => <>[](latch.active /\ latch.epoch = core.epoch)
=============================================================================
