------------------------------ MODULE RunnerWake ------------------------------
(***************************************************************************)
(* How the MAC runner sleeps and what wakes it: the wake semaphore and the *)
(* sticky flag of uwb_net_runner.c, given by the button (tag_alert.c) and  *)
(* by the accelerometer's interrupt (uwb_ss_initiator.c), against the      *)
(* runner's loop, and the ladder of coverage probes (scan_backoff_core.c). *)
(* The network state is SCAN, JOINING or SYNC (DISCOVER and RANGING); what *)
(* the exchanges of a superframe do to it is the business of TagMac.       *)
(***************************************************************************)
EXTENDS Integers

CONSTANTS Rungs,     \* SCAN_BACKOFF_RUNGS
          QuietRung  \* SCAN_QUIET_RUNG

ASSUME LadderAssumption == Rungs \in Nat /\ QuietRung \in 1..(Rungs - 1)

VARIABLES pc,      \* where the runner is in its loop
          net,     \* ctx.state
          act,     \* the action word: of it, JOIN, DISCOVER, SWEEP, SLEEP
          fast,    \* ctx.tier is FAST
          asleep,  \* radio_asleep
          locked,  \* the beacon predictors have a lock
          wide,    \* the window to come is a full superframe
          sem,     \* runner_wake, a binary semaphore
          force,   \* force_full_window
          help,    \* tag_alert_active()
          news,    \* it has changed since the runner last read it
          ui,      \* where the UI thread is in tag_alert_raise() or _cancel()
          moving,  \* motion_moving
          edge,    \* motion_edge
          rung,    \* backoff.rung
          pinned   \* backoff.alert_pinned

predict == <<net, fast, asleep, locked>>
wake == <<sem, force>>
alert == <<help, news>>
motion == <<moving, edge>>
ladder == <<rung, pinned>>
vars == <<pc, predict, act, wide, wake, alert, ui, motion, ladder>>

TypeOK ==
    /\ pc \in {"top", "lent", "tier", "plan", "wait", "listen", "exchange"}
    /\ net \in {"SCAN", "JOINING", "SYNC"}
    /\ ui \in {"idle", "changed", "forced"}
    /\ rung \in 0..(Rungs - 1)
    /\ act \subseteq {"SEND_JOIN", "RUN_DISCOVER", "RUN_SWEEP", "SLEEP"}
    /\ fast \in BOOLEAN /\ asleep \in BOOLEAN /\ locked \in BOOLEAN
    /\ wide \in BOOLEAN /\ sem \in BOOLEAN /\ force \in BOOLEAN
    /\ help \in BOOLEAN /\ news \in BOOLEAN /\ pinned \in BOOLEAN
    /\ moving \in BOOLEAN /\ edge \in BOOLEAN

\* A HELP may be resumed from its record at boot (tag_alert_init()), and the
\* accelerometer is read once (motion.c).
Init == /\ pc = "top"
        /\ net = "SCAN"
        /\ act = {}
        /\ fast = TRUE
        /\ asleep = FALSE
        /\ locked = FALSE
        /\ wide = TRUE
        /\ sem = FALSE
        /\ force = FALSE
        /\ help \in BOOLEAN
        /\ news = help
        /\ ui = "idle"
        /\ moving \in BOOLEAN
        /\ edge = TRUE
        /\ rung = 0
        /\ pinned = FALSE

-----------------------------------------------------------------------------
(* The sources of a wake                                                   *)

\* tag_alert_raise() and tag_alert_cancel() change the alert under the mutex
\* and wake the runner outside it, whether or not the alert changed.
Press(on) ==
    /\ ui = "idle"
    /\ ui' = "changed"
    /\ help' = on
    /\ news' = (news \/ on # help)
    /\ UNCHANGED <<pc, predict, act, wide, wake, motion, ladder>>

\* Mutation: a wake is only a give.
SetForce_Not ==
    /\ ui = "changed"
    /\ ui' = "forced"
    /\ UNCHANGED <<pc, predict, act, wide, wake, alert, motion, ladder>>

\* uwb_net_runner_wake(): the flag, then the give.
SetForce ==
    /\ ui = "changed"
    /\ ui' = "forced"
    /\ force' = TRUE
    /\ UNCHANGED <<pc, predict, act, wide, sem, alert, motion, ladder>>

Give ==
    /\ ui = "forced"
    /\ ui' = "idle"
    /\ sem' = TRUE
    /\ UNCHANGED <<pc, predict, act, wide, force, alert, motion, ladder>>

\* The accelerometer's interrupt: uwb_set_moving(), which no thread divides.
MotionEdge ==
    /\ moving' = ~moving
    /\ edge' = TRUE
    /\ sem' = TRUE
    /\ force' = TRUE
    /\ UNCHANGED <<pc, predict, act, wide, alert, ui, ladder>>

-----------------------------------------------------------------------------
(* The runner's loop                                                       *)

\* The gives of the superframe before are thrown away; if a claim is pending
\* the radio is woken and lent.
Top(claim) ==
    /\ pc = "top"
    /\ sem' = FALSE
    /\ pc' = IF claim THEN "lent" ELSE "tier"
    /\ asleep' = (asleep /\ ~claim)
    /\ UNCHANGED <<net, act, fast, locked, wide, force, alert, ui, motion,
                   ladder>>

\* Back from the claimant, unless the claim was withdrawn.
Resume(taken) ==
    /\ pc = "lent"
    /\ pc' = "tier"
    /\ locked' = (locked /\ ~taken)
    /\ UNCHANGED <<net, act, fast, asleep, wide, wake, alert, ui, motion,
                   ladder>>

\* A motion edge resets the ladder; the tier filter promotes at once and
\* demotes after a hold time (still: it has not passed).
Tier(still) ==
    /\ pc = "tier"
    /\ pc' = "plan"
    /\ edge' = FALSE
    /\ rung' = IF edge /\ moving THEN 0 ELSE rung
    /\ fast' = (moving \/ (fast /\ still))
    /\ UNCHANGED <<net, act, asleep, locked, wide, wake, alert, ui, moving,
                   pinned>>

\* Mutation: the gives are drained just before the wait.
Plan_Drains(late) ==
    /\ pc = "plan"
    /\ force' = FALSE
    /\ sem' = FALSE
    /\ wide' = (net = "SCAN" \/ ~locked \/ force)
    /\ pc' = IF IF net = "SCAN" THEN asleep ELSE ~wide' /\ ~late
             THEN "wait" ELSE "listen"
    /\ UNCHANGED <<predict, act, alert, ui, motion, ladder>>

\* The choice of the window.  In SCAN the probe waits out its rung, if the
\* radio is asleep; a narrow window is waited for unless it is due (late).
Plan(late) ==
    /\ pc = "plan"
    /\ force' = FALSE
    /\ wide' = (net = "SCAN" \/ ~locked \/ force)
    /\ pc' = IF IF net = "SCAN" THEN asleep ELSE ~wide' /\ ~late
             THEN "wait" ELSE "listen"
    /\ UNCHANGED <<predict, act, sem, alert, ui, motion, ladder>>

\* uwb_radio_sleep_until(): a give, or the time has come.
Woken ==
    /\ pc = "wait"
    /\ sem
    /\ sem' = FALSE
    /\ wide' = TRUE
    /\ force' = IF net = "SCAN" THEN force ELSE FALSE
    /\ pc' = "listen"
    /\ UNCHANGED <<predict, act, alert, ui, motion, ladder>>

TimedOut ==
    /\ pc = "wait"
    /\ ~sem
    /\ pc' = "listen"
    /\ UNCHANGED <<predict, act, wide, wake, alert, ui, motion, ladder>>

\* Mutation: the terminal rung is climbed over.
Ladder_Unbounded(on, heard) ==
    IF on \/ heard THEN 0 ELSE IF net = "SCAN" THEN rung + 1 ELSE rung

\* Mutation: a HELP pins the ladder and a failed probe climbs all the same.
Ladder_ClimbsPinned(on, heard) ==
    LET from == IF on THEN 0 ELSE rung
    IN IF heard THEN 0
       ELSE IF net = "SCAN" /\ from < Rungs - 1 THEN from + 1 ELSE from

\* Mutation: a beacon leaves the ladder where it is.
Ladder_Keeps(on, heard) ==
    IF on THEN 0
    ELSE IF ~heard /\ net = "SCAN" /\ rung < Rungs - 1 THEN rung + 1 ELSE rung

\* scan_backoff_alert(), _reset() and _fail(): a HELP pins it at the bottom, any
\* beacon resets it, and only a failed probe climbs.
Ladder(on, heard) ==
    IF on \/ heard THEN 0
    ELSE IF net = "SCAN" /\ rung < Rungs - 1 THEN rung + 1 ELSE rung

\* uwb_net_handle() on a beacon (good: of our version, with our seat in it) or a
\* miss: the next state and the actions that matter here.
Handled(heard, good) ==
    CASE net = "SCAN" -> IF heard /\ good THEN {<<"JOINING", {"SEND_JOIN"}>>}
                                          ELSE {<<"SCAN", {"SLEEP"}>>}
      [] net = "JOINING" -> {<<net, IF heard /\ good THEN {"SEND_JOIN"}
                                                     ELSE {}>>}
      [] net = "SYNC" /\ heard ->
            IF good THEN {net} \X {{"SLEEP"}, {"RUN_SWEEP"}, {"RUN_DISCOVER"}}
                    ELSE {<<"SCAN", {}>>}
      [] net = "SYNC" /\ ~heard -> {net, "SCAN"} \X {{}}

\* The radio wakes, the window is spent, and the alert is read only then.
Listen(heard, good, lock) ==
    /\ pc = "listen"
    /\ pc' = "exchange"
    /\ asleep' = FALSE
    /\ locked' = (heard /\ (locked \/ lock))
    /\ pinned' = help
    /\ rung' = Ladder(help, heard)
    /\ news' = FALSE
    /\ \E out \in Handled(heard, good) : net' = out[1] /\ act' = out[2]
    /\ UNCHANGED <<fast, wide, wake, help, ui, motion>>

\* The JOIN is answered, or lost once more, or once too often.
Join ==
    /\ pc = "exchange"
    /\ "SEND_JOIN" \in act
    /\ \/ net' = "SYNC" /\ act' = {"RUN_DISCOVER"}
       \/ net' \in {"JOINING", "SCAN"} /\ act' = {}
    /\ UNCHANGED <<pc, fast, asleep, locked, wide, wake, alert, ui,
                   motion,
                   ladder>>

\* The rest of the superframe; SLEEP leaves the radio in deep sleep.
Exchange ==
    /\ pc = "exchange"
    /\ "SEND_JOIN" \notin act
    /\ pc' = "top"
    /\ asleep' = ("SLEEP" \in act)
    /\ act' = {}
    /\ UNCHANGED <<net, fast, locked, wide, wake, alert, ui, motion, ladder>>

Next == \/ \E on \in BOOLEAN : Press(on)
        \/ SetForce
        \/ Give
        \/ MotionEdge
        \/ \E b \in BOOLEAN : Top(b) \/ Resume(b) \/ Tier(b) \/ Plan(b)
        \/ Woken
        \/ TimedOut
        \/ \E heard, good, lock \in BOOLEAN : Listen(heard, good, lock)
        \/ Join
        \/ Exchange

Spec == Init /\ [][Next]_vars

-----------------------------------------------------------------------------
(* Properties *)

\* An alert changed by a call that has returned, which the runner has not read.
Unread == news /\ ui = "idle"

\* The wait of a skip is never left to run on over a HELP or a CANCEL that is
\* still to be read (comments on uwb_net_runner_wake() and tag_alert_raise()):
\* the give may be drained, but then the flag keeps the runner from waiting.
AlertCutsSkip == pc = "wait" /\ net # "SCAN" /\ Unread => sem

\* A movement is neither slept on nor forgotten: when the runner waits, it has
\* seen the edge and ranges at the moving cadence, or is about to wake.
MotionCutsWait == pc = "wait" /\ ~sem => ~edge /\ (moving => fast)

\* A standing HELP is probed for at the shortest interval, whatever the ladder
\* was and whatever fails.
HelpProbesOften == pc = "wait" /\ net = "SCAN" /\ pinned => rung = 0

\* uwb_net_runner.c calls the suppression of discovery on the upper rungs belt
\* and braces: no discovery is ever chosen there.
QuietIsMoot == pc = "exchange" /\ "RUN_DISCOVER" \in act => rung < QuietRung

\* What the ladder may do to the rest: it stays in its range, gives way to a HELP
\* and never keeps a joined tag from discovering.
LadderSound == TypeOK /\ HelpProbesOften /\ QuietIsMoot
=============================================================================
