------------------------------- MODULE TagUi --------------------------------
(***************************************************************************)
(* src/src/tag_ui.c: the button's interrupt, the queue of edges and the    *)
(* thread that tells a double press (HELP) from a single one (readout and  *)
(* advertising window) and a hold (CANCEL), with the LED it drives.  Time  *)
(* is in ticks of the debounce; an edge carries its age instead of a time. *)
(***************************************************************************)
EXTENDS Integers, Sequences

CONSTANTS Double, Long, Battery, Flash, Blink, \* *_MS, in ticks
          QueueLen,  \* the depth of press_q
          SlowMax    \* bound: ticks a readout or a flash write may take

ASSUME UiAssumption ==
    /\ {Double, Long, Battery, Flash, Blink, QueueLen} \subseteq Nat \ {0}
    /\ SlowMax \in Nat
    /\ Double < Long

VARIABLES down,     \* the button
          quiet,    \* the last edge is DEBOUNCE_MS ago
          press_q,  \* struct btn_ev, oldest first
          pc,       \* where ui_fn is
          t1,       \* age of the gesture's first press
          released, \* released_first
          wait,     \* ticks left of the wait it is in
          shown,    \* ticks left of the battery display
          readAlert,\* what led_show_battery() read of the alert
          alert,    \* tag_alert_active()
          led,
          held,     \* how long the last hold has lasted so far
          gap,      \* from the last press but one to the last
          since,    \* since the last press
          prompt,   \* every edge was taken before the next one came
          hidden    \* how long the battery colour has hidden a HELP

ui == <<press_q, pc, t1, released, wait, shown, readAlert, led>>
ghosts == <<held, gap, since, prompt, hidden>>
uiVars == <<down, quiet, ui, alert, ghosts>>

Waits == {"idle", "double", "hold", "drain", "battery"}
Slow == {"saving", "readout"}
AgeCap == Long + 1
Age == 0..AgeCap
Edge == [age : Age, pressed : BOOLEAN]

UiTypeOK == /\ {down, quiet, released, readAlert, alert, prompt} \subseteq BOOLEAN
            /\ press_q \in Seq(Edge) /\ Len(press_q) <= QueueLen
            /\ pc \in Waits \cup Slow \cup {"flash", "restart"}
            /\ {t1, held, gap, since, hidden} \subseteq Age
            /\ wait \in Nat /\ shown \in 0..Battery
            /\ led \in {"dark", "red", "green", "battery"}

Older(a) == IF a < AgeCap THEN a + 1 ELSE a

UiInit == /\ down = FALSE /\ quiet = TRUE
          /\ press_q = <<>> /\ pc = "idle" /\ t1 = 0 /\ released = FALSE
          /\ wait = Blink /\ shown = 0 /\ readAlert = FALSE
          /\ alert = FALSE /\ led = "dark"
          /\ held = 0 /\ gap = AgeCap /\ since = AgeCap
          /\ prompt = TRUE /\ hidden = 0

-----------------------------------------------------------------------------
(* The button                                                              *)

\* button_isr(): an edge within the debounce of the last, and one the queue has
\* no room for, is lost.
ButtonEdge ==
    /\ down' = ~down /\ quiet' = FALSE
    /\ press_q' = IF quiet /\ Len(press_q) < QueueLen
                  THEN Append(press_q, [age |-> 0, pressed |-> down'])
                  ELSE press_q
    /\ held' = IF down' THEN 0 ELSE held
    /\ gap' = IF down' THEN since ELSE gap
    /\ since' = IF down' THEN 0 ELSE since
    /\ prompt' = (prompt /\ quiet /\ pc \in Waits /\ press_q = <<>>)
    /\ UNCHANGED <<pc, t1, released, wait, shown, readAlert, led, alert, hidden>>

-----------------------------------------------------------------------------
(* ui_fn                                                                   *)

IdleLed == IF alert THEN "red" ELSE "dark"

EnterIdle == pc' = "idle" /\ wait' = Blink /\ led' = IdleLed

Take == /\ press_q # <<>> /\ press_q' = Tail(press_q)
        /\ UNCHANGED <<down, quiet, ghosts>>
NoTake == UNCHANGED <<down, quiet, press_q, ghosts>>
Taken == Head(press_q)

\* A release alone starts nothing.
Idle ==
    /\ pc = "idle" /\ Take
    /\ IF Taken.pressed
       THEN /\ pc' = "double" /\ t1' = Taken.age /\ released' = FALSE
            /\ UNCHANGED <<wait, led>>
       ELSE EnterIdle /\ UNCHANGED <<t1, released>>
    /\ UNCHANGED <<shown, readAlert, alert>>

\* The pulse goes on with no button activity.
IdleBlink ==
    /\ pc = "idle" /\ press_q = <<>> /\ wait = 0 /\ NoTake
    /\ EnterIdle
    /\ UNCHANGED <<t1, released, shown, readAlert, alert>>

\* Mutation: any edge counts as the second press.
SecondPress_AnyEdge ==
    /\ pc = "double" /\ t1 < Double /\ Take
    /\ pc' = "saving" /\ alert' = TRUE /\ wait' = SlowMax
    /\ UNCHANGED <<released, t1, shown, readAlert, led>>

\* tag_alert_raise() for a second press in the window.
SecondPress ==
    /\ pc = "double" /\ t1 < Double /\ Take
    /\ IF Taken.pressed
       THEN pc' = "saving" /\ alert' = TRUE /\ wait' = SlowMax
            /\ UNCHANGED released
       ELSE released' = TRUE /\ UNCHANGED <<pc, alert, wait>>
    /\ UNCHANGED <<t1, shown, readAlert, led>>

\* The record is written, and the gesture is over.
Saved ==
    /\ pc = "saving" /\ NoTake
    /\ EnterIdle
    /\ UNCHANGED <<t1, released, shown, readAlert, alert>>

\* A single press: the window is asked for, and led_show_battery() reads the
\* alert before it sends anything.
Single == pc' = "readout" /\ readAlert' = alert /\ wait' = SlowMax

\* Mutation: a release within the window is forgotten.
WindowOver_Unreleased ==
    /\ pc = "double" /\ t1 >= Double /\ NoTake
    /\ pc' = "hold"
    /\ UNCHANGED <<readAlert, wait, t1, released, shown, alert, led>>

WindowOver ==
    /\ pc = "double" /\ t1 >= Double /\ NoTake
    /\ IF released THEN Single ELSE pc' = "hold" /\ UNCHANGED <<readAlert, wait>>
    /\ UNCHANGED <<t1, released, shown, alert, led>>

Holding ==
    /\ pc = "hold" /\ t1 < Long /\ Take
    /\ IF Taken.pressed THEN UNCHANGED <<pc, readAlert, wait, released>>
       ELSE Single /\ released' = TRUE
    /\ UNCHANGED <<t1, shown, alert, led>>

\* tag_alert_cancel() and the green flash.
LongPress ==
    /\ pc = "hold" /\ t1 >= Long /\ NoTake
    /\ alert' = FALSE /\ led' = "green"
    /\ pc' = "flash" /\ wait' = Flash
    /\ UNCHANGED <<t1, released, shown, readAlert>>

FlashOver ==
    /\ pc = "flash" /\ wait = 0 /\ NoTake
    /\ led' = "dark"
    /\ pc' = "drain" /\ wait' = Blink
    /\ UNCHANGED <<t1, released, shown, readAlert, alert>>

\* The release of the hold, and whatever was pressed during it.
Drain ==
    /\ pc = "drain"
    /\ \/ /\ Take
          /\ IF Taken.pressed THEN wait' = Blink /\ UNCHANGED <<pc, led>>
             ELSE EnterIdle
       \/ press_q = <<>> /\ wait = 0 /\ NoTake /\ EnterIdle
    /\ UNCHANGED <<t1, released, shown, readAlert, alert>>

\* The end of led_show_battery().
ShowBattery ==
    /\ pc = "readout" /\ NoTake
    /\ led' = IF readAlert THEN led ELSE "battery"
    /\ pc' = "battery" /\ shown' = Battery /\ wait' = Blink
    /\ UNCHANGED <<t1, released, readAlert, alert>>

\* A press ends the display and goes back into the queue, behind its release if
\* that is in already.
BatteryTake ==
    /\ pc = "battery" /\ shown > 0 /\ Take
    /\ IF Taken.pressed
       THEN /\ pc' = "restart" /\ t1' = Taken.age /\ led' = IdleLed
            /\ UNCHANGED wait
       ELSE wait' = Blink /\ UNCHANGED <<pc, t1, led>>
    /\ UNCHANGED <<released, shown, readAlert, alert>>

\* Mutation: the pulse does not take the display over.
BatteryBlink_Stubborn ==
    /\ pc = "battery" /\ shown > 0 /\ press_q = <<>> /\ wait = 0 /\ NoTake
    /\ wait' = Blink /\ UNCHANGED led
    /\ UNCHANGED <<pc, t1, released, shown, readAlert, alert>>

BatteryBlink ==
    /\ pc = "battery" /\ shown > 0 /\ press_q = <<>> /\ wait = 0 /\ NoTake
    /\ wait' = Blink /\ led' = IF alert THEN "red" ELSE led
    /\ UNCHANGED <<pc, t1, released, shown, readAlert, alert>>

BatteryOver ==
    /\ pc = "battery" /\ shown = 0 /\ NoTake
    /\ EnterIdle
    /\ UNCHANGED <<t1, released, shown, readAlert, alert>>

PutBack ==
    /\ pc = "restart"
    /\ press_q' = IF Len(press_q) < QueueLen
                  THEN Append(press_q, [age |-> t1, pressed |-> TRUE])
                  ELSE press_q
    /\ EnterIdle
    /\ UNCHANGED <<down, quiet, t1, released, shown, readAlert, alert, ghosts>>

-----------------------------------------------------------------------------
(* The command thread and time                                             *)

\* "help on", "help off"
Command(on) ==
    /\ alert' = on
    /\ hidden' = IF on = alert THEN hidden ELSE 0
    /\ UNCHANGED <<down, quiet, ui, held, gap, since, prompt>>

\* The thread is in a wait that is not over, or in a slow call.
Blocked ==
    \/ pc \in {"idle", "drain"} /\ press_q = <<>> /\ wait > 0
    \/ pc = "double" /\ press_q = <<>> /\ t1 < Double
    \/ pc = "hold" /\ press_q = <<>> /\ t1 < Long
    \/ pc = "battery" /\ press_q = <<>> /\ wait > 0 /\ shown > 0
    \/ pc \in Slow \cup {"flash"} /\ wait > 0

Tick ==
    /\ Blocked
    /\ quiet' = TRUE
    /\ press_q' = [i \in DOMAIN press_q |->
                     [press_q[i] EXCEPT !.age = Older(@)]]
    /\ t1' = Older(t1)
    /\ wait' = IF wait > 0 THEN wait - 1 ELSE 0
    /\ shown' = IF shown > 0 THEN shown - 1 ELSE 0
    /\ held' = IF down THEN Older(held) ELSE held
    /\ since' = Older(since)
    /\ prompt' = (prompt \/ (pc = "idle" /\ press_q = <<>> /\ ~down))
    /\ hidden' = IF alert /\ led = "battery" THEN Older(hidden) ELSE 0
    /\ UNCHANGED <<down, pc, released, readAlert, alert, led, gap>>

UiThread ==
    \/ Idle \/ IdleBlink \/ SecondPress \/ Saved \/ WindowOver \/ Holding
    \/ LongPress \/ FlashOver \/ Drain \/ ShowBattery \/ BatteryTake
    \/ BatteryBlink \/ BatteryOver \/ PutBack

UiNext == UiThread \/ ButtonEdge \/ Tick \/ \E on \in BOOLEAN : Command(on)

UiSpec == UiInit /\ [][UiNext]_uiVars

-----------------------------------------------------------------------------
(* Properties *)

\* tag_ui.c:209: the CANCEL is "fired while still held" - for a button held all
\* of LONG_MS, when no edge was lost and each was taken before the next came.
CancelMeansHold == [][LongPress => held >= Long \/ ~prompt]_uiVars

\* A HELP is raised for two presses within DOUBLE_MS of each other, on the same
\* condition.
HelpMeansDouble == [][pc = "double" /\ pc' = "saving" => gap <= Double \/ ~prompt]_uiVars

\* However a HELP falls between the slow sends of a readout and its display, the
\* battery colour does not hide it longer than one blink.  (The release of a
\* press that was lost starts the slice anew and can keep it longer.)
HelpShown == hidden <= Blink \/ ~prompt

\* The LED of ui_fn(): the battery colour and the flashes of a gesture hide a
\* standing alert no longer than one slice of them lasts.
UiSound == UiTypeOK /\ HelpShown
=============================================================================
