------------------------------ MODULE AdvWindow ------------------------------
(***************************************************************************)
(* When the tag is visible over BLE: src/src/ble_log.c's two items of work *)
(* on the system work queue, raced by the connection callbacks, by the     *)
(* commands and presses that ask for a window and by the calls into the    *)
(* host, which let other threads in while they wait; and the idle-current  *)
(* window of src/src/batt.c, which hangs on the same events.  One tick is  *)
(* a fraction of ADV_WINDOW_MS, far longer than any item of work.          *)
(***************************************************************************)
EXTENDS Integers, Sequences, SequencesExt

CONSTANTS Window,    \* ADV_WINDOW_MS, in ticks
          Readings   \* battery voltages in mV

ASSUME AdvAssumption == /\ Window \in Nat \ {0}
                        /\ Readings \subseteq Nat

VARIABLES forced,    \* adv_forced
          sleeping,  \* uwb_radio_sleep_enabled()
          link,      \* the connection; "new" and "lost" until the callback ran
          adv,       \* advertising
          armed,     \* ticks left of adv_stop_work's delay, 0 when not armed
          workq,     \* items of the system work queue that wait
          running,   \* the call the item that runs is in
          connected, \* batt_connected
          window,    \* idle_win: samples of which disconnected periods
          soc,       \* batt_soc_cache
          refused,   \* the last start was refused though nothing was connected
          open,      \* ticks since the window was last armed
          late,      \* the stop was in the queue already at that time
          landed     \* a connection came up before the start had returned

ble == <<forced, sleeping, link, adv, armed, workq, running>>
batt == <<connected, window, soc>>
ghosts == <<refused, open, late, landed>>
vars == <<ble, batt, ghosts>>

Item == {"adv", "stop", "batt"}
Unknown == 255

TypeOK == /\ {forced, sleeping, adv, connected, refused, late, landed} \subseteq BOOLEAN
          /\ link \in {"down", "new", "up", "lost"}
          /\ {armed, open} \subseteq 0..Window
          /\ workq \in Seq(Item) /\ IsInjective(workq)
          /\ running \in {"none", "starting", "started", "stopping", "sampling"}
          /\ window \in {"empty", "one", "past", "mixed"}
          /\ soc \in 0..100 \cup {Unknown}

\* adv_continuous()
Continuous == forced \/ ~sleeping

\* k_work_submit(): an item waits in the queue once.
Submitted(q, item) == IF item \in Range(q) THEN q ELSE Append(q, item)

\* main(): the calibration image forces advertising; it has no other trigger.
Init == /\ forced \in BOOLEAN
        /\ sleeping = TRUE
        /\ link = "down" /\ adv = FALSE /\ armed = 0
        /\ workq = IF forced THEN <<"adv">> ELSE <<>>
        /\ running = "none"
        /\ connected = FALSE /\ window = "empty" /\ soc = Unknown
        /\ refused = FALSE /\ open = 0 /\ late = FALSE /\ landed = FALSE

-----------------------------------------------------------------------------
(* Requests                                                                *)

\* ble_log_adv_window() for a press, a phone in the NFC field or a name it wrote,
\* and the sleep flag a command sets before it.
OpenWindow(s) == /\ workq' = Submitted(workq, "adv")
                 /\ sleeping' = s
                 /\ UNCHANGED <<forced, link, adv, armed, running, batt, ghosts>>

Request == OpenWindow(sleeping)

\* "pwr sleep on", "pwr sleep off": commands come over a connection.
SleepCommand(on) == link = "up" /\ OpenWindow(on)

\* Mutation: k_work_schedule(), which keeps a delay that runs.
Rearm_Schedule == /\ armed' = IF armed > 0 THEN armed ELSE Window
                  /\ open' = 0
                  /\ late' = ("stop" \in Range(workq))

\* k_work_reschedule(&adv_stop_work): the delay starts anew; a stop that is in
\* the queue stays there.
Rearm == /\ armed' = Window /\ open' = 0
         /\ late' = ("stop" \in Range(workq))

\* ble_log_adv_force()
ForceOn == /\ link = "up"
           /\ forced' = TRUE
           /\ workq' = Submitted(workq, "adv")
           /\ UNCHANGED <<sleeping, link, adv, armed, running, batt, ghosts>>

ForceOff == /\ link = "up"
            /\ forced' = FALSE
            /\ Rearm
            /\ UNCHANGED <<sleeping, link, adv, workq, running, batt, refused,
                           landed>>

-----------------------------------------------------------------------------
(* adv_work_fn                                                             *)

\* batt_on_ble_state(BLE_STATE_ADVERTISING)
OnAdvertising ==
    IF connected
    THEN /\ connected' = FALSE /\ window' = "empty"
         /\ landed' = (link = "up")
    ELSE UNCHANGED <<connected, window, landed>>

\* Mutation: the timer is cancelled whether or not advertising is to go on.
Opened_Always == /\ OnAdvertising
                 /\ armed' = 0 /\ UNCHANGED <<open, late>>

\* The callback, then the timer: cancelled, with an item it had submitted, or
\* started again.
Opened == /\ OnAdvertising
          /\ IF Continuous THEN armed' = 0 /\ UNCHANGED <<open, late>>
             ELSE Rearm

Taken(item) == running = "none" /\ workq # <<>> /\ Head(workq) = item

\* k_work_cancel(): the item is in the queue once at most.
Cancelled(q, item) == IF item \in Range(q)
                      THEN RemoveAt(q, CHOOSE i \in DOMAIN q : q[i] = item)
                      ELSE q

AfterOpen(q) == IF Continuous THEN Cancelled(q, "stop") ELSE q

\* The host starts nothing while it has a connection, and nothing again.
AdvWork ==
    /\ Taken("adv")
    /\ IF link \in {"up", "lost"}
       THEN /\ workq' = Tail(workq)
            /\ UNCHANGED <<armed, running, batt, ghosts>>
       ELSE IF adv \/ link = "new"
       THEN /\ Opened
            /\ workq' = AfterOpen(Tail(workq))
            /\ UNCHANGED <<running, soc, refused>>
       ELSE /\ running' = "starting"
            /\ workq' = Tail(workq)
            /\ UNCHANGED <<armed, batt, ghosts>>
    /\ UNCHANGED <<forced, sleeping, link, adv>>

OnAir == /\ running = "starting"
         /\ running' = "started" /\ adv' = TRUE /\ refused' = FALSE
         /\ UNCHANGED <<forced, sleeping, link, armed, workq, batt, open, late,
                        landed>>

\* Every other error: the request is dropped.
Refuse == /\ running = "starting"
          /\ running' = "none" /\ refused' = TRUE
          /\ UNCHANGED <<forced, sleeping, link, adv, armed, workq, batt, open,
                         late, landed>>

AdvReturns == /\ running = "started"
              /\ running' = "none"
              /\ Opened
              /\ workq' = AfterOpen(workq)
              /\ UNCHANGED <<forced, sleeping, link, adv, soc, refused>>

-----------------------------------------------------------------------------
(* adv_stop_work_fn                                                        *)

StopDue == /\ armed = 1
           /\ workq' = Submitted(workq, "stop")

StopWork == /\ Taken("stop")
            /\ workq' = Tail(workq)
            /\ running' = IF link \in {"up", "lost"} \/ Continuous THEN "none"
                          ELSE "stopping"
            /\ UNCHANGED <<forced, sleeping, link, adv, armed, batt, ghosts>>

StopReturns == /\ running = "stopping"
               /\ running' = "none" /\ adv' = FALSE
               /\ UNCHANGED <<forced, sleeping, link, armed, workq, batt, ghosts>>

-----------------------------------------------------------------------------
(* Connections.  There is one at most, and the controller stops advertising. *)

Connect == /\ adv /\ link = "down"
           /\ link' = "new" /\ adv' = FALSE
           /\ UNCHANGED <<forced, sleeping, armed, workq, running, batt, ghosts>>

OnConnected == /\ link = "new"
               /\ link' = "up" /\ connected' = TRUE
               /\ window' = IF window = "one" THEN "past" ELSE window
               /\ UNCHANGED <<forced, sleeping, adv, armed, workq, running, soc,
                              ghosts>>

Drop == /\ link = "up"
        /\ link' = "lost"
        /\ UNCHANGED <<forced, sleeping, adv, armed, workq, running, batt, ghosts>>

\* Mutation: the link's end opens no window.
OnDisconnected_Silent ==
    /\ link = "lost"
    /\ link' = "down" /\ refused' = FALSE
    /\ UNCHANGED <<forced, sleeping, adv, armed, workq, running, batt, open,
                   late, landed>>

OnDisconnected == /\ link = "lost"
                  /\ link' = "down" /\ refused' = FALSE
                  /\ workq' = Submitted(workq, "adv")
                  /\ UNCHANGED <<forced, sleeping, adv, armed, running, batt,
                                 open, late, landed>>

-----------------------------------------------------------------------------
(* The battery                                                             *)

Curve == << <<3500, 0>>, <<3610, 5>>, <<3690, 10>>, <<3710, 15>>, <<3730, 20>>,
            <<3750, 25>>, <<3770, 30>>, <<3790, 35>>, <<3800, 40>>, <<3820, 45>>,
            <<3840, 50>>, <<3850, 55>>, <<3870, 60>>, <<3910, 65>>, <<3950, 70>>,
            <<3980, 75>>, <<4020, 80>>, <<4080, 85>>, <<4110, 90>>, <<4150, 95>>,
            <<4200, 100>> >>

\* lipo_mv_to_pct()
Percent(mv) ==
    IF mv <= Head(Curve)[1] THEN 0
    ELSE IF mv >= Last(Curve)[1] THEN 100
    ELSE LET i == CHOOSE i \in 2..Len(Curve) :
                    Curve[i - 1][1] <= mv /\ mv < Curve[i][1]
             lo == Curve[i - 1]
             hi == Curve[i]
         IN lo[2] + ((mv - lo[1]) * (hi[2] - lo[2])) \div (hi[1] - lo[1])

SampleDue == /\ "batt" \notin Range(workq)
             /\ workq' = Append(workq, "batt")
             /\ UNCHANGED <<forced, sleeping, link, adv, armed, running, batt,
                            ghosts>>

\* batt_work_fn(): the cache first, "unknown" when the gauge does not answer or
\* the charger drives its voltage.
SampleWork ==
    /\ Taken("batt")
    /\ workq' = Tail(workq) /\ running' = "sampling"
    /\ soc' \in {Unknown} \cup {Percent(mv) : mv \in Readings}
    /\ UNCHANGED <<forced, sleeping, link, adv, armed, connected, window, ghosts>>

\* batt_window_add(): "past" are samples from before a connection.
Grown == CASE window = "empty" -> "one"
           [] window = "past" -> "mixed"
           [] OTHER -> window

\* Mutation: a sample is a sample.
Sampled_Any == window' = Grown

\* The current: kept only while nothing is connected.
Sampled == window' = IF connected THEN window ELSE Grown

SampleReturns(ok) ==
    /\ running = "sampling"
    /\ running' = "none"
    /\ IF ok THEN Sampled ELSE UNCHANGED window
    /\ UNCHANGED <<forced, sleeping, link, adv, armed, workq, connected, soc,
                   ghosts>>

-----------------------------------------------------------------------------

\* Work and callbacks take no time.
Tick == /\ workq = <<>> /\ running = "none" /\ link \notin {"new", "lost"}
        /\ IF armed = 1 THEN StopDue ELSE UNCHANGED workq
        /\ armed' = IF armed > 0 THEN armed - 1 ELSE 0
        /\ open' = IF open < Window THEN open + 1 ELSE open
        /\ UNCHANGED <<forced, sleeping, link, adv, running, batt, refused, late,
                       landed>>

Next == \/ Request \/ ForceOn \/ ForceOff \/ \E on \in BOOLEAN : SleepCommand(on)
        \/ AdvWork \/ OnAir \/ Refuse \/ AdvReturns
        \/ StopWork \/ StopReturns
        \/ Connect \/ OnConnected \/ Drop \/ OnDisconnected
        \/ SampleDue \/ SampleWork \/ \E ok \in BOOLEAN : SampleReturns(ok)
        \/ Tick

Spec == Init /\ [][Next]_vars

-----------------------------------------------------------------------------
(* Properties *)

Queued(item) == item \in Range(workq)

\* Advertising that nothing justifies is always about to end: whatever request,
\* command or connection falls between the host's calls, its timer runs or an
\* item of work is on its way that sees to it.
AdvBounded == adv /\ ~Continuous =>
                 armed > 0 \/ Queued("stop") \/ Queued("adv")
                   \/ running \in {"started", "stopping"}

\* Continuous advertising survives connections and left-over timers: the tag is
\* visible, or about to be, unless the host has refused.
StaysVisible == Continuous /\ link = "down" /\ ~refused =>
                   adv \/ Queued("adv") \/ running = "starting"

\* The policy of ble_log.c, whatever falls between the calls into the host.
AdvPolicy == TypeOK /\ AdvBounded /\ StaysVisible

\* Whoever asks for a window gets all of it, also when one is open; only a stop
\* that was in the queue before the request cuts it short.
WholeWindow == [][StopReturns /\ adv => open >= Window \/ late]_vars

\* The idle window holds samples of one disconnected period, and of no
\* connection unless that one landed on the start of its advertising.
IdleClean == [][/\ window' # "mixed"
                /\ window' # window /\ link = "up" =>
                     window' \in {"empty", "past"} \/ landed]_vars
=============================================================================
