# The UWB tag firmware in TLA+

This directory is a verification development beside the firmware of a UWB
positioning tag (nRF52833 + DW3000, Zephyr).  It models the tag's own control
logic: who drives the radio and how its interrupt is waited for, the MAC in the
gateway's superframes, when the tag sleeps and what wakes it, how it predicts the
beacon it wakes for, the help alert from the button through the anchors to the
gateway's latch, the way from a discovery to a published position, the
advertising window, the calibration image, and the boot with its watchdog.  TLC
checks the models on small instances; TLAPS proves nearly all of their safety
properties for every value of the constants: any number of claimants of the radio,
any table of tiers, any width of the alert's epoch, any length of a predictor's
baseline, any cache of the alert's relays.

Paths are those of the repository, below `src/`.

## 1. Inventory

| Component | State | Operations | Talks to |
|---|---|---|---|
| Radio ownership (`src/uwb_radio_owner.c`) | `state`, `unmanaged`, a mutex and a condition variable | `request`, `release`, `request_pending`, `yield` | MAC runner; calibration threads |
| Network state machine (`src/uwb_net.c`) | `uwb_net_ctx`, `uwb_sweep_gate`, tier table, tier filter | `handle(event)`, `gate_actions`, `tier_filter`, `sweep_gate_*` | MAC runner, which owns every instance; the tier table is written by commands |
| MAC runner (`src/uwb_net_runner.c`) | the context, the gate, the anchor pool, the wake semaphore and its sticky flag, `radio_asleep` | one loop: drain, lend the radio, tier, plan, wait, listen, handle, execute the actions | all others |
| Beacon predictors (`src/beacon_track_core.c`, `src/beacon_sched_core.c`) | the lock with a moving average of the interval; a long baseline of arrivals with a Q16.16 period | `reset`, `beacon`/`observe`, `miss`, `plan` | MAC runner |
| Coverage ladder (`src/scan_backoff_core.c`) | `rung`, `alert_pinned` | `reset`, `fail`, `motion`, `alert`, `next_ms` | MAC runner |
| Help alert (`src/tag_alert.c`, `src/tag_alert_core.c`) | OFF/HELP/CANCELLING, epoch, repeats left, next send time, NVS record | `raise`, `cancel`, `frame_due`, `sent`, `init` | UI and command threads, MAC runner, storage |
| Alert relay and latch (`src/alert_relay.c`) | duplicate cache, latch table | `dedup_admit`, `should_relay`, `prepare_relay`, `latch_apply` | anchors and gateway (shared source) |
| Gestures and LED (`src/tag_ui.c`) | gesture state, edge queue | press, release, hold, battery display | alert, BLE window |
| TWR exchange (`src/uwb_ss_initiator.c`), port (`platform/`) | event latch, semaphore, interrupt enable, SPI mutex | wait for an event, one exchange, publish a position | MAC runner, DW3000 |
| Frames (`src/uwb_frame_802_15_4z.c`, `src/uwb_wave_frame.h`) | none | build and parse of ten frame types | every sender and receiver |
| Position (`src/pos_solver.c`, `src/pos_ekf.c`, `src/pos_cfg.c`, `src/pos_dbg.c`) | filter state and streak, heights, debug session | solve, update, reseed, set heights, log a sweep | MAC runner, commands |
| Calibration (`src/cal*.c`) | record, validity, run request, busy flag, verdict | start, run, clear, probe, listen | radio ownership, storage |
| BLE log (`src/ble_log.c`) | connection, advertising, stop timer | open, expire, connect, disconnect, force | UI, NFC, commands, battery |
| Commands (`src/tag_cmd.c`) | none | one line to one handler | nearly all |
| Battery (`src/batt*.c`) | charge cache, idle-current window | sample, connection change | BLE, position frame |
| Watchdog and fault record (`src/wdt.c`), boot (`src/main.c`, `src/uwb.c`) | guard channel, feeder, retained record, reset reason | boot, feed, fatal handler, clear | all |
| NFC tag (`src/nfc_tag.c`), storage (`src/storage.c`) | name, shared NDEF buffer, NVS | write, read back | BLE window |
| Reception statistics (`src/rx_stats*.c`) | two windows, miss count | beacon, miss, report | MAC runner, commands |
| Gateway | seat, slot, lease, latch | another repository's program; only its frames are known here | |

The threads are the runner (highest priority), the UI thread, the Bluetooth
receive thread (commands), the system work queue (advertising, battery, watchdog
feed), the calibration threads (in the calibration image only, which has no
runner), and the interrupts of the accelerometer, the button and the DW3000.

### Where it is hard

* A radio grant races the claimant's timeout, and the poll of a claim races its
  withdrawal (`uwb_radio_owner.c`, `uwb_net_runner.c:603-642`).
* The lease is aged on both sides by clocks that see different things: the
  gateway counts superframes, the tag hears some of the beacons.
* The action word of a superframe is executed top to bottom while a GRANT
  received in the middle adds bits to it.
* Two places count anchors (state machine, sweep gate) and must agree.
* A wake is a flag and a semaphore given one after the other by a thread or an
  interrupt, while the runner drains one and consumes the other at two places.
* A window of a few milliseconds is aimed over dozens of superframes with
  integer arithmetic on a clock and a counter that wrap.
* The alert is changed by the UI thread between three separate critical sections
  of the runner, with a transmission between the last two; a reset may come at
  any point; frames reach the gateway late, twice, or out of order; the epoch is
  eight bits; the caches on the way are small.
* An edge of the DW3000's line may fall while it is masked, while the thread
  drains, or while it reads over the bus that the handler needs too.
* Edges of the button are lost by debounce and by a full queue, and the thread
  that reads them may be late by a flash write or a BLE readout.
* A timer's item of work may be running when it is re-armed or cancelled.
* The watchdog is armed before anything feeds it, and what outlives a reset must
  be of the reset it tells of.

`PROJECT.json` lists every hazard at its line with the properties that watch it,
or says why none does.

## 2. Modules

| Module | Models | Used by / composition |
|---|---|---|
| `RadioLoan` | what the handover promises: one holder at a time, every loan passes through the runner | abstract specification |
| `RadioOwner` | `uwb_radio_owner.c` and the runner's side of it | implements `RadioLoan` (`ImplementsLoan`) |
| `RadioOwner_proofs` | theorems | extends `RadioOwner`, TLAPS |
| `UwbNet` | `uwb_net.c` as operators: handlers from a context and an event to a context and an action word | used by `TagMac` |
| `TagMac` | the runner's superframe around `UwbNet`, with the gateway's seat | extends `UwbNet` |
| `TagMac_proofs` | theorems | extends `TagMac`, `BeaconTiming`, TLAPS |
| `Tiers` | the tier table with its caps and the demotion filter | checked in `MCRunnerWake`, extended by `TagCmd` |
| `BeaconSched` | the two predictors as operators on their structs | used by `BeaconTiming` |
| `BeaconTiming` | the runner's listening against a gateway's beacons in microseconds | extends `BeaconSched` |
| `RxStats` | the statistics of those receptions, and the min/mean/max window | checked in `MCBeaconTiming` |
| `RunnerWake` | the runner's loop between wake-ups, the button, the accelerometer and the ladder | |
| `RunnerWake_proofs` | theorems | extends `RunnerWake`, `FixPath`, TLAPS |
| `AlertLatch` | one entry of the gateway's latch, as operators | used by `TagAlert` and `AlertFlood` |
| `TagAlert` | the alert, its NVS record, the runner's alert block and the gateway's latch | extends `AlertLatch` |
| `TagAlert_proofs` | theorems | extends `TagAlert`, `TagUi`, TLAPS |
| `AlertFlood` | `alert_relay.c` on every node between tags and gateway | extends `AlertLatch` |
| `TagUi` | the button, its queue, the gestures and the LED | |
| `UwbFrame` | every frame's builder and parser, on sequences of bytes | extended by `RadioIrq`, checked in `MCRadioIrq` |
| `RadioIrq` | the interrupt, the waits and the exchanges that read frames | extends `UwbFrame` |
| `RadioIrq_proofs` | theorems | extends `RadioIrq`, `AlertFlood`, TLAPS |
| `AnchorPool` | the pool of anchors and the selection from it | extended by `FixPath` |
| `FixPath` | discovery, sweep, snapshot, filter recovery, heights and debug session | extends `AnchorPool` |
| `PosSeed` | the solver around its iteration | checked in `MCFixPath` |
| `DbgRecords` | the debug log's records and commands | checked in `MCFixPath` |
| `AdvWindow` | the advertising window and the idle-current window | |
| `AdvWindow_proofs` | theorems | extends `AdvWindow`, TLAPS |
| `TagCmd` | the command interpreter | extends `Tiers`, checked in `MCAdvWindow` |
| `Boot` | boot order, watchdog, fault record, stored name | |
| `Boot_proofs` | theorems | extends `Boot`, TLAPS |
| `CalMath` | a calibration's integer arithmetic | extended by `CalImage` and `CalSelfTest` |
| `CalImage` | the calibration image's three threads around one radio and one flash | extends `CalMath` |
| `CalImage_proofs` | theorems | extends `CalImage`, TLAPS |
| `CalSelfTest` | the record with its CRC, and the vectors of the two self tests | checked in `MCCalImage` |
| `CalProbe` | the diagnostics' bounded wait, answers and time of flight | checked in `MCCalImage` |
| `MC*` | the constants of the runs, and ASSUMEs about the pure modules | |

Four of the proof modules hold the theorems of two components, each in a part of its
own with its own invariant: the runner's waits and what it does between them, the
alert and the button that raises it, the reception of frames and what the frames of
an alert do, the superframe and the window it begins with.  The second component's
`Init`, `Next` and `Spec` carry a prefix (`FixSpec`, `UiSpec`, `FloodSpec`,
`TimingSpec`) so that the two can be extended together; they share no variable.

Definitions called `X_Something` beside a definition `X` and marked *Mutation*
are deliberately wrong versions of `X`, as a plausible bug would make them.  No
specification uses them.  `PROJECT.json` pairs each property with the one that
breaks it, which shows that the property says something about the code.

The pure modules (`Tiers`, `RxStats`, `UwbFrame`, `TagCmd`, `PosSeed`,
`DbgRecords`, `CalSelfTest`, `CalProbe`) have no variables.  What they compute is
compared with a reference statement over bounded inputs by named ASSUMEs of the
MC module given in the table, which TLC evaluates before the run.

### RadioOwner

Every function of `uwb_radio_owner.c` is one critical section on `lock`, cut
only by `k_condvar_wait()`; each section is an action.  A claimant that has been
readied is `woken` (by a broadcast) or `expired` (by its timeout) until it has
the lock again; in that window a grant can race a timeout, and
`RequestReturns(c)` decides, as the code does, by `state` and not by the return
code.  `RequestGranted`, `RequestQueued`, `Expire`, `WaitAgain`,
`RequestReturns`, `UseRadio` and `Release` are the claimant; `Offer`,
`YieldHands`, `YieldVoid`, `YieldReturns` and `Superframe` the runner.
`unmanaged` is the calibration image, which has no runner.

### UwbNet and TagMac

`uwb_net_handle_core()` becomes one operator for each event; an action word is a
set.  `ctx.frame_counter` is only ever subtracted from the gateway's counter, so
`ctx.since` keeps the difference, the superframes since the last beacon taken.
`TagMac` is one listening (`Listen`: the wait, the reception, the event, the
filter `uwb_net_gate_actions()`), then one action for each block of the loop in
the order of the code (`Turn`), with the GRANT's actions or-ed into the rest of
the word (`JoinAnswered`).  `tx` records what the tag sent in this superframe,
from which address and where.  Failures: lost beacons, JOINs, GRANTs,
KEEPALIVEs, anchors that do not answer, slots that move, resets of the tag in the
middle of a superframe, a gateway that dies and comes back with its counter
anywhere and perhaps another protocol version.

The gateway is external: one short address for our EUI, a slot that it may
change in any superframe, a lease that it counts down and reclaims the seat at.
The tier is chosen freely at every turn of the loop, which covers every output
of the tier filter and of `uwb_net_set_tier()` (which has no caller at this
commit).  A skip of 1 up to the tier's `listen_skip` is allowed after any heard
beacon, which covers every plan of the predictors.

### BeaconSched and BeaconTiming

`BeaconSched` translates both predictors with their integer arithmetic: signed
differences of wrapping counters, a period in units of 1/Q ms, C's division.
`BeaconTiming` puts them into the runner's step 2.  Real time runs in
microseconds; the tag reads whole milliseconds of a clock that wraps during the
run.  The gateway's period is nowhere near a whole millisecond, every arrival is
early or late by the jitter the code allows for, any beacon may be lost, the
radio may be lent (which resets both predictors), the gateway may restart once
with its counter at zero and another phase, and the tag may be reset.  A wake
request (`wide`) makes the window a full superframe from where it cuts the sleep
short, in the middle of a skip too (`FullWindow`, lines 719-727 and 748-762).

### RunnerWake

`pc` follows the loop: `top` (drain, line 601), `lent`, `tier` (645-686), `plan`
(697-727), `wait` (729-756), `listen` to the reading of the alert (758-862), and
the `exchange` after it.  `Press`, `SetForce` and `Give` are a call of
`tag_alert_raise()` or `tag_alert_cancel()`, which a runner of higher priority
may interrupt anywhere; `MotionEdge` is the interrupt, which no thread divides.
`net` is SCAN, JOINING or SYNC, and what a beacon or a miss does to it is chosen
among what `UwbNet` allows.  `locked` abstracts the lock, which `BeaconTiming`
has in full.

### AlertLatch and TagAlert

Each section of `alert_mtx` is an action, and the runner's block is four
(`Choose`, `FrameDue`, `Transmit`, `Sent`).  `air` holds the frames of which a
copy may still reach the gateway; a copy may come any number of times and in any
order within an epoch and, unless it is outdated, across epochs.  `Reboot` reads
the NVS record back.  Position and battery in the frame are left out.

### AlertFlood

A tag transmits HELP or CANCEL under (address, epoch, state, repeat); every node
that hears a frame puts it through its duplicate cache (`Admitted`, with its slot to
reuse, `Victim`), an anchor decides on its relay by hop and TTL (`ShouldRelay`),
sends it in some later order, and the gateway applies it to its latch table
(`Latched`), of which the entry with the smallest `last_heard_ms` is given away
when it is full.  Copies are lost, or overtake each other within a flood.  A node's
program around `alert_relay.c` is another repository's and external.

### TagUi

Time passes in ticks of the debounce whenever the thread waits or is in a slow
call.  `ButtonEdge` is the interrupt with its debounce and its bounded queue; the
thread's gestures are one action for each wait that ends (second press, window
over, hold, drain, battery display), and a command may change the alert at any
time.  Ghosts measure what the finger really did (`held`, `gap`, `prompt`).

### RadioIrq

The chip's status bits, mask and buffer, the line with its latched edge, the
handler, and the thread's steps of `wait_event()` (mask, drain, reset the
semaphore, enable, look at the pin, wait, disable) inside each exchange.  The air
sends any frame at any time, also on top of the one that is being read.  What the
chip leaves open (an ignored start, a status that survives enabling) is a choice.

### FixPath

The runner's steps: discovery into the pool, decay, selection, one range for each
slot, coordinates that an answer may or may not carry, the snapshot solve, the
filter's gate with its streak and reseed, and the log.  A range is clean,
reflected or missing; the tag may be carried off.  Beside it the Bluetooth thread
changes the heights (store, then two fields) and restarts the log inside a sweep.

### AdvWindow

Two items of one system work queue (start, and the delayed stop), split at the
calls into the host, with connection callbacks, presses, NFC, `pwr sleep` and
`pwr adv` between them; the battery item samples on the same queue.

### Boot

`main()` step by step with every failure it handles, the boot guard, the feeder,
a hang or a fault anywhere, the fatal handler field by field, the sticky reset
register, and resets by pin, watchdog, software, lock-up or power.  Beside it the
NFC name: the phone's write into the shared buffer, the callback, the store.

### CalImage

The BLE thread takes commands, "calrun" iterates (claim, samples, solve, store),
"caldiag" probes and listens; a request or a claim that comes second is refused.
Flash calls may fail and let other threads in.  The antenna's true delay is one of
a few values, so that a run really has to converge; a minority of the samples
scatters.

## 3. Runs

| Run | Asks | Distinct states |
|---|---|---|
| `radio_owner` | the handover: safety, refinement, liveness | 109 |
| `tag_mac` | what is sent and when; gate, lease and seat; ranging again, giving up | 912,942 |
| `beacon_timing` | estimate, aim and window; the reception statistics | 150,320 |
| `runner_wake` | no alert and no movement slept on; ladder, pin and discovery; tier filter | 36,940 |
| `tag_alert` | epoch, record, latch | 26,733 |
| `alert_flood` | duplicate cache, relay rule, latch table | 1,169,910 |
| `tag_ui` | what a gesture means, what the LED shows | 139,209 |
| `radio_irq` | the waits for the DW3000; frames and their codec | 1,725,724 |
| `fix_path` | anchors, coordinates, filter, log, heights; seed and records | 2,388,960 |
| `adv_window` | visibility and idle window; commands | 83,424 |
| `boot` | recovery, retained record, stored name | 624,196 |
| `cal_image` | one run at a time, delays, convergence; self tests and probe | 1,493,534 |

All hold.  Deadlock is checked in every run.

### Properties

* `OneDriver`, `NeverParkedInVain`, `Contract`, `ImplementsLoan`,
  `RunnerResumes`: the radio has one user; a parked runner has somebody to wait
  for and resumes; a broadcast never restarts a claimant's budget, the radio is
  handed over awake, and the runner works neither with foreign registers nor with a
  prediction from before the loan (the parts of `Contract`).
* `MacSafe`: the tag is silent in a superframe whose beacon it missed (but for a HELP
  in SCAN), sweep gate and state machine agree, and the tag never believes in
  more lease than there is.  `PollsInOwnSlot`: it ranges only in the slot of this
  superframe's map.  `SkipKeepsSeat`: no skip costs it the seat.  `RangesAgain`: once
  failures end it fixes its position again and again.  `SeatGivenUp`: under a silent
  gateway a ranging tag leaves its seat.
* `AimSound`: the period is as good as its baseline across skips, misses, wraps and
  rolls, and the moving average, which a window opened early in a skip poisons,
  never aims.  `WindowReaches`: a narrow window reaches its beacon where the margin
  covers what the planned error leaves out (`MarginCovers`, which the code's
  constants give from a baseline of a fifth of the skip on), but for what the plan
  truncates (section 7).  Without that condition it does not hold (section 6).
* `AlertCutsSkip`, `MotionCutsWait`, `LadderSound`: however a press or an edge falls
  among the runner's steps, no skip is slept out over it; a standing HELP keeps the
  probes frequent and the rung never suppresses a chosen discovery.
* `EpochSound`, `NewHelpIsNews`, `ResetKeepsHelp`, `NeverRelatched`, `HelpLatched`:
  no epoch is used that a reset could use again; a new HELP is always news; a reset
  keeps what stood; a cancelled epoch stays cleared; a standing HELP is latched in
  the end.
* `RelayedOnce`, `NoGhostAlarm`, `FloodArrives`: an anchor relays an alert once
  while its cache can hold it; a cancelled alarm stays down while the gateway keeps
  its entry; a flood that loses nothing arrives whatever the order of its copies.
* `CancelMeansHold`, `HelpMeansDouble`, `UiSound`: a CANCEL is a hold of the
  finger, a HELP two presses, whenever no edge was lost and each was taken in time;
  the battery colour does not hide a standing HELP.
* `IrqSound`, `TakenWhole`: no thread is left behind an asserted line, the bus is
  contended only in the drain, the event returned was asked for; what is taken from
  the air is a whole frame of the kind and the sender expected.
* `FixSound`, `NoFlap`, `Relocates`: the best anchors are ranged, coordinates belong
  to the anchor of their slot, live heights are the stored ones; the log's epoch moves
  only with a change; a tag that was carried off is found again.
* `AdvPolicy`, `WholeWindow`, `IdleClean`: advertising that nothing justifies is
  about to end, continuous advertising survives; whoever asks for a window gets all
  of it; the idle-current window never mixes two disconnected periods, and holds
  samples of a connected one only where the connection landed on a start.
* `Recovers`, `Retained`, `NameKept`: a guarded tag that hangs or dies boots again;
  record and reset cause are of the reset before; an accepted name survives.
* `BenchSound`, `ProbeHonest`, `Converges`: RAM and flash agree outside a crossing,
  "CAL OK" means a written record, one run at a time; a probe without a delay of its
  own measures with the calibration in use; a run in reach converges.

### What the pure modules are checked against

| Module | ASSUMEs | Scaled constants |
|---|---|---|
| `Tiers` (`MCRunnerWake`) | `TierFollowsStillness`: the filter's tier is the one that the last movements and stillnesses define, over a clock that wraps; `TableReadsWithinCap` | holds of 3 and 4 ticks, a clock of 16 |
| `RxStats` (`MCBeaconTiming`) | `OffsetsOfNearest`, `MissBreaksOffset`, `WindowReports` | a superframe of 200 cycles, a counter of 4096 |
| `UwbFrame` (`MCRadioIrq`) | `CodecRoundTrip`, besides `TakenWhole` in the run | none |
| `TagCmd` (`MCAdvWindow`) | `NoRuleHidden` (no rule is shadowed by an earlier prefix), `QuestionsAreHarmless`, `EchoIsUsed`, `SomeRowsAreNotTyped`, `ProductionOnlyReads`, `HeightsInRange` | number widths, see the module |
| `PosSeed` (`MCFixPath`) | `SeedIsExact`, `DropExplains` | metres as small integers, so that the system is solved exactly |
| `DbgRecords` (`MCFixPath`) | `SweepSaysWhatWasHeard`, `RecordsApart`, `CentimetresSaturate`, `LogStartsAfresh` | none |
| `CalSelfTest` (`MCCalImage`) | `SelfTestPasses` (the vectors of `cal selftest`, and the standard check value of the CRC), `BrokenRecordRefused` | none |
| `CalProbe` (`MCCalImage`) | `FlightSurvivesWraps`, `WaitEndsInTime`, `ProbeAnswers` | counters of 64 and 32 |

### Bounds and why they are enough

* `radio_owner`: five claimants, where the contract allows one claim in flight and
  the image has two threads that claim; the theorems cover every number.
* `tag_mac`: a lease of 4 superframes renewed at 2 with a skip cap of 2 keeps the
  code's proportions (50, 25, 25).  `SinceCap`, one more than the lease, saturates
  a number that only matters below the lease.  Two misses and two JOINs are enough
  to tell the first from the last.  Two slots are enough to be in the wrong one.
  Three tiers: one that follows every beacon, one that skips and ranges every second
  time, one whose skip is capped.  Re-discovery is due after 5 superframes, later than
  the longest cadence of sweeps (4): at a slower cadence it takes the place of every
  sweep, in the model as in the code.  Two anchors make a fix instead of three; more
  and fewer than enough are both reached.  No bound is on the number of failures or
  of superframes.
* `beacon_timing`: the code's milliseconds and microseconds, a baseline of 8
  observations instead of 128 (so that it fills and rolls), Q of 2^12, clock and
  counter of 14 and 10 bits so that both wrap, 11 superframes from one boot, one
  restart of the gateway, and a beacon half a superframe away is never confused
  with the one aimed at.  A wake request comes before or after the next beacon
  (`Wakes`); the skips are 1 and 3.  A baseline that spans a restart of the gateway is excepted
  (`oneEpoch`): a counter that comes back a little ahead passes as a sane period.
* `runner_wake`: nothing is bounded; the ladder has the code's six rungs.
* `tag_alert`: an epoch modulo 8 that starts at 6, and three raises, so it wraps
  between them; fewer than half the epochs are raised, as in the code's life of a
  frame.  `CancelRepeats` is 1 because with the code's 6 no CANCEL completes
  (section 6), and what follows completion is part of what is checked.
* `alert_flood`: two tags whose floods meet at one anchor, one of them heard only by
  an anchor without a hop; caches of two, a table of one, three frames in all, so
  that both overflow; a clock of five ticks and a sequence number of two values, so
  that both wrap.  TTL 3 is the longest path; a smaller one cuts it.
* `tag_ui`: the order of the code's times is kept (the window before the hold, the
  hold shorter than the display); a queue of three edges overflows; a slow call
  takes up to two ticks.
* `radio_irq`: one frame of every kind and refused variants of them on the air;
  nothing else is bounded.
* `fix_path`: three anchors for a pool of two, so that slots change hands;
  a filter reset after two gated sweeps; two pairs of heights.
* `adv_window`: a window of two ticks, enough to be in the middle of one; nothing
  else is bounded.
* `boot`: one name and one foreign record, two attempts at the radio; no bound on
  faults and resets.
* `cal_image`: the code's delays and limits with eight samples for a hundred; an
  antenna two corrections away, one nearly three, one out of reach.

### Fairness

* `TagMac`: weak fairness of the tag's steps.  The runner is the highest-priority
  thread that is always ready again: every wait in its loop has a timeout.  Nothing
  is assumed of the gateway, the air, the tiers or the anchors; the liveness
  properties ask for calm (`Calm`: gateway up with our version, nothing fails) or for
  silence from some point on.
* `RadioOwner`: weak fairness of the runner, of the kernel's timeouts, of the return
  of a readied claimant and of the release of a granted radio (a calibration ends);
  none of new claims.
* `TagAlert`: the clock runs, the runner's block is executed, and frames that are
  sent and repeated again and again are not all lost (strong fairness of a
  successful transmission and of the delivery).  `HelpLatched` excepts a tag that
  is reset for ever.
* `Boot`: `main()`, the feeder and the handler go on when they can, the clock runs, and
  the watchdog bites when it is due.
* `FixPath` assumes none: `Relocates` has its conditions (left alone, no reflections,
  sweeps go on and give fixes) as premises.

## 4. Proofs

`RadioOwner_proofs`, for every set of claimants.  The inductive invariant is
`IInv`, the type invariant with five more facts: at most one claim is in flight
(`OneClaim`); the state of the claim fits `state` (`ClaimMatchesState`);
`REQUESTED` and `HANDED` have a claim behind them (`ClaimExists`); where the
runner is fits `state` (`RunnerMatchesState`); the runner has re-established what
a claimant left (`RunnerUndisturbed`).  `OneDriver` alone is not inductive: that
a timeout cannot give the radio to a second thread rests on which claim the state
belongs to.  From it follow the safety properties the run checks, and
`HandoverImplementsLoan`: each step maps to a step of `RadioLoan` or a stutter
under the map from `state`, `claim` and `runner` to the holder.

`RunnerWake_proofs`, for every ladder.  `AlertCutsSkip` speaks only of the wait;
the invariant follows the wake from where it is given: from the reading of the
alert to the choice of a window the flag holds it (`FlagKeepsWake`), so the drain
at the top loses nothing in a network; from the tier to the wait the semaphore
holds a movement (`GiveKeepsMotion`); and the ladder is down outside SCAN
(`ActionsFit`).  `FlagKeepsWake` also shows why SCAN is different: there the flag
is consumed and changes nothing (section 6).

`TagAlert_proofs`, for every width of the epoch and every number of raises below
half of it (the code's life of a frame).  A counter that wraps has no order; the
proof gives it one, the number of raises after `StartEpoch` (`Dist`), and
`NewerIsLater` shows that the code's signed comparison is that order.  In it the
invariant is a chain: no frame, no latched and no cancelled epoch is later than the
tag's, which is the record's (`FramesBehind`, `LatchBehind`, `RecordFits`), and what
the gateway has seen cancelled is not later than its latch (`ClearedBehind`).
`NeverRelatched` needs the last of these: the latch remembers one cancelled epoch,
and every earlier one is shut out by the order.  It rests on the model's premise that
a flood has ended before a later epoch's frames arrive (`Outdated`).

`TagMac_proofs`, for every table of tiers, number of slots and length of lease.  What
a superframe may transmit is decided when its beacon is handled, and carried by the
action word to the block that sends; `MacSafe` looks at the sending, so the invariant
says what each bit stands for until it is executed: a transmitting bit was set by a
beacon (`HeardFirst`), a sweep under our address and in the slot of this superframe's
map (`SweepIsOurs`), RANGING rests on a pool with enough anchors (`PoolKnown`), JOINING
on a retry left (`RetryLeft`), and a gateway that is off seats nobody
(`SilentGateway`).  `LeaseKnown` is the core: once a due KEEPALIVE is out, the tag's
count of the lease, less what it slept through, is not above the gateway's, and after
a beacon more than half a lease is left.  `SkipKeepsSeat` follows with
`SkipAssumption`, that the skip cap is at most half the lease; the code has 25 of 50
(`uwb_net.h:47`).

`RadioIrq_proofs`, for every set of frames on the air.  The interrupt is enabled
exactly from `WaitEnable` to `WaitReturn`, and a latched edge or a running handler is
of that time (`Armed`); from the reset of `last_evt` on, what the semaphore announces
is of the mask that was programmed (`GivenAskedFor`).

`FramesTakenWhole` is the other theorem about `RadioIrq`, in two halves.  The first is
the codec, for every value of the fields: a GRANT, a beacon, a discovery answer and a
ranging answer are read back as they were built (`GrantRead`, `BeaconRead`,
`ResponseRead`, `RangeRead`), whatever their sequence number.  The second is the buffer:
the length that was accepted may be an older frame's, but the bytes up to the end of
the newer one are the newer one's (`Prefix`), the type among them tells its kind, and
the kind its length, so that a reader who insists on type and length has the whole
frame (`TakenIsSent`); a ranging answer is the one that may be followed by leftovers,
and its reader stops before them.  The invariant (`Reading`) is that a frame is in the
buffer, and fits, from `ReadLength` to `ReadData`.  The assumption (`AirAssumption`)
is that frames are octets, that those of the four kinds come from the builders with
fields of the widths the code has, eleven slots in a beacon (`UWB_FRAME_N_CFP`) and
any version, and that those of other kinds have a header and another type.  Without it
the property is false: a frame nobody built may have any fields.

The second component of four of these modules:

* `FixPath` (in `RunnerWake_proofs`), for every pool, set of anchors and heights.  The
  best anchors are those that stay in the pool until the sweep is over (`Best`), a
  range and a pair of coordinates is of the anchor that the slot has had since it was
  learnt (`RangesSelected`, `SlotCoordinates`), heights are stored before they are
  live (`HeightsInStep`), and the log names what it logged under its epoch
  (`SessionNames`).
* `TagUi` (in `TagAlert_proofs`), for every length of the times and of the queue.  The
  age that the thread measures of a gesture is the time since the press itself, as
  long as each edge was taken before the next one came (`GestureTimed`,
  `HeldSincePress`), and a HELP is hidden only for the rest of the battery's slice
  (`Covered`).
* `AlertFlood` (in `RadioIrq_proofs`), for every topology, cache and table.
  `FloodIInv`: what is queued or latched is of the tag's present or past, a tag has one
  entry, and an alarm that was cancelled has its cancel remembered as long as its entry
  is kept (`LatchKnows`).  `CacheIInv` is a count: an anchor whose cache has held as many
  keys as there are about cannot have forgotten one, because the entry it gives away is
  stale, free, or older than all that are still about (`Remembered`).  Its first attempt
  failed on an entry that has outlived a whole lap of the clock and looks new again;
  TLC found the behaviour with one frame more than the run has, and `WrappedSlot`, which
  had excepted only a negative age, now excepts it too.  Epochs do not wrap here
  (`MaxEpoch` is one of them); `TagAlert` has the wrap.
* `BeaconTiming` (in `TagMac_proofs`), for every period, jitter, skip, phase, length of
  baseline and width of the clocks.  The invariant (`TimingIInv`) says which beacons of
  the gateway the three references of the scheduler are, in which order and how many
  superframes ago they were sent (`StandsOn`), that the estimate keeps its bound through
  a roll, since the baseline only grows shorter there with an estimate measured over the
  longer one (`WithinBound`), and that a locked tag stands at the last beacon
  (`AtLastBeacon`).  `NoWholeLap` is the step that a wrapping clock needs: an
  interval that lost a lap of it gives a period that is not sane, so the difference of
  two readings is the time between them.  From it follow `AimIsSound` and, by the
  integer arithmetic of the plan (`WindowArithmetic`), `WindowIsAimed`.  The
  assumptions are that crystals keep the period near the nominal one, that the jitter
  is what the code allows for, that a skip is short against a lap of the clock, and
  at most half a lap of the frame counter (`MaxSf`: 13 years) from one boot.

`AdvWindow_proofs`, for every length of the window and every battery voltage.  The
host starts and stops advertising only without a connection (`HostCalls`); a stop
overtaken by continuous mode has an item of work behind it (`StopUndone`); the armed
time and the age of the window add up to its length, and a stop on its way has seen a
full window or was queued before the request (`WindowAge`); samples set aside stay so
while the connection is known (`SamplesApart`).  The lemmas on the work queue say
that an item is in it once, whatever is submitted, taken or cancelled;
`PercentRange` follows from the rising curve.

`Boot_proofs`, for every set of names and number of attempts at the radio.
`HalfWritten` follows the fatal handler field by field: what lies behind it is of this
fault, and a record valid before it is done was valid before it began.  A reset may
cut it anywhere, and what is left is whole, invalid or the named mixture.
`FlashHasKept` is the name's half.

`CalImage_proofs`, for every antenna, scatter and set of delays.  Between the two
writes of a clear and of a store RAM and flash differ; `HalfWay` says how, unless the
two crossed (section 7).  "CAL OK" is ahead of the record only while it is written
(`OkAhead`), the busy flag covers the run but for the moment after the queue
(`BusyCovers`), and the registers of a radio nobody holds have the calibration in use
(`RadioHeld`).  `CorrectionBounded` is about the arithmetic alone, for every measured
distance.

The assumptions are the modules' ASSUMEs, which TLC evaluates in the runs; each
inductive invariant was checked on its component's run before it was proved.

Only model-checked are:

* liveness, out of the prover's reach: `RunnerResumes`, `RangesAgain`, `SeatGivenUp`,
  `HelpLatched`, `Recovers`, `Relocates`;
* what would go by induction over data: `FloodArrives` (over the paths of the
  network), `Converges` (the filtered mean of the samples);
* the ASSUMEs about the pure modules of section 3.

## 5. What is not modelled

* Floating point: the Gauss-Newton iteration and its residuals (`pos_solver.c`,
  `pos_residual.c`), the Kalman algebra (`pos_ekf.c`), the time of flight of a sweep.
  `PosSeed` has what stands around the iteration in exact integers, `FixPath` what
  the runner and the filter do with its outcomes.
* The DW3000 driver (vendored, precompiled) and `phy_config.c` (tables of its
  constants), the examples (in no image), the register set-up of the accelerometer
  and the charger, and pin and bus set-up in `platform/`.
* The texts of answers and telemetry, and their sending over NUS.
* Of the runner: bench mode (`dw_sleep_enabled` false) and the time within a
  superframe.  `TagMac`'s pool forgets no anchor; `FixPath` has the pool in full.
* A failing flash under the alert's record: the code does not look at the result, so
  there is no promise to check.  In `CalImage` and `Boot` storage may fail.
* `dbg`'s running sequence number and time step, and `dbg q` beside its flag.
* The gateway's and the anchors' programs, but for what the shared
  `alert_relay.c` does in them.

## 6. Where the code and its documents differ

The models contain what the code does; these statements of documents and comments
do not hold of it.

* The baseline's midpoint is captured once only (`beacon_sched_core.c:98`: the roll
  puts the count back to half the maximum), so from the second roll on the baseline
  keeps its origin, where the comment at 94-95 has it follow a slow drift.
* Out of coverage, a HELP pressed between the reading of the alert and the drain at
  `uwb_net_runner.c:601` waits out the ladder's rung, up to 30 minutes; the comments
  at 161-166 and 734-736 rely on the sticky flag, which shortens nothing in SCAN.
* No CANCEL sequence completes its repeats: the runner asks `tag_alert_active()`
  (`uwb_net_runner.c:842`), which is false from the moment of the cancel; compare
  `uwb_net.h:149`, `tag_alert.h:26` and `help-alert-design.md:199`.
* A HELP resumed by a reset in the middle of its CANCEL (`tag_alert.c:69`) is
  ignored by a gateway that has seen that CANCEL.
* A seated tag takes beacons of any protocol version (`uwb_net.c:278`, against
  `uwb_net.h:14` and the MAC contract, line 258).
* A gateway that falls silent while the tag is joining leaves it in JOINING
  (`uwb_net.c:260`, against `tag-network-layer-design.md:133`).
* `prj.conf:49-53` has `spi_mutex` never contended; `uwb_ss_initiator.c:168-173`
  enables the interrupt and then drains in the thread, and there the handler can
  find the mutex held.  Only the watchdog would end that.
* `tag_ui.c:209-210` has a CANCEL fired while the button is still held; a press put
  back behind its own release (line 285), a release lost to a full queue, or a thread
  that is three seconds late fires it without a hold.
* `wdt.h:28-30` has SREQ mean a crash.  A crash halts and is reported as DOG, as
  `tag_cmd.c:118` says; SREQ is what the boot guard's channel of task_wdt leaves,
  where `tag_cmd.c:121` has nothing that calls `sys_reboot()`.
* `cal_run.c:46-48` has a clear start from a clean slate; one that falls into a run
  stops neither its provisional delay nor its store.
* `alert_relay.h:42` has entries older than the limit free for reuse; after 2^31 ms
  of quiet the age of an old entry is negative (`alert_relay.c:35-36`) and it looks
  fresh, and after a whole lap it looks as young as it ever was.
* `uwb_net_runner.c:681-683` has growing the skip safe with whatever estimate exists,
  because a short baseline widens its window.  The width (`beacon_sched_core.c:178`)
  counts the jitter once for the two endpoints of the baseline and not for the beacon
  it aims at; after one superframe of baseline (a lock whose gateway has just
  restarted) the window of a skip of 25 can miss its beacon by more than the plan's
  truncation: `WindowReaches` without `MarginCovers` is violated at the code's
  constants, with skips of 1 and 25, a period of 200,239 us and a jitter of 120 us
  either way.  The miss is recovered by a full window.

## 7. Observations

Radio and MAC:

* The window leaves out the truncation of the phase reference and of the
  prediction, together less than 2 ms; `WindowReaches` grants it (`Truncated`), without
  which it does not hold.
* `beacon_sched_baseline_sf()` is an unsigned difference: after a restart of the gateway
  within the baseline it can be nearly 2^32, and the error term of the plan is zero.
* The ladder of misses in `beacon_sched_plan()` is not reached from the runner,
  which plans only with a reference and so with no miss; a miss leads to a full
  window at once, where the low-power design, section 4.4, has rungs.
* The first wait of the ladder after losing coverage is the second rung: the first
  probe comes at once, since the radio is awake, and its failure climbs.
* A movement that starts and stops before the runner looks neither promotes the
  tier nor resets the ladder.  `motion.c:99` stores the level it read as a seed after
  the interrupt is armed, and can overwrite a later edge until the next one.
* An unjoined tag alerts from address 0x0000, the gateway's.
* At `range_every` 1 there is no SLEEP action, and the radio stays on between skips.
* Discovery is broadcast outside the tag's slot.
* Eleven slots of 24 ms and their guards end after the 200 ms superframe.
* `uwb_net_set_tier()` has no caller, and the radio has no second thread that
  claims it in the production image.
* The tier table's two fields are written one by one while the runner reads them
  (`uwb_net.h:104-108`).
* A beacon that times out leaves the receiver on, and so does `uwb_radio_tx_cap()`,
  which asks for a response; a transmission after a missed beacon starts from there,
  although `position_publish()`'s comment says a start is not honoured outside IDLE.
  `tag_alert_sent()` is called whatever `uwb_radio_tx_cap()` returned.
* `process_deca_irq()` loops while the line is up, without a bound.

Alert:

* The TTL must exceed the longest detour of a flood.  The latch remembers one
  cancelled epoch, and a stale CANCEL moves the entry's epoch back.
* The eviction takes the smallest `last_heard_ms` as a plain number, and may take a
  standing HELP or a CANCEL that has to be remembered.
* A reset starts `repeat_seq` again, so a resumed HELP is dropped as a duplicate for
  up to 30 s where the frames before the reset are remembered.
* In the wrapped case of section 6 the cache is effectively one slot.

Position:

* A `dbg on` inside a sweep is accepted by `pos_dbg.h:168-177` as misnaming one
  record; it can misname more, until the next change.
* The runner can read one old and one new height.  The pool's decay raises a negative
  score.  An anchor's id is the low byte of its source address.

BLE, commands:

* A stop that is queued when a new window is asked for closes it at once.  A
  connection that lands on a returning start resets `batt_connected`.  A refused start
  is not tried again, also not in continuous mode.  `ble_log_send_raw()` reads
  `current_conn` without a reference.
* A line is cut to 23 characters, so the second number of `pwr tier` may lose digits,
  and a number beyond 32 bits wraps; only the echo shows it.

Boot and calibration:

* The fatal handler does not clear the magic word first, so over a record that was
  not cleared a reset inside the handler leaves a mixture (`wdt.c:107`).
* Without an LED strip or without BLE `main()` stops for good, before the guard.
* A rejected NFC write stays in the buffer that the tag serves; the result of the
  store at `nfc_tag.c:117` is not looked at.
* A clear that crosses a store parts RAM and flash until the next boot.  A second `cal`
  is accepted between the dequeue and the busy flag.
* `err_mm * 1000` leaves an `int32_t` beyond 2.1 km (`cal_math.c:59`).
* An uncalibrated image's first probe measures with the hardware's unset delay.

## 8. Plan

Done: every component of section 1, to the extent of section 5, and the proofs of
section 4.  Next:

1. A clock within the superframe, for the slots and their guards.
2. `TagAlert` over `AlertFlood` instead of over its abstract air.
