------------------------------ MODULE CalImage ------------------------------
(***************************************************************************)
(* The calibration image: src/src/cal_run.c's thread, src/src/cal_diag.c's *)
(* thread and the BLE thread that takes their commands share the record in *)
(* flash, its copy in RAM, the last verdict and the radio, of which the    *)
(* one that asks second is refused (RadioOwner without a runner).  BLE     *)
(* runs above the two; a call into flash lets them in.                     *)
(***************************************************************************)
EXTENDS CalMath

CONSTANTS None,
          Foreign,     \* a record of another PHY or version, or a broken one
          Default,     \* TX_ANT_DLY + RX_ANT_DLY
          Unset,       \* what the delay registers hold before they are written
          Override,    \* a delay that a probe is told to use
          Truth,       \* the delays an antenna may really have
          Ref,         \* the distance the tag is set up at, in mm
          Scatter,     \* errors of a pass's samples around the mean, in mm
          DiagDepth    \* depth of cal_diag_q

\* "cal probe" takes no delay beyond the solver's own bound.
ASSUME ImageAssumption == /\ {Default, Override} \subseteq 0..MaxTotalDly
                          /\ {Ref, DiagDepth} \subseteq Nat
                          /\ Truth \subseteq Nat
                          /\ Scatter \subseteq Seq(Int)
                          /\ {None, Foreign, Unset} \cap (0..MaxTotalDly) = {}
                          /\ None # Foreign

MaxIters == 4          \* CAL_MAX_ITERS

VARIABLES truth,       \* the antenna on the bench
          nvs,         \* the record: a total delay, None or Foreign
          active,      \* the copy in RAM: the same, None when not valid
          provisional, \* cal_run_provisional_total, None when not valid
          pass,        \* cal_run_provisional_pass
          last,        \* cal_last
          led,
          request,     \* cal_run_q holds a request
          busy,        \* cal_run_busy
          run,         \* where "calrun" is
          total,       \* the delay of its pass
          clearing,    \* the BLE thread is between the flash and the RAM
          diagq,       \* cal_diag_q
          diag,        \* where "caldiag" is
          holder,      \* who has the radio
          dly,         \* the antenna delay in the radio
          crossed,     \* a clear fell into a store, or a store into a clear
          cleared,     \* a record was cleared since the last one was written
          stale,       \* a record was cleared since the last release
          far,         \* how far off the seed of this attempt was
          doubled      \* a request came between the queue and the flag

records == <<nvs, active, crossed>>
attempt == <<provisional, pass, far>>
runner == <<request, busy, run, total, doubled>>
probing == <<diagq, diag>>
radio == <<holder, dly, stale>>
shown == <<last, led, cleared>>
vars == <<truth, records, attempt, shown, runner, clearing, probing, radio>>

Delay == 0..MaxTotalDly
Kind == {"listen", "probe", "override"}

TypeOK == /\ \A d \in {nvs, active, provisional} : d \in {None, Foreign} \/ d \in Delay
          /\ active # Foreign /\ provisional # Foreign
          /\ pass \in 0..(MaxIters - 1)
          /\ last \in {"none", "running", "again", "ok", "no-resp", "res", "nvs",
                       "busy"}
          /\ led \in {"amber", "dim", "blue", "green", "red"}
          /\ {request, busy, clearing, crossed, cleared, stale, doubled} \subseteq BOOLEAN
          /\ run \in {"idle", "taken", "claim", "sampling", "storing", "activating",
                      "releasing", "done"}
          /\ total \in Delay
          /\ diagq \in Seq(Kind) /\ Len(diagq) <= DiagDepth
          /\ diag \in Kind \cup {"idle"}
          /\ holder \in {"nobody", "calrun", "caldiag"}
          /\ dly = Unset \/ dly \in Delay

\* cal_record_valid() and cal_init()
Loaded == IF nvs = Foreign THEN None ELSE nvs

Init == /\ truth \in Truth /\ nvs \in {None, Foreign} /\ active = None
        /\ provisional = None /\ pass = 0 /\ far = 0
        /\ last = "none" /\ led = "amber"
        /\ request = FALSE /\ busy = FALSE /\ run = "idle" /\ total = Default
        /\ clearing = FALSE /\ diagq = <<>> /\ diag = "idle"
        /\ holder = "nobody" /\ dly = Unset
        /\ crossed = FALSE /\ cleared = FALSE /\ stale = FALSE /\ doubled = FALSE

\* cal_led_init()
LedAtBoot == IF Loaded = None THEN "amber" ELSE "dim"

\* cal_init(), cal_led_init() and the one-time set-up of ss_twr_fn(), after the
\* power was gone at any moment.
Reset == /\ active' = Loaded
         /\ provisional' = None /\ pass' = 0 /\ far' = 0
         /\ last' = "none" /\ led' = LedAtBoot
         /\ request' = FALSE /\ busy' = FALSE /\ run' = "idle" /\ total' = Default
         /\ clearing' = FALSE /\ diagq' = <<>> /\ diag' = "idle"
         /\ holder' = "nobody" /\ dly' = IF Loaded = None THEN Unset ELSE Loaded
         /\ crossed' = FALSE /\ cleared' = FALSE /\ stale' = FALSE
         /\ doubled' = FALSE
         /\ UNCHANGED <<truth, nvs>>

\* cal_get_ant_dly() and the fall-back of both releases.
Calibrated == IF active = None THEN Default ELSE active

-----------------------------------------------------------------------------
(* Verdicts                                                                *)

Failures == {"no-resp", "res", "nvs", "busy"}

\* cal_led_on_result()
LedOn(v) == CASE v = "running" -> "blue"
              [] v = "ok" -> "green"
              [] v \in Failures -> "red"
              [] OTHER -> led

\* cal_set_last_result()
Verdict(v) == last' = v /\ led' = LedOn(v)

-----------------------------------------------------------------------------
(* Commands, one at a time on the BLE thread                               *)

\* Mutation: a request is taken whenever its queue is empty.
Free_Queue == ~request

Free == ~busy /\ ~request

\* "cal <mm>"; a request that finds the run busy or the queue full changes nothing.
CalCommand == /\ ~clearing /\ Free
              /\ request' = TRUE
              /\ doubled' = (run = "taken")
              /\ Verdict("running")
              /\ UNCHANGED <<truth, records, attempt, busy, run, total, clearing,
                             probing, radio, cleared>>

\* "cal clear", first in flash; when that fails the record stays in use.
ClearFlash == /\ ~clearing
              /\ nvs' = None /\ clearing' = TRUE
              /\ crossed' = (run = "activating")
              /\ cleared' = TRUE
              /\ UNCHANGED <<truth, active, attempt, runner, probing, radio, last, led>>

ClearRam == /\ clearing
            /\ clearing' = FALSE
            /\ active' = None /\ provisional' = None /\ pass' = 0
            /\ cleared' = TRUE /\ stale' = TRUE
            /\ UNCHANGED <<truth, nvs, crossed, far, runner, probing, holder, dly,
                           last, led>>

\* "cal listen", "cal probe", "cal probe <delay>"
DiagCommand(k) == /\ ~clearing /\ Len(diagq) < DiagDepth
                  /\ diagq' = Append(diagq, k)
                  /\ UNCHANGED <<truth, records, attempt, shown, runner, clearing,
                                 diag, radio>>

-----------------------------------------------------------------------------
(* The thread "calrun"                                                     *)

Take == /\ run = "idle" /\ request
        /\ run' = "taken" /\ request' = FALSE /\ doubled' = FALSE
        /\ UNCHANGED <<truth, records, attempt, shown, busy, total, clearing,
                       probing, radio>>

SetBusy == /\ run = "taken"
           /\ run' = "claim" /\ busy' = TRUE
           /\ UNCHANGED <<truth, records, attempt, shown, request, total, doubled,
                          clearing, probing, radio>>

\* Mutation: every pass starts from the calibration in use.
Seed_Stored == Calibrated

\* cal_run_active_total_seed()
Seed == IF provisional # None THEN provisional ELSE Calibrated

\* The delay goes into the radio once, at the claim.
Claim == /\ run = "claim"
         /\ IF holder = "nobody"
            THEN /\ holder' = "calrun" /\ total' = Seed
                 /\ dly' = SplitDly(Seed).tx + SplitDly(Seed).rx
                 /\ run' = "sampling"
                 /\ UNCHANGED <<last, led>>
            ELSE /\ Verdict("busy") /\ run' = "done"
                 /\ UNCHANGED <<holder, total, dly>>
         /\ UNCHANGED <<truth, records, attempt, cleared, request, busy, doubled,
                        clearing, probing, stale>>

\* What the radio measures: too little delay reads as too far.
Measured(errs) == LET d == Ref + Quotient((truth - dly) * MmPerUnitX1000, 1000)
                  IN [i \in DOMAIN errs |-> d + errs[i]]

FarOff == Magnitude(truth - total)

\* cal_run_execute() from the samples on, as far as the flash.
Judge(errs) ==
    LET r == IterationResult(Measured(errs), Ref, total)
        final == pass + 1 >= MaxIters
    IN /\ run = "sampling"
       /\ far' = IF pass = 0 THEN FarOff ELSE far
       /\ \/ /\ r.verdict = "NO_RESP"
             /\ Verdict("no-resp") /\ run' = "releasing"
             /\ UNCHANGED <<provisional, pass>>
          \/ /\ r.verdict = "CONVERGED"
             /\ Verdict("ok") /\ run' = "storing"
             /\ provisional' = None /\ pass' = 0
          \/ /\ r.verdict = "CONTINUE" /\ final
             /\ Verdict("res") /\ run' = "releasing"
             /\ provisional' = None /\ pass' = 0
          \/ /\ r.verdict = "CONTINUE" /\ ~final
             /\ Verdict("again") /\ run' = "releasing"
             /\ provisional' = r.total /\ pass' = pass + 1
       /\ UNCHANGED <<truth, records, cleared, request, busy, total, doubled,
                      clearing, probing, radio>>

\* Mutation: the result of the write is not looked at.
StoreFails_Silent == /\ run = "storing"
                     /\ run' = "releasing"
                     /\ UNCHANGED <<truth, records, attempt, shown, request, busy,
                                    total, doubled, clearing, probing, radio>>

\* cal_store()
StoreFails == /\ run = "storing"
              /\ Verdict("nvs") /\ run' = "releasing"
              /\ UNCHANGED <<truth, records, attempt, cleared, request, busy,
                             total, doubled, clearing, probing, radio>>

StoreFlash == /\ run = "storing"
              /\ nvs' = total /\ run' = "activating"
              /\ crossed' = clearing /\ cleared' = FALSE
              /\ UNCHANGED <<truth, active, attempt, last, led, request, busy,
                             total, doubled, clearing, probing, radio>>

Activate == /\ run = "activating"
            /\ active' = total /\ run' = "releasing"
            /\ UNCHANGED <<truth, nvs, crossed, attempt, shown, request, busy,
                           total, doubled, clearing, probing, radio>>

\* Mutation: the delays stay as the last user left them.
Restored_Left == holder' = "nobody" /\ stale' = FALSE /\ UNCHANGED dly

\* The delays both releases put back.
Restored == holder' = "nobody" /\ stale' = FALSE /\ dly' = Calibrated

Release == /\ run = "releasing"
           /\ Restored /\ run' = "done"
           /\ UNCHANGED <<truth, records, attempt, shown, request, busy, total,
                          doubled, clearing, probing>>

Done == /\ run = "done"
        /\ run' = "idle" /\ busy' = FALSE
        /\ UNCHANGED <<truth, records, attempt, shown, request, total, doubled,
                       clearing, probing, radio>>

-----------------------------------------------------------------------------
(* The thread "caldiag"                                                    *)

DiagTake == /\ diag = "idle" /\ diagq # <<>>
            /\ diag' = Head(diagq) /\ diagq' = Tail(diagq)
            /\ UNCHANGED <<truth, records, attempt, shown, runner, clearing, radio>>

\* The radio, or "F busy".
DiagClaim == /\ diag # "idle" /\ holder # "caldiag"
             /\ IF holder = "nobody"
                THEN /\ holder' = "caldiag"
                     /\ dly' = IF diag = "override" THEN Override ELSE dly
                     /\ UNCHANGED diag
                ELSE diag' = "idle" /\ UNCHANGED <<holder, dly>>
             /\ UNCHANGED <<truth, records, attempt, shown, runner, clearing, diagq,
                            stale>>

DiagRelease == /\ holder = "caldiag"
               /\ Restored /\ diag' = "idle"
               /\ UNCHANGED <<truth, records, attempt, shown, runner, clearing, diagq>>

-----------------------------------------------------------------------------

Commands == \/ CalCommand \/ ClearFlash \/ ClearRam
            \/ \E k \in Kind : DiagCommand(k)

CalRun == \/ Take \/ SetBusy \/ Claim \/ \E errs \in Scatter : Judge(errs)
          \/ StoreFails \/ StoreFlash \/ Activate \/ Release \/ Done

CalDiag == DiagTake \/ DiagClaim \/ DiagRelease

Next == Commands \/ CalRun \/ CalDiag \/ Reset

Spec == Init /\ [][Next]_vars

-----------------------------------------------------------------------------
(* Properties *)

\* Between two operations the copy in RAM is the record in flash, also when a
\* write or a delete failed; only a clear that falls into a store parts them.
RamIsFlash == ~clearing /\ run # "activating" /\ ~crossed => active = Loaded

\* A "CAL OK" that still stands means that a record was written.
OkIsStored == last = "ok" /\ run \in {"idle", "done"} /\ ~cleared => Loaded # None

\* The next request waits until the run is over; one can slip in while the run
\* has left the queue and not yet set its flag.
OneRun == request /\ run # "idle" => doubled

\* What an operator may rely on between commands.
BenchSound == TypeOK /\ RamIsFlash /\ OkIsStored /\ OneRun

\* An antenna within three full corrections of the seed is calibrated before
\* the passes run out, whatever minority of its samples is wrong and whatever
\* probes, clears and resets fall in between.
Reach == (MaxIters - 1) * MaxStepUnits
Converges == last = "res" => far > Reach - MaxIters * AcceptMm

\* A probe that is told no delay measures with the calibration in use, whoever
\* had the radio before it; until a first release the registers may be unset,
\* and a clear reaches them with the next release.
ProbeHonest == holder = "caldiag" /\ diag = "probe" =>
                  dly \in {Calibrated, Unset} \/ stale
=============================================================================
