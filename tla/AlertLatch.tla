----------------------------- MODULE AlertLatch -----------------------------
(***************************************************************************)
(* The gateway's latch of src/src/alert_relay.c for one originator: one    *)
(* entry of struct alert_latch and alert_latch_apply() on it.  A frame is  *)
(* reduced to what the latch reads, [help, epoch].                         *)
(***************************************************************************)
EXTENDS Integers

CONSTANT EpochMod   \* 256 in the code: the epoch is a uint8_t

ASSUME EpochAssumption == EpochMod \in Nat /\ EpochMod > 2

Epoch == 0..(EpochMod - 1)
AlertFrame == [help : BOOLEAN, epoch : Epoch]
HelpFrame(e) == [help |-> TRUE, epoch |-> e]

LatchEntry == [active : BOOLEAN, epoch : Epoch, haveEpoch : BOOLEAN,
               cancelled : Epoch, haveCancelled : BOOLEAN]

\* latch_find_or_alloc() clears a fresh entry.
LatchInit == [active |-> FALSE, epoch |-> 0, haveEpoch |-> FALSE,
              cancelled |-> 0, haveCancelled |-> FALSE]

\* (int8_t)(a - b) > 0
Newer(a, b) == (a - b) % EpochMod \in 1..((EpochMod - 1) \div 2)

\* A HELP that alert_latch_apply() drops, in the order of its tests.
WasCancelled(l, e) == l.haveCancelled /\ e = l.cancelled
IsRefresh(l, e) == l.active /\ e = l.epoch
Raises(l, e) == /\ ~WasCancelled(l, e)
                /\ ~IsRefresh(l, e)
                /\ ~l.haveEpoch \/ Newer(e, l.epoch)
Ignores(l, e) == \/ WasCancelled(l, e)
                 \/ ~IsRefresh(l, e) /\ ~Raises(l, e)

\* Mutation: a CANCEL is not remembered.
LatchApply_Forgets(l, f) ==
    IF ~f.help THEN [l EXCEPT !.active = FALSE]
    ELSE IF Raises(l, f.epoch)
    THEN [l EXCEPT !.active = TRUE, !.epoch = f.epoch, !.haveEpoch = TRUE]
    ELSE l

\* A CANCEL clears the latch whatever its epoch.
LatchApply(l, f) ==
    IF ~f.help
    THEN [l EXCEPT !.active = FALSE, !.epoch = f.epoch, !.haveEpoch = TRUE,
                   !.cancelled = f.epoch, !.haveCancelled = TRUE]
    ELSE IF Raises(l, f.epoch)
    THEN [l EXCEPT !.active = TRUE, !.epoch = f.epoch, !.haveEpoch = TRUE]
    ELSE l
=============================================================================
