------------------------------- MODULE TagMac -------------------------------
(***************************************************************************)
(* The runner's superframe (src/src/uwb_net_runner.c) around the network   *)
(* state machine of UwbNet, together with the gateway it holds a seat      *)
(* with.  The gateway is another repository's program: it is modelled from *)
(* the frames the runner sends and parses.                                 *)
(*                                                                         *)
(* The runner handles one event, gets an action word, and executes its     *)
(* bits from top to bottom; `act' holds the bits still to be executed, so  *)
(* the superframe is over when nothing but the logging of TO_SCAN is left. *)
(***************************************************************************)
EXTENDS UwbNet, FiniteSets

CONSTANTS Slots,       \* CFP slots of the superframe
          Addr,        \* the short address the gateway binds to our EUI
          NoSlot,      \* no slot of the map names us
          SelectMax,   \* ANCHOR_SELECT_MAX
          ScanSpans,   \* superframes a probe of SCAN may sleep through
          SinceCap,    \* bound on ctx.since: longer than any lease
          BadVersions, \* may the gateway come up with another proto_ver?
          Alerts       \* values tag_alert_active() may take

ASSUME MacAssumption ==
    /\ NoSlot \notin Slots
    /\ Addr \notin {ZeroAddr, UnassocAddr}
    /\ SelectMax \in Nat
    /\ MinAnchors <= SelectMax
    /\ ScanSpans \subseteq Nat \ {0}
    /\ SinceCap \in Nat
    /\ SinceCap >= LeaseSf
    /\ BadVersions \subseteq BOOLEAN
    /\ Alerts \subseteq BOOLEAN

\* "A tag that sleeps for more than 25 superframes cannot renew its lease"
\* (uwb_net.h:47): the cap is at most the half at which the lease is renewed.
ASSUME SkipAssumption == SkipCap <= LeaseSf \div 2

VARIABLES ctx,        \* struct uwb_net_ctx
          gate,       \* sweep_gate
          found,      \* n_selected: anchors in the pool, at most SelectMax
          calValid,   \* cal_is_valid()
          asleep,     \* radio_asleep
          act,        \* action bits still to be executed
          scanning,   \* the local of that name: SCAN when we listened
          heard,      \* this superframe's beacon was received
          tx,         \* what the tag transmitted in this superframe
          gUp,        \* the gateway is on the air
          gVerOk,     \* its proto_ver is the tag's
          gSlot,      \* the slot its map names us in
          gLease,     \* superframes until it reclaims that slot
          kaLost,     \* no KEEPALIVE has got through since one was lost
          glitch      \* something failed in this superframe

tagVars == <<ctx, gate, found, calValid, asleep, act, scanning, heard, tx>>
gwVars == <<gUp, gVerOk, gSlot, gLease, kaLost>>
vars == <<tagVars, gwVars, glitch>>

Ctx == [state : NetState, addr : {ZeroAddr, Addr}, slot : Slots \cup {0},
        tier : Tiers, lease : 0..LeaseSf, miss : 0..MissMax,
        retries : 0..JoinRetryMax, part : Nat, since : 0..SinceCap]
Frame == [kind : {"JOIN", "KEEPALIVE", "ALERT", "DISCOVERY", "POLL", "POS"},
          src : {ZeroAddr, UnassocAddr, Addr}, at : {"cap", "own", "other"}]

TypeOK == /\ ctx \in Ctx
          /\ gate \in [ever : BOOLEAN, n : 0..SelectMax, age : 0..RediscoverSf]
          /\ found \in 0..SelectMax
          /\ act \subseteq Action
          /\ tx \subseteq Frame
          /\ gSlot \in Slots \cup {NoSlot}
          /\ gLease \in 0..LeaseSf
          /\ {calValid, asleep, scanning, heard, gUp, gVerOk, kaLost, glitch}
                \subseteq BOOLEAN

Init == /\ ctx = NetInit
        /\ gate = GateInit
        /\ found = 0
        /\ calValid \in BOOLEAN
        /\ asleep = FALSE
        /\ act = {}
        /\ scanning = TRUE
        /\ heard = FALSE
        /\ tx = {}
        /\ gUp = TRUE
        /\ gVerOk = TRUE
        /\ gSlot = NoSlot
        /\ gLease = 0
        /\ kaLost = FALSE
        /\ glitch = FALSE

-----------------------------------------------------------------------------
Between == act \subseteq {"TO_SCAN"}
InSync == ctx.state \in {"DISCOVER", "RANGING"}
Capped(n) == IF n > SinceCap THEN SinceCap ELSE n

\* uwb_net_set_tier() or the output of uwb_net_tier_filter(), at the top of
\* the loop.
Motion(t) ==
    /\ Between
    /\ t # ctx.tier
    /\ ctx' = OnMotion(ctx, t)
    /\ UNCHANGED <<gate, found, calValid, asleep, act, scanning, heard, tx,
                   gwVars, glitch>>

\* Superframes from one listen to the next: SCAN sleeps out its probe interval
\* if the radio is asleep; a locked tag skips up to listen_skip of them; after
\* a miss both predictors are reset and the next window is a full one.
Spans == IF ctx.state = "SCAN" THEN IF asleep THEN ScanSpans ELSE {1}
         ELSE IF heard THEN 1..ListenSkip(ctx.tier) ELSE {1}

\* The gateway ages the lease whether or not the tag listens, frees the seat
\* when it has run out, and may move us to another slot.
GatewayAges(k) ==
    /\ gLease' = IF gLease > k THEN gLease - k ELSE 0
    /\ IF gSlot = NoSlot \/ gLease <= k THEN gSlot' = NoSlot
                                        ELSE gSlot' \in Slots

\* ctx as the handler finds it: k superframes later.
Waited(k) == [ctx EXCEPT !.since = Capped(@ + k)]

\* One window of the loop: the wait, the reception, the event and its actions.
Listen(k, alert) ==
    /\ Between
    /\ k \in Spans
    /\ alert \in Alerts
    /\ GatewayAges(k)
    /\ heard' \in {FALSE, gUp}
    /\ glitch' = (gUp /\ ~heard')
    /\ LET out == IF heard'
                  THEN OnBeacon(Waited(k), gVerOk,
                                gSlot' # NoSlot /\ ctx.addr = Addr, gSlot')
                  ELSE OnBeaconMiss(Waited(k))
       IN /\ ctx' = out.ctx
          /\ act' = GateActions(out.act
                                  \cup AlertAction(ctx.state, heard', alert),
                                calValid)
    /\ scanning' = (ctx.state = "SCAN")
    /\ gate' = GateAged(gate, k)
    /\ asleep' = FALSE
    /\ tx' = {}
    /\ UNCHANGED <<found, calValid, gUp, gVerOk, kaLost>>

-----------------------------------------------------------------------------
(* The action blocks, in the order of the loop.  Turn(a): the blocks above *)
(* the one of bit a are done.                                              *)

Order == <<"SEND_JOIN", "SEND_KEEPALIVE", "SEND_ALERT", "RUN_DISCOVER",
           "RUN_SWEEP", "SLEEP", "TO_SCAN">>
Above(a) == {Order[i] : i \in {j \in 1..7 : \E m \in (j + 1)..7 : Order[m] = a}}
Turn(a) == a \in act /\ act \cap Above(a) = {}

\* at: in the contention period, in the slot that the gateway's map gives us
\* in this superframe, or in another slot.
Sent(kind, src, at) == tx' = tx \cup {[kind |-> kind, src |-> src, at |-> at]}

\* The GRANT's actions are or-ed into the word; the JOIN block is behind us.
JoinAnswered(out) ==
    /\ ctx' = out.ctx
    /\ act' = (act \cup GateActions(out.act, calValid)) \ {"SEND_JOIN"}
    /\ Sent("JOIN", UnassocAddr, "cap")
    /\ UNCHANGED <<gate, found, calValid, asleep, scanning, heard>>

\* The gateway seats our EUI (or finds it seated) for a new lease.
GatewaySeats(s) ==
    /\ s \in Slots
    /\ gSlot \in {NoSlot, s}
    /\ gSlot' = s
    /\ gLease' = LeaseSf

JoinGranted(s) ==
    /\ Turn("SEND_JOIN")
    /\ GatewaySeats(s)
    /\ JoinAnswered(OnGrant(ctx, Addr, s, ctx.tier, LeaseSf))
    /\ kaLost' = FALSE
    /\ UNCHANGED <<gUp, gVerOk, glitch>>

\* The GRANT is lost after the gateway has seated us.
GrantLost(s) ==
    /\ Turn("SEND_JOIN")
    /\ GatewaySeats(s)
    /\ JoinAnswered(OnGrantMiss(ctx))
    /\ glitch' = TRUE
    /\ UNCHANGED <<gUp, gVerOk, kaLost>>

\* The JOIN is lost, or the network is full.
JoinLost ==
    /\ Turn("SEND_JOIN")
    /\ JoinAnswered(OnGrantMiss(ctx))
    /\ glitch' = TRUE
    /\ UNCHANGED gwVars

Keepalive(lost) ==
    /\ Turn("SEND_KEEPALIVE")
    /\ Sent("KEEPALIVE", ctx.addr, "cap")
    /\ act' = act \ {"SEND_KEEPALIVE"}
    /\ IF lost \/ gSlot = NoSlot
       THEN glitch' = TRUE /\ kaLost' = TRUE /\ UNCHANGED gLease
       ELSE kaLost' = FALSE /\ gLease' = LeaseSf /\ UNCHANGED glitch
    /\ UNCHANGED <<ctx, gate, found, calValid, asleep, scanning, heard,
                   gUp, gVerOk, gSlot>>

\* tag_alert_frame_due() says whether a repeat is due.
Alert(due) ==
    /\ Turn("SEND_ALERT")
    /\ IF due THEN Sent("ALERT", ctx.addr, "cap") ELSE UNCHANGED tx
    /\ act' = act \ {"SEND_ALERT"}
    /\ UNCHANGED <<ctx, gate, found, calValid, asleep, scanning, heard, gwVars,
                   glitch>>

\* run_discovery(): the pool forgets nobody, so the selection only grows.
\* Hearing fewer anchors than there are is a failure.
Discovery(n) ==
    /\ n \in found..SelectMax
    /\ found' = n
    /\ gate' = GateDiscovered(gate, n)
    /\ Sent("DISCOVERY", ctx.addr, "cap")
    /\ glitch' = (glitch \/ n < SelectMax)

Discover(n) ==
    /\ Turn("RUN_DISCOVER")
    /\ Discovery(n)
    /\ ctx' = OnDiscovered(ctx, n)
    /\ act' = act \ {"RUN_DISCOVER"}
    /\ UNCHANGED <<calValid, asleep, scanning, heard, gwVars>>

\* Re-discovery replaces the sweep, and the machine is not told.
Rediscover(n) ==
    /\ Turn("RUN_SWEEP")
    /\ RediscoverDue(gate)
    /\ Discovery(n)
    /\ act' = act \ {"RUN_SWEEP"}
    /\ UNCHANGED <<ctx, calValid, asleep, scanning, heard, gwVars>>

\* Wait for our slot and range the selected anchors; n of them answer, and a
\* position that solves is sent in the same slot (position_publish()).
Sweep(n, solved) ==
    /\ Turn("RUN_SWEEP")
    /\ ~RediscoverDue(gate)
    /\ n \in 0..found
    /\ solved => n >= MinAnchors
    /\ gate' = GateSwept(gate, n)
    /\ ctx' = OnSwept(ctx, n)
    /\ tx' = tx \cup {[kind |-> k, src |-> ctx.addr,
                       at |-> IF ctx.slot = gSlot THEN "own" ELSE "other"] :
                      k \in IF solved THEN {"POLL", "POS"} ELSE {"POLL"}}
    /\ glitch' = (glitch \/ n < found)
    /\ act' = act \ {"RUN_SWEEP"}
    /\ UNCHANGED <<found, calValid, asleep, scanning, heard, gwVars>>

Sleep ==
    /\ Turn("SLEEP")
    /\ asleep' = TRUE
    /\ act' = act \ {"SLEEP"}
    /\ UNCHANGED <<ctx, gate, found, calValid, scanning, heard, tx, gwVars,
                   glitch>>

-----------------------------------------------------------------------------
(* Failures *)

\* A watchdog or power-on reset of the tag, in the middle of anything.
Reboot ==
    /\ ctx' = NetInit
    /\ gate' = GateInit
    /\ found' = 0
    /\ asleep' = FALSE
    /\ act' = {}
    /\ scanning' = TRUE
    /\ heard' = FALSE
    /\ tx' = {}
    /\ glitch' = TRUE
    /\ UNCHANGED <<calValid, gwVars>>

\* The gateway loses power, and with it every seat.
GatewayDies ==
    /\ Between
    /\ gUp
    /\ gUp' = FALSE
    /\ gSlot' = NoSlot
    /\ gLease' = 0
    /\ glitch' = TRUE
    /\ UNCHANGED <<tagVars, gVerOk, kaLost>>

\* It comes back, perhaps with another protocol version, and its frame counter
\* starts again: the distance from the one we remember can be anything.
GatewayBoots(bad, since) ==
    /\ Between
    /\ ~gUp
    /\ bad \in BadVersions
    /\ since \in {0, SinceCap}
    /\ gUp' = TRUE
    /\ gVerOk' = ~bad
    /\ ctx' = [ctx EXCEPT !.since = since]
    /\ glitch' = TRUE
    /\ UNCHANGED <<gate, found, calValid, asleep, act, scanning, heard, tx,
                   gSlot, gLease, kaLost>>

MaxSpan == ScanSpans \cup 1..SkipCap

TagNext == \/ \E k \in MaxSpan, a \in Alerts : Listen(k, a)
           \/ \E s \in Slots : JoinGranted(s) \/ GrantLost(s)
           \/ JoinLost
           \/ \E b \in BOOLEAN : Keepalive(b) \/ Alert(b)
           \/ \E n \in 0..SelectMax : Discover(n) \/ Rediscover(n)
           \/ \E n \in 0..SelectMax, b \in BOOLEAN : Sweep(n, b)
           \/ Sleep

Next == \/ TagNext
        \/ \E t \in Tiers : Motion(t)
        \/ Reboot
        \/ GatewayDies
        \/ \E b \in BOOLEAN, s \in {0, SinceCap} : GatewayBoots(b, s)

Spec == Init /\ [][Next]_vars

\* The runner is the highest-priority thread that is always ready, and every
\* wait in its loop has a timeout.
FairSpec == Spec /\ WF_vars(TagNext)

-----------------------------------------------------------------------------
(* Properties *)

\* The contract's cardinal rule: in a superframe whose beacon was missed the
\* tag transmits nothing, except a HELP from SCAN, which has no sync to lose.
NoBlindTx == \A f \in tx : heard \/ (f.kind = "ALERT" /\ scanning)

\* Polls and positions go out only in the slot that this superframe's map gives
\* to our address, whatever the gateway did to it, and only when calibrated.
PollsInOwnSlot ==
    \A f \in tx : f.kind \in {"POLL", "POS"}
                    => calValid /\ f.src = Addr /\ f.at = "own"

\* The sweep gate and the state machine agree: a tag in RANGING is not held
\* back by a short sweep (the latch that struct uwb_sweep_gate tells of).
GateAgrees == Between /\ ctx.state = "RANGING" => gate.n >= MinAnchors

\* The tag never believes in more lease than the gateway still grants, however
\* many superframes it skipped or missed, unless a KEEPALIVE was lost.
LeaseMirror ==
    Between /\ InSync /\ gSlot # NoSlot /\ ~kaLost
        => ctx.lease <= gLease + ctx.since

\* What holds at every step of a superframe.
MacSafe == TypeOK /\ NoBlindTx /\ GateAgrees /\ LeaseMirror

\* A seat is never lost to a skip: renewing at half the lease and capping the
\* skip keep it through the longest one (UWB_LISTEN_SKIP_CAP).
SkipKeepsSeat ==
    [][\A k \in MaxSpan, a \in Alerts :
          Listen(k, a) /\ heard /\ InSync /\ gSlot # NoSlot /\ ~kaLost
             => gSlot' # NoSlot]_vars

\* Once nothing fails any more the tag delivers fix after fix (a sweep with
\* enough ranges to solve), whatever state the failures left the seat, the pool
\* and the sweep gate in.
Calm == gUp /\ gVerOk /\ ~glitch
FixStep == \E n \in MinAnchors..SelectMax, b \in BOOLEAN : Sweep(n, b)
RangesAgain == <>[]Calm /\ []calValid => []<><<FixStep>>_vars

\* A seat is given up when the gateway stays silent.
SeatGivenUp == <>[]~gUp => <>[]~InSync

=============================================================================
