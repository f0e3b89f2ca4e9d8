------------------------------- MODULE FixPath -------------------------------
(* From anchors to a published position: discovery and sweep, the snapshot     *)
(* solve and the filter's recovery, the raw-range log and the heights          *)
(* (src/uwb_net_runner.c, src/pos_solver.c, src/pos_ekf.c, src/pos_dbg.c,      *)
(* src/pos_cfg.c).  The runner's thread works through a sweep; the Bluetooth   *)
(* thread changes the heights and restarts the log at any of its steps.        *)
(*                                                                             *)
(* A position is where the tag is or away from there, so far that a range      *)
(* taken here never passes the gate of a filter that is away; a range met by a *)
(* reflection passes it nowhere.  The algebra of both filters is left out.     *)
EXTENDS AnchorPool

CONSTANTS
  Anchors,      \* the ids that may answer, positive numbers
  Quality,      \* the score each is heard with
  MinAnchors,   \* the ranges a snapshot solve needs
  ResetAfter,   \* pos_ekf_cfg.reset_after; 0 is never
  Heights       \* the (anchor, tag) heights an operator sets

ASSUME FixAssumption ==
  /\ Anchors \subseteq Nat \ {0} /\ Quality \in [Anchors -> Nat]
  /\ {MinAnchors, ResetAfter} \subseteq Nat
  /\ \A h \in Heights : h = <<h[1], h[2]>>

VARIABLES
  pool, sel,            \* anchor_pool, selected[]
  aid, xy,              \* sweep_aid[], sweep_ax_cm[]/sweep_ay_cm[] as the anchor they came from
  good, bad,            \* the slots whose range is clean, or reflected
  est, streak,          \* the filter: estimate and gate_streak
  solved,               \* the last sweep had a snapshot fix
  session, changed,     \* pos_dbg's session, and the local of its sweep
  active, stored,       \* pos_cfg's live heights, and the record in NVS
  cmd,                  \* pos_cfg_set() on the Bluetooth thread
  step, slot              \* the runner: its step, and the slot it ranges next

anchor == <<pool, sel>>
slots  == <<aid, xy, good, bad>>
filter == <<est, streak, solved>>
log    == <<session, changed>>
cfg    == <<active, stored, cmd>>
fixVars   == <<anchor, slots, filter, log, cfg, step, slot>>

Slots   == 1 .. SelectMax
NoAid   == 0                  \* POS_DBG_AID_NONE
Nowhere == "nowhere"          \* no estimate, no snapshot fix
None    == <<>>

Fresh == [on |-> FALSE, named |-> FALSE, epoch |-> 0,
          aid |-> [i \in Slots |-> NoAid], xy |-> [i \in Slots |-> NoAid]]

FixInit ==
  /\ pool = Empty /\ sel = <<>>
  /\ aid = [i \in Slots |-> NoAid] /\ xy = [i \in Slots |-> NoAid]
  /\ good = {} /\ bad = {}
  /\ est = Nowhere /\ streak = 0 /\ solved = FALSE
  /\ session = Fresh /\ changed = FALSE
  /\ active \in Heights /\ stored = active /\ cmd = None
  /\ step = "idle" /\ slot = 1

-----------------------------------------------------------------------------
(* The tag is carried off.                                                    *)

Carried ==
  /\ est = "here" /\ est' = "away"
  /\ UNCHANGED <<anchor, slots, streak, solved, log, cfg, step, slot>>

-----------------------------------------------------------------------------
(* run_discovery().                                                           *)

Discover ==
  /\ step = "idle" /\ pool' = Unseen(pool)
  /\ step' = "discover"
  /\ UNCHANGED <<sel, slots, filter, log, cfg, slot>>

\* An anchor answers a broadcast once.
Answer(a) ==
  /\ step = "discover" /\ ~\E i \in Valid(pool) : pool[i].id = a /\ pool[i].seen
  /\ pool' = Update(pool, a, Quality[a])
  /\ UNCHANGED <<sel, slots, filter, log, cfg, step, slot>>

\* A broadcast that failed ends here too, with nobody heard.
Discovered ==
  /\ step = "discover"
  /\ pool' = Unseen(Decayed(pool)) /\ sel' = Selected(Decayed(pool))
  /\ step' = "idle"
  /\ UNCHANGED <<slots, filter, log, cfg, slot>>

-----------------------------------------------------------------------------
(* anchor_sweep().                                                            *)

SelectedId(i) == IF i <= Len(sel) THEN sel[i] ELSE NoAid

\* Mutation: what was learnt stays when the slot changes hands.
Learnt_Kept(i) == xy[i]

\* Mutation: every sweep forgets the coordinates.
Learnt_Zeroed(i) == NoAid

\* Coordinates outlive a missed sweep, and not a slot that changes hands.
Learnt(i) == IF aid[i] = SelectedId(i) THEN xy[i] ELSE NoAid

Sweep ==
  /\ step = "idle" /\ sel # <<>>
  /\ aid' = [i \in Slots |-> SelectedId(i)]
  /\ xy' = [i \in Slots |-> Learnt(i)]
  /\ good' = {} /\ bad' = {}
  /\ slot' = 1 /\ step' = "range" /\ solved' = FALSE
  /\ UNCHANGED <<anchor, est, streak, log, cfg>>

RangeSlot(heard) ==
  /\ step = "range" /\ slot <= Len(sel)
  /\ \/ heard = "none" /\ UNCHANGED <<xy, good, bad>>
     \/ /\ heard \in {"good", "bad"}
        /\ xy' = [xy EXCEPT ![slot] = sel[slot]]
        /\ good' = IF heard = "good" THEN good \cup {slot} ELSE good
        /\ bad'  = IF heard = "bad" THEN bad \cup {slot} ELSE bad
  /\ slot' = slot + 1
  /\ UNCHANGED <<anchor, aid, filter, log, cfg, step>>

-----------------------------------------------------------------------------
(* The solve, the filter and the publication.                                 *)

\* pos_solve(): too few ranges or a degenerate set give none; clean ranges give
\* the place, and a reflected one that is not explained away any place.
Snapshots ==
  IF Cardinality(good \cup bad) < MinAnchors THEN {Nowhere}
  ELSE IF bad = {} THEN {"here", Nowhere} ELSE {"here", "away", Nowhere}

\* Mutation: any range that came ends the streak, gated or not.
Streak_AnyRange(accepted) == IF good \cup bad = {} THEN streak ELSE 0

\* pos_ekf_update_ranges(): the streak counts sweeps with every range gated, and
\* saturates; a sweep with no range at all does not count.
Streak(accepted) ==
  IF good \cup bad = {} THEN streak
  ELSE IF accepted # {} THEN 0
  ELSE IF streak < ResetAfter THEN streak + 1 ELSE streak

NeedsReseed(n) == ResetAfter # 0 /\ n >= ResetAfter

Accepted == IF est = "here" THEN good ELSE {}

Solve(p) ==
  /\ step = "range" /\ slot > Len(sel) /\ p \in Snapshots
  /\ solved' = (p # Nowhere)
  /\ IF est = Nowhere
     THEN est' = p /\ streak' = 0
     ELSE LET n == Streak(Accepted) IN
          IF p # Nowhere /\ NeedsReseed(n)
          THEN est' = p /\ streak' = 0
          ELSE est' = est /\ streak' = n
  /\ good' = {} /\ bad' = {}    \* the sweep's locals end
  /\ step' = (IF session.on THEN "stamp" ELSE "idle") /\ slot' = 1
  /\ UNCHANGED <<anchor, aid, xy, log, cfg>>

-----------------------------------------------------------------------------
(* pos_dbg_sweep(), in which a `dbg on` may fall, and the commands.            *)

LogCompare ==
  /\ step = "stamp" /\ step' = "name"
  /\ changed' = (~session.named \/ session.aid # aid \/ session.xy # xy)
  /\ UNCHANGED <<anchor, slots, filter, session, cfg, slot>>

LogName ==
  /\ step = "name" /\ step' = "idle" /\ changed' = FALSE
  /\ session' = IF ~changed \/ ~session.on THEN session
                ELSE [session EXCEPT !.epoch = IF session.named THEN 1 - @ ELSE @,
                                     !.aid = aid, !.xy = xy, !.named = TRUE]
  /\ UNCHANGED <<anchor, slots, filter, cfg, slot>>

LogOn ==
  /\ session' = [Fresh EXCEPT !.on = TRUE]
  /\ UNCHANGED <<anchor, slots, filter, changed, cfg, step, slot>>

\* What a stopped session holds is never read: `dbg on` begins a new one.
LogOff ==
  /\ session' = Fresh
  /\ UNCHANGED <<anchor, slots, filter, changed, cfg, step, slot>>

-----------------------------------------------------------------------------
(* pos_cfg_set() from `pos z`: the record first, then the two heights.         *)

\* A refused pair or a failed write leaves everything as it was.
HeightsStore(h) ==
  /\ cmd = None /\ h \in Heights \ {stored}
  /\ stored' = h /\ cmd' = <<"anchor", h>>
  /\ UNCHANGED <<anchor, slots, filter, log, active, step, slot>>

HeightsApply ==
  /\ cmd # None
  /\ IF cmd[1] = "anchor"
     THEN active' = <<cmd[2][1], active[2]>> /\ cmd' = <<"tag", cmd[2]>>
     ELSE active' = <<active[1], cmd[2][2]>> /\ cmd' = None
  /\ UNCHANGED <<anchor, slots, filter, log, stored, step, slot>>

\* A reset at any step; pos_cfg_init() takes the record.
Reboot ==
  /\ pool' = Empty /\ sel' = <<>>
  /\ aid' = [i \in Slots |-> NoAid] /\ xy' = [i \in Slots |-> NoAid]
  /\ good' = {} /\ bad' = {}
  /\ est' = Nowhere /\ streak' = 0 /\ solved' = FALSE
  /\ session' = Fresh /\ changed' = FALSE
  /\ active' = stored /\ stored' = stored /\ cmd' = None
  /\ step' = "idle" /\ slot' = 1

Runner ==
  \/ Discover \/ (\E a \in Anchors : Answer(a)) \/ Discovered
  \/ Sweep \/ (\E r \in {"none", "good", "bad"} : RangeSlot(r))
  \/ (\E p \in {"here", "away", Nowhere} : Solve(p))
  \/ LogCompare \/ LogName

Operator ==
  LogOn \/ LogOff \/ (\E h \in Heights : HeightsStore(h)) \/ HeightsApply

FixNext == Runner \/ Operator \/ Carried \/ Reboot

FixSpec == FixInit /\ [][FixNext]_fixVars

-----------------------------------------------------------------------------
(* Properties.                                                                *)

FixTypeOK ==
  /\ pool \in [Entries -> [id : Anchors \cup {0}, score : Nat, valid : BOOLEAN, seen : BOOLEAN]]
  /\ sel \in Seq(Anchors) /\ aid \in [Slots -> Anchors \cup {NoAid}]
  /\ est \in {"here", "away", Nowhere} /\ streak \in 0 .. ResetAfter

\* Between discoveries the tag ranges with distinct anchors it knows, and knows
\* none with a better score than one of them.
BestSelected ==
  step # "discover" =>
    \A k \in DOMAIN sel : \E i \in Valid(pool) :
      /\ pool[i].id = sel[k]
      /\ \A m \in DOMAIN sel : sel[m] = sel[k] => m = k
      /\ \A j \in Valid(pool) :
           pool[j].score > pool[i].score => \E m \in DOMAIN sel : sel[m] = pool[j].id

\* The coordinates beside a slot are those of the anchor that holds the slot.
SlotCoordinates == \A i \in Slots : xy[i] \in {NoAid, aid[i]}

\* Outside a command the live heights are the stored ones, after any reset.
HeightsStored == cmd = None => active = stored

\* What the runner solves with and pos_cfg keeps: the best anchors the pool knows,
\* each with its own coordinates, over heights that are the stored ones.
FixSound == FixTypeOK /\ BestSelected /\ SlotCoordinates /\ HeightsStored

\* The log's epoch moves only when a slot changes hands or its coordinates are
\* learnt; an anchor that misses a sweep does not move it.
NoFlap ==
  [][session'.epoch # session.epoch /\ session'.named /\ session.named =>
       \E i \in Slots : session'.aid[i] # session.aid[i] \/ session.xy[i] = NoAid]_fixVars

\* A tag that was carried off is found again: when it is left alone, without
\* reflections, and sweeps keep giving fixes, the filter does not stay away.
Relocates ==
  <>[][~Carried]_fixVars /\ <>[](bad = {}) /\ []<>solved /\ []<>~solved => <>[](est # "away")
=============================================================================
