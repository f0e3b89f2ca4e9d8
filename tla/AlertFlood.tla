----------------------------- MODULE AlertFlood -----------------------------
(***************************************************************************)
(* The flood of an alert through the anchors to the gateway:               *)
(* src/src/alert_relay.c on every node (duplicate cache, relay decision,   *)
(* table of latches) between tags that repeat, cancel and reset.  A node's *)
(* program around alert_relay.c is another repository's: it puts a frame   *)
(* through the cache first, relays later, and only the gateway latches.    *)
(* One tick of the clock is ALERT_REPEAT_MS.                               *)
(***************************************************************************)
EXTENDS AlertLatch, FiniteSets, FiniteSetsExt

CONSTANTS Tag, Anchor, Gateway,
          Hears,      \* who receives what a tag or an anchor transmits
          Hop,        \* hop_to_gw of an anchor's record
          UnknownHop, \* UWB_ALERT_HOP_UNKNOWN
          Ttl,        \* the time to live a tag gives a frame
          DedupN, DedupAge,  \* ALERT_DEDUP_N, ALERT_DEDUP_AGE_MS
          LatchN,     \* ALERT_LATCH_N
          ClockMod,   \* now_ms is a uint32_t
          SeqMod,     \* repeat_seq is a uint8_t
          Free,       \* a slot whose "used" is clear
          MaxEpoch,   \* bound: raises of one tag
          MaxFrames   \* bound: frames all tags send

Node == Anchor \cup {Gateway}

\* What dedup_key_eq() compares.
AlertKey == [orig : Tag, epoch : Epoch, help : BOOLEAN, seq : Nat]
\* An entry of struct alert_dedup, and of struct alert_latch, when used.
DedupEntry == [key : AlertKey, seen : 0..(ClockMod - 1)]
Slot == [orig : Tag, heard : Nat, latch : LatchEntry]

ASSUME FloodAssumption ==
    /\ Gateway \notin Anchor
    /\ Hears \in [Tag \cup Anchor -> SUBSET Node]
    /\ Hop \in [Anchor -> Nat]
    /\ {UnknownHop, Ttl} \subseteq Nat
    /\ {DedupN, DedupAge, LatchN, ClockMod, SeqMod} \subseteq Nat \ {0}
    /\ MaxEpoch \in Epoch /\ MaxFrames \in Nat
    /\ Free \notin Slot \cup DedupEntry

VARIABLES clock,
          tag,     \* what each tag is sending
          sent,    \* how many frames there have been
          queue,   \* relays an anchor has yet to send
          cache,   \* struct alert_dedup of each node
          table,   \* struct alert_latch of the gateway
          keys,    \* the floods of this tick: their keys
          news,    \* those of them no node remembers from before
          arrived, \* those the gateway has taken in
          lossy,   \* a copy was lost in this tick
          relayed, \* keys each anchor has relayed in this tick
          cleared  \* epochs the gateway has seen cancelled and not evicted

ghosts == <<keys, news, arrived, lossy, relayed, cleared>>
floodVars == <<clock, tag, sent, queue, cache, table, ghosts>>

FloodInit == /\ clock = 0
             /\ tag = [t \in Tag |-> [state |-> "OFF", epoch |-> 0, seq |-> 0,
                                      due |-> FALSE]]
             /\ sent = 0
             /\ queue = [a \in Anchor |-> {}]
             /\ cache = [n \in Node |-> [i \in 1..DedupN |-> Free]]
             /\ table = [i \in 1..LatchN |-> Free]
             /\ keys = {} /\ news = {} /\ arrived = {}
             /\ lossy = FALSE
             /\ relayed = [a \in Anchor |-> {}]
             /\ cleared = [t \in Tag |-> {}]

-----------------------------------------------------------------------------
(* The duplicate cache                                                     *)

\* (int32_t)(now_ms - e->seen_ms).
Age(e) == LET d == (clock - e.seen) % ClockMod
          IN IF 2 * d < ClockMod THEN d ELSE d - ClockMod

AgedOut(e) == Age(e) >= DedupAge
Duplicate(c, k) ==
    \E i \in 1..DedupN : c[i] # Free /\ c[i].key = k /\ ~AgedOut(c[i])

\* Mutation: the newest entry makes room.
Victim_Newest(c) ==
    LET open == {i \in 1..DedupN : c[i] = Free \/ AgedOut(c[i])}
    IN IF open # {} THEN Min(open)
       ELSE CHOOSE i \in 1..DedupN : \A j \in 1..DedupN : Age(c[i]) <= Age(c[j])

\* The first slot that is free or aged out, else the oldest; the first slot
\* when every age has wrapped below zero.
Victim(c) ==
    LET open == {i \in 1..DedupN : c[i] = Free \/ AgedOut(c[i])}
        aged == {i \in 1..DedupN : Age(c[i]) >= 0}
        oldest == {i \in aged : \A j \in aged : Age(c[j]) <= Age(c[i])}
    IN IF open # {} THEN Min(open)
       ELSE IF aged # {} THEN Min(oldest) ELSE 1

Admitted(c, k) ==
    [c EXCEPT ![Victim(c)] = [key |-> k, seen |-> clock]]

-----------------------------------------------------------------------------
(* The relay decision                                                      *)

\* Mutation: an anchor that was never told its distance does not relay.
ShouldRelay_Known(f, n) ==
    /\ n # Gateway
    /\ f.ttl > 0
    /\ f.hop > Hop[n]

ShouldRelay(f, n) ==
    /\ n # Gateway
    /\ f.ttl > 0
    /\ Hop[n] = UnknownHop \/ f.hop > Hop[n]

PrepareRelay(f, n) == [f EXCEPT !.hop = Hop[n], !.ttl = @ - 1]

-----------------------------------------------------------------------------
(* The gateway's table                                                     *)

SlotOf(t) == {i \in 1..LatchN : table[i] # Free /\ table[i].orig = t}

\* The tag's own entry, else a free one, else the one with the smallest
\* last_heard_ms, the first of equals.
FindOrAlloc(t) ==
    LET free == {i \in 1..LatchN : table[i] = Free}
        oldest == {i \in 1..LatchN : \A j \in 1..LatchN :
                                       table[i].heard <= table[j].heard}
    IN IF SlotOf(t) # {} THEN Min(SlotOf(t))
       ELSE IF free # {} THEN Min(free) ELSE Min(oldest)

\* Mutation: a CANCEL gives the entry back.
Latched_Frees(k) ==
    LET i == FindOrAlloc(k.orig)
        known == table[i] # Free /\ table[i].orig = k.orig
        l == IF known THEN table[i].latch ELSE LatchInit
    IN [table EXCEPT ![i] = IF ~k.help THEN Free
                            ELSE [orig |-> k.orig, heard |-> clock,
                                  latch |-> LatchApply(l, k)]]

\* alert_latch_apply(): a frame it ignores leaves last_heard_ms alone, but for
\* an entry that was made for it.
Latched(k) ==
    LET i == FindOrAlloc(k.orig)
        known == table[i] # Free /\ table[i].orig = k.orig
        l == IF known THEN table[i].latch ELSE LatchInit
        heard == IF known /\ k.help /\ Ignores(l, k.epoch)
                 THEN table[i].heard ELSE clock
    IN [table EXCEPT ![i] = [orig |-> k.orig, heard |-> heard,
                             latch |-> LatchApply(l, k)]]

Evicted(new) == {t \in Tag : /\ SlotOf(t) # {}
                             /\ \A i \in 1..LatchN : new[i] = Free \/ new[i].orig # t}
-----------------------------------------------------------------------------
(* A transmission is heard by all at once, and by whom is chance.          *)

New(n, k) == ~Duplicate(cache[n], k)

\* Every hearer puts the frame through its cache; an anchor then decides about
\* its relay, the gateway latches.
Heard(f, hearers, pending) ==
    LET first == {n \in hearers : New(n, f.key)}
        relays == {n \in first : ShouldRelay(f, n)}
    IN /\ cache' = [n \in Node |-> IF n \in first THEN Admitted(cache[n], f.key)
                                  ELSE cache[n]]
       /\ queue' = [a \in Anchor |->
                      IF a \in relays THEN pending[a] \cup {PrepareRelay(f, a)}
                      ELSE pending[a]]
       /\ table' = IF Gateway \in first THEN Latched(f.key) ELSE table
       /\ arrived' = IF Gateway \in first THEN arrived \cup {f.key} ELSE arrived
       /\ cleared' = [t \in Tag |->
                        IF t # f.key.orig /\ t \in Evicted(table') THEN {}
                        ELSE IF Gateway \in first /\ t = f.key.orig /\ ~f.key.help
                        THEN cleared[t] \cup {f.key.epoch} ELSE cleared[t]]

-----------------------------------------------------------------------------
(* Tags                                                                    *)

\* A flood of this tag that is not over.
InFlight(t) == \E a \in Anchor : \E f \in queue[a] : f.key.orig = t

AirUnchanged == UNCHANGED <<clock, sent, queue, cache, table, ghosts>>

\* A press comes seconds after the last one: the floods before it are over.
Raise(t) ==
    /\ tag[t].state = "OFF" /\ tag[t].epoch < MaxEpoch
    /\ ~InFlight(t)
    /\ tag' = [tag EXCEPT ![t] = [state |-> "HELP", epoch |-> @.epoch + 1,
                                  seq |-> 0, due |-> TRUE]]
    /\ AirUnchanged

Cancel(t) ==
    /\ tag[t].state = "HELP"
    /\ tag' = [tag EXCEPT ![t].state = "CANCELLING", ![t].seq = 0,
                          ![t].due = TRUE]
    /\ AirUnchanged

\* A reset resumes what the record holds, from repeat_seq 0.
Reboot(t) ==
    /\ tag[t].state # "OFF"
    /\ tag' = [tag EXCEPT ![t].state = "HELP", ![t].seq = 0, ![t].due = TRUE]
    /\ AirUnchanged

FrameKey(t) == [orig |-> t, epoch |-> tag[t].epoch,
                help |-> tag[t].state = "HELP", seq |-> tag[t].seq]

\* tag_alert_core_due() and _sent(); one CANCEL ends the sequence here.
Send(t, hearers) ==
    LET k == FrameKey(t) IN
    /\ tag[t].state # "OFF" /\ tag[t].due
    /\ sent < MaxFrames /\ sent' = sent + 1
    /\ Heard([key |-> k, hop |-> UnknownHop, ttl |-> Ttl], hearers, queue)
    /\ tag' = [tag EXCEPT ![t].seq = (@ + 1) % SeqMod, ![t].due = FALSE,
                          ![t].state = IF @ = "HELP" THEN @ ELSE "OFF"]
    /\ keys' = keys \cup {k}
    /\ news' = IF \E n \in Node : Duplicate(cache[n], k)
               THEN news ELSE news \cup {k}
    /\ lossy' = (lossy \/ hearers # Hears[t])
    /\ UNCHANGED <<clock, relayed>>

-----------------------------------------------------------------------------
(* Anchors and time                                                        *)

\* In a mini-slot of a later superframe.
Relay(a, f, hearers) ==
    /\ f \in queue[a]
    /\ Heard(f, hearers, [queue EXCEPT ![a] = @ \ {f}])
    /\ relayed' = [relayed EXCEPT ![a] = @ \cup {f.key}]
    /\ lossy' = (lossy \/ hearers # Hears[a])
    /\ UNCHANGED <<clock, tag, sent, keys, news>>

\* A flood takes a second or two, a repeat comes after ten.
Tick ==
    /\ \A a \in Anchor : queue[a] = {}
    /\ \A t \in Tag : tag[t].state # "OFF" /\ tag[t].due => sent = MaxFrames
    /\ clock' = (clock + 1) % ClockMod
    /\ tag' = [t \in Tag |-> [tag[t] EXCEPT !.due = tag[t].state # "OFF"]]
    /\ keys' = {} /\ news' = {} /\ arrived' = {}
    /\ lossy' = FALSE
    /\ relayed' = [a \in Anchor |-> {}]
    /\ UNCHANGED <<sent, queue, cache, table, cleared>>

TagNext == \E t \in Tag : \/ Raise(t) \/ Cancel(t) \/ Reboot(t)
                          \/ \E hs \in SUBSET Hears[t] : Send(t, hs)
RelayNext == \E a \in Anchor : \E f \in queue[a] :
                \E hs \in SUBSET Hears[a] : Relay(a, f, hs)

FloodNext == TagNext \/ RelayNext \/ Tick

FloodSpec == FloodInit /\ [][FloodNext]_floodVars

-----------------------------------------------------------------------------
(* Properties *)

\* An anchor relays one alert once however many copies it hears, unless more
\* alerts are about than its cache holds, or it has been quiet so long that an
\* entry looks younger than it is: its age has wrapped below zero, or the clock
\* has come round to it.
WrappedSlot(n) ==
    \E i \in 1..DedupN :
        /\ cache[n][i] # Free
        /\ \/ Age(cache[n][i]) < 0
           \/ Age(cache[n][i]) = 0 /\ cache[n][i].key \notin keys

RelayedOnce ==
    [][\A a \in Anchor : \A f \in queue'[a] \ queue[a] :
         \/ f.key \notin relayed'[a]
         \/ Cardinality(keys') > DedupN
         \/ WrappedSlot(a)]_floodVars

\* No stale HELP raises an alarm whose CANCEL the gateway has seen, as long as
\* the table has kept the tag's entry.
NoGhostAlarm ==
    [][\A i \in 1..LatchN :
         /\ table'[i] # Free /\ table'[i].latch.active
         /\ table'[i] # table[i]
         => table'[i].latch.epoch \notin cleared'[table'[i].orig]]_floodVars

\* However its copies race each other, a flood that loses none of them reaches
\* the gateway: no anchor is left with only a copy it must not relay.  (A repeat
\* that a reset numbers as before is dropped wherever it is remembered.)
FloodArrives == [][Tick /\ ~lossy => news \subseteq arrived]_floodVars
=============================================================================
