------------------------------- MODULE RadioIrq -------------------------------
(* How the runner's thread waits for the DW3000: wait_event() in               *)
(* src/uwb_ss_initiator.c, the GPIO interrupt of platform/port.c, the SPI      *)
(* mutex of platform/deca_spi.c, and the exchanges of src/uwb_net_runner.c     *)
(* and src/uwb_ss_initiator.c that wait with them.  The chip and the other     *)
(* stations on the air are external: the receiver takes whatever frame         *)
(* arrives first, and what the chip leaves open is a choice.                   *)
EXTENDS UwbFrame, FiniteSets

CONSTANTS
  Air,        \* the frames that may be on the air: records [kind, fields, bytes]
  Aid         \* the anchor a range exchange polls

\* The stations of the cell build their frames with this codec and number them
\* afterwards; a beacon may be of another version, and the frames of other kinds
\* are of other types.
Built(f, b) ==
  LET v == f.fields IN
  /\ f.kind = "grant" =>
       /\ v \in [eui : [1 .. 8 -> Octet], addr : Word16, slot : Octet, tier : Octet,
                 lease : Word16]
       /\ b = GrantBuild(v.eui, v.addr, v.slot, v.tier, v.lease)
  /\ f.kind = "beacon" =>
       /\ v \in [ver : {At(b, 10)}, ctr : Word32, map : [1 .. 11 -> Word16]]
       /\ [b EXCEPT ![11] = PROTO_VER] = BeaconBuild(v.ctr, v.map)
  /\ f.kind = "resp" =>
       /\ v \in [src : Word16, p : Word32, q : Word16]
       /\ Len(b) = 20 /\ b = ResponseBuild(v.src, GetDest(b), Get32(b, 10), v.p, v.q)
  /\ f.kind = "range" =>
       /\ v \in [aid : Octet, ts : [1 .. 16 -> Octet]]
       /\ b = PosRespRef \o <<v.aid>> \o v.ts
  /\ f.kind \notin {"grant", "beacon", "resp", "range"} =>
       Len(b) >= 10 /\ At(b, 9) \notin {GRANT, BEACON, RESP, At(PosRespRef, 9)}

ASSUME AirAssumption ==
  \A f \in Air : f.bytes \in Seq(Octet) /\ Built(f, SetSeqNum(f.bytes, 0))

VARIABLES
  radio,      \* the transceiver: "idle", "tx", "txrx" (then listens), "rx"
  hwto,       \* the receiver's own timeouts are armed
  status,     \* the event bits of SYS_STATUS that are set
  mask,       \* the events dwt_setinterrupt() lets raise the IRQ line
  buf,        \* the receive buffer: the last frame, over the one before it
  irqOn,      \* the GPIO edge interrupt is enabled
  edge,       \* a rising edge is latched and its handler not yet entered
  isr,        \* deca_irq_handler() is running: the thread is not
  sem,        \* irq_sem
  evt,        \* last_evt
  pc, op,     \* the thread's next step, and the exchange it is in
  ret,        \* what wait_event() returned, until it is acted on
  len,        \* what dwt_getframelength() returned, without the FCS
  got         \* what the last exchange took from the air

chip   == <<radio, hwto, status, mask, buf>>
line   == <<irqOn, edge, isr>>
wait   == <<sem, evt, ret>>
give   == <<sem, evt>>
result == <<len, got>>
vars   == <<chip, line, wait, pc, op, result>>

RX     == {"rxok", "rxto", "rxerr"}
Events == RX \cup {"tx"}
Listens == {"beacon", "grant", "resp"}
Sends   == {"cap", "disc"}
None    == [as |-> "none"]
NoFrame == [kind |-> "none", fields |-> <<>>, bytes |-> <<>>]

Line == status \cap mask # {}

\* The steps in which the thread is inside an SPI transfer and holds spi_mutex.
SpiSteps == {"idle", "drain", "tail", "ret", "data", "clear", "publish"}
Contended == isr /\ pc \in SpiSteps

\* The interrupt is taken before the thread's next step.
Runs == ~isr /\ ~(edge /\ irqOn)

TypeOK ==
  /\ radio \in {"idle", "tx", "txrx", "rx"} /\ hwto \in BOOLEAN
  /\ status \subseteq Events /\ mask \subseteq Events
  /\ buf \in Seq(Air \cup {NoFrame}) /\ Len(buf) = 2
  /\ irqOn \in BOOLEAN /\ edge \in BOOLEAN /\ isr \in BOOLEAN /\ sem \in BOOLEAN
  /\ evt \in Events \cup {"none"} /\ ret \in Events \cup {"none"}
  /\ pc \in SpiSteps \cup {"reset", "enable", "check", "park", "taken", "late"}
  /\ op \in Listens \cup Sends \cup {"range", "none"}
  /\ len \in Nat

Init ==
  /\ radio = "idle" /\ hwto = TRUE /\ status = {} /\ mask = {}
  /\ buf = <<NoFrame, NoFrame>>
  /\ irqOn = FALSE /\ edge = FALSE /\ isr = FALSE
  /\ sem = FALSE /\ evt = "none" /\ ret = "none"
  /\ pc = "idle" /\ op = "none" /\ len = 0 /\ got = None

\* A change of the event bits or of the mask; only an edge while enabled latches.
Bits(st, mk) ==
  /\ status' = st /\ mask' = mk
  /\ edge' = (edge \/ (irqOn /\ ~Line /\ st \cap mk # {}))

-----------------------------------------------------------------------------
(* The chip.                                                                  *)

TxDone ==
  /\ radio \in {"tx", "txrx"}
  /\ radio' = IF radio = "txrx" THEN "rx" ELSE "idle"
  /\ Bits(status \cup {"tx"}, mask)
  /\ UNCHANGED <<hwto, buf, irqOn, isr, wait, pc, op, result>>

RxFrame(f) ==
  /\ radio = "rx" /\ radio' = "idle"
  /\ buf' = <<f, buf[1]>>
  /\ Bits(status \cup {"rxok"}, mask)
  /\ UNCHANGED <<hwto, irqOn, isr, wait, pc, op, result>>

RxFails(e) ==
  /\ radio = "rx" /\ radio' = "idle"
  /\ e = "rxto" => hwto
  /\ Bits(status \cup {e}, mask)
  /\ UNCHANGED <<hwto, buf, irqOn, isr, wait, pc, op, result>>

-----------------------------------------------------------------------------
(* The interrupt.                                                             *)

\* The order in which dwt_isr() calls back, and whose callback is the last.
Rank == [tx |-> 1, rxok |-> 2, rxto |-> 3, rxerr |-> 4]
LastOf(due) == CHOOSE e \in due : \A o \in due : Rank[o] <= Rank[e]

\* One dwt_isr(): every enabled event is called back and cleared.
Dispatch ==
  LET due == status \cap mask IN
  /\ due # {} => evt' = LastOf(due) /\ sem' = TRUE
  /\ due = {} => UNCHANGED <<evt, sem>>
  /\ Bits(status \ due, mask)

IsrEnter ==
  /\ edge /\ irqOn /\ ~isr
  /\ edge' = FALSE /\ isr' = TRUE
  /\ UNCHANGED <<chip, irqOn, wait, pc, op, result>>

\* process_deca_irq() in the handler: an spi_mutex the thread holds stops it.
IsrDrain ==
  /\ isr /\ ~Contended /\ Line
  /\ Dispatch
  /\ UNCHANGED <<radio, hwto, buf, irqOn, isr, ret, pc, op, result>>

IsrExit ==
  /\ isr /\ ~Contended /\ ~Line
  /\ isr' = FALSE
  /\ UNCHANGED <<chip, irqOn, edge, wait, pc, op, result>>

\* A handler that pends takes the interrupted thread with it: the watchdog's turn.
WatchdogReset ==
  /\ Contended
  /\ radio' = "idle" /\ hwto' = TRUE /\ status' = {} /\ mask' = {}
  /\ buf' = <<NoFrame, NoFrame>>
  /\ irqOn' = FALSE /\ edge' = FALSE /\ isr' = FALSE
  /\ sem' = FALSE /\ evt' = "none" /\ ret' = "none"
  /\ pc' = "idle" /\ op' = "none" /\ len' = 0 /\ got' = None

-----------------------------------------------------------------------------
(* The exchanges: program the chip, start it, wait.                           *)

Go(s) == pc = s /\ Runs

\* A start command the receiver is busy for may be ignored.
StartTx(then) ==
  \/ radio' = then /\ Bits(status \ {"tx"}, mask')
  \/ radio = "rx" /\ radio' = radio /\ Bits(status, mask')

\* uwb_radio_rx_beacon(): no hardware timeout, the kernel's is the only gate.
\* Enabling the receiver may or may not clear what the last reception left.
RxBeacon(o) ==
  /\ Go("idle") /\ o \in Listens
  /\ op' = o /\ pc' = "reset" /\ got' = None
  /\ hwto' = FALSE /\ mask' = RX /\ radio' = "rx"
  /\ \E st \in {status, status \ RX} : Bits(st, RX)
  /\ UNCHANGED <<buf, irqOn, isr, wait, len>>

\* uwb_radio_tx_cap() listens after its frame, run_discovery()'s broadcast does not.
TxFrame(o) ==
  /\ Go("idle") /\ o \in Sends
  /\ op' = o /\ pc' = "reset" /\ got' = None
  /\ mask' = {"tx"}
  /\ StartTx(IF o = "cap" THEN "txrx" ELSE "tx")
  /\ UNCHANGED <<hwto, buf, irqOn, isr, wait, len>>

\* do_one_range_anchor(), with the timeouts anchor_sweep() restored.
RangeStart ==
  /\ Go("idle") /\ got' = None
  /\ hwto' = TRUE /\ mask' = RX
  /\ \/ op' = "range" /\ pc' = "reset" /\ StartTx("txrx")
     \/ op' = "none" /\ pc' = "idle" /\ radio' = radio     \* dwt_starttx() refused
        /\ Bits(status \ {"rxto", "rxerr"}, RX)
  /\ UNCHANGED <<buf, irqOn, isr, wait, len>>

\* position_publish(): idle first, then a bounded poll of TXFRS with no IRQ.
Publish ==
  /\ Go("idle") /\ op' = "none" /\ pc' = "publish" /\ got' = None
  /\ radio' = "tx"
  /\ Bits(status \ {"tx"}, mask)
  /\ UNCHANGED <<hwto, buf, irqOn, isr, wait, mask, len>>

PublishEnds ==
  /\ Go("publish") /\ pc' = "idle"
  /\ \/ "tx" \in status /\ Bits(status \ {"tx"}, mask) /\ radio' = radio
     \/ radio' = "idle" /\ Bits(status \ {"rxto", "rxerr"}, mask)
  /\ UNCHANGED <<hwto, buf, irqOn, isr, wait, op, mask, result>>

\* dw_enter_sleep() and dw_wake(): the configuration survives, the events do not.
SleepAndWake ==
  /\ Go("idle") /\ radio' = "idle" /\ hwto' = TRUE
  /\ Bits({}, mask)
  /\ UNCHANGED <<buf, irqOn, isr, wait, pc, op, mask, result>>

-----------------------------------------------------------------------------
(* wait_event().                                                              *)

WaitReset ==
  /\ Go("reset") /\ pc' = "enable"
  /\ sem' = FALSE /\ evt' = "none"
  /\ UNCHANGED <<chip, line, ret, op, result>>

WaitEnable ==
  /\ Go("enable") /\ pc' = "check"
  /\ irqOn' = TRUE
  /\ UNCHANGED <<chip, edge, isr, wait, op, result>>

\* Mutant: the edge that came before the interrupt was enabled is not looked for.
WaitCheck_Blind ==
  /\ Go("check") /\ pc' = "park"
  /\ UNCHANGED <<chip, line, wait, op, result>>

\* The pin is looked at after the interrupt is enabled, for an edge before it.
WaitCheck ==
  /\ Go("check") /\ pc' = IF Line THEN "drain" ELSE "park"
  /\ UNCHANGED <<chip, line, wait, op, result>>

\* process_deca_irq() in the thread: dwt_isr() has cleared, and goes on reading.
WaitDrain ==
  /\ Go("drain") /\ pc' = "tail"
  /\ Dispatch
  /\ UNCHANGED <<radio, hwto, buf, irqOn, isr, ret, op, result>>

WaitAgain ==
  /\ Go("tail") /\ pc' = IF Line THEN "drain" ELSE "park"
  /\ UNCHANGED <<chip, line, wait, op, result>>

WaitTake ==
  /\ Go("park")
  /\ \/ sem /\ sem' = FALSE /\ pc' = "taken"
     \/ ~sem /\ sem' = sem /\ pc' = "late"
  /\ UNCHANGED <<chip, line, evt, ret, op, result>>

\* Mutant: the timeout path leaves the interrupt enabled.
WaitReturn_StaysArmed ==
  /\ pc \in {"taken", "late"} /\ Runs
  /\ IF pc = "taken" THEN irqOn' = FALSE /\ edge' = FALSE ELSE UNCHANGED <<irqOn, edge>>
  /\ ret' = IF pc = "taken" THEN evt ELSE "rxto"
  /\ pc' = "ret"
  /\ UNCHANGED <<chip, isr, sem, evt, op, result>>

\* An event that comes after the timeout is decoded by the handler and dropped.
WaitReturn ==
  /\ pc \in {"taken", "late"} /\ Runs
  /\ irqOn' = FALSE /\ edge' = FALSE
  /\ ret' = IF pc = "taken" THEN evt ELSE "rxto"
  /\ pc' = "ret"
  /\ UNCHANGED <<chip, isr, sem, evt, op, result>>

-----------------------------------------------------------------------------
(* What each exchange does with the event.                                    *)

\* A transmission: uwb_radio_tx_cap() clears on failure, the broadcast always.
SendEnds ==
  /\ Go("ret") /\ op \in Sends /\ pc' = "idle" /\ ret' = "none"
  /\ Bits(IF op = "disc" THEN status \ {"tx", "rxto", "rxerr"}
          ELSE IF ret = "tx" THEN status ELSE status \ {"rxto", "rxerr"}, mask)
  /\ UNCHANGED <<radio, hwto, buf, irqOn, isr, give, op, mask, result>>

NoReception ==
  /\ Go("ret") /\ op \notin Sends /\ ret # "rxok" /\ pc' = "idle" /\ ret' = "none"
  /\ Bits(status \ {"rxto", "rxerr"}, mask)
  /\ UNCHANGED <<radio, hwto, buf, irqOn, isr, give, op, mask, result>>

\* The room the caller has for the frame, and what a ranging answer needs.
Fits(o, n) == CASE o = "beacon" -> n \in 1 .. MAX_LEN
                [] o = "grant"  -> n \in 1 .. 24
                [] o = "resp"   -> n \in 1 .. 20
                [] o = "range"  -> n \in 27 .. 30

ReadLength ==
  /\ Go("ret") /\ op \notin Sends /\ ret = "rxok"
  /\ len' = Len(buf[1].bytes) /\ ret' = "none"
  /\ IF Fits(op, len')
     THEN pc' = "data" /\ UNCHANGED <<status, mask, edge>>
     ELSE pc' = "idle" /\ Bits(status \ {"rxok"}, mask)
  /\ UNCHANGED <<radio, hwto, buf, irqOn, isr, give, op, got>>

\* The first n bytes of the buffer, where a shorter frame lies over an older one.
Content(n) ==
  LET new == buf[1].bytes
      old == buf[2].bytes
  IN  [i \in 1 .. n |-> IF i <= Len(new) THEN new[i]
                        ELSE IF i <= Len(old) THEN old[i] ELSE 0]

\* Mutant: a ranging answer is taken from whichever anchor sent it.
Taken_AnyAnchor(o, b) ==
  LET fields == CASE o = "beacon" -> IF Len(b) = MAX_LEN THEN ParseBeacon(b) ELSE Bad
                  [] o = "grant"  -> ParseGrant(b)
                  [] o = "resp"   -> ParseResponse(b)
                  [] o = "range"  -> IF SubSeq(SetSeqNum(b, 0), 1, 10) = PosRespRef
                                     THEN [aid |-> Aid, ts |-> Bytes(b, 11, 16)] ELSE Bad
  IN  IF fields = Bad THEN None ELSE [as |-> o, fields |-> fields]

\* What the caller takes the bytes for; None when it refuses them.
Taken(o, b) ==
  LET fields == CASE o = "beacon" -> IF Len(b) = MAX_LEN THEN ParseBeacon(b) ELSE Bad
                  [] o = "grant"  -> ParseGrant(b)
                  [] o = "resp"   -> ParseResponse(b)
                  [] o = "range"  -> IF SubSeq(SetSeqNum(b, 0), 1, 10) = PosRespRef /\ At(b, 10) = Aid
                                     THEN [aid |-> Aid, ts |-> Bytes(b, 11, 16)] ELSE Bad
  IN  IF fields = Bad THEN None ELSE [as |-> o, fields |-> fields]

ReadData ==
  /\ Go("data") /\ pc' = "clear"
  /\ got' = Taken(op, Content(len))
  /\ UNCHANGED <<chip, line, wait, op, len>>

ClearReception ==
  /\ Go("clear") /\ pc' = "idle" /\ len' = 0
  /\ Bits(status \ {"rxok"}, mask)
  /\ UNCHANGED <<radio, hwto, buf, irqOn, isr, wait, op, mask, got>>

Chip == TxDone \/ (\E f \in Air : RxFrame(f)) \/ (\E e \in {"rxto", "rxerr"} : RxFails(e))
Interrupt == IsrEnter \/ IsrDrain \/ IsrExit \/ WatchdogReset
Exchange ==
  \/ \E o \in Listens : RxBeacon(o)
  \/ \E o \in Sends : TxFrame(o)
  \/ RangeStart \/ Publish \/ PublishEnds \/ SleepAndWake
  \/ SendEnds \/ NoReception \/ ReadLength \/ ReadData \/ ClearReception
Wait == WaitReset \/ WaitEnable \/ WaitCheck \/ WaitDrain \/ WaitAgain \/ WaitTake \/ WaitReturn

Next == Chip \/ Interrupt \/ Exchange \/ Wait

Spec == Init /\ [][Next]_vars

-----------------------------------------------------------------------------
(* Properties.                                                                *)

\* A thread parked on irq_sem is never left behind an asserted IRQ line: the
\* semaphore has been given, or an edge is latched, or the handler runs.  This is
\* the window wait_event() closes by looking at the pin after enabling.
NoLostEdge ==
  pc = "park" /\ Line => sem \/ edge \/ isr

\* The handler, which reaches the chip over SPI, can find spi_mutex held only by
\* wait_event()'s own drain; programming the chip and reading it are always done
\* with the interrupt disabled.
SpiMeetsOnlyDrain ==
  Contended => pc \in {"drain", "tail"}

\* The event a successful wait returns is one the exchange asked for.
EventAskedFor ==
  pc = "taken" => evt \in mask

\* wait_event() and port.c together: no edge is lost, the two users of the bus meet
\* only in the drain, and the event that comes back is one that was asked for.
IrqSound == TypeOK /\ NoLostEdge /\ SpiMeetsOnlyDrain /\ EventAskedFor

\* Whatever is taken from the air for a beacon, a GRANT, a discovery answer or a
\* ranging answer is a frame of that kind that a station sent, with its fields,
\* although the receiver accepts any traffic and may be listening again while a
\* frame is read (the length may be one frame's and the bytes another's).
TakenWhole ==
  got # None => \E f \in Air : f.kind = got.as /\ f.fields = got.fields
=============================================================================
