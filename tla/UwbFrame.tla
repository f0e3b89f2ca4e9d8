------------------------------- MODULE UwbFrame -------------------------------
(* The wire format shared by tags, anchors and the gateway:                    *)
(* src/uwb_frame_802_15_4z.c.  A frame is the sequence of its bytes without    *)
(* the FCS.  A 32-bit float is carried as its bit pattern, so its codec is     *)
(* that of an unsigned word; the caller's buffer is taken to be large enough,  *)
(* which every caller's is (the arrays are sized by the same length macros).   *)
EXTENDS Integers, Sequences

DISC == 226
MPOL == 227
RESP == 228
BEACON == 229
JOIN == 230
GRANT == 231
KEEPALIVE == 232
RELEASE == 233
POS == 234
ALERT == 235

GATEWAY == 0
UNASSOC == 65534
BCAST   == 65535
PROTO_VER == 2
MAX_LEN == 37
MAX_ANCHORS == 4

\* What a byte, a 16-bit and a 32-bit field of a frame may hold.
Octet == 0 .. 255
Word16 == {v \in Nat : v < 65536}
Word32 == {v \in Nat : v \div 65536 \in Word16}

Put16(v) == <<v % 256, (v \div 256) % 256>>
Put32(v) == Put16(v % 65536) \o Put16(v \div 65536)

\* The byte at a zero-based offset, and the little-endian words that start there.
At(b, off)    == b[off + 1]
Get16(b, off) == At(b, off) + 256 * At(b, off + 1)
Get32(b, off) == Get16(b, off) + 65536 * Get16(b, off + 2)
Bytes(b, off, n) == SubSeq(b, off + 1, off + n)

\* The header every builder starts with; the sequence number is set later.
Hdr(dest, src, type) ==
  <<65, 136, 0, 202, 222>> \o Put16(dest) \o Put16(src) \o <<type>>

SetSeqNum(b, seq) == [b EXCEPT ![3] = seq]

Words(s) == [i \in 1 .. 2 * Len(s) |-> Put16(s[(i + 1) \div 2])[2 - (i % 2)]]

-----------------------------------------------------------------------------
(* Builders.                                                                  *)

DiscoveryBuild(src, ts) == Hdr(BCAST, src, DISC) \o Put32(ts)

MultipollBuild(src, slots, ts) ==
  Hdr(BCAST, src, MPOL) \o <<Len(slots)>>
    \o Words([i \in 1 .. 2 * Len(slots) |->
                IF i % 2 = 1 THEN slots[(i + 1) \div 2].addr ELSE slots[i \div 2].delay])
    \o Put32(ts)

ResponseBuild(src, dest, ts, p, q) ==
  Hdr(dest, src, RESP) \o Put32(ts) \o Put32(p) \o Put16(q)

BeaconBuild(ctr, map) ==
  Hdr(BCAST, GATEWAY, BEACON) \o <<PROTO_VER>> \o Put32(ctr) \o Words(map)

JoinBuild(eui, tier) == Hdr(GATEWAY, UNASSOC, JOIN) \o eui \o <<tier>>

GrantBuild(eui, addr, slot, tier, lease) ==
  Hdr(BCAST, GATEWAY, GRANT) \o eui \o Put16(addr) \o <<slot, tier>> \o Put16(lease)

KeepaliveBuild(src, tier, slot) == Hdr(GATEWAY, src, KEEPALIVE) \o <<tier, slot>>

ReleaseBuild(src) == Hdr(GATEWAY, src, RELEASE)

PosBuild(src, x, y, res, n, soc) ==
  Hdr(GATEWAY, src, POS) \o Put32(x) \o Put32(y) \o Put32(res) \o <<n, soc>>

AlertBuild(src, a) ==
  Hdr(GATEWAY, src, ALERT) \o <<a.state, a.epoch, a.rep, a.hop, a.ttl>>
    \o a.eui \o Put16(a.addr) \o <<a.soc>> \o Put32(a.x) \o Put32(a.y)

\* The ranging family: an addressed poll, and the answer anchor aid gives to it.
WaveHdr(tag, type) == <<65, 136, 0, 202, 222>> \o tag \o <<type>>
PosPoll(aid)       == WaveHdr(<<87, 65, 86, 69>>, 224) \o <<aid>>
PosRespRef         == WaveHdr(<<86, 69, 87, 65>>, 225)

-----------------------------------------------------------------------------
(* Validators.  Request frames are accepted at their exact length, the older   *)
(* discovery family at their length or more.                                   *)

IsValid(b) ==
  /\ Len(b) \in Len(Hdr(0, 0, 0)) .. MAX_LEN
  /\ At(b, 0) = 65 /\ At(b, 1) = 136
  /\ At(b, 3) = 202 /\ At(b, 4) = 222

IsType(b, type) == IsValid(b) /\ At(b, 9) = type

IsDiscovery(b) == IsType(b, DISC) /\ Len(b) >= 14
IsResponse(b)  == IsType(b, RESP) /\ Len(b) >= 20
IsMultipoll(b) ==
  /\ IsType(b, MPOL) /\ Len(b) >= 12
  /\ At(b, 10) \in 1 .. MAX_ANCHORS
  /\ Len(b) >= 15 + 4 * At(b, 10)
IsBeacon(b)    == Len(b) >= 15 /\ IsType(b, BEACON)
IsJoin(b)      == Len(b) = 19 /\ IsType(b, JOIN)
IsGrant(b)     == Len(b) = 24 /\ IsType(b, GRANT)
IsKeepalive(b) == Len(b) = 12 /\ IsType(b, KEEPALIVE)
IsRelease(b)   == Len(b) = 10 /\ IsType(b, RELEASE)
IsPos(b)       == Len(b) = 24 /\ IsType(b, POS)
IsAlert(b)     == Len(b) = 34 /\ IsType(b, ALERT)

-----------------------------------------------------------------------------
(* Parsers.  Each returns the fields, or Bad when the frame is refused.        *)

Bad == [bad |-> TRUE]

GetSrc(b)  == Get16(b, 7)
GetDest(b) == Get16(b, 5)

ParseResponse(b) ==
  IF IsResponse(b)
  THEN [src |-> GetSrc(b), p |-> Get32(b, 14), q |-> Get16(b, 18)]
  ELSE Bad

ParseMultipoll(b) ==
  IF IsMultipoll(b)
  THEN LET n == At(b, 10) IN
       [slots |-> [i \in 1 .. n |-> [addr  |-> Get16(b, 11 + 4 * (i - 1)),
                                     delay |-> Get16(b, 13 + 4 * (i - 1))]],
        ts    |-> Get32(b, 11 + 4 * n)]
  ELSE Bad

ParseBeacon(b) ==
  IF IsBeacon(b) /\ (Len(b) - 15) % 2 = 0
  THEN [ver |-> At(b, 10), ctr |-> Get32(b, 11),
        map |-> [i \in 1 .. (Len(b) - 15) \div 2 |-> Get16(b, 13 + 2 * i)]]
  ELSE Bad

\* The index of the first slot held by addr, -1 when it holds none.
FindAddr(map, addr) ==
  LET held == {i \in DOMAIN map : map[i] = addr}
  IN  IF held = {} THEN -1 ELSE (CHOOSE i \in held : \A j \in held : i <= j) - 1

ParseJoin(b) ==
  IF IsJoin(b) THEN [eui |-> Bytes(b, 10, 8), tier |-> At(b, 18)] ELSE Bad

ParseGrant(b) ==
  IF IsGrant(b)
  THEN [eui |-> Bytes(b, 10, 8), addr |-> Get16(b, 18), slot |-> At(b, 20),
        tier |-> At(b, 21), lease |-> Get16(b, 22)]
  ELSE Bad

ParseKeepalive(b) ==
  IF IsKeepalive(b)
  THEN [src |-> GetSrc(b), tier |-> At(b, 10), slot |-> At(b, 11)] ELSE Bad

ParsePos(b) ==
  IF IsPos(b)
  THEN [src |-> GetSrc(b), x |-> Get32(b, 10), y |-> Get32(b, 14),
        res |-> Get32(b, 18), n |-> At(b, 22), soc |-> At(b, 23)]
  ELSE Bad

\* An alert with a reserved state bit set is refused as a whole.
ParseAlert(b) ==
  IF IsAlert(b) /\ At(b, 10) \in {0, 1}
  THEN [state |-> At(b, 10), epoch |-> At(b, 11), rep |-> At(b, 12),
        hop |-> At(b, 13), ttl |-> At(b, 14), eui |-> Bytes(b, 15, 8),
        addr |-> Get16(b, 23), soc |-> At(b, 25),
        x |-> Get32(b, 26), y |-> Get32(b, 30)]
  ELSE Bad
=============================================================================
