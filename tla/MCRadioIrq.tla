------------------------------ MODULE MCRadioIrq ------------------------------
(* The traffic of one cell: what the tag waits for, frames of other stations   *)
(* with the same length, and the answers of two anchors.                       *)
EXTENDS RadioIrq, TLC

Eui(n) == <<n, 2, 3, 4, 5, 6, 7, 8>>
Frame(kind, fields, bytes) == [kind |-> kind, fields |-> fields, bytes |-> bytes]

GrantOf(e, a) ==
  LET g == [eui |-> Eui(e), addr |-> a, slot |-> 3, tier |-> 1, lease |-> 300]
  IN  Frame("grant", g, GrantBuild(g.eui, g.addr, g.slot, g.tier, g.lease))

BeaconOf(c) ==
  LET m == [i \in 1 .. 11 |-> IF i = 3 THEN 258 ELSE UNASSOC]
  IN  Frame("beacon", [ver |-> PROTO_VER, ctr |-> c, map |-> m], BeaconBuild(c, m))

RespOf(s) ==
  LET r == [src |-> s, p |-> 70000, q |-> 515]
  IN  Frame("resp", r, ResponseBuild(r.src, 258, 99, r.p, r.q))

RangeOf(a, t) ==
  LET ts == [i \in 1 .. 16 |-> t]
  IN  Frame("range", [aid |-> a, ts |-> ts], PosRespRef \o <<a>> \o ts)

Alert == [state |-> 1, epoch |-> 4, rep |-> 2, hop |-> 255, ttl |-> 6, eui |-> Eui(1),
          addr |-> 258, soc |-> 80, x |-> 5, y |-> 6]

MCAir ==
  {GrantOf(1, 258), BeaconOf(66000), RespOf(3), RangeOf(3, 9), RangeOf(2, 8),
   Frame("pos", <<>>, PosBuild(259, 1, 2, 3, 4, 80)),
   Frame("alert", <<>>, AlertBuild(259, Alert)),
   Frame("poll", <<>>, PosPoll(3))}

MCAid == 3

\* Every builder's frame is read back by its own parser and by no other.
Parsers(b) ==
  {<<"resp", ParseResponse(b)>>, <<"beacon", ParseBeacon(b)>>, <<"grant", ParseGrant(b)>>,
   <<"join", ParseJoin(b)>>, <<"keepalive", ParseKeepalive(b)>>, <<"pos", ParsePos(b)>>,
   <<"alert", ParseAlert(b)>>, <<"mpol", ParseMultipoll(b)>>}
Readings(b) == {p \in Parsers(b) : p[2] # Bad}

Slots == <<[addr |-> 700, delay |-> 3], [addr |-> 9, delay |-> 1000]>>

ASSUME CodecRoundTrip ==
  /\ \A f \in {GrantOf(1, 258), BeaconOf(66000), RespOf(3)} :
       Readings(f.bytes) = {<<f.kind, f.fields>>}
  /\ Readings(JoinBuild(Eui(1), 2)) = {<<"join", [eui |-> Eui(1), tier |-> 2]>>}
  /\ Readings(KeepaliveBuild(258, 1, 2)) = {<<"keepalive", [src |-> 258, tier |-> 1, slot |-> 2]>>}
  /\ Readings(PosBuild(258, 70000, 2, 3, 4, 80)) =
       {<<"pos", [src |-> 258, x |-> 70000, y |-> 2, res |-> 3, n |-> 4, soc |-> 80]>>}
  /\ Readings(AlertBuild(258, Alert)) = {<<"alert", Alert>>}
  /\ Readings(MultipollBuild(258, Slots, 70000)) = {<<"mpol", [slots |-> Slots, ts |-> 70000]>>}
  /\ Readings(DiscoveryBuild(258, 5)) = {} /\ IsDiscovery(DiscoveryBuild(258, 5))
  /\ Readings(ReleaseBuild(258)) = {} /\ IsRelease(ReleaseBuild(258))
  /\ FindAddr(BeaconOf(7).fields.map, 258) = 2 /\ FindAddr(<<>>, 258) = -1
=============================================================================
