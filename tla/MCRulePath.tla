----------------------------- MODULE MCRulePath -----------------------------
(* Instances of RulePath for TLC: pools of statements, packets and sets.     *)
EXTENDS RulePath, Passes, Headers

S(v) == [t |-> "symbol", v |-> v]
Str(chars, wild) == [t |-> "string", chars |-> chars, wild |-> wild]
Rng(a, b) == RangeExpr(S(a) @@ Untyped, S(b) @@ Untyped)
Pfx(v, n) == Prefix(S(v) @@ Untyped, n)
El(k) == [key |-> k, data |-> None]
Pair(k, d) == [key |-> k, data |-> d]
SetOf(ks) == SetExpr([i \in DOMAIN ks |-> El(ks[i])])
Raw(b, o, l) == [RawPayload(b, o, l) EXCEPT !.bo = "big", !.raw = TRUE]
TH_(name) == [Payload("th", name) EXCEPT !.raw = TRUE]
V(v) == Verdict(v)
M(op, l, r) == Match(Rel(op, l, r))
Is(l, r) == M("implicit", l, r)
Load_(key) == [t |-> "load", key |-> key, len |-> Loads[key].len, bo |-> Loads[key].bo, dt |-> Loads[key].dt]
Numgen(mod) == [t |-> "numgen", mod |-> mod, dt |-> "integer", len |-> 16, bo |-> "host"]
Hash(e, mod) == [t |-> "hash", arg |-> e, mod |-> mod, dt |-> "integer", len |-> 16, bo |-> "host"]
Counter == [t |-> "counter", arg |-> 0]
Accept == [t |-> "verdict", e |-> V("accept")]
SetMeta(key, e) == [t |-> "meta", key |-> key, val |-> e]
SetCt(key, e) == [t |-> "ct", key |-> key, val |-> e]
SetPayload(p, e) == [t |-> "payload", e |-> p, val |-> e]
Reject(type, fam, code) == [t |-> "reject", type |-> type, family |-> fam, code |-> code]

MCLoads == "fibtype" :> [len |-> 16, bo |-> "host", dt |-> "integer", max |-> 0, fams |-> {"ip", "ip6", "inet"}]
Ext(op, desc, name, off, len) ==
  [t |-> "exthdr", op |-> op, desc |-> desc, off |-> off, len |-> len, bo |-> "big", dt |-> "integer", name |-> name, ev |-> FALSE]
FragId == Ext("exthdr", "frag", "id", 16, 16)
FragOff == Ext("exthdr", "frag", "frag-off", 8, 5)
MaxSeg == Ext("tcpopt", "maxseg", "size", 8, 8)
MCLoadKind == "fibtype" :> "fib"
MCExtFields == {FragId, FragOff, MaxSeg}
Key(dt, len, bo) == [dt |-> dt, len |-> len, bo |-> bo]
Named(name, key, data, given, elems) ==
  [name |-> name, map |-> data # None, key |-> key, data |-> data, interval |-> FALSE, dinterval |-> FALSE,
   given |-> given, elems |-> elems]
Ports == Key("inet_service", 8, "big")
Ip4 == Key("ipv4_addr", 16, "big")
MCNamedSets ==
  "ports" :> Named("ports", Ports, None, <<El(S(2)), El(S(9))>>, <<El(Value(2, 8, "big", "inet_service")), El(Value(9, 8, "big", "inet_service"))>>)
  @@ "seen" :> Named("seen", Ip4, None, <<>>, <<>>)
  @@ "where" :> Named("where", Ip4, Ports, <<>>, <<>>)
MCConcats == "inet_service . inet_service" :> <<"inet_service", "inet_service">>
  @@ "ipv4_addr . inet_service" :> <<"ipv4_addr", "inet_service">>
  @@ "ipv4_addr . ipv4_addr" :> <<"ipv4_addr", "ipv4_addr">>
  @@ "mark . inet_service" :> <<"mark", "inet_service">>
MCPortUnreach == [icmpx |-> 1, ip |-> 3, ip6 |-> 4]

Matches ==
  { Is(Payload("ip", "saddr"), S(4660)), M("!=", Payload("ip", "saddr"), S(4660)),
    Is(Payload("ip", "daddr"), Pfx(4096, 4)), Is(Payload("ip", "daddr"), Pfx(4096, 6)),
    Is(Payload("ip", "daddr"), Rng(4096, 8191)), M("!=", Payload("ip", "daddr"), Rng(4096, 8191)),
    Is(Payload("ip", "dscp"), S(5)), M("!=", Payload("ip", "dscp"), S(5)), Is(Payload("ip", "ecn"), S(1)),
    Is(Payload("ip", "protocol"), S(6)), Is(Payload("ip", "ttl"), S(3)), M("<", Payload("ip", "ttl"), S(9)),
    Is(Payload("ip6", "daddr"), S(70000)), Is(Payload("ip6", "dscp"), S(5)), Is(Payload("ip6", "flowlabel"), S(300)),
    Is(Payload("tcp", "sport"), S(1)), Is(Payload("tcp", "dport"), S(2)), M("!=", Payload("tcp", "dport"), S(2)),
    Is(Payload("tcp", "dport"), SetOf(<<S(1), S(2)>>)), Is(Payload("tcp", "dport"), SetOf(<<S(200), Rng(2, 9)>>)),
    M(">", Payload("tcp", "dport"), S(1)), Is(Payload("tcp", "flags"), List(<<S(1), S(2)>>)),
    Is(Payload("tcp", "flags"), S(2)), M("==", Payload("tcp", "flags"), S(2)),
    M("==", Binop("&", Payload("tcp", "flags"), List(<<S(1), S(2)>>)), S(2)),
    Is(Payload("udp", "dport"), S(2)), Is(TH_("dport"), S(2)), Is(Raw(3, 0, 8), S(1)), Is(Raw(3, 4, 4), S(1)),
    Is(Payload("icmp", "type"), S(8)), Is(Payload("icmp", "id"), S(17)), Is(Payload("icmp", "mtu"), S(17)),
    Is(Payload("icmp6", "id"), S(17)),
    Is(Payload("ether", "saddr"), S(7)), Is(Payload("ether", "type"), S(128)), Is(Payload("vlan", "id"), S(5)),
    Is(Payload("vlan", "pcp"), S(1)),
    Is(Meta("mark"), S(258)), Is(Binop("&", Meta("mark"), S(255)), S(2)), Is(Binop("<<", Meta("mark"), S(4)), S(32)),
    Is(Binop("^", Meta("mark"), S(3)), S(257)), Is(Binop("|", Meta("mark"), S(1)), S(259)),
    Is(Meta("l4proto"), S(6)), Is(Meta("l4proto"), SetOf(<<S(6), S(7)>>)), Is(Meta("nfproto"), S(2)), Is(Meta("protocol"), S(128)),
    Is(Meta("iifname"), Str(<<5, 6>>, TRUE)), Is(Meta("iifname"), Str(<<5, 6, 7>>, FALSE)), Is(Meta("cpu"), Rng(1, 3)),
    Is(Meta("hour"), Rng(20, 5)),
    Is(Ct("state"), S(2)), Is(Ct("state"), List(<<S(2), S(4)>>)), M("neg", Ct("state"), S(2)), M("==", Ct("state"), S(2)), Is(Ct("mark"), S(258)),
    Is(Concat(<<Payload("ip", "saddr"), Payload("tcp", "dport")>>), SetOf(<<Concat(<<S(4660), S(2)>>), Concat(<<Pfx(4096, 4), Rng(1, 9)>>)>>)),
    Is(Payload("ip", "dscp"), SetOf(<<S(1), S(5)>>)),
    Is(Load_("fibtype"), S(3)), M("!=", Payload("ip", "dscp"), SetOf(<<S(1), S(5)>>))
  }
Effects ==
  { Counter, Accept, SetMeta("mark", S(258)), SetMeta("mark", Payload("ip", "dscp")), SetCt("mark", Meta("mark")),
    SetPayload(Payload("ip", "dscp"), S(2)), SetPayload(Payload("ip", "ttl"), S(3)), SetPayload(Payload("tcp", "dport"), S(1)),
    SetPayload(Payload("ip", "ecn"), S(1)), SetPayload(Payload("ip6", "dscp"), S(3)), 
    Reject("none", "none", -1), Reject("tcp", "none", -1), Reject("icmp", "ip", 1), Reject("icmpx", "none", 2),
    SetMeta("mark", Numgen(3)), SetMeta("mark", Hash(Payload("ip", "saddr"), 5)),
    [t |-> "verdict", e |-> MapExpr(Payload("tcp", "dport"), SetExpr(<<Pair(S(1), V("accept")), Pair(S(2), V("drop"))>>))],
    SetMeta("mark", MapExpr(Payload("ip", "saddr"), SetExpr(<<Pair(S(4660), S(258)), Pair(S(1), S(2))>>))) }


(* Statements and expressions of the other kinds.                            *)
NatTo(kind, fam, addr, proto, concat) == [t |-> "nat", kind |-> kind, family |-> fam, addr |-> addr, proto |-> proto, concat |-> concat]
Fill(t, set, key, data, stmts) == [t |-> t, op |-> "add", set |-> [t |-> "setname", name |-> set], key |-> key, data |-> data, stmts |-> stmts]
Dup(t, fam, addr, dev) == [t |-> t, family |-> fam, addr |-> addr, dev |-> dev]
NamedObj(e) == [t |-> "objref", kind |-> "counter", e |-> e]
Quota(bytes, inv) == [t |-> "quota", arg |-> [bytes |-> bytes, inv |-> inv]]
Limit(type, rate, burst) == [t |-> "limit", arg |-> [type |-> type, rate |-> rate, burst |-> burst, unit |-> "second", inv |-> FALSE]]
IsTcp == Is(Meta("l4proto"), S(6))
Lone ==
  { Is(FragId, S(5)), Is(FragOff, S(3)), Is(MaxSeg, S(7)), [t |-> "exthdr", e |-> MaxSeg, val |-> S(9)],
    Is(Payload("tcp", "dport"), [t |-> "setname", name |-> "ports"]),
    Fill("set", "seen", Payload("ip", "saddr"), None, <<Counter>>), Fill("set", "seen", Payload("ip", "daddr"), None, <<>>),
    Fill("map", "where", Payload("ip", "saddr"), Payload("tcp", "sport"), <<>>),
    [t |-> "meter", op |-> "add", name |-> "m", set |-> None, key |-> Payload("ip", "saddr"), data |-> None, stmts |-> <<Counter>>],
    [t |-> "meter", op |-> "add", name |-> "m", set |-> None, data |-> None, stmts |-> <<Counter>>,
     key |-> Concat(<<Payload("ip", "saddr"), Payload("tcp", "dport")>>)],
    NamedObj(S(101)), NamedObj(MapExpr(Payload("tcp", "dport"), SetExpr(<<Pair(S(1), Str(<<5>>, FALSE)), Pair(S(2), Str(<<6>>, FALSE))>>))),
    NatTo("snat", "none", S(4660), None, FALSE), NatTo("snat", "ip", Rng(4096, 4111), None, FALSE), NatTo("dnat", "ip", Rng(4097, 4112), None, FALSE),
    NatTo("snat", "ip", Pfx(4096, 12), None, FALSE), NatTo("dnat", "ip6", S(70000), None, FALSE),
    NatTo("dnat", "ip", MapExpr(Payload("ip", "saddr"), SetExpr(<<Pair(S(4660), S(258)), Pair(S(1), S(2))>>)), None, FALSE),
    NatTo("dnat", "ip", MapExpr(Payload("tcp", "dport"), SetExpr(<<Pair(S(2), Concat(<<S(258), S(9)>>))>>)), None, TRUE),
    NatTo("masquerade", "none", None, None, FALSE),
    Dup("dup", "none", S(4660), None), Dup("dup", "none", S(4660), S(1)), Dup("dup", "none", S(70000), None), Dup("dup", "none", S(1), None),
    Dup("fwd", "none", None, S(1)), Dup("fwd", "ip", S(4660), S(1)),
    [t |-> "queue", e |-> None, fanout |-> FALSE], [t |-> "queue", e |-> S(3), fanout |-> FALSE], [t |-> "queue", e |-> Rng(1, 3), fanout |-> FALSE],
    [t |-> "log", flags |-> {"prefix", "level"}], [t |-> "log", flags |-> {"group", "snaplen"}],
    [t |-> "notrack", arg |-> 0],
    Quota(0, TRUE), Quota(1000, FALSE), Quota(4096, FALSE), Quota(3 * 1024 * 1024, TRUE),
    Limit("packets", 400, 5), Limit("bytes", 2048, 0), Limit("bytes", 5 * 1024 * 1024, 1500), Limit("bytes", 1025, 3072),
    SetMeta("mark", Binop("&", Meta("mark"), S(15))), SetMeta("mark", Binop("|", Binop("&", Meta("mark"), S(240)), S(1))), SetCt("mark", Ct("mark")),
    SetMeta("mark", Binop("^", Meta("mark"), S(3))), SetMeta("mark", Binop("<<", Meta("mark"), S(2))),
    M("!=", Binop("&", Meta("mark"), S(255)), S(2)),
    M("==", Binop("&", Payload("ip", "saddr"), S(255)), S(52)), M("==", Binop("&", Payload("ip", "saddr"), S(65280)), S(4608)),
    M("!=", Payload("tcp", "flags"), List(<<S(1), S(2)>>)), M("neg", Payload("tcp", "flags"), S(1)),
    Is(Payload("tcp", "flags"), SetOf(<<S(1), S(2)>>)),
    Is(Concat(<<Meta("mark"), Payload("tcp", "dport")>>), SetOf(<<Concat(<<S(258), S(2)>>)>>)),
    Is(Concat(<<Payload("tcp", "sport"), Payload("tcp", "dport")>>), SetOf(<<Concat(<<S(1), S(2)>>), Concat(<<Rng(3, 5), S(2)>>)>>)),
    Is(Payload("ip6", "saddr"), Pfx(69632, 12)), M(">=", Meta("mark"), S(255)), M("<=", Meta("mark"), S(300)),
    M(">=", Payload("tcp", "dport"), S(2)), M("<=", Payload("tcp", "dport"), S(5)), Is(Ct("mark"), Rng(1, 300)), Is(Meta("day"), S(1)),
    Is(Meta("iif"), S(1)), Is(Meta("mark"), SetOf(<<S(258), S(3)>>)), Is(Payload("ip", "ecn"), SetOf(<<S(0), S(1)>>)) }
Served == {<<IsTcp, [t |-> "tproxy", family |-> f, addr |-> a, proto |-> p]>> : f \in {"none", "ip"}, a \in {None, S(4660)}, p \in {None, S(9)}}
  \cup {<<IsTcp, NatTo("dnat", "ip", S(4660), S(9), FALSE)>>, <<IsTcp, NatTo("snat", "ip", Rng(4097, 4112), Rng(1, 5), FALSE)>>,
        <<IsTcp, NatTo("redirect", "none", None, S(9), FALSE)>>, <<IsTcp, NatTo("redirect", "none", None, Rng(3, 9), FALSE)>>}

----------------------------------------------------------------------------
(* The rules.                                                                *)

Uses(s, desc) == s.t = "match" /\ s.e.left.t = "payload" /\ s.e.left.desc = desc
IsMeta(s, key) == s.t = "match" /\ s.e.left.t = "meta" /\ s.e.left.key = key
IsRaw(s) == s.t = "match" /\ s.e.left.t = "payload" /\ s.e.left.raw
(* Rules that are known to come back as others; the numbers are those of the *)
(* list of departures in the README.                                         *)
Departs(f, r) ==
  LET a == r[1]   b == r[Len(r)]   two == Len(r) = 2
  IN  \/ f \in {"ip", "ip6"} /\ \E i \in DOMAIN r : Uses(r[i], "vlan")                                   \* 1
      \/ \E i \in DOMAIN r : Uses(r[i], "icmp6")                                                         \* 2
      \/ two /\ (a = Is(Payload("ether", "type"), S(128)) \/ IsMeta(a, "protocol"))                      \* 3
      \/ two /\ IsRaw(b) /\ (b.e.left.off + b.e.left.len) % Byte = 0 /\ b.e.left.len = 4                 \* 4
      \/ two /\ Uses(a, "icmp") /\ b = Is(Payload("icmp", "id"), S(17))                                  \* 5
      \/ two /\ (Uses(a, "ether") \/ Uses(a, "vlan")) /\ b = Reject("icmp", "ip", 1)                      \* 6
      \/ two /\ (Uses(a, "ether") \/ Uses(a, "vlan")) /\ b.t = "match" /\ b.e.left.t = "exthdr"                               \* 7
      \/ two /\ (Uses(a, "ip") \/ Uses(a, "icmp")) /\ b = Is(MaxSeg, S(7))                                                    \* 8
      \/ two /\ a = IsTcp /\ f \in {"bridge", "netdev"}                                                   \* 9
            /\ (b.t \in {"map", "meter"} \/ (b.t = "match" /\ b.e.left.t = "concat"))

Fronts == { Is(Payload("ip", "saddr"), S(4660)), Is(Payload("ip", "dscp"), S(5)), Is(Payload("ip", "protocol"), S(6)),
           Is(Payload("ip6", "daddr"), S(70000)), Is(Payload("tcp", "dport"), S(2)), Is(Payload("udp", "dport"), S(2)),
           Is(Payload("tcp", "flags"), List(<<S(1), S(2)>>)), Is(Payload("icmp", "type"), S(8)), Is(Payload("ether", "saddr"), S(7)),
           Is(Payload("vlan", "id"), S(5)), Is(Raw(3, 0, 8), S(1)), IsTcp, Is(Meta("nfproto"), S(2)),
           Is(Binop("&", Meta("mark"), S(255)), S(2)), Is(Meta("iifname"), Str(<<5, 6>>, TRUE)), Is(Ct("state"), S(2)) }
MCFamilies == {"ip", "ip6", "inet", "bridge", "netdev"}
Anything == Matches \cup Effects \cup Lone
MCRules ==
  LET given == {<<a>> : a \in Anything} \cup (Fronts \X Anything) \cup Served
  IN  [f \in MCFamilies |-> {r \in given : ~Departs(f, r)}]
UnequalRules == "ip" :> {<<M("!=", Payload("tcp", "sport"), S(1)), M("!=", Payload("tcp", "dport"), S(9))>>}
PrefixRules == "ip" :> {<<M("==", Binop("&", Meta("mark"), S(61440)), S(4096))>>}

(* A map statement has no json callback, and that of a set leaves statements *)
(* of its elements out.                                                      *)
MCFormats(f, stmts) ==
  IF \E i \in DOMAIN stmts : stmts[i].t = "map" \/ (stmts[i].t = "set" /\ stmts[i].stmts # <<>>)
  THEN {"text"} ELSE {"text", "json"}
TextOnly(f, stmts) == {"text"}

----------------------------------------------------------------------------
(* Packets.                                                                  *)
IpH(proto) == [version |-> 1, dscp |-> 5, ecn |-> 1, ttl |-> 3, protocol |-> proto, saddr |-> 4660, daddr |-> 4200]
Ip6H(proto) == [version |-> 1, dscp |-> 5, flowlabel |-> 300, nexthdr |-> proto, hoplimit |-> 3, saddr |-> 70001, daddr |-> 70000]
TcpH == [sport |-> 1, dport |-> 2, flags |-> 2, sequence |-> 30]
OtherIp == [IpH(6) EXCEPT !.dscp = 2, !.ecn = 0, !.ttl = 12, !.saddr = 18, !.daddr = 9000]
OtherTcp == [sport |-> 1, dport |-> 9, flags |-> 1, sequence |-> 31]
UdpH == [sport |-> 1, dport |-> 2]
IcmpH(type) == [type |-> type, code |-> 1, id |-> 17]
EtherH(type) == [saddr |-> 7, daddr |-> 9, type |-> type]
VlanH(type) == [pcp |-> 1, id |-> 5, type |-> type]
Keys(proto, nf, l4, dev) ==
  [length |-> 9, protocol |-> proto, nfproto |-> nf, l4proto |-> l4, mark |-> 258, iif |-> 1, iifname |-> HostValue(<<5, 6, 7>>),
   iiftype |-> dev, cpu |-> 2, day |-> 1, hour |-> 22]
OtherKeys == [Keys(128, 2, 6, 0) EXCEPT !.mark = 4101, !.cpu = 7, !.day = 2, !.hour = 3, !.iifname = HostValue(<<7>>)]
CtOf_(nf) == "state" :> [v |-> 2, bo |-> "host", n |-> 4] @@ "mark" :> [v |-> 258, bo |-> "host", n |-> 4]
Pkt(order, layers, meta) ==
  WithBytes([order |-> order, layers |-> layers, hdr |-> <<>>, hook |-> "none", meta |-> meta, ct |-> CtOf_(2), load |-> "fibtype" :> 3,
             ext |-> "frag" :> (IF "ip6" \in DOMAIN layers THEN <<0, 0, 1, 8, 0, 0, 0, 5>> ELSE <<>>)
                     @@ "maxseg" :> (IF "tcp" \in DOMAIN layers THEN <<0, 0, 0, 7>> ELSE <<>>), rand |-> 7])
Packets ==
  { Pkt(<<"ip", "tcp">>, [ip |-> IpH(6), tcp |-> TcpH], Keys(128, 2, 6, 0)),
    Pkt(<<"ip", "tcp">>, [ip |-> OtherIp, tcp |-> OtherTcp], OtherKeys),
    Pkt(<<"ip", "udp">>, [ip |-> IpH(7), udp |-> UdpH], Keys(128, 2, 7, 0)),
    Pkt(<<"ip", "icmp">>, [ip |-> IpH(1), icmp |-> IcmpH(8)], Keys(128, 2, 1, 0)),
    Pkt(<<"ip", "icmp">>, [ip |-> IpH(1), icmp |-> [IcmpH(3) EXCEPT !.id = 0] @@ [mtu |-> 17]], Keys(128, 2, 1, 0)),
    Pkt(<<"ip6", "tcp">>, [ip6 |-> Ip6H(6), tcp |-> TcpH], Keys(134, 10, 6, 0)),
    Pkt(<<"ip6", "icmp6">>, [ip6 |-> Ip6H(12), icmp6 |-> IcmpH(7)], Keys(134, 10, 12, 0)),
    Pkt(<<"ether", "ip", "tcp">>, [ether |-> EtherH(128), ip |-> IpH(6), tcp |-> TcpH], Keys(128, 2, 6, 1)),
    Pkt(<<"ether", "ip6", "tcp">>, [ether |-> EtherH(134), ip6 |-> Ip6H(6), tcp |-> TcpH], Keys(134, 10, 6, 1)),
    Pkt(<<"ether", "vlan", "ip", "udp">>, [ether |-> EtherH(129), vlan |-> VlanH(128), ip |-> IpH(7), udp |-> UdpH], Keys(128, 2, 7, 1)) }
(* A header of ip behind a match on ether is one of untagged frames outside  *)
(* of bridge, whatever comes first.                                          *)
MCPackets(f, stmts) ==
  LET seen(p) == CASE f \in {"ip", "ip6"} -> f \in DOMAIN p.layers
                   [] f = "bridge" -> "ether" \in DOMAIN p.layers
                   [] OTHER -> "vlan" \in DOMAIN p.layers => \A i \in DOMAIN stmts : ~Uses(stmts[i], "ether")
  IN  {[p EXCEPT !.hook = f] : p \in {q \in Packets : seen(q)}}
=============================================================================
