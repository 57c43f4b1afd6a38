------------------------------ MODULE Headers ------------------------------
(* The tables the rule code works from: protocols and their fields           *)
(* (proto.c), datatypes (datatype.c, proto.c, meta.c, ct.c), and the keys of *)
(* packets and connections (meta.c, ct.c), at half the scale: bytes of four  *)
(* bits, fields of half their bits in their order.  Addresses of the link    *)
(* layer and of ip6 are shorter still, and numbers of protocols smaller.     *)
EXTENDS Naturals, TLC

F(name, off, len, dt) == [name |-> name, off |-> off, len |-> len, dt |-> dt, dep |-> "any"]
D(name, off, len, dep) == [name |-> name, off |-> off, len |-> len, dt |-> "integer", dep |-> dep]

Desc0 == [base |-> 1, key |-> 0, metakey |-> "none", metalen |-> 0, metadt |-> "none",
          csum |-> FALSE, pseudo |-> {}, len |-> 0, upper |-> <<>>, fields |-> <<>>]
WithMeta(d, key, len, dt) == [d EXCEPT !.metakey = key, !.metalen = len, !.metadt = dt]

(* Numbers of protocols as ethernet, a family and ip know them.              *)
EthNum == 128 :> "ip" @@ 134 :> "ip6" @@ 129 :> "vlan"
FamNum == 2 :> "ip" @@ 10 :> "ip6"
IpNum == 1 :> "icmp" @@ 6 :> "tcp" @@ 7 :> "udp" @@ 12 :> "icmp6"

Ether == [Desc0 EXCEPT !.key = 3, !.len = 24, !.upper = EthNum,
   !.fields = <<F("daddr", 0, 8, "ether_addr"), F("saddr", 8, 8, "ether_addr"), F("type", 16, 8, "ether_type")>>]
Vlan == [Desc0 EXCEPT !.key = 4, !.len = 16, !.upper = EthNum,
   !.fields = <<F("pcp", 0, 1, "integer"), F("cfi", 1, 1, "integer"), F("id", 2, 6, "integer"),
                F("type", 8, 8, "ether_type")>>]
Netdev == WithMeta([Desc0 EXCEPT !.upper = EthNum], "protocol", 8, "ether_type")
Inet == WithMeta([Desc0 EXCEPT !.upper = FamNum], "nfproto", 4, "nf_proto")
InetService == WithMeta([Desc0 EXCEPT !.base = 3, !.upper = IpNum], "l4proto", 4, "inet_proto")
Ip == WithMeta([Desc0 EXCEPT !.base = 2, !.upper = IpNum, !.csum = TRUE, !.len = 80, !.pseudo = {5, 9, 11, 12},
   !.fields = <<F("version", 0, 2, "integer"), F("hdrlength", 2, 2, "integer"), F("dscp", 4, 3, "dscp"),
                F("ecn", 7, 1, "ecn"), F("length", 8, 8, "integer"), F("id", 16, 8, "integer"),
                F("frag-off", 24, 8, "integer"), F("ttl", 32, 4, "integer"), F("protocol", 36, 4, "inet_proto"),
                F("checksum", 40, 8, "integer"), F("saddr", 48, 16, "ipv4_addr"), F("daddr", 64, 16, "ipv4_addr")>>],
   "l4proto", 4, "inet_proto")
Ip6 == WithMeta([Desc0 EXCEPT !.base = 2, !.upper = IpNum, !.len = 80, !.pseudo = {5, 6, 8, 9},
   !.fields = <<F("version", 0, 2, "integer"), F("dscp", 2, 3, "dscp"), F("ecn", 5, 1, "ecn"),
                F("flowlabel", 6, 10, "integer"), F("length", 16, 8, "integer"), F("nexthdr", 24, 4, "inet_proto"),
                F("hoplimit", 28, 4, "integer"), F("saddr", 32, 24, "ipv6_addr"), F("daddr", 56, 24, "ipv6_addr")>>],
   "l4proto", 4, "inet_proto")

Icmp == [Desc0 EXCEPT !.base = 3, !.key = 1, !.csum = TRUE, !.len = 32,
   !.fields = <<F("type", 0, 4, "icmp_type"), F("code", 4, 4, "icmp_code"), F("checksum", 8, 8, "integer"),
                D("id", 16, 8, "echo"), D("sequence", 24, 8, "echo"), D("gateway", 16, 16, "address"),
                D("mtu", 24, 8, "mtu")>>]
Icmp6 == [Desc0 EXCEPT !.base = 3, !.key = 1, !.csum = TRUE, !.len = 32,
   !.fields = <<F("type", 0, 4, "icmpv6_type"), F("code", 4, 4, "icmpv6_code"), F("checksum", 8, 8, "integer"),
                D("parameter-problem", 16, 16, "pptr6"), D("mtu", 16, 16, "mtu6"), D("id", 16, 8, "echo6"),
                D("sequence", 24, 8, "echo6"), D("max-delay", 16, 8, "mgmq6")>>]
Udp == [Desc0 EXCEPT !.base = 3, !.csum = TRUE, !.len = 32,
   !.fields = <<F("sport", 0, 8, "inet_service"), F("dport", 8, 8, "inet_service"), F("length", 16, 8, "integer"),
                F("checksum", 24, 8, "integer")>>]
Tcp == [Desc0 EXCEPT !.base = 3, !.csum = TRUE, !.len = 80,
   !.fields = <<F("sport", 0, 8, "inet_service"), F("dport", 8, 8, "inet_service"), F("sequence", 16, 16, "integer"),
                F("ackseq", 32, 16, "integer"), F("doff", 48, 2, "integer"), F("reserved", 50, 2, "integer"),
                F("flags", 52, 4, "tcp_flag"), F("window", 56, 8, "integer"), F("checksum", 64, 8, "integer"),
                F("urgptr", 72, 8, "integer")>>]
Th == [Desc0 EXCEPT !.base = 3, !.len = 16,
   !.fields = <<F("sport", 0, 8, "inet_service"), F("dport", 8, 8, "inet_service")>>]

(* proto_definitions, and those without an id.                               *)
AllProtos == [unknown |-> Desc0, ether |-> Ether, vlan |-> Vlan, netdev |-> Netdev, inet |-> Inet,
              inet_service |-> InetService, ip |-> Ip, ip6 |-> Ip6, icmp |-> Icmp, icmp6 |-> Icmp6,
              udp |-> Udp, tcp |-> Tcp, th |-> Th]

(* icmp_dep_to_type(), and the answer to an echo request.                    *)
IcmpTypes == [echo |-> 8, address |-> 5, mtu |-> 3, echo6 |-> 6, pptr6 |-> 4, mtu6 |-> 2, mgmq6 |-> 9]
IcmpAnswers == [echo |-> 0, echo6 |-> 7]

----------------------------------------------------------------------------
(* Datatypes: basetype, byteorder, size in bits.                             *)

T(base, bo, size) == [base |-> base, bo |-> bo, size |-> size]
AllTypes ==
  "invalid" :> T("invalid", "none", 0) @@ "verdict" :> T("verdict", "none", 0)
  @@ "integer" :> T("integer", "none", 0) @@ "bitmask" :> T("bitmask", "none", 0)
  @@ "string" :> T("string", "host", 0) @@ "boolean" :> T("integer", "none", 1)
  @@ "nf_proto" :> T("integer", "none", 4) @@ "inet_proto" :> T("integer", "none", 4)
  @@ "ipv4_addr" :> T("integer", "big", 16) @@ "ipv6_addr" :> T("integer", "big", 24)
  @@ "inet_service" :> T("integer", "big", 8) @@ "mark" :> T("integer", "host", 16)
  @@ "icmp_code" :> T("integer", "big", 4) @@ "icmpv6_code" :> T("integer", "big", 4)
  @@ "icmp_type" :> T("integer", "big", 4) @@ "icmpv6_type" :> T("integer", "big", 4)
  @@ "tcp_flag" :> T("bitmask", "big", 4) @@ "dscp" :> T("integer", "big", 3) @@ "ecn" :> T("integer", "big", 1)
  @@ "ether_addr" :> T("integer", "big", 8) @@ "ether_type" :> T("integer", "big", 8)
  @@ "iface_index" :> T("integer", "host", 16) @@ "iface_type" :> T("integer", "host", 8)
  @@ "ifname" :> T("string", "host", 16) @@ "hour" :> T("integer", "host", 16) @@ "day" :> T("integer", "host", 4)
  @@ "ct_state" :> T("bitmask", "host", 16) @@ "ct_dir" :> T("integer", "none", 4)
  @@ "object" :> T("string", "host", 16)
AllPrefixTypes == {"ipv4_addr", "ipv6_addr", "mark"}      \* DTYPE_F_PREFIX

(* meta_templates and ct_templates.                                          *)
K(dt, len, bo) == [dt |-> dt, len |-> len, bo |-> bo]
AllMeta ==
  [length |-> K("integer", 16, "host"), protocol |-> K("ether_type", 8, "big"), nfproto |-> K("nf_proto", 4, "host"),
   l4proto |-> K("inet_proto", 4, "host"), mark |-> K("mark", 16, "host"), iif |-> K("iface_index", 16, "host"),
   iifname |-> K("ifname", 16, "host"), iiftype |-> K("iface_type", 8, "host"), cpu |-> K("integer", 16, "host"),
   day |-> K("day", 4, "host"), hour |-> K("hour", 16, "host")]
AllCt ==
  "state" :> K("ct_state", 16, "host") @@ "mark" :> K("mark", 16, "host") @@ "direction" :> K("ct_dir", 4, "host")
  @@ "l3proto" :> K("nf_proto", 4, "host") @@ "protocol" :> K("inet_proto", 4, "big")
  @@ "src" :> K("invalid", 0, "big") @@ "src-ip" :> K("ipv4_addr", 16, "big") @@ "src-ip6" :> K("ipv6_addr", 24, "big")
  @@ "proto-dst" :> K("invalid", 8, "big") @@ "zone" :> K("integer", 8, "host") @@ "secmark" :> K("integer", 16, "host")
=============================================================================
