----------------------------- MODULE MCDeclPath -----------------------------
(* RulePath for declarations: pools of tables, chains, flowtables, objects,  *)
(* sets and maps for TLC.                                                    *)
EXTENDS RulePath, Declared, Headers

Prio(name, off) == [name |-> name, off |-> off]

Tables == {TableForm(f, w) : f \in {{}, {"dormant"}, {"owner"}}, w \in {"none", "words"}}

(* Chains: every hook and name of a priority, of the family or not.          *)
Prios == [name : {"raw", "mangle", "dstnat", "filter", "security", "srcnat", "out"}, off : {-11, -10, 0, 10, 50}]
         \cup [name : {"none"}, off : {-300, -210, -201, -150, -100, -5, 0, 11, 60, 100, 311}]
Chain(hook, prio, names) == BaseForm("filter", hook, prio, "none", {}, "none", names)
BaseChains == {Chain(h, p, <<>>) : h \in Range(InetHooks), p \in Prios}
  \cup {Chain("ingress", p, <<"eth0">>) : p \in Prios} \cup {Chain("input", Prio("filter", 0), <<"eth0">>)}
Variants(c) ==
  {[c EXCEPT !.policy = p, !.comment = w, !.flags = f] : p \in {"none", "accept", "drop"}, w \in {"none", "words"}, f \in {{}, {"offload"}}}
Chains == BaseChains \cup Variants(Chain("input", Prio("filter", -10), <<>>))
  \cup Variants(Chain("ingress", Prio("none", 7), <<"eth0">>)) \cup {PlainForm("none"), PlainForm("words")}

Flowtable(hook, prio, flags) == FlowForm(hook, prio, "eth0", flags)
Flowtables == {Flowtable(h, p, {}) : h \in {"ingress", "input"}, p \in Prios}
  \cup {Flowtable("none", Prio("none", 0), f) : f \in SUBSET {"offload", "counter"}}

(* Objects.                                                                  *)
Obj(type, spec) == ObjForm(type, "none", spec)
Rate(type, rate, burst, inv) == LimitSpec(type, rate, burst, "second", inv)
Policies(l4) ==
  IF l4 = "udp" THEN {[unreplied |-> 50], [unreplied |-> 50, replied |-> 180], [replied |-> 1, established |-> 9]}
  ELSE {[established |-> 100], [close |-> 10, retrans |-> 7, unack |-> 299], [unreplied |-> 50]}
Objects ==
  {Obj("counter", [packets |-> 3, bytes |-> 400])}
  \cup {Obj("quota", QuotaSpec(i, b, u)) : i \in BOOLEAN, b \in {0, 1000, 2048, 3145728}, u \in {0, 1023, 4096}}
  \cup {Obj("limit", Rate("packets", 400, b, i)) : b \in {3, 5}, i \in BOOLEAN}
  \cup {Obj("limit", Rate("bytes", r, b, i)) : r \in {1025, 2048, 5242880}, b \in {1500, 3072}, i \in BOOLEAN}
  \cup {Obj("ct helper", HelperSpec("ftp", "tcp", l3)) : l3 \in {"none", "ip", "inet"}}
  \cup UNION {{Obj("ct timeout", TimeoutSpec(l4, l3, p)) : l3 \in {"none", "ip"}, p \in Policies(l4)} : l4 \in {"udp", "tcp"}}
  \cup {Obj("ct expectation", ExpectSpec(l4, l3, d, t, 12)) :
          l4 \in {"none", "tcp"}, l3 \in {"none", "ip6"}, d \in {0, 9}, t \in {0, 1500, 90061007}}
  \cup {Obj("secmark", [context |-> "words"]), Obj("synproxy", [mss |-> 1460, wscale |-> 7, flags |-> {"sack-perm"}])}
Commented == {[o EXCEPT !.comment = "words"] : o \in {x \in Objects : x.type \in {"counter", "quota", "ct helper"}}}

(* Sets and maps.                                                            *)
SetDecl(key) ==
  [t |-> "set", key |-> key, map |-> "no", data |-> None, dinterval |-> FALSE, obj |-> "none", flags |-> {}, timeout |-> 0,
   gc |-> 0, size |-> 0, policy |-> "performance", merge |-> FALSE, stmts |-> <<>>, comment |-> "none"]
SetKeys ==
  {OfType(dt) : dt \in {"ipv4_addr", "inet_service", "mark", "ifname", "integer", "string", "verdict"}}
  \cup {Payload("ip", "saddr"), Payload("ip", "dscp"), Payload("ip6", "flowlabel"), Payload("tcp", "flags"), Meta("mark"), Meta("length"),
        Meta("iifname"), Ct("state"), Ct("zone")}
  \cup {Concat(<<OfType("ipv4_addr"), OfType("inet_service")>>), Concat(<<OfType("mark"), OfType("inet_service")>>),
        Concat(<<Payload("ip", "saddr"), Payload("tcp", "dport")>>), Concat(<<Meta("mark"), Payload("tcp", "dport")>>),
        Concat(<<Payload("ip", "dscp"), Payload("ip", "saddr")>>), Concat(<<Payload("ip", "saddr"), Ct("src")>>),
        Concat(<<Payload("ip6", "flowlabel"), Payload("ip", "saddr")>>)}
SetDatas ==
  {OfType(dt) : dt \in {"ipv4_addr", "mark", "verdict", "integer"}}
  \cup {Payload("ip", "daddr"), Payload("ip6", "flowlabel"), Meta("mark"), Meta("length"), TypeofVerdict,
        Concat(<<OfType("ipv4_addr"), OfType("inet_service")>>), Concat(<<Payload("ip", "daddr"), Payload("tcp", "dport")>>)}
Counter == [t |-> "counter", arg |-> 0]
Quota == [t |-> "quota", arg |-> [bytes |-> 4096, inv |-> FALSE]]

Maps == {[SetDecl(k) EXCEPT !.map = "data", !.data = d, !.dinterval = i] : k \in SetKeys, d \in SetDatas, i \in BOOLEAN}
ObjMaps == {[SetDecl(k) EXCEPT !.map = "obj", !.obj = o] : k \in {x \in SetKeys : ~Typeof(x)}, o \in MapObjects}
Flagged(s) ==
  {[s EXCEPT !.flags = f, !.timeout = t, !.gc = g, !.merge = m] :
     f \in SUBSET {"constant", "dynamic", "interval", "timeout"}, t \in {0, 2000, 90061007}, g \in {0, 3000}, m \in BOOLEAN}
Sized(s) ==
  {[s EXCEPT !.size = n, !.policy = p, !.stmts = ss, !.comment = w] :
     n \in {0, 12}, p \in {"performance", "memory"}, ss \in {<<>>, <<Counter>>, <<Counter, Quota>>}, w \in {"none", "words"}}
Pair == Concat(<<Payload("ip", "saddr"), Payload("tcp", "dport")>>)
MapDecl == [SetDecl(OfType("ipv4_addr")) EXCEPT !.map = "data", !.data = OfType("verdict")]
SetDecls ==
  {SetDecl(k) : k \in SetKeys} \cup Maps \cup ObjMaps
  \cup UNION {Flagged(SetDecl(k)) \cup Sized(SetDecl(k)) : k \in {OfType("ipv4_addr"), Pair}}
  \cup {s \in Flagged(MapDecl) : ~s.merge /\ s.gc = 0} \cup {s \in Sized(MapDecl) : s.stmts = <<>>}

----------------------------------------------------------------------------
MCFamilies == {"ip", "ip6", "inet", "bridge", "netdev", "arp"}
Unsized == Tables \cup Chains \cup Flowtables \cup Objects \cup Commented
MCDecls == [f \in MCFamilies |->
              Unsized \cup (IF f \in {"ip", "bridge"} THEN {s \in SetDecls : Given(s)} ELSE {})]
MCFamily(f, d) == {f}
MCConcats ==
  "ipv4_addr . inet_service" :> <<"ipv4_addr", "inet_service">> @@ "mark . inet_service" :> <<"mark", "inet_service">>
  @@ "dscp . ipv4_addr" :> <<"dscp", "ipv4_addr">>

(* What the theorems about declarations suppose.                             *)
ASSUME TypesFit
ASSUME \A f \in MCFamilies : f \in AllFamilies /\ \A d \in MCDecls[f] : Given(d)
MCFormats(f, d) == IF InJson(d) THEN {"text", "json"} ELSE {"text"}
=============================================================================
