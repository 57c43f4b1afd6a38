------------------------------ MODULE Declared ------------------------------
(* The passes RulePath is made of, for declarations; and what a declaration  *)
(* stands for, in the words of the manual, beside what the kernel keeps.     *)
EXTENDS Sets

----------------------------------------------------------------------------
(* What the grammar makes of a declaration: table_block with table_options,  *)
(* chain_block with hook_spec, flowtable_block, and the blocks of objects.   *)

TableForm(flags, comment) == [t |-> "table", flags |-> flags, comment |-> comment]
BaseForm(type, hook, prio, policy, flags, comment, names) ==
  [t |-> "chain", base |-> TRUE, type |-> type, hook |-> hook, prio |-> prio, policy |-> policy, flags |-> flags,
   comment |-> comment, devs |-> Devices(names)]
PlainForm(comment) ==
  [t |-> "chain", base |-> FALSE, type |-> "none", hook |-> "none", prio |-> [name |-> "none", off |-> 0], policy |-> "none",
   flags |-> {}, comment |-> comment, devs |-> <<>>]
FlowForm(hook, prio, name, flags) ==
  [t |-> "flowtable", hook |-> hook, prio |-> prio, devs |-> Devices(<<name>>), flags |-> flags]
ObjForm(type, comment, spec) == [t |-> "object", type |-> type, comment |-> comment, spec |-> spec]
QuotaSpec(inv, bytes, used) == [inv |-> inv, bytes |-> bytes, used |-> used]
LimitSpec(type, rate, burst, unit, inv) == [type |-> type, rate |-> rate, burst |-> burst, unit |-> unit, inv |-> inv]
HelperSpec(helper, l4, l3) == [helper |-> helper, l4 |-> l4, l3 |-> l3]
TimeoutSpec(l4, l3, policy) == [l4 |-> l4, l3 |-> l3, policy |-> policy]
ExpectSpec(l4, l3, dport, timeout, size) == [l4 |-> l4, l3 |-> l3, dport |-> dport, timeout |-> timeout, size |-> size]

AllFamilies == {"ip", "ip6", "inet", "bridge", "netdev", "arp"}
(* One device or none.                                                       *)
DeviceList(names) == names = <<>> \/ names = <<names[1]>>
TableGiven(d) == d = TableForm(d.flags, d.comment) /\ (d.flags = {} \/ \E f \in d.flags : d.flags = {f})
ChainGiven(d) ==
  \/ d = PlainForm(d.comment)
  \/ /\ d = BaseForm(d.type, d.hook, d.prio, d.policy, d.flags, d.comment, DevNames(d.devs))
     /\ d.prio.off \in Int /\ DeviceList(DevNames(d.devs))
FlowtableGiven(d) == \E name \in Range(DevNames(d.devs)) : d = FlowForm(d.hook, d.prio, name, d.flags) /\ d.prio.off \in Int

(* Objects: of counters, marks and synproxies no field is looked at.         *)
Simple(spec) == spec = [f \in DOMAIN spec |-> spec[f]] /\ "l3" \notin DOMAIN spec /\ "policy" \notin DOMAIN spec
SomeTime(l4, policy) ==
  DOMAIN policy \subseteq StateNames(l4) =>
    \E i \in DOMAIN TimeoutProtocol[l4] : TimesOf(l4, policy)[i] # TimeoutProtocol[l4][i].dflt
SpecGiven(type, spec) ==
  \/ type \in {"counter", "secmark", "synproxy"} /\ Simple(spec)
  \/ type = "quota" /\ spec = QuotaSpec(spec.inv, spec.bytes, spec.used) /\ {spec.bytes, spec.used} \subseteq Nat
  \/ /\ type = "limit" /\ spec = LimitSpec(spec.type, spec.rate, spec.burst, spec.unit, spec.inv)
     /\ spec.type \in {"packets", "bytes"} /\ spec.rate \in Nat /\ spec.burst \in Nat \ {0}
  \/ type = "ct helper" /\ spec = HelperSpec(spec.helper, spec.l4, spec.l3)
  \/ /\ type = "ct timeout" /\ spec = TimeoutSpec(spec.l4, spec.l3, spec.policy)
     /\ spec.l4 \in {"tcp", "udp"} /\ SomeTime(spec.l4, spec.policy)
  \/ /\ type = "ct expectation" /\ spec = ExpectSpec(spec.l4, spec.l3, spec.dport, spec.timeout, spec.size)
     /\ spec.timeout \in Nat
ObjectGiven(d) == d = ObjForm(d.type, d.comment, d.spec) /\ SpecGiven(d.type, d.spec)

(* Sets: typeof holds for keys and data alike, and a map of objects has none.*)
Typeof(e) == IF e.t = "concat" THEN \A i \in DOMAIN e.es : e.es[i].t # "value" ELSE e.t # "value"
TypeofVerdict == Verdict("accept")
TypeofData(e) == e = TypeofVerdict \/ Typeof(e)
PartGiven(e) ==
  /\ \/ e = OfType(e.dt)
     \/ e.t = "payload" /\ e = PayloadTmpl(e.desc, e.tmpl)
     \/ e.t = "meta" /\ e = Meta(e.key)
     \/ e.t = "ct" /\ e = Ct(e.key)
  /\ e.dt \in DOMAIN Types /\ e.len \in Nat /\ (e.dt = "verdict" => e.t = "value")
(* The parts of a concatenation are as long as their types, where these have *)
(* a size, and it has a name then.                                           *)
ConcatGiven(e) ==
  LET parts == Range(e.es)
  IN  /\ e.es \in Seq(parts) /\ Len(e.es) > 1
      /\ \A p \in parts : PartGiven(p) /\ (Types[p.dt].size # 0 => Bytes(p.len) = Bytes(Types[p.dt].size))
      /\ (\A p \in parts : p.t = "value") \/ (\A p \in parts : p.t # "value")
      /\ (\A p \in parts : Types[p.dt].size # 0) => \E n \in DOMAIN Concats : Concats[n] = [i \in DOMAIN e.es |-> e.es[i].dt]
ValueGiven(e) == IF e.t = "concat" THEN ConcatGiven(e) ELSE PartGiven(e)
(* What is no more than its type says.                                       *)
AsItsType(e) == e.t # "concat" => e.len = Types[e.dt].size /\ e.bo = Types[e.dt].bo
DataGiven(s) ==
  /\ s.data = TypeofVerdict \/ ValueGiven(s.data)
  /\ Typeof(s.key) <=> TypeofData(s.data)
  /\ s.data.t = "concat" =>
       /\ \A p \in Range(s.data.es) : Types[p.dt].size # 0
       /\ s.key.t = "concat" => Len(s.data.es) <= Len(s.key.es)
  /\ s.dinterval /\ s.data.t # "concat" =>
       /\ s.data.dt # "verdict" /\ Bytes(2 * s.data.len) = 2 * Bytes(s.data.len)
       /\ AsItsType(s.key) /\ AsItsType(s.data)
SetFields == {"t", "key", "map", "data", "dinterval", "obj", "flags", "timeout", "gc", "size", "policy", "merge", "stmts", "comment"}
SetGiven(s) ==
  /\ s = [f \in SetFields |-> s[f]]
  /\ ValueGiven(s.key) /\ s.map \in {"no", "data", "obj"} /\ {s.dinterval, s.merge} \subseteq BOOLEAN
  /\ s.flags \subseteq ShownFlags /\ {s.timeout, s.gc} \subseteq Nat
  /\ "constant" \in s.flags => s.size = 0 /\ s.policy = "performance"        \* neither is sent
  /\ s.gc # 0 => s.timeout # 0 \/ "timeout" \in s.flags                      \* the kernel keeps none
  /\ s.map # "no" => ~s.merge /\ s.stmts = <<>> /\ s.gc = 0
  /\ s.map = "data" => s.obj = "none" /\ DataGiven(s)
  /\ s.map # "data" => s.data = None /\ ~s.dinterval
  /\ s.map = "no" => s.obj = "none"
  /\ s.map = "obj" => s.obj \in MapObjects /\ ~Typeof(s.key)

Given(d) ==
  \/ d.t = "table" /\ TableGiven(d)
  \/ d.t = "chain" /\ ChainGiven(d)
  \/ d.t = "flowtable" /\ FlowtableGiven(d)
  \/ d.t = "object" /\ ObjectGiven(d)
  \/ d.t = "set" /\ SetGiven(d)

(* JSON knows less.                                                          *)
InJson(d) ==
  \/ d.t = "table" /\ d.flags = {} /\ d.comment = "none"
  \/ d.t = "chain" /\ d.devs = <<>> /\ d.flags = {} /\ d.comment = "none"
  \/ d.t = "object" /\ d.type \in {"counter", "quota", "limit", "ct helper", "secmark"} /\ d.comment = "none"
  \/ /\ d.t = "set" /\ "dynamic" \notin d.flags /\ ~d.merge /\ d.stmts = <<>> /\ d.comment = "none" /\ ~d.dinterval
     /\ d.timeout % Second = 0 /\ d.gc % Second = 0 /\ AsItsType(d.key)
     /\ d.map = "data" => d.data.t # "concat" /\ d.data # TypeofVerdict /\ AsItsType(d.data)

(* What the tables of types have to be like: names of types, of              *)
(* concatenations and of kinds of objects are not the same.                  *)
TypesFit ==
  /\ Byte \in {4, 8}
  /\ DOMAIN Types \cap (DOMAIN Concats \cup MapObjects) = {}
  /\ "verdict" \in DOMAIN Types /\ Types["verdict"].size = 0
  /\ \A dt \in DOMAIN Types : Types[dt].size \in Nat

----------------------------------------------------------------------------
(* The passes.                                                               *)

(* cmd_evaluate_add().                                                       *)
DeclEvaluated(fam, d) ==
  LET r == CASE d.t = "table" -> Done(d)
             [] d.t = "chain" -> EvaluateChain(fam, d)
             [] d.t = "flowtable" -> EvaluateFlowtable(d)
             [] d.t = "object" -> EvaluateObj(d)
             [] d.t = "set" -> EvaluateSet(d)
  IN  IF r.err = "none" THEN Done(r.stmts ++ [family |-> fam]) ELSE r

(* do_command_add() sends the message; a base chain without a policy accepts.*)
Kept(out) == [err |-> "none", out |-> out, low |-> 0]
KeptChain(m) == IF "hooknum" \in DOMAIN m THEN m ++ [policy |-> "accept"] ELSE m
DeclGenerated(d) ==
  CASE d.t = "table" -> Kept(TableMessage(d))
    [] d.t = "chain" -> Kept(KeptChain(ChainMessage(d)))
    [] d.t = "flowtable" -> Kept(FlowtableMessage(d))
    [] d.t = "set" -> Kept(KeptSet(SetMessage(d)))
    [] d.t = "object" -> LET m == ObjMessage(d)
                         IN  IF m.err # "none" THEN [Kept(<<>>) EXCEPT !.err = m.err] ELSE Kept(KeptObj(d.family, m.out))

(* do_list_table() and do_command_list_json().                               *)
ListedText(a) ==
  CASE a.t = "table" -> TableText(a)
    [] a.t = "chain" -> ChainText(ChainOf(a))
    [] a.t = "flowtable" -> FlowtableText(a)
    [] a.t = "object" -> ObjText(a)
    [] a.t = "set" -> SetText(a)
ListedJson(a) ==
  CASE a.t = "table" -> TableJson(a)
    [] a.t = "chain" -> ChainJson(ChainOf(a))
    [] a.t = "flowtable" -> FlowtableJson(a)
    [] a.t = "object" -> ObjJson(a)
    [] a.t = "set" -> SetJson(a)
DeclListed(fam, how, a) == Done(IF how = "json" THEN ListedJson(a) ELSE ListedText(a))

(* The grammar, and json_parse_cmd_add().                                    *)
ReadText(x) ==
  CASE x.t = "table" -> ParseTableText(x)
    [] x.t \in {"chain", "flowtable"} -> Done(x)
    [] x.t = "object" -> ParseObjText(x)
    [] x.t = "set" -> ParseSetText(x)
ReadJson(o) ==
  CASE o.t = "table" -> Done(ParseTableJson(o))
    [] o.t = "chain" -> Done(ParseChainJson(o))
    [] o.t = "flowtable" -> Done(ParseFlowtableJson(o))
    [] o.t = "object" -> ParseObjJson(o)
    [] o.t = "set" -> ParseSetJson(o)
DeclRead(how, listing) == IF how = "json" THEN ReadJson(listing) ELSE ReadText(listing)

----------------------------------------------------------------------------
(* What a declaration stands for.                                            *)

(* The standard priorities and the default policy of the manual.             *)
NamedPriorities(fam) ==
  IF fam = "bridge" THEN [dstnat |-> -300, filter |-> -200, out |-> 100, srcnat |-> 300]
  ELSE [raw |-> -300, mangle |-> -150, dstnat |-> -100, filter |-> 0, security |-> 50, srcnat |-> 100]
PriorityMeant(prio, fam) == prio.off + IF prio.name = "none" THEN 0 ELSE NamedPriorities(fam)[prio.name]
OrElse(given, default) == IF given = "none" THEN default ELSE given

ChainMeans(c, fam) ==
  [t |-> "chain", comment |-> c.comment] ++
  IF ~c.base THEN <<>>
  ELSE [type |-> c.type, hook |-> c.hook, prio |-> PriorityMeant(c.prio, fam), policy |-> OrElse(c.policy, "accept"),
        devs |-> Range(DevNames(c.devs)), flags |-> c.flags]
FlowtableMeans(f) ==
  [t |-> "flowtable", hook |-> OrElse(f.hook, "ingress"), devs |-> Range(DevNames(f.devs)), flags |-> f.flags,
   prio |-> IF f.hook = "none" THEN 0 ELSE PriorityMeant(f.prio, "netdev")]

(* A timeout policy is a time for every state.                               *)
DefaultTime(l4, state) == (CHOOSE s \in Range(TimeoutProtocol[l4]) : s.name = state).dflt
ObjMeans(o, fam) ==
  [o EXCEPT !.spec =
     [f \in DOMAIN o.spec |->
        CASE f = "l3" -> OrElse(o.spec.l3, fam)
          [] f = "policy" -> [s \in StateNames(o.spec.l4) |->
                                IF s \in DOMAIN o.spec.policy THEN o.spec.policy[s] ELSE DefaultTime(o.spec.l4, s)]
          [] OTHER -> o.spec[f]]]

(* A key or data has types, bytes and, where it is one number, an order.     *)
PartsOf(e) == IF e.t = "concat" THEN e.es ELSE <<e>>
TypesOf(e) == [i \in DOMAIN PartsOf(e) |-> PartsOf(e)[i].dt]
BytesOf(e) ==
  IF e.t = "concat" THEN Total([i \in DOMAIN e.es |-> RoundUp(Bytes(e.es[i].len), 4)])
  ELSE IF e.dt = "verdict" THEN VerdictBytes ELSE Bytes(e.len)
ValueMeans(e) == [types |-> TypesOf(e), bytes |-> BytesOf(e), bo |-> IF e.t = "concat" THEN "none" ELSE e.bo]
DataMeans(s) ==
  CASE s.map = "no" -> None
    [] s.map = "obj" -> s.obj
    [] OTHER -> [ValueMeans(s.data) EXCEPT !.bytes = IF s.dinterval /\ s.data.t # "concat" THEN 2 * @ ELSE @]
SetMeans(s) ==
  LET ranges == "interval" \in s.flags /\ s.key.t = "concat"
      implied == {f \in {"concat", "timeout", "expr"} :
                    CASE f = "concat" -> ranges [] f = "timeout" -> s.timeout # 0 [] f = "expr" -> Len(s.stmts) > 1}
  IN  [t |-> "set", key |-> ValueMeans(s.key), data |-> DataMeans(s), flags |-> s.flags \cup implied,
       fields |-> IF ranges THEN [i \in DOMAIN s.key.es |-> Bytes(s.key.es[i].len)] ELSE <<>>,
       timeout |-> s.timeout, gc |-> s.gc, policy |-> s.policy, size |-> s.size, merge |-> s.merge,
       stmts |-> s.stmts, comment |-> s.comment]

DeclMeans(d, fam) ==
  CASE d.t = "table" -> d
    [] d.t = "chain" -> ChainMeans(d, fam)
    [] d.t = "flowtable" -> FlowtableMeans(d)
    [] d.t = "object" -> ObjMeans(d, fam)
    [] d.t = "set" -> SetMeans(d)

----------------------------------------------------------------------------
(* What the kernel keeps, in the same form.                                  *)

(* enum nf_inet_hooks and those of arp, bridge and netdev.                   *)
KernelHooks(fam) ==
  CASE fam = "netdev" -> <<"ingress">>
    [] fam = "arp" -> <<"input", "output", "forward">>
    [] fam = "bridge" -> <<"prerouting", "input", "forward", "output", "postrouting">>
    [] OTHER -> <<"prerouting", "input", "forward", "output", "postrouting", "ingress">>

ChainDoes(a, fam) ==
  [t |-> "chain", comment |-> a.comment] ++
  IF "hooknum" \notin DOMAIN a THEN <<>>
  ELSE [type |-> a.type, hook |-> KernelHooks(fam)[a.hooknum + 1], prio |-> a.prio, policy |-> a.policy,
        devs |-> Range(a.devs), flags |-> a.flags]
FlowtableDoes(a) ==
  [t |-> "flowtable", hook |-> KernelHooks("netdev")[a.hooknum + 1], prio |-> a.prio, devs |-> Range(a.devs), flags |-> a.flags]
ObjDoes(a) ==
  IF a.type # "ct timeout" THEN a
  ELSE LET states == TimeoutProtocol[a.spec.l4]
           number(name) == CHOOSE i \in DOMAIN states : states[i].name = name
       IN  [a EXCEPT !.spec.policy = [name \in StateNames(a.spec.l4) |-> a.spec.policy[number(name)]]]
ValueKept(part, bo) ==
  [types |-> IF part.dt \in DOMAIN Concats THEN Concats[part.dt] ELSE <<part.dt>>, bytes |-> part.len, bo |-> bo]
SetDoes(a) ==
  [t |-> "set", key |-> ValueKept(a.key, a.udata.keybo), flags |-> a.flags, fields |-> a.fields,
   data |-> CASE a.map = "no" -> None [] a.map = "obj" -> a.obj [] OTHER -> ValueKept(a.data, a.udata.databo),
   timeout |-> a.timeout, gc |-> a.gc, policy |-> a.policy, size |-> a.size, merge |-> a.udata.merge,
   stmts |-> a.stmts, comment |-> a.udata.comment]

DeclDoes(a, fam) ==
  CASE a.t = "table" -> a
    [] a.t = "chain" -> ChainDoes(a, fam)
    [] a.t = "flowtable" -> FlowtableDoes(a)
    [] a.t = "object" -> ObjDoes(a)
    [] a.t = "set" -> SetDoes(a)
============================================================================
