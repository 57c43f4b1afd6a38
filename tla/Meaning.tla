------------------------------- MODULE Meaning -------------------------------
(* What a rule says, taken at its word: a match holds when the packet has    *)
(* the field and the relation holds for its value; the statements take       *)
(* effect in their order until a match fails.                                *)
(*                                                                          *)
(* A packet is described by its headers as records of fields, "layers", and  *)
(* by the numbers of its keys; "hdr" are the bytes the kernel sees.          *)
EXTENDS Kernel

RECURSIVE Num(_, _)

FieldOf(p, name) == Tmpl(p, FieldNo(p, name))
HeaderBytes(p, f) ==
  LET bit(i) == FoldFunctionOnSet(+, 0, [n \in DOMAIN f |->
                  LET t == FieldOf(p, n)
                  IN  IF t.off <= i /\ i < t.off + t.len THEN (f[n] \div 2 ^ (t.off + t.len - 1 - i)) % 2 ELSE 0],
                  DOMAIN f)
  IN  [k \in 1 .. Protos[p].len \div Byte |->
         FoldLeft(LAMBDA v, j : 2 * v + bit((k - 1) * Byte + j), 0, [j \in 1 .. Byte |-> j - 1])]
LayersAt(P, b) == SelectSeq(P.order, LAMBDA p : Protos[p].base = b)
WithBytes(P) ==
  [P EXCEPT !.hdr = [b \in {LL, NH, TH} |->
     FoldLeft(LAMBDA bytes, p : bytes \o HeaderBytes(p, P.layers[p]), <<>>, LayersAt(P, b))]]

(* A field a header has only in messages of one type, or of the type that    *)
(* answers it.                                                               *)
Has(P, e) ==
  /\ e.desc \in DOMAIN P.layers
  /\ LET dep == Tmpl(e.desc, e.tmpl).dep
     IN  dep = "any" \/ P.layers[e.desc]["type"] = IcmpDep[dep]
         \/ (dep \in DOMAIN IcmpReply /\ P.layers[e.desc]["type"] = IcmpReply[dep])
FieldValue(P, e) ==
  LET name == Tmpl(e.desc, e.tmpl).name
  IN  IF name \in DOMAIN P.layers[e.desc] THEN P.layers[e.desc][name] ELSE 0

(* The bits a raw load names, from the first byte of its layer.              *)
RawValue(bytes, e) ==
  IF (e.off + e.len - 1) \div Byte >= Len(bytes) THEN -1
  ELSE LET load == SubSeq(bytes, e.off \div Byte + 1, (e.off + e.len - 1) \div Byte + 1)
           after == Len(load) * Byte - (e.off % Byte) - e.len
       IN  (Import(load) \div 2 ^ after) % 2 ^ e.len

(* The number an expression stands for, -1 when the packet has none.         *)
Absent == -1
RECURSIVE AsFlags(_)
AsFlags(e) ==
  CASE e.t = "list" -> FoldLeft(LAMBDA v, x : v | x.v, 0, e.es)
    [] e.t = "binop" -> AsFlags(e.left) | AsFlags(e.right)
    [] OTHER -> e.v
KeyNum(k) == IF k.t = "string" THEN HostValue(k.chars) ELSE AsFlags(k)
InValue(v, len, r) ==
  CASE r.t = "range" -> r.left.v <= v /\ v <= r.right.v
    [] r.t = "prefix" -> v \div 2 ^ (len - r.plen) = r.arg.v \div 2 ^ (len - r.plen)
    [] r.t = "string" /\ r.wild -> IsPrefix(r.chars, Export(v, "host", Bytes(len)))
    [] OTHER -> v = KeyNum(r)
InKey(es, vs, r) ==
  IF r.t = "concat" THEN \A i \in DOMAIN r.es : InValue(vs[i], es[i].len, r.es[i])
  ELSE InValue(vs[1], es[1].len, r)
PartsOf(e) == IF e.t = "concat" THEN e.es ELSE <<e>>
Nums(e, P) == [i \in DOMAIN PartsOf(e) |-> Num(PartsOf(e)[i], P)]
Lacks(e, P) == \E i \in DOMAIN PartsOf(e) : Num(PartsOf(e)[i], P) = Absent
ElemsOf(s) == IF s.t = "set" THEN s.elems ELSE NamedSets[s.name].given
HitsOf(e, s, P) ==
  IF Lacks(e, P) THEN {}
  ELSE {i \in DOMAIN ElemsOf(s) : InKey(PartsOf(e), Nums(e, P), ElemsOf(s)[i].key)}
HitData(e, P) == ElemsOf(e.mappings)[SetMin(HitsOf(e.map, e.mappings, P))].data

Num(e, P) ==
  CASE e.t \in {"symbol", "string"} -> KeyNum(e)
    [] e.t = "list" -> AsFlags(e)
    [] e.t = "payload" ->
         IF e.raw \/ e.desc = "unknown" THEN RawValue(P.hdr[e.base], e)
         ELSE IF Has(P, e) THEN FieldValue(P, e) ELSE Absent
    [] e.t = "exthdr" -> RawValue(P.ext[e.desc], e)
    [] e.t = "meta" -> P.meta[e.key]
    [] e.t = "ct" -> P.ct[e.key].v
    [] e.t = "load" -> P.load[e.key]
    [] e.t = "numgen" -> P.rand % e.mod
    [] e.t = "hash" -> LET v == Num(e.arg, P)
                       IN  IF v = Absent THEN v ELSE HashOf(BigEndian(v, Bytes(e.arg.len))) % e.mod
    [] e.t = "binop" -> LET v == Num(e.left, P)
                        IN  IF v = Absent THEN v ELSE Compute(e.op, v, Num(e.right, P), e.left.len)
    [] e.t = "map" -> IF HitsOf(e.map, e.mappings, P) = {} THEN Absent ELSE KeyNum(HitData(e, P))

(* A match; flags are a matter of some or none of them.                      *)
Holds(m, P) ==
  LET sets == m.right.t \in {"set", "setname"}
      hit == HitsOf(m.left, m.right, P) # {}
      v == Num(m.left, P)
      r == m.right
      hours == r.t = "range" /\ r.left.v > r.right.v      \* past midnight
      inside == IF hours THEN ~(r.right.v <= v /\ v <= r.left.v) ELSE InValue(v, m.left.len, r)
  IN  IF sets THEN ~Lacks(m.left, P) /\ (m.op = "!=") # hit
      ELSE /\ v # Absent
           /\ CASE m.op = "implicit" /\ IsBitmask(m.left) -> (v & AsFlags(r)) # 0
                [] m.op = "neg" -> (v & AsFlags(r)) = 0
                [] m.op \in {"==", "implicit"} -> IF r.t = "list" THEN v = AsFlags(r) ELSE inside
                [] m.op = "!=" -> IF r.t = "list" THEN v # AsFlags(r) ELSE ~inside
                [] m.op = "<" -> v < r.v [] m.op = ">" -> v > r.v
                [] m.op = "<=" -> v <= r.v [] m.op = ">=" -> v >= r.v

----------------------------------------------------------------------------
(* Effects, in the words of Kernel's.                                        *)

KeyBo(e) == CASE e.t = "payload" -> "big" [] e.t = "ct" -> CtKeys[e.key].bo [] OTHER -> "host"
ArgBytes(e, P) ==       \* a key or a value as a set or a map holds it
  LET one(x) == Export(Num(x, P), KeyBo(x), Bytes(x.len))
  IN  IF e.t = "concat" THEN FoldLeft(LAMBDA d, x : d \o one(x) \o Zeros((PaddedLen(x.len) \div Byte) - Bytes(x.len)), <<>>, e.es)
      ELSE one(e)
Ends(e, n, P) ==        \* an address or a port, or the two ends of a range
  LET d == IF e.t = "map" THEN HitData(e, P) ELSE e
      big(v) == BigEndian(v, n)
  IN  CASE e = None -> << <<>>, <<>> >>
        [] d.t = "range" -> <<big(d.left.v), big(d.right.v)>>
        [] d.t = "concat" -> <<big(d.es[1].v), big(d.es[1].v)>>
        [] d.t = "prefix" -> LET m == 2 ^ (n * Byte - d.plen) IN <<big((d.arg.v \div m) * m), big((d.arg.v \div m) * m + m - 1)>>
        [] OTHER -> <<big(Num(d, P)), big(Num(d, P))>>
(* The family of an address that names none is that of the packet.           *)
FamilyOf(s, P) == IF s.family # "none" THEN s.family ELSE IF "ip" \in DOMAIN P.layers THEN "ip" ELSE "ip6"
Missing(e, P) == e # None /\ ((e.t = "map" /\ HitsOf(e.map, e.mappings, P) = {}) \/ (e.t # "map" /\ e.t # "range" /\ e.t # "prefix" /\ Num(e, P) = Absent))

Set(w, x, P) == [w EXCEPT !.P = P, !.trace = Append(@, x)]
Does(w, x) == [w EXCEPT !.trace = Append(@, x)]
Break(w) == [w EXCEPT !.at = "break"]

SayPayload(w, s) ==
  LET v == Num(s.val, w.P)
      name == Tmpl(s.e.desc, s.e.tmpl).name
      P == WithBytes([w.P EXCEPT !.layers[s.e.desc] = (name :> v) @@ @])
  IN  IF v = Absent \/ ~Has(w.P, s.e) THEN Break(w)
      ELSE Set(w, <<"payload", s.e.base, P.hdr[s.e.base]>>, P)
SayMeta(w, s) ==
  LET v == Num(s.val, w.P)
      data == Export(v, MetaKeys[s.key].bo, Bytes(MetaKeys[s.key].len))
  IN  IF v = Absent THEN Break(w) ELSE Set(w, <<"meta", s.key, data>>, [w.P EXCEPT !.meta[s.key] = v])

Say(w, s) ==
  LET P == w.P
  IN  CASE s.t = "match" -> IF Holds(s.e, P) THEN w ELSE Break(w)
        [] s.t = "verdict" ->
             IF s.e.t = "verdict" THEN [w EXCEPT !.at = s.e.v]
             ELSE IF HitsOf(s.e.map, s.e.mappings, P) = {} THEN Break(w) ELSE [w EXCEPT !.at = HitData(s.e, P).v]
        [] s.t = "payload" -> SayPayload(w, s)
        [] s.t = "meta" -> SayMeta(w, s)
        [] s.t = "ct" -> IF Num(s.val, P) = Absent THEN Break(w)
                         ELSE Does(w, <<"ct", s.key, Export(Num(s.val, P), CtKeys[s.key].bo, Bytes(CtKeys[s.key].len))>>)
        [] s.t = "exthdr" -> IF Num(s.e, P) = Absent THEN Break(w)
                             ELSE Does(w, <<"exthdr", s.e.desc, s.e.off \div Byte, BigEndian(Num(s.val, P), Bytes(s.e.len))>>)
        [] s.t \in {"set", "map", "meter"} ->
             IF Lacks(s.key, P) \/ (s.data # None /\ Lacks(s.data, P)) THEN Break(w)
             ELSE Does(w, <<"dynset", s.op, IF s.t = "meter" THEN s.name ELSE s.set.name, ArgBytes(s.key, P),
                            IF s.data = None THEN <<>> ELSE ArgBytes(s.data, P), s.stmts>>)
        [] s.t = "objref" ->
             IF s.e.t # "map" THEN Does(w, <<"objref", s.kind, s.e.v>>)
             ELSE IF HitsOf(s.e.map, s.e.mappings, P) = {} THEN Break(w)
             ELSE Does(w, <<"objref", s.kind, KeyNum(HitData(s.e, P))>>)
        [] s.t \in {"nat", "tproxy"} ->
             IF Missing(s.addr, P) \/ Missing(s.proto, P) THEN Break(w)
             ELSE LET a == Ends(s.addr, IF s.addr = None THEN 1 ELSE AddrBytes(FamilyOf(s, P)), P)
                      p == IF s.t = "nat" /\ s.concat THEN [i \in 1 .. 2 |-> BigEndian(HitData(s.addr, P).es[2].v, 2)]
                           ELSE Ends(s.proto, 2, P)
                  IN  IF s.t = "tproxy" THEN Does(w, <<"tproxy", a[1], p[1]>>)
                      ELSE [Does(w, <<"nat", s.kind, a[1], a[2], p[1], p[2]>>) EXCEPT !.at = "done"]
        [] s.t \in {"dup", "fwd"} ->
             LET toDevice == s.t = "dup" /\ P.hook = "netdev"
                 dev == IF toDevice THEN s.addr ELSE s.dev
                 addr == IF toDevice THEN None ELSE s.addr
             IN  Does(w, <<s.t, Ends(addr, IF addr = None THEN 1 ELSE AddrBytes(FamilyOf(s, P)), P)[1],
                           IF dev = None THEN <<>> ELSE Export(Num(dev, P), "host", Bytes(Types["iface_index"].size))>>)
        [] s.t = "reject" ->
             [Does(w, IF s.type = "none" THEN Answer("icmpx", PortUnreach["icmpx"], P) ELSE Answer(s.type, s.code, P))
                EXCEPT !.at = "done"]
        [] s.t = "queue" -> LET r == IF s.e = None THEN <<0, 0>> ELSE IF s.e.t = "range" THEN <<s.e.left.v, s.e.right.v>> ELSE <<s.e.v, s.e.v>>
                            IN  [Does(w, <<"queue", r[1], r[2] - r[1] + 1>>) EXCEPT !.at = "done"]
        [] s.t = "log" -> Does(w, <<"log", s.flags>>)
        [] OTHER -> Does(w, <<s.t, s.arg>>)

(* A reject acts on what it can answer: a reset on tcp, an icmp message on   *)
(* packets of its family.  It asks this of the whole rule.                   *)
Answerable(stmts, P) ==
  \A i \in DOMAIN stmts : stmts[i].t = "reject" =>
    /\ stmts[i].type = "tcp" => "tcp" \in DOMAIN P.layers
    /\ stmts[i].type = "icmp" => stmts[i].family \in DOMAIN P.layers

Means(stmts, P) ==
  LET w == FoldLeft(LAMBDA x, s : IF x.at = "on" THEN Say(x, s) ELSE x,
                    [P |-> P, trace |-> <<>>, at |-> "on"], stmts)
  IN  IF ~Answerable(stmts, P) THEN [trace |-> <<>>, at |-> "break"]
      ELSE [trace |-> w.trace, at |-> w.at]
=============================================================================
