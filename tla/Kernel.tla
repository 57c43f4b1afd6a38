------------------------------- MODULE Kernel -------------------------------
(* What the kernel does with the instructions of a rule (external): sixteen  *)
(* registers of four bytes, a packet and the effects the rule has on it.     *)
(*                                                                          *)
(* A packet is [hdr, meta, ct, load, ext, rand]: the bytes from each layer's *)
(* header on, the numbers behind the keys, the extension headers by name.    *)
EXTENDS Linearize

Registers == [r \in 0 .. 4 * Slots - 1 |-> 0]
First(n) == 4 * (IF n <= 4 THEN 4 * (n - 1) ELSE n - 8)       \* nft_parse_register()
Load(regs, n, len) == [i \in 1 .. len |-> regs[First(n) + i - 1]]
(* Values fill whole registers.                                              *)
Store(regs, n, data) ==
  [r \in DOMAIN regs |->
     LET i == r - First(n) + 1
     IN  IF i \in DOMAIN data THEN data[i]
         ELSE IF i > Len(data) /\ i <= RoundUp(Len(data), 4) THEN 0 ELSE regs[r]]

(* memcmp(): -1, 0 or 1.                                                     *)
Compare(a, b) ==
  LET diff == {i \in DOMAIN a : a[i] # b[i]}
  IN  IF diff = {} THEN 0 ELSE IF a[SetMin(diff)] < b[SetMin(diff)] THEN -1 ELSE 1
CmpHolds(op, c) ==
  CASE op = "==" -> c = 0 [] op = "!=" -> c # 0 [] op = "<" -> c < 0 [] op = ">" -> c > 0
    [] op = "<=" -> c <= 0 [] op = ">=" -> c >= 0

(* The elements of a set: intervals compare in network order, the parts of a *)
(* concatenation each by itself.                                             *)
ElemBytes(s, k, end) ==
  CASE k.t = "concat" -> ConcatData(k, end)
    [] OTHER -> LET v == PartEnd(k, end)
                IN  Export(v.v, IF s.interval THEN "big" ELSE v.bo, Bytes(v.len))
Parts(s, data) ==
  IF s.key.dt \in DOMAIN Concats
  THEN LET sizes == [i \in DOMAIN Concats[s.key.dt] |->
                       PaddedLen(Types[Concats[s.key.dt][i]].size) \div Byte]
           at(i) == FoldLeft(+, 0, SubSeq(sizes, 1, i - 1))
       IN  [i \in DOMAIN sizes |-> SubSeq(data, at(i) + 1, at(i) + sizes[i])]
  ELSE <<data>>
InElem(s, el, data) ==
  LET from == Parts(s, ElemBytes(s, el.key, FALSE))
      to == Parts(s, ElemBytes(s, el.key, TRUE))
      key == Parts(s, data)
  IN  \A i \in DOMAIN key : /\ Len(from[i]) = Len(key[i])
                            /\ Compare(from[i], key[i]) <= 0 /\ Compare(key[i], to[i]) <= 0
Hits(s, data) == {i \in DOMAIN s.elems : InElem(s, s.elems[i], data)}
KeyBytes(s) == Bytes(s.key.len)

----------------------------------------------------------------------------
(* State of the evaluation: "at" is "on", "break" or a verdict.              *)

Masked(data, mask, xor) == [i \in DOMAIN data |-> (data[i] & mask[i]) ^^ xor[i]]
Swapped(data, size) ==
  [i \in DOMAIN data |-> data[((i - 1) \div size) * size + size - ((i - 1) % size)]]
Little(data) == Import(Reverse(data))
HashOf(data) == FoldLeft(+, 0, data)

Effect(k, x) == [k EXCEPT !.trace = Append(@, x)]
Cond(k, ok) == IF ok THEN k ELSE [k EXCEPT !.at = "break"]
Put(k, n, data) == [k EXCEPT !.regs = Store(@, n, data)]

KeyData(key, tmpl, v) == Export(v, tmpl.bo, Bytes(tmpl.len))
Replace(data, off, new) ==
  [i \in DOMAIN data |-> IF i - off \in DOMAIN new THEN new[i - off] ELSE data[i]]
AddrBytes(fam) == Bytes(Types[Addr(fam)].size)
Lookup(k, i) ==
  LET hits == Hits(i.set, Load(k.regs, i.sreg, KeyBytes(i.set)))
      data == i.set.elems[SetMin(hits)].data
  IN  IF i.dreg = NoReg THEN Cond(k, (hits # {}) # i.inv)
      ELSE IF hits = {} THEN Cond(k, FALSE)
      ELSE IF i.dreg = 0 THEN [k EXCEPT !.at = data.v]
      ELSE Put(k, i.dreg, GenData(data))

SeenAs(pkt) == IF pkt.meta["nfproto"] = FamilyNumber("ip") THEN "ip" ELSE "ip6"
AddrOf(i, pkt) == AddrBytes(IF i.family = "none" THEN SeenAs(pkt) ELSE i.family)

(* An answer is of the family of the packet; icmpx has codes for both.       *)
Answer(type, code, pkt) ==
  LET fam == SeenAs(pkt)
  IN  CASE type = "tcp" -> <<"reject", "tcp">>
        [] type = "icmpx" /\ code = PortUnreach["icmpx"] -> <<"reject", "icmp", fam, PortUnreach[fam]>>
        [] OTHER -> <<"reject", type, fam, code>>

Step(k, i) ==
  CASE i.op = "payload" ->
         LET hdr == k.pkt.hdr[i.base]
         IN  IF i.off + i.len > Len(hdr) THEN Cond(k, FALSE)
             ELSE Put(k, i.dreg, SubSeq(hdr, i.off + 1, i.off + i.len))
    [] i.op = "exthdr" ->
         LET hdr == k.pkt.ext[i.desc]
         IN  IF i.off + i.len > Len(hdr) THEN Cond(k, FALSE)
             ELSE Put(k, i.dreg, SubSeq(hdr, i.off + 1, i.off + i.len))
    [] i.op = "meta" -> Put(k, i.dreg, KeyData(i.key, MetaKeys[i.key], k.pkt.meta[i.key]))
    [] i.op = "ct" -> Put(k, i.dreg, Export(k.pkt.ct[i.key].v, k.pkt.ct[i.key].bo, k.pkt.ct[i.key].n))
    [] i.op = "load" -> Put(k, i.dreg, KeyData(i.key, Loads[i.key], k.pkt.load[i.key]))
    [] i.op = "numgen" -> Put(k, i.dreg, Export(k.pkt.rand % i.mod, "host", 4))
    [] i.op = "hash" -> Put(k, i.dreg, Export(HashOf(Load(k.regs, i.sreg, i.len)) % i.mod, "host", 4))
    [] i.op = "lookup" -> Lookup(k, i)
    [] i.op = "cmp" -> Cond(k, CmpHolds(i.cmp, Compare(Load(k.regs, i.sreg, Len(i.data)), i.data)))
    [] i.op = "range" ->
         LET data == Load(k.regs, i.sreg, Len(i.from))
         IN  Cond(k, Compare(data, i.from) < 0 \/ Compare(data, i.to) > 0)
    [] i.op = "bitwise" ->
         Put(k, i.dreg, Masked(Load(k.regs, i.sreg, i.len), i.mask, i.xor))
    [] i.op = "shift" ->
         LET v == Little(Load(k.regs, i.sreg, 4))
             n == Little(i.data)
         IN  Put(k, i.dreg, Export(IF i.shift = "<<" THEN (v * 2 ^ n) % 2 ^ Reg32 ELSE v \div 2 ^ n, "host", 4))
    [] i.op = "byteorder" ->
         [k EXCEPT !.regs = [r \in DOMAIN @ |->
            LET j == r - First(i.dreg) + 1
            IN  IF j \in 1 .. i.len THEN Swapped(Load(k.regs, i.sreg, i.len), i.size)[j] ELSE @[r]]]
    [] i.op = "immediate" ->
         IF i.dreg = 0 THEN [k EXCEPT !.at = i.data] ELSE Put(k, i.dreg, i.data)
    [] i.op = "payload_set" ->
         LET hdr == k.pkt.hdr[i.base]
             new == Replace(hdr, i.off, Load(k.regs, i.sreg, i.len))
         IN  IF i.off + i.len > Len(hdr) THEN Cond(k, FALSE)
             ELSE Effect([k EXCEPT !.pkt.hdr[i.base] = new], <<"payload", i.base, new>>)
    [] i.op = "meta_set" ->
         LET data == Load(k.regs, i.sreg, Bytes(MetaKeys[i.key].len))
         IN  Effect([k EXCEPT !.pkt.meta[i.key] = IF MetaKeys[i.key].bo = "host" THEN Little(data) ELSE Import(data)],
                    <<"meta", i.key, data>>)
    [] i.op = "ct_set" -> Effect(k, <<"ct", i.key, Load(k.regs, i.sreg, Bytes(CtKeys[i.key].len))>>)
    [] i.op = "exthdr_set" ->
         IF i.off + i.len > Len(k.pkt.ext[i.desc]) THEN Cond(k, FALSE)
         ELSE Effect(k, <<"exthdr", i.desc, i.off, Load(k.regs, i.sreg, i.len)>>)
    [] i.op = "dynset" ->
         Effect(k, <<"dynset", i.dynop, i.set.name, Load(k.regs, i.sreg, KeyBytes(i.set)),
                     IF i.sdata = NoReg THEN <<>> ELSE Load(k.regs, i.sdata, Bytes(i.set.data.len)), i.stmts>>)
    [] i.op = "objref" ->
         IF i.sreg = NoReg THEN Effect(k, <<"objref", i.kind, i.name.v>>)
         ELSE LET hits == Hits(i.set, Load(k.regs, i.sreg, KeyBytes(i.set)))
              IN  IF hits = {} THEN Cond(k, FALSE)
                  ELSE Effect(k, <<"objref", i.kind, i.set.elems[SetMin(hits)].data.v>>)
    [] i.op \in {"nat", "tproxy"} ->
         LET reg(n, len) == IF n = NoReg THEN <<>> ELSE Load(k.regs, n, len)
             addr(n) == reg(n, AddrOf(i, k.pkt))
         IN  IF i.op = "tproxy" THEN Effect(k, <<"tproxy", addr(i.amin), reg(i.pmin, 2)>>)
             ELSE [Effect(k, <<"nat", i.kind, addr(i.amin), addr(IF i.amax = NoReg THEN i.amin ELSE i.amax),
                               reg(i.pmin, 2), reg(IF i.pmax = NoReg THEN i.pmin ELSE i.pmax, 2)>>)
                     EXCEPT !.at = "done"]
    [] i.op \in {"dup", "fwd"} ->
         LET reg(n, len) == IF n = NoReg THEN <<>> ELSE Load(k.regs, n, len)
         IN  Effect(k, <<i.op, reg(i.addr, AddrOf(i, k.pkt)), reg(i.dev, Bytes(Types["iface_index"].size))>>)
    [] i.op = "reject" -> [Effect(k, Answer(i.type, i.code, k.pkt)) EXCEPT !.at = "done"]
    [] i.op = "queue" -> [Effect(k, <<"queue", i.num, i.total>>) EXCEPT !.at = "done"]
    [] i.op = "log" -> Effect(k, <<"log", i.flags>>)
    [] OTHER -> Effect(k, <<i.op, i.arg>>)

(* nft_do_chain(): a rule ends at the first instruction that fails.          *)
Execute(instrs, pkt) ==
  LET k == FoldLeft(LAMBDA w, i : IF w.at = "on" THEN Step(w, i) ELSE w,
                    [pkt |-> pkt, regs |-> Registers, trace |-> <<>>, at |-> "on"], instrs)
  IN  [trace |-> k.trace, at |-> k.at]
=============================================================================
