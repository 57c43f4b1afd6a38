----------------------------- MODULE Delinearize -----------------------------
(* A rule read back from its instructions (netlink_delinearize.c): first     *)
(* each instruction becomes an expression in a register or a statement, then *)
(* the statements are gone over once more for fields, types and matches that *)
(* only repeat what another match implies.                                   *)
EXTENDS Linearize

CONSTANTS
  ExtFields,       \* fields of extension headers and options: exthdr expressions
  PrefixTypes      \* types with DTYPE_F_PREFIX: a mask is shown as a prefix

RECURSIVE PP(_, _)

----------------------------------------------------------------------------
(* Instructions: netlink_parse_rule_expr().  The state is s: what the        *)
(* registers hold, None in those not written, the statements and "err".      *)

InitParse(fam) == [fam |-> fam, regs |-> [r \in 0 .. Slots - 1 |-> None], stmts |-> <<>>, err |-> "none"]

(* netlink_parse_register(), netlink_get_register(), netlink_set_register(). *)
ParseRegister(n) == IF n <= 4 THEN 4 * (n - 1) ELSE n - 8
At(s, n) == s.regs[ParseRegister(n)]
SetReg(s, n, e) == [s EXCEPT !.regs[ParseRegister(n)] = e]
Say0(s, stmt) == [s EXCEPT !.stmts = Append(@, stmt)]
Lack(s, n, then) == IF At(s, n) = None THEN [s EXCEPT !.err = "no left hand side"] ELSE then

(* netlink_alloc_value(): a number in network order of no type.              *)
Plain(data) == Value(Import(data), Len(data) * Byte, "none", "invalid")

(* netlink_parse_concat_expr() and netlink_parse_concat_data().              *)
RECURSIVE PartsAt(_, _, _)
PartsAt(s, slot, len) ==
  IF len <= 0 THEN <<>>
  ELSE <<s.regs[slot]>> \o PartsAt(s, slot + Space(s.regs[slot].len), len - PaddedLen(s.regs[slot].len))
ConcatAt(s, n, len) == Concat(PartsAt(s, ParseRegister(n), len))
Whole(s, n, len) == IF At(s, n).len < len THEN ConcatAt(s, n, len) ELSE At(s, n)
DataParts(es, data) ==
  FoldLeft(LAMBDA w, x : [at |-> w.at + PaddedLen(x.len) \div Byte,
                          es |-> Append(w.es, Plain(SubSeq(data, w.at + 1, w.at + Bytes(x.len))))],
           [at |-> 0, es |-> <<>>], es).es

(* netlink_parse_cmp(): less data than the register has is a prefix, more    *)
(* are the parts of a concatenation.                                         *)
ParseCmp(s, i) ==
  LET left == At(s, i.sreg)
      len == Len(i.data) * Byte
      parts == ConcatAt(s, i.sreg, len)
      right == Plain(i.data)
  IN  Lack(s, i.sreg, Say0(s, Match(
        CASE left.len > len /\ Base(left) # "string" ->
               Rel(i.cmp, left, Prefix([right EXCEPT !.v = @ * 2 ^ (left.len - len), !.len = left.len], len))
          [] left.len > 0 /\ left.len < len ->
               Rel(i.cmp, parts, Concat(DataParts(parts.es, i.data)))
          [] OTHER -> Rel(i.cmp, left, right))))

(* netlink_parse_lookup(); a map is a statement when it gives a verdict.     *)
ParseLookup(s, i) ==
  LET left == Whole(s, i.sreg, i.set.key.len)
      map == MapExpr(left, SetRef(i.set))
  IN  Lack(s, i.sreg,
        CASE i.dreg = NoReg -> Say0(s, Match(Rel(IF i.inv THEN "!=" ELSE "==", left, SetRef(i.set))))
          [] i.dreg = 0 -> Say0(s, Match(map))
          [] OTHER -> SetReg(s, i.dreg, map))

(* netlink_parse_bitwise_bool(): the mask and the exclusive or as "and",     *)
(* "xor" and "or" with constants, those without effect left out.             *)
ParseBool(s, i) ==
  LET left == At(s, i.sreg)
      mask == Plain(i.mask)
      x0 == Import(i.xor)
      all(m, len) == Scan0(m, 0) = len
      plain == all(mask.v, mask.len) /\ x0 = 0
      o == IF plain THEN 0 ELSE (mask.v & x0) ^^ x0
      x == IF plain THEN x0 ELSE x0 & mask.v
      m == IF plain THEN mask.v ELSE mask.v | o
      op(name, e, v) == [Binop(name, e, [mask EXCEPT !.v = v]) EXCEPT !.len = left.len]
      e1 == IF left.len > 0 /\ all(m, left.len) THEN left ELSE op("&", left, m)
      e2 == IF x # 0 THEN op("^", e1, x) ELSE e1
  IN  IF o # 0 THEN op("|", e2, o) ELSE e2

(* netlink_parse_bitwise_shift().                                            *)
ParseShift(s, i) ==
  LET left == At(s, i.sreg)
  IN  [Binop(i.shift, left, [Plain(i.data) EXCEPT !.bo = "host"]) EXCEPT !.len = left.len]

(* netlink_parse_exthdr(): exthdr_init_raw() looks the field up.             *)
RawExthdr(op, desc, off, len) ==
  LET fits == {x \in ExtFields : x.op = op /\ x.desc = desc /\ x.off = off /\ x.len = len}
  IN  IF fits # {} THEN CHOOSE x \in fits : TRUE
      ELSE [t |-> "exthdr", op |-> op, desc |-> desc, off |-> off, len |-> len, bo |-> "big", dt |-> "integer",
            name |-> "unknown", ev |-> FALSE]

(* expr_set_type(): the types of a concatenation's parts are their own.      *)
Typed(e, dt, bo) == [e EXCEPT !.dt = dt, !.bo = bo]
SetType(e, dt, bo) ==
  CASE e.t = "range" -> [Typed(e, dt, bo) EXCEPT !.left = Typed(@, dt, bo), !.right = Typed(@, dt, bo)]
    [] e.t = "prefix" -> [Typed(e, dt, bo) EXCEPT !.arg = Typed(@, dt, bo)]
    [] e.t = "concat" ->
         [e EXCEPT !.dt = dt,
                   !.es = [k \in DOMAIN @ |-> Typed(@[k], Concats[dt][k], Types[Concats[dt][k]].bo)]]
    [] OTHER -> Typed(e, dt, bo)

(* netlink_parse_nat(), _masq(), _redir() and _tproxy(): registers hold an   *)
(* address or a port, two of them a range, which may be a prefix; a map may  *)
(* give both ends of a range, or an address and a port.                      *)
Ranged(l, r) ==
  LET diff == l.v ^^ r.v
      plen == l.len - Scan0(diff, 0)
  IN  IF diff = Mask(l.len - plen) THEN Prefix(l, plen) ELSE RangeExpr(l, r)
ParseEnds(s, min, max, dt, Join2(_, _)) ==
  LET get(n) == SetType(At(s, n), dt, "big")
  IN  CASE min = NoReg -> None
        [] max \in {NoReg, min} -> get(min)
        [] OTHER -> Join2(get(min), get(max))
MapDataLen(e) == IF e.t = "map" /\ e.mappings.t = "setref" THEN e.mappings.set.data.len ELSE 0
ParseNat(s, i) ==
  LET dt == Addr(i.family)
      addr1 == ParseEnds(s, i.amin, NoReg, dt, RangeExpr)
      interval == addr1 # None /\ MapDataLen(addr1) = 2 * PaddedLen(Types[dt].size) /\ addr1.mappings.set.dinterval
      addr == IF interval THEN addr1 ELSE ParseEnds(s, i.amin, i.amax, dt, Ranged)
      concat == addr # None /\ ~interval /\ MapDataLen(addr) = PaddedLen(Types[dt].size) + Reg32
  IN  [t |-> "nat", kind |-> i.kind, addr |-> addr, concat |-> concat,
       family |-> IF interval \/ concat \/ s.fam = "inet" THEN i.family ELSE "none",
       proto |-> IF interval \/ concat THEN None ELSE ParseEnds(s, i.pmin, i.pmax, "inet_service", RangeExpr)]
ParseTproxy(s, i) ==
  [t |-> "tproxy", family |-> i.family, addr |-> ParseEnds(s, i.amin, NoReg, Addr(i.family), RangeExpr),
   proto |-> ParseEnds(s, i.pmin, NoReg, "inet_service", RangeExpr)]

(* netlink_parse_dup() and netlink_parse_fwd().                              *)
ParseDup(s, i) ==
  LET addr == ParseEnds(s, i.addr, NoReg, Addr(IF i.op = "dup" THEN s.fam ELSE i.family), RangeExpr)
      dev == IF i.dev = NoReg THEN None ELSE SetType(At(s, i.dev), "iface_index", "host")
      toDevice == i.op = "dup" /\ addr = None
  IN  [t |-> i.op, family |-> i.family, addr |-> IF toDevice THEN dev ELSE addr, dev |-> IF toDevice THEN None ELSE dev]

(* netlink_parse_queue().                                                    *)
ParseQueue(i) ==
  LET num(v) == Value(v, 2 * Byte, "host", "integer")
  IN  [t |-> "queue", fanout |-> FALSE,
       e |-> IF i.total > 1 THEN RangeExpr(num(i.num), num(i.num + i.total - 1)) ELSE num(i.num)]

(* netlink_parse_dynset(): a meter is a set with statements and no name.     *)
ParseDynset(s, i) ==
  LET key == Whole(s, i.sreg, i.set.key.len)
      stmt == [t |-> "set", op |-> i.dynop, key |-> key, data |-> None, set |-> SetRef(i.set), stmts |-> i.stmts]
      meter == i.stmts # <<>> /\ i.set.name \notin DOMAIN NamedSets
  IN  Lack(s, i.sreg, Say0(s,
        IF i.sdata # NoReg
        THEN [stmt EXCEPT !.t = "map", !.data = SetType(At(s, i.sdata), i.set.data.dt, i.set.data.bo)]
        ELSE IF meter THEN [stmt EXCEPT !.t = "meter"] @@ [name |-> i.set.name] ELSE stmt))

(* netlink_parse_objref().                                                   *)
ParseObjref(s, i) ==
  [t |-> "objref", kind |-> i.kind,
   e |-> IF i.sreg = NoReg THEN i.name
         ELSE SetType(MapExpr(Whole(s, i.sreg, i.set.key.len), SetRef(i.set)), "object", "host")]

(* netlink_parse_payload(), _exthdr(), _hash(), and the loads of keys:        *)
(* _meta(), _ct(), _fib(), _socket(), _osf(), _rt() and _numgen().            *)
ParsePayload(s, i) ==
  LET e == RawPayload(i.base, i.off * Byte, i.len * Byte)
  IN  IF i.op = "payload" THEN SetReg(s, i.dreg, e)
      ELSE Lack(s, i.sreg, Say0(s, [t |-> "payload", e |-> e, val |-> At(s, i.sreg)]))
ParseExthdr(s, i) ==
  LET e == RawExthdr(i.hdr, i.desc, i.off * Byte, i.len * Byte)
  IN  IF i.op = "exthdr" THEN SetReg(s, i.dreg, e)
      ELSE Lack(s, i.sreg, Say0(s, [t |-> "exthdr", e |-> e, val |-> SetType(At(s, i.sreg), e.dt, e.bo)]))
ParseHash(s, i) ==
  Lack(s, i.sreg, SetReg(s, i.dreg, [t |-> "hash", arg |-> Whole(s, i.sreg, i.len * Byte), mod |-> i.mod,
                                     dt |-> "integer", len |-> Reg32, bo |-> "host"]))
ParseKey(s, i) ==
  SetReg(s, i.dreg,
    CASE i.op = "meta" -> Meta(i.key)
      [] i.op = "ct" -> Ct(i.key)
      [] i.op = "load" -> [t |-> "load", key |-> i.key, len |-> Loads[i.key].len, bo |-> Loads[i.key].bo, dt |-> Loads[i.key].dt]
      [] i.op = "numgen" -> [t |-> "numgen", mod |-> i.mod, dt |-> "integer", len |-> Reg32, bo |-> "host"])

(* netlink_parse_meta_stmt() and _ct_stmt(): the key gives the type.         *)
ParseKeySet(s, i) ==
  LET t == IF i.op = "meta_set" THEN "meta" ELSE "ct"
      tmpl == IF t = "meta" THEN MetaKeys[i.key] ELSE CtKeys[i.key]
  IN  Lack(s, i.sreg, Say0(s, [t |-> t, key |-> i.key, val |-> SetType(At(s, i.sreg), tmpl.dt, tmpl.bo)]))

(* netlink_parse_immediate(), _range(), _bitwise() and _byteorder().          *)
ParseImmediate(s, i) ==
  IF i.dreg = 0 THEN Say0(s, [t |-> "verdict", e |-> Verdict(i.data)]) ELSE SetReg(s, i.dreg, Plain(i.data))
ParseRange(s, i) ==
  Lack(s, i.sreg, Say0(s, Match(Rel("!=", At(s, i.sreg), RangeExpr(Plain(i.from), Plain(i.to))))))
ParseUnary(s, i) ==
  Lack(s, i.sreg, SetReg(s, i.dreg,
    CASE i.op = "bitwise" -> ParseBool(s, i)
      [] i.op = "shift" -> ParseShift(s, i)
      [] i.op = "byteorder" -> Unary(i.order, At(s, i.sreg))))

(* netlink_parse_reject(); the statements without operands: counters,        *)
(* limits, quotas, log, notrack.                                             *)
ParseReject(i) == [t |-> "reject", type |-> i.type, family |-> "none", code |-> i.code, verbose |-> FALSE]
ParsePlain(i) == IF i.op = "log" THEN [t |-> "log", flags |-> i.flags] ELSE [t |-> i.op, arg |-> i.arg]

(* netlink_parse_expr(): each kind has its parser.                           *)
ParseInstr(s, i) ==
  CASE i.op = "immediate" -> ParseImmediate(s, i)
    [] i.op = "cmp" -> ParseCmp(s, i)
    [] i.op = "range" -> ParseRange(s, i)
    [] i.op = "lookup" -> ParseLookup(s, i)
    [] i.op \in {"bitwise", "shift", "byteorder"} -> ParseUnary(s, i)
    [] i.op \in {"payload", "payload_set"} -> ParsePayload(s, i)
    [] i.op \in {"exthdr", "exthdr_set"} -> ParseExthdr(s, i)
    [] i.op \in {"meta", "ct", "load", "numgen"} -> ParseKey(s, i)
    [] i.op = "hash" -> ParseHash(s, i)
    [] i.op \in {"meta_set", "ct_set"} -> ParseKeySet(s, i)
    [] i.op = "dynset" -> ParseDynset(s, i)
    [] i.op = "objref" -> Say0(s, ParseObjref(s, i))
    [] i.op = "reject" -> Say0(s, ParseReject(i))
    [] i.op = "nat" -> Say0(s, ParseNat(s, i))
    [] i.op = "tproxy" -> Say0(s, ParseTproxy(s, i))
    [] i.op \in {"dup", "fwd"} -> Say0(s, ParseDup(s, i))
    [] i.op = "queue" -> Say0(s, ParseQueue(i))
    [] OTHER -> Say0(s, ParsePlain(i))

(* netlink_delinearize_rule(), before its second pass.                       *)
ParseRule(fam, instrs) ==
  FoldLeft(LAMBDA s, i : IF s.err = "none" THEN ParseInstr(s, i) ELSE s, InitParse(fam), instrs)

----------------------------------------------------------------------------
(* Second pass: rule_parse_postprocess().  The state is w: the protocol      *)
(* context "p", the dependency context "d", the statements gone over in      *)
(* "out", each with the number it is known by, and the current statement's   *)
(* number "id".                                                              *)

(* payload_dependency_release(), payload_dependency_kill() and               *)
(* exthdr_dependency_kill().                                                 *)
ReleaseDep(w) ==
  [w EXCEPT !.out = SelectSeq(@, LAMBDA x : x.id # w.d.pdep), !.d = DepRelease(@)]
Kill(w, e) == IF DepExists(w.d, e.base) /\ MayKill(w.d, w.fam, e) THEN ReleaseDep(w) ELSE w
KillExthdr(w, e) == IF DepExists(w.d, IF e.op = "tcpopt" THEN TH ELSE NH) THEN ReleaseDep(w) ELSE w
StoreDep(w, id, rel, base) ==
  IF rel.op = "==" /\ rel.left.prot THEN [w EXCEPT !.d = DepStore(@, id, rel, base)] ELSE w

(* payload_match_expand() with constant_expr_splice(): a match over several  *)
(* fields becomes a match for each.                                          *)
Slice(v, from, l) ==
  LET n == Value((v \div 2 ^ from) % 2 ^ l.len, l.len, l.bo, l.dt)
      full == IF l.tmpl = 0 THEN l.len ELSE Tmpl(l.desc, l.tmpl).len
  IN  IF l.len < full THEN Prefix([n EXCEPT !.v = @ * 2 ^ (full - l.len), !.len = full], l.len) ELSE n
MatchExpand(w, rel) ==
  LET p0 == IF w.d.icmp # 0 THEN [w.p EXCEPT !.icmp = w.d.icmp] ELSE w.p
      step(x, l) ==
        LET from == x.left - l.len
            m == Rel(rel.op, l, Slice(rel.right.v, from, l))
            p == IF rel.op = "==" THEN RelUpdate(x.w.p, m) ELSE x.w.p
            said == [x.w EXCEPT !.p = p, !.next = @ + 1, !.out = Append(@, [id |-> x.w.next, s |-> Match(m)])]
            first == said.d.pbase = 0 /\ rel.op = "==" /\ l.prot
        IN  [left |-> from,
             w |-> StoreDep(IF first THEN said ELSE Kill(said, l), x.w.next, m,
                            l.base - (IF IsStacked(Desc(p, l.base), m) THEN 1 ELSE 0))]
  IN  FoldLeft(step, [left |-> rel.right.len, w |-> [w EXCEPT !.p = p0]], Expand(rel.left, p0)).w

(* payload_match_postprocess().                                              *)
PayloadMatch(w, rel) ==
  LET off == w.p.at[rel.left.base].off
      left == [rel.left EXCEPT !.off = @ - off]
      known == Complete(left, w.p)
  IN  Require(rel.left.off >= off, w, "BUG",
        IF rel.op \in {"==", "!="} /\ rel.right.t = "value"
        THEN Ok(MatchExpand(w, [rel EXCEPT !.left = left]), None)
        ELSE Ok(Kill(w, known), [rel EXCEPT !.left = known, !.right = SetType(@, known.dt, known.bo)]))

(* meta_may_dependency_kill() and ct_meta_common_postprocess().  Mutant: a    *)
(* match of an upper protocol always makes that of the family needless.      *)
AlwaysKill(w, rel) == TRUE
MetaMayKill(w, rel) ==
  LET dep == w.d.dep
      l3 == IF dep.left.t = "payload" THEN Upper("ether", dep.right.v) ELSE Upper("inet", dep.right.v)
      l4 == Upper("inet_service", rel.right.v)
  IN  \/ w.d.pbase # NH \/ w.fam \notin {"inet", "netdev", "bridge"}
      \/ ~(rel.left.t = "meta" /\ rel.left.key = "l4proto")
      \/ dep.left.t = "meta" /\ dep.left.key # "nfproto"
      \/ dep.left.t = "payload" /\ dep.left.base # LL
      \/ l4 \in {"icmp", "icmp6"} /\ <<l3, l4>> \notin {<<"ip", "icmp6">>, <<"ip6", "icmp">>}
CommonMatch(w, rel) ==
  LET base == rel.left.base
      known == [w EXCEPT !.p = RelUpdate(@, rel)]
      freed == IF DepExists(w.d, base) /\ MetaMayKill(w, rel) THEN ReleaseDep(known) ELSE known
  IN  IF rel.op # "==" \/ rel.right.t \in {"range", "set", "setref"} THEN w
      ELSE IF w.d.pbase = 0 THEN StoreDep(known, w.id, rel, base)
      ELSE IF w.d.pbase < TH THEN StoreDep(freed, w.id, rel, base) ELSE known

(* binop_adjust() and binop_postprocess(): a mask that only cuts a field out *)
(* of the bytes around it goes, with the bits it leaves free in the values.  *)
AdjustOne(v, l, shift) == [v EXCEPT !.v = @ \div 2 ^ shift, !.len = l.len]
AdjustEnds(r, l, shift) ==
  [r EXCEPT !.left = AdjustOne(@, l, shift), !.right = AdjustOne(@, l, shift), !.len = l.len]
Adjust(r, l, shift) ==
  CASE r.t = "value" -> AdjustOne(r, l, shift)
    [] r.t = "range" -> AdjustEnds(r, l, shift)
    [] r.t = "setref" ->
         [r EXCEPT !.set.elems = [i \in DOMAIN @ |->
            [@[i] EXCEPT !.key = IF @.t = "range" THEN AdjustEnds(@, l, shift) ELSE AdjustOne(@, l, shift)]]]
(* exthdr_find_template().                                                   *)
FindExthdr(e, mask) ==
  LET mlen == MaskLength(mask.v)
      moff == MaskOffset(mask.v)
      x == RawExthdr(e.op, e.desc, e.off + RoundUp(mask.len, Byte) - mlen, mlen - moff)
  IN  [found |-> (e.op = "ipopt" \/ e.name = "unknown") /\ x.name # "unknown", shift |-> moff, e |-> x]

(* binop_postprocess(): a mask that picks a field leaves the field.          *)
Unmasked(w, b) == IF b.left.t = "payload" THEN Trim(b.left, b.right, w.p) ELSE FindExthdr(b.left, b.right)
BinopPP(w, e, left, right, Put3(_, _)) ==
  LET payload == left.left.t = "payload"
      cut == Unmasked(w, left)
      r == Adjust(right, cut.e, cut.shift)
  IN  IF left.left.t \notin {"payload", "exthdr"} \/ ~cut.found THEN Ok(w, e)
      ELSE Require(right.t \in {"value", "range", "setref"}, w, "BUG",
             IF payload THEN Then(PayloadMatch(w, Rel(IF e.t = "rel" THEN e.op ELSE "none", cut.e, r)),
                                  LAMBDA x, m : Ok(x, IF m = None THEN m ELSE Put3(m.left, m.right)))
             ELSE Ok(w, Put3(cut.e, SetType(r, cut.e.dt, cut.e.bo))))

(* bitmask_expr_to_binops() makes a tree of a value with several flags; it   *)
(* stays a value here.                                                       *)
BitsOf(v) == SelectSeq([i \in 1 .. 24 |-> 2 ^ (i - 1)], LAMBDA b : (v \div b) % 2 = 1)
IsTree(e) == e.t = "value" /\ IsBitmask(e) /\ Len(BitsOf(e.v)) > 1
FlagsOf(e) == IF IsTree(e) THEN List([i \in DOMAIN BitsOf(e.v) |-> [e EXCEPT !.v = BitsOf(e.v)[i]]]) ELSE e
MaskIsPrefix(e) == e.v = 0 \/ e.v = PrefixMask(e.len, e.len - MaskOffset(e.v))

(* relational_binop_postprocess().                                           *)
RelBinop(w, e) ==
  LET b == e.left
      and == b.op = "&" /\ e.op \in {"==", "!="}
      flags == and /\ IsBitmask(e.right) /\ e.right.v = 0
      prefix == b.op = "&" /\ e.right.t = "value" /\ b.left.dt \in PrefixTypes /\ MaskIsPrefix(b.right)
  IN  CASE flags -> Ok(w, [e EXCEPT !.left = b.left, !.right = FlagsOf(b.right),
                                    !.op = IF @ = "!=" THEN "implicit" ELSE "neg"])
        [] ~flags /\ prefix ->
             Ok(w, [e EXCEPT !.left = b.left, !.right = Prefix(@, IF b.right.v = 0 THEN 0 ELSE b.right.len - MaskOffset(b.right.v))])
        [] ~flags /\ ~prefix /\ b.op = "&" /\ ~IsTree(b.right) ->
             BinopPP(w, e, b, e.right, LAMBDA l, r : [e EXCEPT !.left = l, !.right = r])
        [] OTHER -> Ok(w, e)

(* expr_postprocess_string(): what is not terminated is a prefix.            *)
StringOf(e) ==
  LET bytes == Export(e.v, "host", Bytes(e.len))
      used == SetMin({n \in 0 .. Len(bytes) : \A i \in DOMAIN bytes : i > n => bytes[i] = 0})
  IN  [t |-> "string", chars |-> SubSeq(bytes, 1, used), wild |-> used = Len(bytes),
       len |-> e.len, bo |-> "host", dt |-> e.dt]

(* ct_expr_update_type().                                                    *)
CtTyped(w, e) ==
  LET desc == Desc(w.p, e.base)
      dt == IF desc = "ip" THEN "ipv4_addr" ELSE IF desc = "ip6" THEN "ipv6_addr" ELSE e.dt
  IN  CASE e.key \in CtAddress -> [e EXCEPT !.dt = dt, !.len = Types[dt].size]
        [] e.key = "proto-dst" /\ desc # "none" -> [e EXCEPT !.dt = "inet_service"]
        [] OTHER -> e

(* expr_postprocess().  The ends of a range are gone over twice, the left    *)
(* one, as the code falls through to what it does for prefixes.              *)
ConcatName(es) ==
  LET fits == {n \in DOMAIN Concats : Concats[n] = [i \in DOMAIN es |-> es[i].dt]}
  IN  IF fits = {} THEN "invalid" ELSE CHOOSE n \in fits : TRUE
PPRel(w, e) ==
  Then(PP(w, e.left), LAMBDA x, l : Then(PP(x, SetType(e.right, l.dt, l.bo)), LAMBDA y, r :
    LET rel == [e EXCEPT !.left = l, !.right = r]
    IN  CASE l.t \in {"ct", "meta"} -> Ok(CommonMatch(y, rel), rel)
          [] l.t = "binop" -> RelBinop(y, rel)
          [] OTHER -> Ok(y, rel)))
PPMap(w, e) ==
  LET masked == e.map.t = "binop" /\ e.map.op = "&" /\ e.map.left.t = "payload" /\ e.map.right.t = "value"
      cut == IF masked THEN BinopPP(w, e, e.map, e.mappings, LAMBDA l, r : [e EXCEPT !.map = l, !.mappings = r])
             ELSE Ok(w, e)
  IN  Then(cut, LAMBDA x, m : Then(PP(x, m.map), LAMBDA y, k : Ok(y, [m EXCEPT !.map = k])))
PP(w, e) ==
  CASE e.t = "map" -> PPMap(w, e)
    [] e.t = "concat" ->
         LET typed == IF e.dt \in DOMAIN Concats THEN SetType(e, e.dt, e.bo).es ELSE e.es
         IN  Then(EvalAll(w, typed, LAMBDA x, part, i : PP(x, part)), LAMBDA x, es :
               Ok(x, [e EXCEPT !.es = es, !.dt = ConcatName(es)]))
    [] e.t = "unary" ->
         Then(PP(w, e.arg), LAMBDA x, a :
           Ok(x, [e EXCEPT !.arg = a, !.dt = a.dt, !.bo = IF a.bo = "none" THEN "host" ELSE "none"]))
    [] e.t = "binop" ->
         Then(PP(w, e.left), LAMBDA x, l :
           Then(PP(x, IF e.op \in {"<<", ">>"} THEN SetType(e.right, "integer", "host") ELSE SetType(e.right, l.dt, l.bo)),
                LAMBDA y, r : Ok(y, [e EXCEPT !.left = l, !.right = r, !.dt = l.dt, !.bo = l.bo])))
    [] e.t = "rel" -> IF e.left.t = "payload" THEN PayloadMatch(w, e) ELSE PPRel(w, e)
    [] e.t = "payload" -> Ok(Kill(w, Complete(e, w.p)), Complete(e, w.p))
    [] e.t = "value" ->
         LET v == IF e.bo = "host" THEN [e EXCEPT !.v = SwitchByteorder(@, e.len \div Byte)] ELSE e
         IN  Ok(w, IF Base(e) = "string" THEN StringOf(v) ELSE v)
    [] e.t = "range" ->
         Then(PP(w, e.left), LAMBDA x, l : Then(PP(x, e.right), LAMBDA y, r : Then(PP(y, l), LAMBDA z, again :
           Ok(z, [e EXCEPT !.left = again, !.right = r]))))
    [] e.t = "prefix" -> Then(PP(w, e.arg), LAMBDA x, a : Ok(x, [e EXCEPT !.arg = a]))
    [] e.t = "hash" -> Then(PP(w, e.arg), LAMBDA x, a : Ok(x, [e EXCEPT !.arg = a]))
    [] e.t = "exthdr" -> Ok(KillExthdr(w, e), e)
    [] e.t = "ct" -> Ok(w, CtTyped(w, e))
    [] OTHER -> Ok(w, e)

----------------------------------------------------------------------------
(* Statements of the second pass.                                            *)

(* expr_may_merge_range() and expr_postprocess_range(): two bounds become a  *)
(* range.  Only the kinds of the two left sides are compared.                *)
Inner(e) == IF e.t = "unary" THEN e.arg ELSE e
MergeRange(w, s) ==
  LET prev == SelectSeq(w.out, LAMBDA x : x.id = w.d.prev)[1].s
      op == CASE prev.e.op = ">=" /\ s.e.op = "<=" -> "=="
              [] prev.e.op = "<" /\ s.e.op = ">" -> "!="
              [] OTHER -> "none"
  IN  IF w.d.prev = 0 \/ s = None THEN Ok(w, s)
      ELSE IF prev.e.t # "rel" \/ s.e.t # "rel" THEN Ok(w, s)
      ELSE IF Inner(prev.e.left).t # Inner(s.e.left).t \/ op = "none" THEN Ok(w, s)
      ELSE Ok([w EXCEPT !.out = SelectSeq(@, LAMBDA x : x.id # w.d.prev)],
              Match(Rel(op, s.e.left, SetType(RangeExpr(prev.e.right, s.e.right), s.e.right.dt, s.e.right.bo))))

(* stmt_payload_binop_postprocess(): the value of a field that was written   *)
(* with the bits around it.                                                  *)
SameBytes(a, b) == a.t = "payload" /\ a.base = b.base /\ a.off = b.off /\ a.len = b.len
UnwidenBoth(w, s) ==           \* (payload & mask) | value
  LET b == s.val.left
      mask == [b.right EXCEPT !.v = Flip(b.right.v, b.left.len) ^^ s.val.right.v]
      r == BinopPP(w, s.val, [b EXCEPT !.right = mask], s.val.right, LAMBDA l, x : [s.val EXCEPT !.left = l, !.right = x])
  IN  Then(r, LAMBDA x, e : IF e.left.t # "payload" THEN Ok(x, s)
                            ELSE IF ~IsKnown(e.left) THEN Ok(x, [s EXCEPT !.val = e])
                            ELSE Ok(x, [s EXCEPT !.e = e.left, !.val = e.right]))
UnwidenOne(w, s) ==            \* payload & mask, payload | value
  LET mask == [s.val.right EXCEPT !.v = IF s.val.op = "&" THEN Flip(@, s.val.left.len) ELSE @]
      cut == Trim(s.val.left, mask, w.p)
      e == Complete(cut.e, w.p)
  IN  IF ~cut.found THEN Ok(w, [s EXCEPT !.val.right = mask])
      ELSE IF ~IsKnown(e) THEN Ok(w, [s EXCEPT !.val.right = mask])
      ELSE Ok(w, [s EXCEPT !.e = e, !.val = SetType([AdjustOne(mask, e, cut.shift) EXCEPT !.v = IF s.val.op = "&" THEN 0 ELSE @],
                                                    e.dt, e.bo)])
Unwiden(w, s) ==
  LET v == s.val
  IN  CASE IsKnown(s.e) \/ v.t # "binop" -> Ok(w, s)
        [] ~IsKnown(s.e) /\ v.t = "binop" ->
             IF v.right.t = "value" /\ v.op = "|" /\ v.left.t = "binop"
             THEN IF v.left.op = "&" /\ SameBytes(v.left.left, s.e) THEN UnwidenBoth(w, s) ELSE Ok(w, s)
             ELSE IF v.right.t = "value" /\ v.op \in {"&", "|"} /\ v.left.t = "payload" THEN UnwidenOne(w, s)
             ELSE Ok(w, s)
PPPayloadStmt(w, s) ==
  Then(PP(w, s.e), LAMBDA x, e :
    Then(Unwiden(x, [s EXCEPT !.e = e, !.val = SetType(@, e.dt, e.bo)]), LAMBDA y, u :
      Then(PP(y, u.val), LAMBDA z, v : Ok(z, [u EXCEPT !.val = v]))))

(* stmt_reject_postprocess(): the family a reject is of.                     *)
PPReject(w, s) ==
  LET desc == Desc(w.p, NH)
      base == IF s.type = "tcp" THEN TH ELSE NH
      free(x) == IF DepExists(x.d, base) THEN ReleaseDep(x) ELSE x
  IN  CASE w.fam \in {"ip", "ip6"} -> Ok(IF s.type = "tcp" THEN free(w) ELSE w, [s EXCEPT !.family = w.fam])
        [] w.fam \notin {"ip", "ip6"} /\ s.type = "icmpx" -> Ok(w, s)
        [] OTHER ->
             Ok(IF DepExists(w.d, NH) THEN ReleaseDep(w) ELSE w,
                [s EXCEPT !.verbose = TRUE, !.family = IF desc \in {"ip", "ip6"} THEN desc ELSE @])

(* The cases of rule_parse_postprocess(); a port of nat or tproxy comes      *)
(* after what was known is forgotten.                                        *)
PPArg(w, e) == IF e = None THEN Ok(w, e) ELSE PP(w, e)
PPBoth(w, e1, e2, Put2(_, _)) ==
  Then(PPArg(w, e1), LAMBDA x, a : Then(PPArg(x, e2), LAMBDA y, b : Ok(y, Put2(a, b))))
PPStmt(w, s) ==
  CASE s.t = "match" -> Then(PP(w, s.e), LAMBDA x, e : MergeRange(x, IF e = None THEN None ELSE Match(e)))
    [] s.t = "payload" -> PPPayloadStmt(w, s)
    [] s.t \in {"meta", "ct"} -> Then(PP(w, s.val), LAMBDA x, v : Ok(x, [s EXCEPT !.val = v]))
    [] s.t \in {"nat", "tproxy"} ->
         Then(PPArg(w, s.addr), LAMBDA x, a :
           Then(PPArg(IF s.proto = None THEN x ELSE [x EXCEPT !.d = NoDep], s.proto), LAMBDA y, b :
             Ok(y, [s EXCEPT !.addr = a, !.proto = b])))
    [] s.t = "reject" -> PPReject(w, s)
    [] s.t \in {"set", "meter"} -> Then(PP(w, s.key), LAMBDA x, k : Ok(x, [s EXCEPT !.key = k]))
    [] s.t = "map" -> PPBoth(w, s.key, s.data, LAMBDA a, b : [s EXCEPT !.key = a, !.data = b])
    [] s.t = "dup" -> PPBoth(w, s.addr, s.dev, LAMBDA a, b : [s EXCEPT !.addr = a, !.dev = b])
    [] s.t = "fwd" -> PPBoth(w, s.dev, s.addr, LAMBDA a, b : [s EXCEPT !.dev = a, !.addr = b])
    [] s.t = "objref" -> IF s.e.t = "map" THEN Then(PP(w, s.e), LAMBDA x, e : Ok(x, [s EXCEPT !.e = e])) ELSE Ok(w, s)
    [] OTHER -> Ok(w, s)

(* rule_maybe_reset_payload_deps() keeps what is known only over matches.    *)
Postprocessed(fam, stmts) ==
  LET step(w, i) ==
        LET r == PPStmt([w EXCEPT !.id = i], stmts[i])
            x == r.c
            gone == r.e = None
            y == IF gone THEN x ELSE [x EXCEPT !.out = Append(@, [id |-> i, s |-> r.e])]
        IN  IF w.err # "none" THEN w
            ELSE IF stmts[i].t = "match" THEN [y EXCEPT !.d.prev = IF gone THEN 0 ELSE i]
            ELSE [y EXCEPT !.d = NoDep]
  IN  FoldLeft(step, [fam |-> fam, p |-> ProtoInit(fam), d |-> NoDep, out |-> <<>>, id |-> 0,
                      next |-> Len(stmts) + 1, err |-> "none"],
               [i \in DOMAIN stmts |-> i])

(* netlink_delinearize_rule().                                               *)
DelinearizeRule(fam, instrs) ==
  LET s == ParseRule(fam, instrs)
      w == Postprocessed(fam, s.stmts)
  IN  IF s.err # "none" THEN [err |-> s.err, stmts |-> <<>>]
      ELSE [err |-> w.err, stmts |-> [i \in DOMAIN w.out |-> w.out[i].s]]
=============================================================================
