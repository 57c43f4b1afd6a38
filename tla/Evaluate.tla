------------------------------ MODULE Evaluate ------------------------------
(* Evaluation of a rule (evaluate.c, payload.c, rule.c): the types and byte  *)
(* orders of what the user wrote are settled, the matches it depends on are  *)
(* put in front, constants are folded and neighbouring matches merged.       *)
(*                                                                          *)
(* A context carries what the code keeps in struct eval_ctx: the protocol    *)
(* context "p", the expression context "ectx", the statements that stand     *)
(* before the current one in "done" and the set an element belongs to.       *)
(* "err" is "none", the reason of an error, or "BUG" where an assertion or   *)
(* BUG() ends the process.                                                   *)
EXTENDS Protocols, Bitwise

CONSTANTS
  NamedSets,    \* the sets and maps of the table: name -> set record
  Loads,        \* keys of socket, fib, osf, ...: [len, bo, dt, max, fams]
  IcmpReply,    \* the type that answers an icmp dependency's: name -> type
  Star          \* the character '*'

RECURSIVE Eval(_, _)

(* The bits of a number that are not set, and of the others.                 *)
Flip(v, len) == Mask(len) ^^ v

Ok(c, e) == [c |-> c, e |-> e]
Fail(c, why) == [c |-> [c EXCEPT !.err = why], e |-> None]
Then(r, Next(_, _)) == IF r.c.err # "none" THEN r ELSE Next(r.c, r.e)
Require(ok, c, why, r) == IF ok THEN r ELSE Fail(c, why)

NoCtx == [dt |-> "none", bo |-> "none", len |-> 0, max |-> 0]
NoSet == [name |-> "none"]
InitCtx(fam) == [fam |-> fam, p |-> ProtoInit(fam), done |-> <<>>, ectx |-> NoCtx,
                 set |-> NoSet, err |-> "none"]

(* __expr_set_context(), expr_set_context() and expr_evaluate_primary().     *)
SetCtx(c, dt, bo, len, max) == [c EXCEPT !.ectx = [dt |-> dt, bo |-> bo, len |-> len, max |-> max]]
TypeCtx(c, dt, len) ==
  SetCtx(c, dt, IF dt \in DOMAIN Types THEN Types[dt].bo ELSE "none", len, 0)
Primary(c, e) == Ok(SetCtx(c, e.dt, e.bo, e.len, 0), e)

(* rule_stmt_insert_at() puts a statement before the current one.            *)
Insert(c, s) == [c EXCEPT !.done = Append(@, s)]
Match(rel) == [t |-> "match", e |-> rel]
(* stmt_evaluate() of a match the code made itself.                          *)
EvalMatch(c, rel) ==
  Then(Eval([c EXCEPT !.ectx = NoCtx], rel), LAMBDA d, e : Ok(d, Match(e)))

----------------------------------------------------------------------------
(* Byte orders and constants.                                                *)

(* byteorder_conversion(), with the operation it chooses.                    *)
Convert(c, e, bo) ==
  CASE e.bo = bo \/ e.t = "concat" -> Ok(c, e)
    [] OTHER ->
       Require(IsNumber(e), c, "byteorder",
         IF IsConstant(e) \/ e.len \div Byte < 2 THEN Ok(c, [e EXCEPT !.bo = bo])
         ELSE Require({e.bo, bo} = {"host", "big"}, c, "BUG",
                Eval(c, Unary(IF bo = "big" THEN "hton" ELSE "ntoh", e))))

(* expr_evaluate_integer().                                                  *)
EvalInteger(c, e) ==
  Require((c.ectx.max = 0 \/ e.v <= c.ectx.max) /\ e.v <= Mask(c.ectx.len), c, "range",
    Ok(c, [e EXCEPT !.bo = c.ectx.bo, !.len = c.ectx.len]))

(* expr_evaluate_string(): a '*' at the end makes the rest a prefix, unless  *)
(* a backslash stands before it.                                             *)
HostValue(chars) == Import(Reverse(chars))          \* host byte order
EvalString(c, e) ==
  LET n == Len(e.chars)
      written == n + (IF e.wild THEN 1 ELSE 0)
                   + (IF n > 0 /\ e.chars[n] = Star /\ ~e.wild THEN 1 ELSE 0)
      len == IF c.ectx.len > 0 THEN c.ectx.len ELSE (written + 1) * Byte
  IN  Require(c.ectx.len = 0 \/ (written + 1) * Byte <= c.ectx.len, c, "string too long",
        Require(n > 0, c, "empty string",
          IF e.wild
          THEN Ok(c, [Prefix(Value(HostValue(e.chars), n * Byte, "host", c.ectx.dt), n * Byte)
                        EXCEPT !.dt = c.ectx.dt])
          ELSE Ok(c, Value(HostValue(e.chars), len, "host", c.ectx.dt))))

(* expr_evaluate_symbol(): the context says how the text is read; a name     *)
(* with '@' is a set of the table.                                           *)
EvalSymbol(c, e) ==
  IF Base([dt |-> c.ectx.dt]) = "string" THEN EvalString(c, e)
  ELSE Require(c.ectx.dt \in DOMAIN Types \ {"invalid"} /\ e.t = "symbol", c, "cannot parse symbol",
         EvalInteger(c, Value(e.v, Types[c.ectx.dt].size, Types[c.ectx.dt].bo, c.ectx.dt)))
EvalSetName(c, e) ==
  Require(e.name \in DOMAIN NamedSets, c, "no such set", Ok(c, SetRef(NamedSets[e.name])))

----------------------------------------------------------------------------
(* Fields of headers, and the matches they depend on.                        *)

(* payload_add_dependency().                                                 *)
AddDependency(c, desc, upper) ==
  LET d == Protos[desc]
      left == IF d.key = 0 THEN Meta(d.metakey) ELSE PayloadTmpl(desc, d.key)
      rel == Rel("==", left, Value(FindNum(desc, upper), left.len, Types[left.dt].bo, left.dt))
  IN  Require(Links(desc, upper) # {}, c, "conflicting protocols",
        Then(EvalMatch(c, rel),
             LAMBDA e, s : Ok([e EXCEPT !.p = RelUpdate(@, s.e)], s)))

(* payload_get_get_ll_hdr() and payload_gen_special_dependency(): the         *)
(* context with the match an icmp header needs, and the protocol below.      *)
LinkHeader(fam) == CASE fam = "inet" -> "inet" [] fam = "bridge" -> "ether"
                     [] fam = "netdev" -> "netdev" [] OTHER -> "none"
SpecialDependency(c, e) ==
  LET ll == IF Desc(c.p, LL) = "none" THEN LinkHeader(c.fam) ELSE Desc(c.p, LL)
      upper == IF e.desc = "icmp6" THEN "ip6" ELSE "ip"
  IN  CASE e.base = LL -> Ok(c, LinkHeader(c.fam))
        [] e.base = TH /\ e.desc \notin {"icmp", "icmp6"} -> Ok(c, "inet_service")
        [] e.base = TH /\ e.desc \in {"icmp", "icmp6"} /\ ll # "none" ->
             Then(AddDependency(c, ll, upper), LAMBDA d, s : Ok(Insert(d, s), upper))
        [] OTHER -> Ok(c, "none")

(* meta_stmt_meta_iiftype().                                                 *)
EtherDependency(c, e) ==
  Require(OnEther(e.desc), c, "invalid protocol for this family",
    EvalMatch(c, Rel("==", Meta("iiftype"),
                     Value(EtherDev, MetaKeys["iiftype"].len, "host", MetaKeys["iiftype"].dt))))

(* payload_gen_dependency().                                                 *)
GenDependency(c, e) ==
  LET h == Hook[c.fam].base
      below == Desc(c.p, e.base - 1)
      lower == IF below = "none" THEN SpecialDependency(c, e) ELSE Ok(c, below)
  IN  IF e.base < h
      THEN Require(e.base >= h - 1, c, "invalid base for this family", EtherDependency(c, e))
      ELSE Then(lower, LAMBDA d, desc :
             Require(desc # "none", d, "no protocol specified",
               AddDependency(d, IF c.fam = "bridge" /\ desc = "ether" /\ e.desc \in {"ip", "ip6"}
                                THEN "netdev" ELSE desc, e.desc)))

(* payload_gen_icmp_dependency(): a field that only some types have.         *)
GenIcmp(c, e) ==
  LET dep == Tmpl(e.desc, e.tmpl).dep
      type == IcmpDep[dep]
      known == {type} \cup (IF dep = "echo6" THEN {IcmpReply[dep]} ELSE {})
      left == PayloadTmpl(e.desc, Protos[e.desc].key)
      num(v) == Value(v, Byte, "big", left.dt)
      rel == IF dep \in DOMAIN IcmpReply
             THEN Rel("implicit", left,
                      SetExpr(<<[key |-> num(type), data |-> None],
                                [key |-> num(IcmpReply[dep]), data |-> None]>>))
             ELSE Rel("==", left, num(type))
  IN  IF c.p.icmp \in known THEN Ok(c, e)
      ELSE Require(c.p.icmp = 0, c, "incompatible icmp match",
             Then(EvalMatch([c EXCEPT !.p.icmp = type], rel),
                  LAMBDA d, s : Ok(Insert(d, s), e)))
CheckIcmp(c, e) ==
  IF Desc(c.p, e.base) \in {"icmp", "icmp6"} /\ e.tmpl # 0 /\ Tmpl(e.desc, e.tmpl).dep # "any"
  THEN GenIcmp(c, e) ELSE Ok(c, e)

(* resolve_protocol_conflict() and conflict_resolution_gen_dependency(): a   *)
(* family's placeholder gives way to ethernet, vlan is stacked on ethernet.  *)
Dummy == {"inet", "netdev"}
Stack(c, desc, e) ==
  LET left == PayloadTmpl(desc, Protos[desc].key)
      rel == Rel("==", left, Value(FindNum(desc, e.desc), left.len, Types[left.dt].bo, left.dt))
  IN  Require(e.base = LL, c, "BUG",
        Then(EvalMatch(c, rel), LAMBDA d, s :
          Ok(Insert(d, s), [e EXCEPT !.off = @ + d.p.at[e.base].off])))
Resolve(c, desc, e) ==
  LET first == IF e.base = LL /\ desc \in Dummy
               THEN Then(EtherDependency(c, e), LAMBDA d, s : Ok(Insert(d, s), e))
               ELSE Ok(c, e)
  IN  Then(first, LAMBDA d, x :
        IF Desc(d.p, e.base + 1) = "none" /\ Links(desc, e.desc) # {}
        THEN Stack(d, Desc(d.p, e.base), e)
        ELSE Require(Desc(d.p, e.base) = e.desc, d, "conflicting protocols", Ok(d, e)))

(* __expr_evaluate_payload().                                                *)
PayloadContext(c, e) ==
  LET desc == Desc(c.p, e.base)
      same == e.base = Protos[desc].base
  IN  CASE e.raw -> Ok(c, e)
        [] ~e.raw /\ desc = "none" ->
             Then(GenDependency(c, e), LAMBDA d, s : CheckIcmp(Insert(d, s), e))
        [] ~e.raw /\ desc # "none" ->
             CASE same /\ IsAmbiguous(c.p, e.base) -> Fail(c, "conflicting protocols")
               [] desc = e.desc -> CheckIcmp(c, [e EXCEPT !.off = @ + c.p.at[e.base].off])
               [] same -> Resolve(c, desc, e)
               [] OTHER -> Fail(c, "conflicting protocols")

(* expr_offset_shift() and expr_evaluate_bits(): whole bytes are loaded, the *)
(* bits of the field masked and shifted down.                                *)
OffsetShift(e, off) ==
  LET shift == RoundUp(e.len, Byte) - ((off % Byte) + e.len)
      n == IF shift >= 0 THEN 0 ELSE DivRoundUp((off % Byte) + e.len - RoundUp(e.len, Byte), Byte)
  IN  [shift |-> RoundUp(e.len, Byte) + n * Byte - ((off % Byte) + e.len), extra |-> n * Byte]
Bits(e, off) ==
  LET s == OffsetShift(e, off)
      masklen == e.len + s.shift
      and == [Binop("&", [e EXCEPT !.len = @ + s.extra, !.ev = TRUE],
                    Value(Mask(e.len) * 2 ^ s.shift, masklen, "host", Base(e)))
                EXCEPT !.len = masklen]
  IN  IF s.shift = 0 THEN and
      ELSE Binop(">>", and, Value(s.shift, 1, "host", Base(e)))

EvalPayload(c, e) ==
  IF e.ev THEN Ok(c, e)
  ELSE Then(PayloadContext(c, e), LAMBDA d, f : Then(Primary(d, f), LAMBDA g, x :
         Ok(g, IF Adjusted(f) THEN Bits(f, f.off) ELSE [f EXCEPT !.ev = TRUE])))

(* expr_evaluate_exthdr(): the match on ipv6 goes to the head of the rule.   *)
EvalExthdr(c, e) ==
  LET here(d) == Then(Primary(d, e), LAMBDA g, x :
                   Ok(g, IF Adjusted(e) /\ ~e.ev THEN Bits(e, e.off) ELSE [e EXCEPT !.ev = TRUE]))
      base == Desc(c.p, NH)
      header == IF e.op = "ipopt" THEN "ip" ELSE "ip6"
  IN  CASE e.op = "tcpopt" \/ base = header -> here(c)
        [] e.op # "tcpopt" /\ base \notin {header, "none"} -> Fail(c, "cannot use exthdr")
        [] OTHER ->
             Require(Desc(c.p, LL) # "none", c, "no protocol specified",
               Then(AddDependency(c, Desc(c.p, LL), header),
                    LAMBDA d, s : here([d EXCEPT !.done = <<s>> \o @])))

----------------------------------------------------------------------------
(* Keys of the packet's own data and of its connection.                      *)

(* expr_evaluate_meta().                                                     *)
EvalMeta(c, e) ==
  CASE e.key = "nfproto" -> Require(c.fam = "inet", c, "only useful in inet", Primary(c, e))
    [] e.key = "day" -> Ok(SetCtx(c, e.dt, e.bo, e.len, 6), e)
    [] OTHER -> Primary(c, e)

(* expr_evaluate_ct(), ct_gen_nh_dependency() and ct_expr_update_type().     *)
CtAddress == {"src", "dst"}
CtOf(key, fam) == \/ fam = "ip" /\ key \in {"src-ip", "dst-ip"}
                  \/ fam = "ip6" /\ key \in {"src-ip6", "dst-ip6"}
EvalCt(c, e) ==
  LET base == Desc(c.p, NH)
      addr == IF base = "ip" THEN "ipv4_addr" ELSE "ipv6_addr"
  IN  CASE e.key \in CtAddress ->
             Primary(c, IF base = "none" THEN [e EXCEPT !.len = Types[e.dt].size]
                        ELSE [e EXCEPT !.dt = addr, !.len = Types[addr].size])
        [] \E fam \in {"ip", "ip6"} \ {base} : base \in {"ip", "ip6"} /\ CtOf(e.key, fam) ->
             Fail(c, "conflicting protocols")
        [] e.key = "proto-dst" /\ Desc(c.p, TH) # "none" ->
             Primary(c, [e EXCEPT !.dt = "inet_service"])
        [] OTHER -> Primary(c, e)

(* expr_evaluate_socket(), expr_evaluate_fib(), expr_evaluate_osf() and      *)
(* expr_evaluate_xfrm().                                                     *)
EvalLoad(c, e) ==
  Require(c.fam \in Loads[e.key].fams, c, "only valid in other families",
    Ok(SetCtx(c, e.dt, e.bo, e.len, Loads[e.key].max), e))

(* expr_evaluate_numgen() and expr_evaluate_hash(): a number below "mod" of  *)
(* the type that is asked for.                                               *)
IntegerCompatible(c, e) ==
  IF Base([dt |-> c.ectx.dt]) = "integer" /\ c.ectx.len = Reg32
  THEN [e EXCEPT !.dt = c.ectx.dt, !.len = c.ectx.len] ELSE e
EvalNumgen(c, e) ==
  LET n == IntegerCompatible(c, e)
  IN  Ok(SetCtx(c, n.dt, n.bo, n.len, n.mod - 1), n)
EvalHash(c, e) ==
  LET n == IntegerCompatible(c, e)
  IN  Then(Eval([c EXCEPT !.ectx = NoCtx], n.arg), LAMBDA d, x :
        Ok(SetCtx(d, n.dt, n.bo, n.len, n.mod - 1), [n EXCEPT !.arg = x]))

----------------------------------------------------------------------------
(* Compound constants and operations.                                        *)

(* constant_binop_simplify(), expr_evaluate_shift(), expr_evaluate_bitwise() *)
(* and expr_evaluate_binop().                                                *)
Compute(op, v, w, len) ==
  CASE op = "&" -> (v & w) & Mask(len)
    [] op = "^" -> (v ^^ w) & Mask(len)
    [] op = "|" -> (v | w) & Mask(len)
    [] op = "<<" -> (v * 2 ^ w) & Mask(len)
    [] op = ">>" -> (v & Mask(len)) \div 2 ^ w
Simplify(c, e) ==
  IF ~IsConstant(e.left) THEN Ok(c, e)
  ELSE Require(e.left.bo = e.right.bo /\ e.left.t = "value", c, "BUG",
         EvalInteger(c, Value(Compute(e.op, e.left.v, e.right.v, e.len), e.len, e.bo, e.dt)))
EvalShift(c, op, l, r) ==
  Require(r.v < l.len, c, "undefined shift",
    Then(Convert(c, l, "host"), LAMBDA d, x : Then(Convert(d, r, "host"), LAMBDA g, y :
      Simplify(g, [Binop(op, x, y) EXCEPT !.dt = "integer", !.bo = "host"]))))
EvalBitwise(c, op, l, r) ==
  Then(Convert(c, r, l.bo), LAMBDA d, y : Simplify(d, Binop(op, l, y)))
EvalBinop(c, e) ==
  LET shifts == e.op \in {"<<", ">>"}
  IN  Then(Eval(c, e.left), LAMBDA d, l :
        LET g == IF shifts THEN SetCtx(d, "integer", l.bo, d.ectx.len, 0) ELSE d
        IN  Then(Eval(g, e.right), LAMBDA h, r :
              Require(Base(l) \in {"integer", "bitmask", "string"} /\ IsSingleton(r)
                      /\ (IsConstant(l) => IsSingleton(l)), h, "undefined operation",
                IF shifts THEN EvalShift(h, e.op, l, r) ELSE EvalBitwise(h, e.op, l, r))))

(* expr_evaluate_unary().                                                    *)
EvalUnary(c, e) ==
  Then(Eval(c, e.arg), LAMBDA d, x :
    Require(/\ ~IsConstant(x) /\ IsNumber(x) /\ x.t # "unary"
            /\ x.bo = IF e.op = "hton" THEN "host" ELSE "big", d, "BUG",
      Ok(d, Unary(e.op, x))))

(* expr_evaluate_prefix(): bits outside the prefix are cleared.              *)
EvalPrefix(c, e) ==
  Then(Eval(c, e.arg), LAMBDA d, x :
    Require(IsSingleton(x) /\ Base(x) \in {"integer", "bitmask", "string"} /\ e.plen <= x.len,
            d, "undefined prefix",
      LET mask == IF Base(x) = "string" THEN Mask(e.plen) ELSE PrefixMask(x.len, e.plen)
      IN  Then(Eval(d, Binop("&", x, Value(mask, x.len, "host", Base(x)))), LAMBDA g, y :
            Ok(g, Prefix(y, e.plen)))))

(* expr_evaluate_range(), and without the order of its ends.                 *)
RangeEnds(c, e) ==
  LET one(d, x) == Then(Eval(d, x), LAMBDA g, y :
                     Require(IsNumber(y) /\ IsConstant(y), g, "undefined range", Ok(g, y)))
  IN  Then(one(c, e.left), LAMBDA d, l : Then(one(d, e.right), LAMBDA g, r :
        Ok(g, RangeExpr(l, r))))
EvalRange(c, e) ==
  Then(RangeEnds(c, e), LAMBDA d, x :
    Require(x.left.v < x.right.v, d, "zero or negative size", Ok(d, x)))

(* expr_evaluate_list(): flags are or-ed together.                           *)
EvalList(c, e) ==
  LET step(r, x) == Then(r, LAMBDA d, acc : Then(Eval(d, x), LAMBDA g, y :
                      Require(y.t = "value" /\ IsBitmask(y), g, "not a bitmask",
                              Ok(g, acc | y.v))))
  IN  Then(FoldLeft(step, Ok(c, 0), e.es), LAMBDA d, v :
        Ok(d, Value(v, d.ectx.len, "host", d.ectx.dt)))

(* Folding an evaluation over the members of a list.                         *)
EvalAll(c, es, One(_, _, _)) ==
  FoldLeft(LAMBDA r, i : Then(r, LAMBDA d, xs : Then(One(d, es[i], i), LAMBDA g, x :
             Ok(g, Append(xs, x)))),
           Ok(c, <<>>), [i \in DOMAIN es |-> i])

(* expr_evaluate_concat().                                                   *)
EvalConcat(c, e) ==
  LET dt == c.ectx.dt
      one(d, x, i) ==
        Require(x.t # "ct" \/ x.key \notin CtAddress, d, "specify either ip or ip6",
          LET g == IF dt = "none" THEN TypeCtx(d, "invalid", 0)
                   ELSE TypeCtx(d, Concats[dt][i], Types[Concats[dt][i]].size)
          IN  Then(Eval(g, x), LAMBDA h, y :
                Require(dt # "none" \/ Types[y.dt].size > 0, h, "variable sized data type", Ok(h, y))))
  IN  Require(dt = "none" \/ (dt \in DOMAIN Concats /\ Len(Concats[dt]) = Len(e.es)), c, "type mismatch",
        Then(EvalAll(c, e.es, one), LAMBDA d, es :
          LET n == ConcatOf(es)
          IN  Ok(TypeCtx(d, n.dt, n.len), n)))

(* expr_evaluate_set(), expr_evaluate_set_elem() and expr_evaluate_mapping().*)
EvalElem(c, el, i) ==
  LET s == c.set
      isset == s.name = "none"
      keyctx == IF isset THEN c ELSE SetCtx(c, s.key.dt, s.key.bo, s.key.len, 0)
      datalen(set) == IF set.name # "anon" /\ set.dinterval THEN set.data.len \div 2 ELSE set.data.len
  IN  Then(Eval(keyctx, el.key), LAMBDA d, k :
        Require(IsConstant(k), d, "set member is not constant",
          IF el.data = None THEN Ok(d, [key |-> k, data |-> None])
          ELSE Require(~isset /\ s.map, d, "set is not a map",
                 Then(Eval(SetCtx(d, s.data.dt, s.data.bo, datalen(s), 0), el.data), LAMBDA g, x :
                   LET h == IF s.name = "anon" /\ x.t \in {"range", "prefix"}
                            THEN [g EXCEPT !.set.dinterval = TRUE] ELSE g
                   IN  Require(IsConstant(x) /\ (h.set.dinterval \/ x.t \in {"value", "verdict", "concat"}),
                               h, "value must be a singleton", Ok(h, [key |-> k, data |-> x]))))))
EvalSet(c, e) ==
  Then(EvalAll(c, e.elems, EvalElem), LAMBDA d, els :
    Ok(d, [SetExpr(els) EXCEPT !.dt = d.ectx.dt, !.len = d.ectx.len]))
IsInterval(els) == \E i \in DOMAIN els : \/ els[i].key.t \in {"range", "prefix"}
                                         \/ els[i].key.t = "concat" /\ ~SingleConcat(els[i].key)

(* implicit_set_declaration(); the bytes of elements are in the order of     *)
(* "key", those of an interval set always in network order.                  *)
Anonymous(key, data, e) ==
  SetRef([name |-> "anon", map |-> data # None, key |-> key, data |-> data,
          interval |-> IsInterval(e.elems), dinterval |-> FALSE, elems |-> e.elems])

----------------------------------------------------------------------------
(* binop_transfer(): an operation on the left that can be undone is undone   *)
(* on the constants of the right instead.                                    *)

(* binop_can_transfer().  "e" says whether it can be.                        *)
CanTransferOne(c, l, v) ==
  CASE l.op = "<<" -> Require(Scan1(v.v, 0) >= l.right.v, c, "always false", Ok(c, TRUE))
    [] l.op = ">>" -> Ok(IF c.ectx.len < v.len + l.right.v
                         THEN [c EXCEPT !.ectx.len = @ + l.right.v] ELSE c, TRUE)
    [] l.op = "^" -> Ok(c, TRUE)
    [] OTHER -> Ok(c, FALSE)
CanTransfer(c, l, r) ==
  CASE r.t = "value" -> CanTransferOne(c, l, r)
    [] r.t = "range" ->
         Then(CanTransferOne(c, l, r.left), LAMBDA d, yes :
           IF yes THEN CanTransferOne(d, l, r.right) ELSE Ok(d, FALSE))
    [] OTHER -> Ok(c, FALSE)

(* binop_transfer_one().                                                     *)
Undo(op) == CASE op = "<<" -> ">>" [] op = ">>" -> "<<" [] OTHER -> op
Transferred(c, l, r) ==
  LET one(d, v) == Eval(d, Binop(Undo(l.op), v, l.right))
  IN  CASE r.t = "value" -> one(c, r)
        [] r.t = "range" -> Then(one(c, r.left), LAMBDA d, x :
                              Then(one(d, r.right), LAMBDA g, y : Ok(g, RangeExpr(x, y))))
        [] OTHER -> Ok(c, r)

(* binop_transfer_handle_lhs(): bits a shift would drop are masked out.      *)
TransferredLeft(l) ==
  IF l.op = ">>"
  THEN [l EXCEPT !.op = "&", !.right.v = Mask(l.left.len) * 2 ^ l.right.v]
  ELSE [l.left EXCEPT !.dt = l.dt]

(* __binop_transfer() over a value, a range or the elements of a set.        *)
TransferElems(c, l, els) ==
  LET can == FoldLeft(LAMBDA r, el : Then(r, LAMBDA d, yes :
               IF yes THEN CanTransfer(d, l, el.key) ELSE Ok(d, FALSE)), Ok(c, TRUE), els)
  IN  Then(can, LAMBDA d, yes :
        IF ~yes THEN Ok(d, [done |-> FALSE, elems |-> els])
        ELSE Then(EvalAll(d, els, LAMBDA g, el, i : Then(Transferred(g, l, el.key), LAMBDA h, k :
                    Ok(h, [el EXCEPT !.key = k]))),
                  LAMBDA g, out : Ok(g, [done |-> TRUE, elems |-> out])))
TransferBinop(c, rel) ==
  LET l == rel.left
      r == rel.right
  IN  CASE l.t # "binop" \/ r.t \notin {"value", "range", "setref"} -> Ok(c, rel)
        [] l.t = "binop" /\ r.t \in {"value", "range"} ->
             Then(CanTransfer(c, l, r), LAMBDA d, yes :
               IF ~yes THEN Ok(d, rel)
               ELSE Then(Transferred(d, l, r), LAMBDA g, x :
                      Ok(g, [rel EXCEPT !.left = TransferredLeft(l), !.right = x])))
        [] l.t = "binop" /\ r.t = "setref" ->
             IF r.set.name # "anon" THEN Ok(c, rel)
             ELSE Then(TransferElems(c, l, r.set.elems), LAMBDA d, x :
                    Ok(d, IF ~x.done THEN rel
                          ELSE [rel EXCEPT !.left = TransferredLeft(l),
                                           !.right.set.elems = x.elems]))

----------------------------------------------------------------------------
(* Maps and relations.                                                       *)

NoCtAddress(e) ==
  /\ ~(e.t = "ct" /\ e.key \in CtAddress)
  /\ e.t = "concat" => \A i \in DOMAIN e.es : ~(e.es[i].t = "ct" /\ e.es[i].key \in CtAddress)

(* expr_evaluate_map(): the set of a map written out takes its key from what *)
(* is looked up and its data from what the context asks for.                 *)
WrittenMap(c, m, e, want) ==
  LET key == Value(0, c.ectx.len, c.ectx.bo, c.ectx.dt)
      data == Value(0, want.len, IF want.dt = "integer" \/ want.dt \notin DOMAIN Types THEN want.bo
                                 ELSE Types[want.dt].bo, want.dt)
      set == Anonymous(key, data, e.mappings).set
  IN  Then(EvalSet([c EXCEPT !.set = set], e.mappings), LAMBDA d, x :
        LET ref == SetRef([d.set EXCEPT !.elems = x.elems, !.interval = IsInterval(x.elems)])
        IN  Then(TransferBinop(TypeCtx(d, key.dt, key.len), Rel("==", m, ref)), LAMBDA g, rel :
              Ok([g EXCEPT !.set = NoSet],
                 [e EXCEPT !.map = rel.left,
                           !.mappings = [rel.right EXCEPT
                              !.set.data.len = IF d.set.dinterval THEN 2 * @ ELSE @,
                              !.set.key.len = g.ectx.len]])))
EvalMap(c, e) ==
  Require(NoCtAddress(e.map), c, "specify either ip or ip6",
    Then(Eval([c EXCEPT !.ectx = NoCtx], e.map), LAMBDA d, m :
      Require(~IsConstant(m), d, "map expression can not be constant",
        Then(IF e.mappings.t = "set" THEN WrittenMap(d, m, e, c.ectx)
             ELSE Then(Eval(d, e.mappings), LAMBDA g, r : Ok(g, [e EXCEPT !.map = m, !.mappings = r])),
          LAMBDA g, x :
            Require(x.mappings.t = "setref" /\ x.mappings.set.map, g, "not a map",
              Require(m.dt = x.mappings.set.key.dt, g, "type mismatch",
                Then(IF x.mappings.set.interval THEN Convert(g, x.map, "big") ELSE Ok(g, x.map),
                     LAMBDA h, y : Ok(h, [x EXCEPT !.map = y, !.dt = x.mappings.set.data.dt]))))))))

(* expr_evaluate_relational(): hours that pass midnight are the complement   *)
(* of the hours between.                                                     *)
SwapHours(c, l, e) ==
  IF e.right.t = "range" /\ l.t = "meta" /\ l.key \in {"hour", "day"}
  THEN Then(RangeEnds(c, e.right), LAMBDA d, x :
         Ok(d, IF x.left.v > x.right.v /\ e.op \in {"==", "implicit", "!="}
               THEN [e EXCEPT !.op = IF @ = "!=" THEN "==" ELSE "!=",
                              !.right = RangeExpr(x.right, x.left)]
               ELSE [e EXCEPT !.right = x]))
  ELSE Ok(c, e)

(* What equality and order ask of the two sides.                             *)
Operands(c, op, l, r) ==
  LET both(x, y) == Then(Convert(c, x, "big"), LAMBDA d, a : Then(Convert(d, y, "big"), LAMBDA g, b :
                      Ok(g, Rel(op, a, b))))
      looked(ref) == Require(NoCtAddress(l), c, "specify either ip or ip6",
                       Then(IF ref.set.interval THEN Convert(c, l, "big") ELSE Ok(c, l),
                            LAMBDA d, a : Ok(d, Rel(op, a, ref))))
  IN  CASE op \in {"<", ">", "<=", ">="} ->
             Require(l.t # "concat" /\ IsSingleton(r), c, "undefined relation", both(l, r))
        [] op = "neg" /\ ~(r.t = "value" /\ IsBitmask(r)) -> Fail(c, "undefined negation")
        [] OTHER ->
             CASE r.t = "range" ->
                    Then(Convert(c, l, "big"), LAMBDA d, a :
                      Then(Convert(d, r.left, "big"), LAMBDA g, x :
                        Then(Convert(g, r.right, "big"), LAMBDA h, y :
                          Ok(h, Rel(op, a, [r EXCEPT !.left = x, !.right = y])))))
               [] r.t = "prefix" ->
                    Then(Convert(c, r.arg, l.bo), LAMBDA d, x : Ok(d, Rel(op, l, [r EXCEPT !.arg = x])))
               [] r.t = "value" -> Then(Convert(c, r, l.bo), LAMBDA d, x : Ok(d, Rel(op, l, x)))
               [] r.t = "set" -> Require(r.elems # <<>>, c, "empty set", looked(Anonymous(l, None, r)))
               [] r.t = "setref" -> looked(r)
               [] r.t = "concat" -> Fail(c, "concatenations need a set")
               [] OTHER -> Fail(c, "BUG")

EvalRelational(c, e) ==
  Then(Eval(c, e.left), LAMBDA d, l : Then(SwapHours(d, l, e), LAMBDA g, s :
    Then(Eval(g, s.right), LAMBDA h, r :
      Require(IsConstant(r) /\ ~IsConstant(l), h, "one side must be constant",
        Require(l.dt = r.dt, h, "type mismatch",
          LET known == IF s.op \in {"==", "implicit"}
                       THEN [h EXCEPT !.p = RelUpdate(@, Rel(s.op, l, r))] ELSE h
          IN  Then(Operands(known, s.op, l, r), TransferBinop))))))

(* expr_evaluate().                                                          *)
Eval(c, e) ==
  CASE e.t \in {"symbol", "string"} -> EvalSymbol(c, e)
    [] e.t = "setname" -> EvalSetName(c, e)
    [] e.t = "setref" -> Ok(c, e)
    [] e.t = "value" -> IF Base(e) = "string" THEN Ok(c, e) ELSE EvalInteger(c, e)
    [] e.t = "verdict" -> Primary(c, e)
    [] e.t = "payload" -> EvalPayload(c, e)
    [] e.t = "exthdr" -> EvalExthdr(c, e)
    [] e.t = "meta" -> EvalMeta(c, e)
    [] e.t = "ct" -> EvalCt(c, e)
    [] e.t = "load" -> EvalLoad(c, e)
    [] e.t = "numgen" -> EvalNumgen(c, e)
    [] e.t = "hash" -> EvalHash(c, e)
    [] e.t = "prefix" -> EvalPrefix(c, e)
    [] e.t = "range" -> EvalRange(c, e)
    [] e.t = "unary" -> EvalUnary(c, e)
    [] e.t = "binop" -> EvalBinop(c, e)
    [] e.t = "concat" -> EvalConcat(c, e)
    [] e.t = "list" -> EvalList(c, e)
    [] e.t = "set" -> EvalSet(c, e)
    [] e.t = "map" -> EvalMap(c, e)
    [] e.t = "rel" -> EvalRelational(c, e)
=============================================================================
