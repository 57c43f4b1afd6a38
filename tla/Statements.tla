----------------------------- MODULE Statements -----------------------------
(* Evaluation of the statements of a rule, in their order, and the merge of  *)
(* neighbouring matches that ends it (evaluate.c, rule.c).                   *)
(*                                                                          *)
(* A statement is a record whose "t" names its kind.  An expression a        *)
(* statement may lack is None.                                               *)
EXTENDS Evaluate

CONSTANT PortUnreach       \* the codes that stand for "port unreachable": type -> code

RECURSIVE EvalStmt(_, _)

Stateful == {"counter", "limit", "quota", "connlimit"}
FamilyNumber(fam) == CHOOSE n \in Links("inet", fam) : TRUE
Addr(fam) == CASE fam = "ip" -> "ipv4_addr" [] fam = "ip6" -> "ipv6_addr" [] OTHER -> "invalid"

----------------------------------------------------------------------------
(* stmt_evaluate_arg(): the value a statement takes, of a given type.        *)

(* stmt_prefix_conversion(): a prefix stands for its range.                  *)
PrefixRange(c, e) ==
  LET b == e.arg
      low == Binop("&", b, Value(PrefixMask(b.len, e.plen), b.len, "host", Base(b)))
      high == Binop("|", b, Value(Mask(e.len - e.plen), b.len, "host", Base(b)))
  IN  Require(b.t = "value" /\ IsNumber(b), c, "no prefix here", Eval(c, RangeExpr(low, high)))
CheckArg(c, dt, len, bo, e) ==
  LET ill == IF e.t = "payload" /\ e.dt = "integer"
             THEN Base([dt |-> dt]) \notin {"integer", "bitmask"} \/ e.len # len
             ELSE e.dt \notin {"integer", dt}
  IN  Require(~ill /\ e.t \notin {"set", "setref"}, c, "type mismatch",
        IF e.t = "prefix" THEN PrefixRange(c, e) ELSE Ok(c, e))
EvalArg(c, dt, len, bo, e) ==
  Then(Eval(SetCtx(c, dt, bo, len, 0), e), LAMBDA d, x : CheckArg(d, dt, len, bo, x))
(* An argument that may be missing.                                          *)
OptArg(c, dt, len, bo, e) == IF e = None THEN Ok(c, e) ELSE EvalArg(c, dt, len, bo, e)

(* stmt_evaluate_meta(), stmt_evaluate_ct() and stmt_evaluate_verdict().     *)
EvalKeySet(c, s, tmpl) ==
  Then(EvalArg(c, tmpl.dt, tmpl.len, tmpl.bo, s.val), LAMBDA d, x :
    Require(~(s.t = "ct" /\ s.key = "secmark" /\ IsConstant(x)), d, "must not be constant",
      Ok(d, [s EXCEPT !.val = x])))
EvalVerdict(c, s) ==
  Then(EvalArg(c, "verdict", 0, "none", s.e), LAMBDA d, x : Ok(d, [s EXCEPT !.e = x]))

(* stmt_evaluate_payload(): fields that are no whole bytes, or an odd number *)
(* of bytes below a checksum, are written with the bits around them.         *)
Widened(p) ==
  LET s == OffsetShift(p, p.off)
      size == DivRoundUp(p.len + s.extra, Byte)
      off == p.off \div Byte
      odd == Protos[p.desc].csum /\ size % 2 = 1
  IN  [size |-> IF odd THEN size + 1 ELSE size,
       off |-> IF odd /\ off % 2 = 1 THEN off - 1 ELSE off,
       shift |-> IF odd /\ off % 2 = 0 THEN s.shift + Byte ELSE s.shift]
Overwritten(c, p, w, val) ==
  LET len == w.size * Byte
      bytes == [RawPayload(p.base, w.off * Byte, len) EXCEPT !.desc = p.desc, !.bo = p.bo]
      mask == Value(Flip(Mask(p.len) * 2 ^ w.shift, len), len, "host", Base(p))
      moved == IF w.shift = 0 THEN val
               ELSE [Binop("<<", val, Value(w.shift, 1, "host", Base(p)))
                       EXCEPT !.dt = p.dt, !.bo = p.bo]
      xor == [Binop("^", Binop("&", bytes, mask), moved)
                EXCEPT !.dt = p.dt, !.bo = p.bo, !.len = len]
  IN  Eval(c, xor)
EvalPayloadStmt(c, s) ==
  Then(PayloadContext(c, s.e), LAMBDA d, p : Then(EvalArg(d, p.dt, p.len, p.bo, s.val), LAMBDA g, v :
    Then(IF IsConstant(v) THEN Ok(g, v) ELSE Convert(g, v, p.bo), LAMBDA h, val :
      LET w == Widened(p)
      IN  IF ~Adjusted(p) /\ (~Protos[p.desc].csum \/ (p.len \div Byte) % 2 = 0)
          THEN Ok(h, [s EXCEPT !.e = p, !.val = val])
          ELSE Then(Overwritten(h, p, w, val), LAMBDA k, x :
                 Ok(k, [s EXCEPT !.val = x,
                                 !.e = [p EXCEPT !.len = w.size * Byte, !.off = w.off * Byte]])))))

(* stmt_evaluate_exthdr().                                                   *)
EvalExthdrStmt(c, s) ==
  Then(EvalArg(c, s.e.dt, s.e.len, "big", s.val), LAMBDA d, x : Ok(d, [s EXCEPT !.val = x]))

----------------------------------------------------------------------------
(* Sets and maps filled by packets, meters and objects.                      *)

EvalStateful(c, stmts) ==
  EvalAll(c, stmts, LAMBDA d, x, i : Then(EvalStmt(d, x), LAMBDA g, y :
    Require(y.t \in Stateful, g, "statement must be stateful", Ok(g, y))))

(* stmt_evaluate_set() and stmt_evaluate_map().                              *)
EvalSetStmt(c, s) ==
  Then(Eval([c EXCEPT !.ectx = NoCtx], s.set), LAMBDA d, ref :
    Require(ref.t = "setref", d, "not a set",
      LET arg(g, k, e) == Then(EvalArg(g, k.dt, k.len, k.bo, e), LAMBDA h, x :
                            Require(~IsConstant(x), h, "can not be constant", Ok(h, x)))
      IN  Then(arg(d, ref.set.key, s.key), LAMBDA g, k :
            Then(IF s.data = None THEN Ok(g, None) ELSE arg(g, ref.set.data, s.data), LAMBDA h, x :
              Then(EvalStateful(h, s.stmts), LAMBDA m, stmts :
                Ok(m, [s EXCEPT !.set = ref, !.key = k, !.data = x, !.stmts = stmts]))))))

(* stmt_evaluate_meter(): a meter has a set of its own.                      *)
EvalMeter(c, s) ==
  Then(Eval([c EXCEPT !.ectx = NoCtx], s.key), LAMBDA d, k :
    Require(~IsConstant(k), d, "can not be constant",
      Then(EvalStateful(d, s.stmts), LAMBDA g, stmts :
        Ok(g, [s EXCEPT !.key = k, !.stmts = stmts,
                        !.set = SetRef([Anonymous(k, None, SetExpr(<<>>)).set EXCEPT !.name = s.name])]))))

(* stmt_evaluate_objref() and stmt_evaluate_objref_map(): an object by its   *)
(* name, or by what a map holds for the packet.                              *)
EvalObjref(c, s) ==
  IF s.e.t = "map"
  THEN Then(EvalMap(SetCtx(c, "object", "host", Types["object"].size, 0), s.e), LAMBDA d, x :
         Require(x.mappings.set.data.dt = "object", d, "not a map with objects",
           Ok(d, [s EXCEPT !.e = x])))
  ELSE Ok(c, s)

----------------------------------------------------------------------------
(* Rejects, and the protocol they need at the head of the rule.              *)

(* stmt_reject_gen_dependency().                                             *)
RejectDependency(c, s) ==
  LET needed == IF s.type = "tcp" THEN Desc(c.p, TH) = "none" ELSE Desc(c.p, NH) = "none"
      e == IF s.type = "tcp" THEN Payload("tcp", "sport")
           ELSE IF s.family = "ip" THEN Payload("ip", "protocol") ELSE Payload("ip6", "nexthdr")
  IN  IF ~needed THEN Ok(c, s)
      ELSE Then(GenDependency(c, e), LAMBDA d, m : Ok([d EXCEPT !.done = <<m>> \o @], s))

(* stmt_evaluate_reject_inet_family() and _bridge_family(): "icmp" must be   *)
(* of the family the rule is known to see.                                   *)
KnownFamily(base, desc, Num(_)) ==
  desc \in {"ip", "ip6"} /\ Links(base, desc) # {} /\ FindNum(base, desc) = Num(desc)
InetFamily(c, s) ==
  LET desc == Desc(c.p, NH)
  IN  IF desc = "none" \/ s.type # "icmp" THEN Ok(c, s)
      ELSE Require(KnownFamily(Desc(c.p, LL), desc, FamilyNumber), c, "BUG",
             Require(s.family = desc, c, "conflicting protocols", Ok(c, s)))
EtherNumber(fam) == CHOOSE n \in Links("ether", fam) : TRUE
BridgeFamily(c, s) ==
  LET desc == Desc(c.p, NH)
  IN  IF desc = "none" THEN Ok(c, s)
      ELSE Require(KnownFamily(Desc(c.p, LL), desc, EtherNumber), c, "cannot reject this family",
             Require(s.type # "icmp" \/ s.family = desc, c, "conflicting protocols", Ok(c, s)))

(* stmt_evaluate_reject_family().                                            *)
RejectFamily(c, s) ==
  LET then(r) == Then(r, LAMBDA d, x : IF s.type = "icmpx" THEN Ok(d, s) ELSE RejectDependency(d, s))
  IN  CASE c.fam \in {"ip", "ip6"} ->
             (CASE s.type = "tcp" -> RejectDependency(c, s)
                [] s.type = "icmpx" -> Fail(c, "not supported")
                [] s.type = "icmp" -> Require(s.family = c.fam, c, "conflicting protocols", Ok(c, s)))
        [] c.fam \in {"bridge", "netdev"} ->
             Require(Desc(c.p, LL) \in {"ether", "vlan", "netdev"}, c, "cannot reject here", then(BridgeFamily(c, s)))
        [] c.fam = "inet" -> then(InetFamily(c, s))

(* stmt_evaluate_reject_default(): what is known of the family decides.      *)
RejectDefault(c, s) ==
  LET desc == IF c.fam \in {"ip", "ip6"} THEN c.fam ELSE Desc(c.p, NH)
      number(f) == IF c.fam = "inet" THEN FamilyNumber(f) ELSE EtherNumber(f)
  IN  CASE desc = "none" -> [s EXCEPT !.type = "icmpx", !.code = PortUnreach["icmpx"]]
        [] c.fam \in {"ip", "ip6"} \/ KnownFamily(Desc(c.p, LL), desc, number) ->
             [s EXCEPT !.type = "icmp", !.family = desc, !.code = PortUnreach[desc]]
        [] OTHER -> [s EXCEPT !.type = "icmp"]

(* stmt_evaluate_reject() and stmt_evaluate_reset().                         *)
EvalReject(c, s) ==
  LET th == Desc(c.p, TH)
      low == IF Desc(c.p, NH) = "none" THEN "inet_service" ELSE Desc(c.p, NH)
      istcp == th = "none" \/ (Links(low, th) # {} /\ th = "tcp")
  IN  CASE s.type = "none" -> RejectFamily(c, RejectDefault(c, s))
        [] s.type = "tcp" -> Require(istcp, c, "cannot use tcp reset", RejectFamily(c, s))
        [] OTHER -> RejectFamily(c, s)

----------------------------------------------------------------------------
(* Addresses of nat, tproxy, dup and fwd.                                    *)

(* nat_evaluate_family() and nat_evaluate_transport().                       *)
NatFamily(c, s) ==
  CASE c.fam \in {"ip", "ip6"} -> IF s.family = "none" THEN c.fam ELSE s.family
    [] c.fam = "inet" /\ s.addr # None /\ s.family = "none" /\ Desc(c.p, NH) \in {"ip", "ip6"} -> Desc(c.p, NH)
    [] OTHER -> s.family
EvalPort(c, e) ==
  IF e = None THEN Ok(c, e)
  ELSE Require(Desc(c.p, TH) # "none", c, "needs a transport protocol",
         EvalArg(c, "inet_service", 2 * Byte, "big", e))

(* stmt_evaluate_l3proto() and stmt_evaluate_addr().                         *)
EvalAddr(c, fam, e) ==
  LET dt == Addr(IF c.fam = "inet" THEN fam ELSE c.fam)
  IN  IF e = None THEN Ok(c, e)
      ELSE Require(~(Desc(c.p, NH) \in {"ip", "ip6"} /\ fam # Desc(c.p, NH)), c, "conflicting protocols",
             Require(dt # "invalid", c, "ip or ip6 must be specified",
               EvalArg(c, dt, Types[dt].size, "big", e)))

(* stmt_evaluate_nat_map(): an address and a port from one map.              *)
EvalNatMap(c, s) ==
  LET dt == Addr(s.family) \o " . inet_service"
  IN  Require(Addr(s.family) # "invalid", c, "no family",
        Then(Eval(TypeCtx(c, dt, PaddedLen(Types[Addr(s.family)].size) + Reg32), s.addr), LAMBDA d, x :
          Then(CheckArg(d, dt, x.len, "big", x), LAMBDA g, y : Ok(g, [s EXCEPT !.addr = y]))))

(* stmt_evaluate_nat().                                                      *)
EvalNat(c, s) ==
  LET n == [s EXCEPT !.family = NatFamily(c, s)]
  IN  Require(c.fam \in {"ip", "ip6", "inet"}, c, "only for ip and ip6",
        IF s.concat THEN EvalNatMap(c, n)
        ELSE Then(EvalAddr(c, n.family, s.addr), LAMBDA d, a : Then(EvalPort(d, s.proto), LAMBDA g, p :
               Ok(g, [n EXCEPT !.addr = a, !.proto = p]))))

(* stmt_evaluate_tproxy().                                                   *)
EvalTproxy(c, s) ==
  LET n == [s EXCEPT !.family = IF @ = "none" /\ c.fam \in {"ip", "ip6"} THEN c.fam ELSE @]
  IN  Require(c.fam \in {"ip", "ip6", "inet"} /\ Desc(c.p, TH) # "none", c, "needs a transport protocol",
        Require({s.addr, s.proto} # {None} /\ s.addr.t # "range" /\ s.proto.t # "range", c, "no ranges",
          Then(EvalAddr(c, n.family, s.addr), LAMBDA d, a : Then(EvalPort(d, s.proto), LAMBDA g, p :
            Ok(g, [n EXCEPT !.addr = a, !.proto = p])))))

(* stmt_evaluate_dup() and stmt_evaluate_fwd().  A dup names a device as its *)
(* destination, "addr", in netdev.                                           *)
EvalDevice(c, e) == OptArg(c, "iface_index", Types["iface_index"].size, "host", e)
EvalDup(c, s) ==
  Require(s.addr # None /\ c.fam \in {"ip", "ip6", "netdev"} /\ (c.fam = "netdev" => s.dev = None), c, "unsupported",
    Then(IF c.fam = "netdev" THEN EvalDevice(c, s.addr) ELSE EvalArg(c, Addr(c.fam), Types[Addr(c.fam)].size, "big", s.addr),
         LAMBDA d, a : Then(EvalDevice(d, s.dev), LAMBDA g, x : Ok(g, [s EXCEPT !.addr = a, !.dev = x]))))
EvalFwd(c, s) ==
  LET dt == Addr(s.family)
  IN  Require(c.fam = "netdev" /\ s.dev # None /\ (s.addr # None => dt # "invalid"), c, "unsupported",
        Then(EvalDevice(c, s.dev), LAMBDA d, x :
          Then(IF s.addr = None THEN Ok(d, None) ELSE EvalArg(d, dt, Types[dt].size, "big", s.addr),
               LAMBDA g, a : Ok(g, [s EXCEPT !.dev = x, !.addr = a]))))

(* stmt_evaluate_queue() and stmt_evaluate_log().                            *)
EvalQueue(c, s) ==
  IF s.e = None THEN Ok(c, s)
  ELSE Then(EvalArg(c, "integer", 16, "host", s.e), LAMBDA d, x :
         Require(IsConstant(x) /\ (s.fanout => x.t = "range"), d, "queue number", Ok(d, [s EXCEPT !.e = x])))
EvalLog(c, s) ==
  Require(/\ s.flags \cap {"group", "snaplen", "threshold"} # {} =>
               s.flags \cap {"level", "logflags"} = {}
          /\ "audit" \in s.flags => s.flags \subseteq {"audit", "level"},
          c, "mutually exclusive", Ok(c, s))

(* stmt_evaluate().                                                          *)
EvalStmt(c, s) ==
  CASE s.t \in Stateful \cup {"notrack", "offload", "synproxy"} -> Ok(c, s)
    [] s.t = "match" -> EvalMatch(c, s.e)
    [] s.t = "verdict" -> EvalVerdict(c, s)
    [] s.t = "payload" -> EvalPayloadStmt(c, s)
    [] s.t = "exthdr" -> EvalExthdrStmt(c, s)
    [] s.t = "meta" -> EvalKeySet(c, s, MetaKeys[s.key])
    [] s.t = "ct" -> EvalKeySet(c, s, CtKeys[s.key])
    [] s.t \in {"set", "map"} -> EvalSetStmt(c, s)
    [] s.t = "meter" -> EvalMeter(c, s)
    [] s.t = "objref" -> EvalObjref(c, s)
    [] s.t = "reject" -> EvalReject(c, s)
    [] s.t = "nat" -> EvalNat(c, s)
    [] s.t = "tproxy" -> EvalTproxy(c, s)
    [] s.t = "dup" -> EvalDup(c, s)
    [] s.t = "fwd" -> EvalFwd(c, s)
    [] s.t = "queue" -> EvalQueue(c, s)
    [] s.t = "log" -> EvalLog(c, s)

----------------------------------------------------------------------------
(* rule_postprocess(): matches of adjacent fields become one match.          *)

SameOp(a, b) == LET eq(op) == IF op = "implicit" THEN "==" ELSE op IN eq(a) = eq(b)

(* constant_expr_join(): one value behind the other.  Mutant: before it.      *)
JoinSwapped(a, b) ==
  Value(Import(Export(b.v, b.bo, Bytes(b.len)) \o Export(a.v, a.bo, Bytes(a.len))), (Bytes(a.len) + Bytes(b.len)) * Byte, "none", "invalid")
JoinValues(a, b) ==
  LET n == Bytes(a.len) + Bytes(b.len)
  IN  Value(Import(Export(a.v, a.bo, Bytes(a.len)) \o Export(b.v, b.bo, Bytes(b.len))),
            n * Byte, "none", "invalid")

(* payload_do_merge() on the matches of "stmts" at the places "run": "last"  *)
(* is the one the next may be merged into.                                   *)
Before(stmts, i, j) ==
  LET a == stmts[i].e.left   b == stmts[j].e.left
  IN  a.base < b.base \/ (a.base = b.base /\ a.off < b.off)
MergeRun(stmts, run) ==
  LET step(w, i) ==
        LET last == w.at[w.last]
            this == w.at[i]
            protocol == this.e.left.prot
            keep == IF protocol THEN i ELSE w.last
            drop == IF protocol THEN w.last ELSE i
            merged == [w.at[keep] EXCEPT
                         !.e.left = [Join(last.e.left, this.e.left) EXCEPT
                                       !.prot = protocol],
                         !.e.right = JoinValues(last.e.right, this.e.right)]
        IN  IF ~CanMerge(last.e.left, this.e.left) \/ ~SameOp(last.e.op, this.e.op)
            THEN [w EXCEPT !.last = i]
            ELSE [at |-> [w.at EXCEPT ![keep] = merged], last |-> keep, gone |-> w.gone \cup {drop}]
      sorted == SortSeq(run, LAMBDA i, j : Before(stmts, i, j) \/ (~Before(stmts, j, i) /\ i < j))
      w == FoldLeft(step, [at |-> stmts, last |-> Head(sorted), gone |-> {}], Tail(sorted))
  IN  [at |-> w.at, gone |-> w.gone]

(* payload_try_merge(): a run ends at any other statement, unless it is a    *)
(* single match.                                                             *)
Mergeable(s) ==
  /\ s.e.left.t = "payload" /\ s.e.right.t = "value"
  /\ s.e.op \in {"==", "implicit", "!="}
Postprocess(stmts) ==
  LET flush(w) == LET m == MergeRun(w.at, w.run)
                  IN  IF Len(w.run) < 2 THEN w
                      ELSE [at |-> m.at, gone |-> w.gone \cup m.gone, run |-> <<>>]
      step(w, i) ==
        CASE stmts[i].t # "match" -> flush(w)
          [] stmts[i].t = "match" /\ Mergeable(stmts[i]) -> [w EXCEPT !.run = Append(@, i)]
          [] OTHER -> w
      w == flush(FoldLeft(step, [at |-> stmts, gone |-> {}, run |-> <<>>],
                          [i \in DOMAIN stmts |-> i]))
      left == SelectSeq([i \in DOMAIN stmts |-> i], LAMBDA i : i \notin w.gone)
  IN  [k \in DOMAIN left |-> w.at[left[k]]]

Terminal(s) ==
  \/ s.t \in {"reject", "nat", "fwd", "queue"}
  \/ s.t = "verdict" /\ s.e.t = "verdict" /\ s.e.v # "continue"

(* rule_evaluate().                                                          *)
EvalRule(fam, stmts) ==
  LET step(r, i) == Then(r, LAMBDA c, x :
        IF i > 1 /\ Terminal(c.done[Len(c.done)]) THEN Fail(c, "statement has no effect")
        ELSE Then(EvalStmt(c, stmts[i]), LAMBDA d, s : Ok(Insert(d, s), s)))
      r == FoldLeft(step, Ok(InitCtx(fam), None), [i \in DOMAIN stmts |-> i])
  IN  IF r.c.err # "none" THEN [err |-> r.c.err, stmts |-> <<>>, raw |-> <<>>]
      ELSE [err |-> "none", raw |-> r.c.done, stmts |-> Postprocess(r.c.done)]
=============================================================================
