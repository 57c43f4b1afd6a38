--------------------------------- MODULE Json ---------------------------------
(* A rule as "nft -j" prints it (json.c) and reads it (parser_json.c).       *)
(*                                                                           *)
(* An object of one member is [j |-> "object", k |-> its name, a |-> what it *)
(* holds]; a string says from which names it is drawn: those of internet     *)
(* protocols, of other values, of sets ("@") or free text.                   *)
EXTENDS Listing, Rates

CONSTANT LoadKind      \* the expression a key of Loads belongs to: "fib", "rt", ...

RECURSIVE ExprJson(_), ParseJson(_, _), ParseStmt(_)

Null == [j |-> "null"]
Number(v) == [j |-> "integer", v |-> v]
String(of, s) == [j |-> "string", of |-> of, s |-> s]
Array(es) == [j |-> "array", es |-> es]
Object(k, a) == [j |-> "object", k |-> k, a |-> a]

----------------------------------------------------------------------------
(* Printing.                                                                 *)

(* datatype_json(): some protocols have names, unless numbers are asked for. *)
ProtocolNames == {1, 6, 7, 12}
ConstantJson(e, numeric) ==
  CASE Base(e) = "string" -> String("text", [chars |-> StringOf(e).chars, wild |-> FALSE])
    [] e.dt = "inet_proto" /\ e.v \in ProtocolNames /\ ~numeric -> String("protocol", e.v)
    [] OTHER -> Number(e.v)

(* payload_expr_json().                                                      *)
PayloadJson(e) ==
  Object("payload",
    IF IsKnown(e) THEN [protocol |-> e.desc, field |-> Protos[e.desc].fields[e.tmpl].name]
    ELSE [base |-> e.base, offset |-> e.off, len |-> e.len])

(* exthdr_expr_json(), verdict_expr_json(), and rt_expr_json() to            *)
(* fib_expr_json().                                                          *)
ExthdrName == "exthdr" :> "exthdr" @@ "tcpopt" :> "tcp option" @@ "ipopt" :> "ip option"
ExthdrJson(e) == Object(ExthdrName[e.op], [name |-> e.desc, field |-> e.name])
VerdictJson(e) == Object(e.v, Null)
LoadJson(e) == Object(LoadKind[e.key], [key |-> e.key])

(* set_expr_json(), mapping_expr_json() and map_expr_json().                 *)
ElemJson(el) == IF el.data = None THEN ExprJson(el.key) ELSE Array(<<ExprJson(el.key), ExprJson(el.data)>>)
MapJson(e) ==
  Object(IF e.mappings.set.data.dt = "verdict" THEN "vmap" ELSE "map",
         [key |-> ExprJson(e.map), data |-> ExprJson(e.mappings)])

(* The json callbacks of expressions.                                        *)
ExprJson(e) ==
  CASE e.t = "value" -> ConstantJson(e, FALSE)
    [] e.t = "symbol" -> String("name", e.v)
    [] e.t = "string" -> String("text", [chars |-> e.chars, wild |-> e.wild])
    [] e.t = "verdict" -> VerdictJson(e)
    [] e.t = "payload" -> PayloadJson(e)
    [] e.t = "exthdr" -> ExthdrJson(e)
    [] e.t \in {"meta", "ct"} -> Object(e.t, [key |-> e.key])
    [] e.t = "load" -> LoadJson(e)
    [] e.t = "numgen" -> Object("numgen", [mod |-> e.mod])
    [] e.t = "hash" -> Object("jhash", [mod |-> e.mod, expr |-> ExprJson(e.arg)])
    [] e.t = "unary" -> ExprJson(e.arg)
    [] e.t = "binop" -> Object(e.op, <<ExprJson(e.left), ExprJson(e.right)>>)
    [] e.t = "range" -> Object("range", <<ConstantJson(e.left, TRUE), ConstantJson(e.right, TRUE)>>)
    [] e.t = "prefix" -> Object("prefix", [addr |-> ExprJson(e.arg), len |-> e.plen])
    [] e.t = "concat" -> Object("concat", Array([i \in DOMAIN e.es |-> ExprJson(e.es[i])]))
    [] e.t = "list" -> Array([i \in DOMAIN e.es |-> ExprJson(e.es[i])])
    [] e.t = "setref" -> IF e.set.name = "anon"
                         THEN Object("set", Array([i \in DOMAIN e.set.elems |-> ElemJson(e.set.elems[i])]))
                         ELSE String("@", e.set.name)
    [] e.t = "map" -> MapJson(e)

Given(name, e) == IF e = None THEN <<>> ELSE name :> ExprJson(e)

(* quota_stmt_json(), limit_stmt_json(), counter_ and connlimit_stmt_json(). *)
StatefulJson(s) ==
  CASE s.t = "quota" -> Object("quota", RateJson(s.arg.bytes) @@ [inv |-> s.arg.inv])
    [] s.t = "limit" ->
         Object("limit",
           IF s.arg.type = "bytes"
           THEN [rate |-> RateJson(s.arg.rate).val, rate_unit |-> RateUnit(s.arg.rate), burst |-> RateJson(s.arg.burst).val,
                 burst_unit |-> RateUnit(s.arg.burst), per |-> s.arg.unit, inv |-> s.arg.inv]
           ELSE [rate |-> s.arg.rate, burst |-> s.arg.burst, per |-> s.arg.unit, inv |-> s.arg.inv])
    [] s.t = "counter" -> Object("counter", [packets |-> s.arg])
    [] s.t = "connlimit" -> Object("ct count", [val |-> s.arg])

(* nat_stmt_json(), tproxy_stmt_json(), dup_stmt_json() and fwd_stmt_json(). *)
FamilyJson(fam) == IF fam \in {"ip", "ip6"} THEN "family" :> fam ELSE <<>>
NatJson(s) ==
  Object(s.kind, FamilyJson(s.family) @@ Given("addr", s.addr) @@ Given("port", s.proto)
                   @@ (IF s.concat THEN "type_flags" :> "concat" ELSE <<>>))
TproxyJson(fam, s) ==
  Object("tproxy", (IF fam = "inet" THEN FamilyJson(s.family) ELSE <<>>) @@ Given("addr", s.addr) @@ Given("port", s.proto))
DupJson(s) == Object("dup", Given("addr", s.addr) @@ Given("dev", s.dev))
FwdJson(s) ==
  Object("fwd", Given("dev", s.dev) @@ (IF s.addr = None THEN <<>> ELSE FamilyJson(s.family) @@ Given("addr", s.addr)))

(* reject_stmt_json().                                                       *)
RejectJson(s) ==
  CASE s.type = "tcp" -> Object("reject", [type |-> "tcp reset"])
    [] s.type = "icmpx" -> Object("reject", [type |-> "icmpx", expr |-> Number(s.code)])
    [] s.type = "icmp" /\ s.family = "ip" -> Object("reject", [type |-> "icmp", expr |-> Number(s.code)])
    [] s.type = "icmp" /\ s.family = "ip6" -> Object("reject", [type |-> "icmpv6", expr |-> Number(s.code)])
    [] OTHER -> Object("reject", Null)

(* relational_expr_json(): "in" stands for no operator.                      *)
MatchJson(e) ==
  IF e.t = "rel" THEN Object("match", [op |-> IF e.op = "implicit" THEN "in" ELSE e.op,
                                       left |-> ExprJson(e.left), right |-> ExprJson(e.right)])
  ELSE ExprJson(e)

(* set_stmt_json() leaves the statements of the element out; a meter has one.*)
SetJson(s) == Object("set", [op |-> s.op, elem |-> ExprJson(s.key), set |-> String("@", s.set.set.name)])
MeterJson(s) ==
  LET stmt == Head(s.stmts)
  IN  Object("meter", [key |-> ExprJson(s.key), name |-> s.set.set.name,
                       stmt |-> IF stmt.t = "counter" THEN Object("counter", Null) ELSE StatefulJson(stmt)])

(* queue_stmt_json() and log_stmt_json().                                    *)
QueueJson(s) == Object("queue", Given("num", s.e) @@ (IF s.fanout THEN "flags" :> {"fanout"} ELSE <<>>))
LogJson(s) == Object("log", IF s.flags = {} THEN Null ELSE [flag \in s.flags |-> Number(1)])

(* stmt_print_json(): a statement without a callback is printed as text.     *)
StmtJson(fam, s) ==
  CASE s.t = "match" -> MatchJson(s.e)
    [] s.t = "verdict" -> ExprJson(s.e)
    [] s.t \in Stateful -> StatefulJson(s)
    [] s.t \in {"payload", "exthdr"} -> Object("mangle", [key |-> ExprJson(s.e), value |-> ExprJson(s.val)])
    [] s.t \in {"meta", "ct"} -> Object("mangle", [key |-> Object(s.t, [key |-> s.key]), value |-> ExprJson(s.val)])
    [] s.t = "nat" -> NatJson(s)
    [] s.t = "tproxy" -> TproxyJson(fam, s)
    [] s.t = "dup" -> DupJson(s)
    [] s.t = "fwd" -> FwdJson(s)
    [] s.t = "reject" -> RejectJson(s)
    [] s.t = "set" -> SetJson(s)
    [] s.t = "meter" -> MeterJson(s)
    [] s.t = "objref" -> Object(s.kind, ExprJson(s.e))
    [] s.t = "queue" -> QueueJson(s)
    [] s.t = "log" -> LogJson(s)
    [] s.t = "notrack" -> Object("notrack", Null)
    [] OTHER -> String("text", s)

(* rule_print_json().                                                        *)
RuleJson(fam, stmts) == [i \in DOMAIN stmts |-> StmtJson(fam, stmts[i])]

----------------------------------------------------------------------------
(* Reading expressions.  The flags say where an expression stands, all that  *)
(* are around it; an expression is read only where all of them allow it.     *)

Refused == [t |-> "refused"]
AllRead(es, e) == IF \E i \in DOMAIN es : es[i] = Refused THEN Refused ELSE e

(* The table of json_parse_expr().                                           *)
Anywhere == {"STMT", "PRIMARY", "SET_RHS", "SES", "MAP", "CONCAT"}
Operators == {"|", "^", "&", ">>", "<<"}
Verdicts == {"accept", "drop", "continue", "jump", "goto", "return"}
Allowed(k) ==
  CASE k = "concat" -> {"RHS", "STMT", "DTYPE", "SET_RHS", "SES", "MAP"}
    [] k = "set" -> {"RHS", "STMT"}
    [] k = "map" -> {"STMT", "PRIMARY", "SET_RHS"}
    [] k \in {"prefix", "range"} -> {"RHS", "SET_RHS", "STMT", "CONCAT"}
    [] k \in {"payload", "meta", "ct"} -> Anywhere \cup {"MANGLE"}
    [] k \in {"rt", "numgen", "jhash"} -> Anywhere
    [] k \in {"exthdr", "fib"} -> Anywhere \ {"STMT"}
    [] k \in {"tcp option", "ip option"} -> {"PRIMARY", "SET_RHS", "MANGLE", "SES", "CONCAT"}
    [] k = "osf" -> {"STMT", "PRIMARY", "MAP", "CONCAT"}
    [] k = "ipsec" -> {"PRIMARY", "MAP", "CONCAT"}
    [] k = "socket" -> {"PRIMARY", "CONCAT"}
    [] k \in Operators -> Anywhere \cup {"RHS"}
    [] k \in Verdicts -> {"RHS", "SET_RHS"}
    [] OTHER -> {}

(* json_parse_immediate(): a name of a protocol is a constant at once.       *)
Immediate(j) ==
  CASE j.j = "integer" -> [t |-> "symbol", v |-> j.v]
    [] j.j = "string" /\ j.of = "@" -> [t |-> "setname", name |-> j.s]
    [] j.j = "string" /\ j.of = "protocol" -> Value(j.s, Byte, "host", "inet_proto")
    [] j.j = "string" /\ j.of = "text" -> [t |-> "string", chars |-> j.s.chars, wild |-> j.s.wild]
    [] j.j = "string" /\ j.of = "name" -> [t |-> "symbol", v |-> j.s]
    [] OTHER -> Refused
Untyped == [len |-> 0, bo |-> "none", dt |-> "invalid"]
Operand(e) == IF e.t = "symbol" THEN e @@ Untyped ELSE e

(* json_parse_payload_expr(), json_parse_exthdr_expr(), and the expressions  *)
(* of TCP and IP options: fields are found by their names.                   *)
ParsePayloadJson(a) ==
  CASE "base" \in DOMAIN a -> [RawPayload(a.base, a.offset, a.len) EXCEPT !.bo = "big", !.raw = TRUE]
    [] "protocol" \in DOMAIN a -> [Payload(a.protocol, a.field) EXCEPT !.raw = a.protocol = "th"]
NamedField(a) ==
  LET found == {x \in ExtFields : x.desc = a.name /\ x.name = a.field}
  IN  IF found = {} THEN Refused ELSE CHOOSE x \in found : TRUE
ParseExthdrJson(a) == NamedField(a)
ParseOptionJson(a) == NamedField(a)

(* json_parse_meta_expr() and json_parse_ct_expr().                          *)
ParseMetaJson(a) == Meta(a.key)
ParseCtJson(a) == Ct(a.key)

(* json_parse_rt_expr(), _fib_, _socket_, _osf_ and _xfrm_expr().            *)
ParseLoadJson(key) == [t |-> "load", key |-> key, len |-> Loads[key].len, bo |-> Loads[key].bo, dt |-> Loads[key].dt]

(* json_parse_set_expr(): an element of two is one of a map.                 *)
ParseElem(flags, j) ==
  LET pair == j.j = "array" /\ Len(j.es) = 2
      k == ParseJson(flags \cup {"RHS"}, IF pair THEN j.es[1] ELSE j)
      d == IF pair THEN ParseJson(flags \cup {"SET_RHS"}, j.es[2]) ELSE None
  IN  AllRead(<<k, d>>, [key |-> k, data |-> d])
ParseSetJson(flags, a) ==
  IF a.j # "array" THEN Immediate(a)
  ELSE LET es == [i \in DOMAIN a.es |-> ParseElem(flags, a.es[i])]
       IN  AllRead(es, SetExpr(es))

(* json_parse_map_expr().                                                    *)
ParseMapJson(flags, a) ==
  LET k == ParseJson(flags \cup {"MAP"}, a.key)
      d == ParseJson(flags \cup {"RHS"}, a.data)
  IN  AllRead(<<k, d>>, MapExpr(k, d))

(* json_parse_numgen_expr() and json_parse_hash_expr().                      *)
Counted(t, a) == [t |-> t, mod |-> a.mod, dt |-> "integer", len |-> Reg32, bo |-> "host"]
ParseNumgenJson(a) == Counted("numgen", a)
ParseHashJson(flags, a) ==
  LET e == ParseJson(flags, a.expr) IN AllRead(<<e>>, [arg |-> e] @@ Counted("hash", a))

(* json_parse_binop_expr(), _concat_, _prefix_ and _range_expr().            *)
ParseCompound(flags, k, a) ==
  LET primary(j) == Operand(ParseJson(flags \cup {"PRIMARY"}, j))
      part(j) == ParseJson(flags \cup {"CONCAT"}, j)
  IN  CASE k \in Operators -> LET l == primary(a[1])   r == primary(a[2])
                              IN  AllRead(<<l, r>>, Binop(k, l, r))
        [] k = "range" -> LET l == primary(a[1])   r == primary(a[2])
                          IN  AllRead(<<l, r>>, [t |-> "range", left |-> l, right |-> r] @@ Untyped)
        [] k = "prefix" -> LET l == primary(a.addr)
                           IN  AllRead(<<l>>, [t |-> "prefix", arg |-> l, plen |-> a.len] @@ Untyped)
        [] k = "concat" -> LET es == [i \in DOMAIN a.es |-> part(a.es[i])] IN AllRead(es, Concat(es))

(* json_parse_expr().                                                        *)
ParseObject(flags, k, a) ==
  CASE k = "payload" -> ParsePayloadJson(a)
    [] k = "exthdr" -> ParseExthdrJson(a)
    [] k \in {"tcp option", "ip option"} -> ParseOptionJson(a)
    [] k = "meta" -> ParseMetaJson(a)
    [] k = "ct" -> ParseCtJson(a)
    [] k = "numgen" -> ParseNumgenJson(a)
    [] k \in {"fib", "socket", "osf", "rt", "ipsec"} -> ParseLoadJson(a.key)
    [] k = "set" -> ParseSetJson(flags, a)
    [] k = "map" -> ParseMapJson(flags, a)
    [] k = "jhash" -> ParseHashJson(flags, a)
    [] k \in Verdicts -> Verdict(k)
    [] OTHER -> ParseCompound(flags, k, a)
ParseJson(flags, j) ==
  CASE j.j = "array" ->
         LET es == [i \in DOMAIN j.es |-> ParseJson(flags, j.es[i])]
         IN  IF flags \cap {"RHS", "STMT"} = {} \/ "PRIMARY" \in flags THEN Refused ELSE AllRead(es, List(es))
    [] j.j = "object" -> IF flags \subseteq Allowed(j.k) THEN ParseObject(flags, j.k, j.a) ELSE Refused
    [] OTHER -> Immediate(j)

----------------------------------------------------------------------------
(* Reading statements.                                                       *)

InStmt(j) == ParseJson({"STMT"}, j)
OptStmt(a, name) == IF name \in DOMAIN a THEN InStmt(a[name]) ELSE None
Member(a, name, default) == IF name \in DOMAIN a THEN a[name] ELSE default

(* json_parse_match_stmt().                                                  *)
ParseMatch(a) ==
  LET l == ParseJson({}, a.left)
      r == ParseJson({"RHS"}, a.right)
  IN  AllRead(<<l, r>>, Match(Rel(IF a.op = "in" THEN "implicit" ELSE a.op, l, r)))

(* json_parse_mangle_stmt().                                                 *)
ParseMangle(a) ==
  LET k == ParseJson({"MANGLE"}, a.key)
      v == InStmt(a.value)
  IN  AllRead(<<k, v>>,
        CASE k.t \in {"payload", "exthdr"} -> [t |-> k.t, e |-> k, val |-> v]
          [] k.t = "ct" /\ k.key = "helper" -> [t |-> "objref", kind |-> "ct helper", e |-> v]
          [] k.t \in {"meta", "ct"} -> [t |-> k.t, key |-> k.key, val |-> v]
          [] OTHER -> Refused)

(* json_parse_counter_stmt(), _quota_, _limit_ and _connlimit_stmt(), which  *)
(* take what is no description of one as the name of an object.  Mutant:     *)
(* the unit of a burst is left out.                                          *)
ParseObjectRef(k, j) == LET e == InStmt(j) IN AllRead(<<e>>, [t |-> "objref", kind |-> k, e |-> e])
ParseCounter(a) == [t |-> "counter", arg |-> IF a = Null THEN 0 ELSE a.packets]
ParseQuota(a) == [t |-> "quota", arg |-> [bytes |-> RateOf(a), inv |-> a.inv]]
ParseLimitOne(a) ==
  LET bytes == "rate_unit" \in DOMAIN a
  IN  [t |-> "limit", arg |-> [type |-> IF bytes THEN "bytes" ELSE "packets",
                               rate |-> IF bytes THEN a.rate * RateBytes[a.rate_unit] ELSE a.rate,
                               burst |-> a.burst, unit |-> a.per, inv |-> a.inv]]
ParseLimit(a) ==
  LET bytes == "rate_unit" \in DOMAIN a
  IN  [t |-> "limit", arg |-> [type |-> IF bytes THEN "bytes" ELSE "packets",
                               rate |-> IF bytes THEN a.rate * RateBytes[a.rate_unit] ELSE a.rate,
                               burst |-> IF bytes THEN a.burst * RateBytes[a.burst_unit] ELSE a.burst,
                               unit |-> a.per, inv |-> a.inv]]

(* json_parse_nat_stmt(), _tproxy_, _dup_ and _fwd_stmt().                   *)
ParseNatJson(k, a) ==
  LET addr == OptStmt(a, "addr")   port == OptStmt(a, "port")
  IN  AllRead(<<addr, port>>, [t |-> "nat", kind |-> k, family |-> Member(a, "family", "none"), addr |-> addr,
                               proto |-> port, concat |-> Member(a, "type_flags", "none") = "concat"])
ParseTproxyJson(a) ==
  LET addr == OptStmt(a, "addr")   port == OptStmt(a, "port")
  IN  AllRead(<<addr, port>>, [t |-> "tproxy", family |-> Member(a, "family", "none"), addr |-> addr, proto |-> port])
ParseDupJson(a) ==
  LET addr == IF "addr" \in DOMAIN a THEN InStmt(a.addr) ELSE Refused
      dev == OptStmt(a, "dev")
  IN  AllRead(<<addr, dev>>, [t |-> "dup", family |-> "none", addr |-> addr, dev |-> dev])
ParseFwdJson(a) ==
  LET dev == InStmt(a.dev)
      addr == IF "family" \in DOMAIN a THEN OptStmt(a, "addr") ELSE None
  IN  AllRead(<<dev, addr>>, [t |-> "fwd", family |-> Member(a, "family", "none"), addr |-> addr, dev |-> dev])

(* json_parse_reject_stmt().                                                 *)
ParseRejectJson(a) ==
  LET code == IF "expr" \in DOMAIN a THEN Immediate(a.expr) ELSE None
      type == Member(a, "type", "none")
      reject(t, fam) == [t |-> "reject", type |-> t, family |-> fam, code |-> IF code = None THEN -1 ELSE code.v]
  IN  CASE type = "tcp reset" -> reject("tcp", "none")
        [] type = "icmp" -> reject("icmp", "ip")
        [] type = "icmpv6" -> reject("icmp", "ip6")
        [] OTHER -> reject(type, "none")

(* json_parse_set_stmt() and json_parse_meter_stmt().                        *)
ParseSetStmt(a) ==
  LET k == ParseJson({"SES"}, a.elem)
  IN  AllRead(<<k>>, [t |-> "set", op |-> a.op, key |-> k, data |-> None, set |-> Immediate(a.set), stmts |-> <<>>])
ParseMeterJson(a) ==
  LET k == ParseJson({"SES"}, a.key)
      s == ParseStmt(a.stmt)
  IN  AllRead(<<k, s>>, [t |-> "meter", op |-> "add", name |-> a.name, set |-> None, key |-> k, data |-> None, stmts |-> <<s>>])

(* json_parse_queue_stmt() and json_parse_log_stmt().                        *)
ParseQueueJson(a) ==
  LET e == OptStmt(a, "num") IN AllRead(<<e>>, [t |-> "queue", e |-> e, fanout |-> "flags" \in DOMAIN a])
ParseLogJson(a) == [t |-> "log", flags |-> IF a = Null THEN {} ELSE DOMAIN a]

(* json_parse_stmt(), with the map of verdicts, an expression.               *)
ObjectKinds == {"ct helper", "ct timeout", "ct expectation", "synproxy", "counter", "quota", "limit"}
ParseStmtObject(k, a) ==
  CASE k = "vmap" -> LET e == ParseMapJson({}, a) IN AllRead(<<e>>, [t |-> "verdict", e |-> e])
    [] k \in Verdicts -> [t |-> "verdict", e |-> Verdict(k)]
    [] k = "match" -> ParseMatch(a)
    [] k = "mangle" -> ParseMangle(a)
    [] k = "counter" /\ (a = Null \/ "packets" \in DOMAIN a) -> ParseCounter(a)
    [] k = "quota" /\ "val" \in DOMAIN a -> ParseQuota(a)
    [] k = "limit" /\ "rate" \in DOMAIN a -> ParseLimit(a)
    [] k = "ct count" -> [t |-> "connlimit", arg |-> a.val]
    [] k \in ObjectKinds -> ParseObjectRef(k, a)
    [] k \in {"snat", "dnat", "masquerade", "redirect"} -> ParseNatJson(k, a)
    [] k = "tproxy" -> ParseTproxyJson(a)
    [] k = "dup" -> ParseDupJson(a)
    [] k = "fwd" -> ParseFwdJson(a)
    [] k = "notrack" -> [t |-> "notrack", arg |-> 0]
    [] k = "reject" -> ParseRejectJson(a)
    [] k = "set" -> ParseSetStmt(a)
    [] k = "meter" -> ParseMeterJson(a)
    [] k = "queue" -> ParseQueueJson(a)
    [] k = "log" -> ParseLogJson(a)
    [] OTHER -> Refused
ParseStmt(j) == IF j.j = "object" THEN ParseStmtObject(j.k, j.a) ELSE Refused

(* json_parse_cmd_add_rule().                                                *)
ParseRuleJson(js) ==
  LET stmts == [i \in DOMAIN js |-> ParseStmt(js[i])]
  IN  IF \E i \in DOMAIN stmts : stmts[i] = Refused THEN [err |-> "json", stmts |-> <<>>] ELSE [err |-> "none", stmts |-> stmts]
=============================================================================
