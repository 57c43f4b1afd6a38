-------------------------------- MODULE Sets --------------------------------
(* Declarations of sets and maps: the types of their keys and data, flags,   *)
(* timeouts and policy, in the message of the kernel and in the user data    *)
(* that only the program itself reads.                                       *)
EXTENDS Objects, Expressions

(* A type by its name: a constant without a value.  A map has data of a type,*)
(* or names objects of a kind; verdicts have a length for the kernel only.   *)
OfType(dt) == [t |-> "value", dt |-> dt, len |-> Types[dt].size, bo |-> Types[dt].bo]
TypeExpr(dt) == IF dt \in DOMAIN Concats THEN Concat([i \in DOMAIN Concats[dt] |-> OfType(Concats[dt][i])]) ELSE OfType(dt)
ObjectData == [t |-> "value", dt |-> "string", len |-> 0, bo |-> "host"]
VerdictBytes == 16
Constant(e) == e.t = "value" \/ (e.t = "concat" /\ \A i \in DOMAIN e.es : e.es[i].t = "value")

----------------------------------------------------------------------------
(* Evaluation.                                                               *)

(* expr_evaluate_concat() of a type: without a context each part has a size, *)
(* with one there are as many parts as it has.                               *)
EvalConcat(context, e) ==
  LET parts == Range(e.es)
  IN  IF \/ \E p \in parts : p.t = "ct" /\ p.key \in {"src", "dst"}
         \/ context = "none" /\ \E p \in parts : Types[p.dt].size = 0
         \/ context # "none" /\ Len(e.es) < Len(Concats[context])
      THEN Refused ELSE Done(ConcatOf(e.es))
FieldLens(e) == [i \in DOMAIN e.es |-> Bytes(Types[e.es[i].dt].size)]

(* The data of a map; of intervals there are two, but for a concatenation.   *)
EvalData(context, s) ==
  CASE s.map = "no" -> Done(None)
    [] s.map = "obj" -> Done(ObjectData)
    [] s.map = "data" /\ s.data.t = "concat" -> EvalConcat(context, s.data)
    [] s.map = "data" /\ s.data.t # "concat" ->
         IF s.data.len = 0 /\ s.data.dt # "verdict" THEN Refused
         ELSE Done([s.data EXCEPT !.len = IF s.dinterval THEN 2 * @ ELSE @])

EvalKey(s) ==
  CASE s.key.t = "concat" -> EvalConcat("none", s.key)
    [] s.key.t # "concat" /\ s.key.len = 0 -> Refused
    [] OTHER -> Done(s.key)

(* set_evaluate().                                                           *)
EvaluateSet(s) ==
  LET key == EvalKey(s)
      data == EvalData(IF s.key.t = "concat" THEN key.stmts.dt ELSE "none", s)
      fields == "interval" \in s.flags /\ s.key.t = "concat"
      implied == (IF fields THEN {"concat"} ELSE {}) \cup (IF s.timeout # 0 THEN {"timeout"} ELSE {})
                 \cup (IF Len(s.stmts) > 1 THEN {"expr"} ELSE {})
  IN  IF (s.merge /\ "interval" \notin s.flags) \/ s.key.t = "none" THEN Refused
      ELSE IF key.err # "none" THEN key
      ELSE IF data.err # "none" THEN data
      ELSE Done([s EXCEPT !.key = key.stmts, !.data = data.stmts, !.flags = @ \cup implied]
                ++ [fields |-> IF fields THEN FieldLens(key.stmts) ELSE <<>>])

----------------------------------------------------------------------------
(* The message.                                                              *)

(* set_key_expression() with the build_udata callbacks and, for a listing,   *)
(* the parse_udata ones: what typeof was given.                              *)
PartUdata(e) ==
  CASE e.t = "payload" -> [t |-> "payload", desc |-> e.desc, tmpl |-> e.tmpl]
    [] e.t \in {"meta", "ct"} -> [t |-> e.t, key |-> e.key]
    [] e.t = "verdict" -> [t |-> "verdict"]
BuildUdata(e) ==
  CASE e.t = "none" \/ Constant(e) -> None
    [] e.t = "concat" /\ ~Constant(e) -> [t |-> "concat", es |-> [i \in DOMAIN e.es |-> PartUdata(e.es[i])]]
    [] OTHER -> PartUdata(e)
PartOfUdata(u) ==
  CASE u.t = "payload" -> PayloadTmpl(u.desc, u.tmpl)
    [] u.t = "meta" -> Meta(u.key)
    [] u.t = "ct" -> Ct(u.key)
    [] u.t = "verdict" -> [t |-> "symbol", dt |-> "invalid", len |-> VerdictBytes * Byte, bo |-> "none"]
ParseUdata(u) ==
  CASE u.t = "none" -> None
    [] u.t = "concat" -> ConcatOf([i \in DOMAIN u.es |-> PartOfUdata(u.es[i])])
    [] OTHER -> PartOfUdata(u)

(* mnl_nft_set_add(): policy and size only where the set may still change.   *)
SetMessage(s) ==
  LET varies == "constant" \notin s.flags
  IN  [t |-> "set", flags |-> s.flags, map |-> s.map, obj |-> s.obj, fields |-> s.fields,
       key |-> [dt |-> s.key.dt, len |-> Bytes(s.key.len)],
       data |-> IF s.map = "data" THEN [dt |-> s.data.dt, len |-> Bytes(s.data.len)] ELSE [dt |-> "string", len |-> 0],
       timeout |-> s.timeout, gc |-> s.gc, stmts |-> s.stmts,
       policy |-> IF varies THEN s.policy ELSE "performance", size |-> IF varies THEN s.size ELSE 0,
       udata |-> [keybo |-> s.key.bo, databo |-> IF s.map = "data" THEN s.data.bo ELSE "none", merge |-> s.merge,
                  keyof |-> BuildUdata(s.key), dataof |-> BuildUdata(s.data),
                  dinterval |-> s.dinterval, comment |-> s.comment]]

(* The kernel: verdicts are as long as they are there.                       *)
KeptSet(m) == IF m.data.dt = "verdict" THEN [m EXCEPT !.data.len = VerdictBytes] ELSE m

----------------------------------------------------------------------------
(* Listing.                                                                  *)

(* set_make_key() with set_udata_key_valid().                                *)
UdataValid(u, len) == u.t # "none" /\ Bytes(ParseUdata(u).len) = len

(* netlink_delinearize_set(): typeof of the key falls with that of the data. *)
DataTypeof(a) == UdataValid(a.udata.dataof, a.data.len)
(* Mutant: the key is not asked what became of the data.                     *)
KeyTypeofAlone(a) == UdataValid(a.udata.keyof, a.key.len)
KeyTypeof(a) == UdataValid(a.udata.keyof, a.key.len) /\ (a.map # "no" => DataTypeof(a))

ConstantOf(part, bo) == [t |-> "value", dt |-> part.dt, len |-> Byte * part.len, bo |-> bo]
SetKey(a) == IF KeyTypeof(a) THEN ParseUdata(a.udata.keyof) ELSE ConstantOf(a.key, a.udata.keybo)
SetData(a) ==
  CASE a.map = "no" -> None
    [] a.map = "obj" -> ObjectData
    [] a.map = "data" -> IF DataTypeof(a) THEN ParseUdata(a.udata.dataof) ELSE ConstantOf(a.data, a.udata.databo)

(* set_print_key_and_data(): an expression, or the name of its type where it *)
(* has a size.                                                               *)
Named(dt) == IF Types[dt].size # 0 \/ dt = "verdict" THEN OfType(dt) ELSE [t |-> "garbage"]
TypeText(dt) == IF dt \in DOMAIN Concats THEN TypeExpr(dt) ELSE Named(dt)
TypeofText(e) == IF e.t = "symbol" THEN Verdict("accept") ELSE e
KeyText(a) == IF KeyTypeof(a) THEN TypeofText(SetKey(a)) ELSE TypeText(a.key.dt)
DataText(a) ==
  CASE a.map # "data" -> None
    [] a.map = "data" /\ KeyTypeof(a) -> TypeofText(SetData(a))
    [] OTHER -> TypeText(SetData(a).dt)

(* set_print_declaration(): the flag of timeouts alone is not shown when     *)
(* there is one.                                                             *)
ShownFlags == {"constant", "dynamic", "interval", "timeout"}
FlagsText(flags, timeout) ==
  IF (flags \cap ShownFlags) \ (IF timeout # 0 THEN {"timeout"} ELSE {}) = {} THEN {} ELSE flags \cap ShownFlags
SetText(a) ==
  LET varies == "constant" \notin a.flags
  IN  [t |-> "set", map |-> a.map, obj |-> a.obj, typeof |-> KeyTypeof(a), key |-> KeyText(a), data |-> DataText(a),
       dinterval |-> a.map = "data" /\ a.udata.dinterval, flags |-> FlagsText(a.flags, a.timeout),
       policy |-> IF varies THEN a.policy ELSE "performance", size |-> IF varies THEN a.size ELSE 0,
       timeout |-> TimePrint(a.timeout), gc |-> TimePrint(a.gc), merge |-> a.udata.merge,
       stmts |-> a.stmts, comment |-> a.udata.comment]

(* set_block and map_block: a map of objects has no typeof, no map has       *)
(* statements, a merge or a gc-interval, and not every expression can be     *)
(* written to user data.                                                     *)
ParseSetText(x) ==
  IF \/ "garbage" \in {x.key.t, x.data.t} \/ (x.typeof /\ (x.map = "obj" \/ "value" \in {x.key.t, x.data.t}))
     \/ x.map # "no" /\ (x.merge \/ x.stmts # <<>> \/ TimeParse(x.gc) # 0)
  THEN Refused
  ELSE Done([f \in DOMAIN x \ {"typeof"} |-> IF f \in {"timeout", "gc"} THEN TimeParse(x[f]) ELSE x[f]])

----------------------------------------------------------------------------
(* JSON: set_print_json() with set_dtype_json(), and                         *)
(* json_parse_cmd_add_set() with json_parse_dtype_expr().  There is no       *)
(* dynamic, typeof, merge nor statement, times are seconds, and comments are *)
(* printed but not read.                                                     *)

DtypeJson(dt) == IF dt \in DOMAIN Concats THEN Concats[dt] ELSE <<dt>>
ParseDtypeJson(names) == IF Len(names) = 1 THEN OfType(names[1]) ELSE Concat([i \in DOMAIN names |-> OfType(names[i])])
JsonFlags == {"constant", "interval", "timeout"}

SetJson(a) ==
  LET varies == "constant" \notin a.flags
  IN  [t |-> "set", type |-> DtypeJson(SetKey(a).dt)]
      ++ (IF a.map = "no" THEN <<>> ELSE [map |-> IF a.map = "obj" THEN a.obj ELSE SetData(a).dt])
      ++ (IF varies /\ a.policy # "performance" THEN [policy |-> a.policy] ELSE <<>>)
      ++ (IF varies /\ a.size # 0 THEN [size |-> a.size] ELSE <<>>)
      ++ (IF a.flags \cap JsonFlags = {} THEN <<>> ELSE [flags |-> a.flags \cap JsonFlags])
      ++ (IF a.timeout = 0 THEN <<>> ELSE [timeout |-> a.timeout \div Second])
      ++ (IF a.gc = 0 THEN <<>> ELSE [gc |-> a.gc \div Second])

(* string_to_nft_object().                                                   *)
MapObjects == {"counter", "quota", "limit", "secmark"}
(* Mutant: the interval is taken as it is.                                   *)
SecondsOfTimeout(o, field) == IF field \notin DOMAIN o THEN 0 ELSE IF field = "gc" THEN o.gc ELSE o[field] * Second
Seconds(o, field) == IF field \in DOMAIN o THEN o[field] * Second ELSE 0
ParseSetJson(o) ==
  LET map == IF "map" \notin DOMAIN o THEN "no" ELSE IF o.map \in MapObjects THEN "obj" ELSE "data"
  IN  IF map = "data" /\ o.map \notin DOMAIN Types THEN Refused
      ELSE Done([t |-> "set", key |-> ParseDtypeJson(o.type), map |-> map, obj |-> IF map = "obj" THEN o.map ELSE "none",
                 data |-> IF map = "data" THEN OfType(o.map) ELSE None, dinterval |-> FALSE,
                 flags |-> IF "flags" \in DOMAIN o THEN o.flags ELSE {},
                 policy |-> IF "policy" \in DOMAIN o THEN o.policy ELSE "performance",
                 size |-> IF "size" \in DOMAIN o THEN o.size ELSE 0,
                 timeout |-> Seconds(o, "timeout"), gc |-> Seconds(o, "gc"), merge |-> FALSE, stmts |-> <<>>, comment |-> "none"])
============================================================================
