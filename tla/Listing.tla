------------------------------- MODULE Listing -------------------------------
(* A rule as it is printed (expression.c, statement.c, payload.c), in the    *)
(* form in which the user's text is read again: constants become symbols,    *)
(* fields are named again, "==" is left out where the reader supplies it.    *)
EXTENDS Delinearize

RECURSIVE ExprPrint(_)

Bare == [len |-> 0, bo |-> "none", dt |-> "invalid"]

(* constant_expr_print(), of a value and of the tree of flags it may be.     *)
SymbolOf(e, v) == [t |-> "symbol", v |-> v, len |-> e.len, bo |-> "none", dt |-> "invalid"]
PrintValue(e) ==
  LET bits == BitsOf(e.v)
  IN  CASE Base(e) = "string" -> [t |-> "string", chars |-> StringOf(e).chars, wild |-> FALSE]
        [] IsTree(e) -> FoldLeft(LAMBDA l, b : Binop("|", l, SymbolOf(e, b)), SymbolOf(e, Head(bits)), Tail(bits))
        [] OTHER -> SymbolOf(e, e.v)

(* payload_expr_print(): by the name of the field, or by its place.          *)
PrintPayload(e) ==
  CASE IsKnown(e) /\ e.desc = "th" -> [PayloadTmpl("th", e.tmpl) EXCEPT !.raw = TRUE]
    [] IsKnown(e) /\ e.desc # "th" /\ e.tmpl # 0 -> PayloadTmpl(e.desc, e.tmpl)
    [] IsKnown(e) /\ e.tmpl = 0 -> [t |-> "no such field", name |-> Protos[e.desc].metakey]
    [] OTHER -> [RawPayload(e.base, e.off, e.len) EXCEPT !.bo = "big", !.raw = TRUE]

(* expr_print() by etype; set_expr_print() and map_expr_print().             *)
PrintElem(el) == [key |-> ExprPrint(el.key), data |-> IF el.data = None THEN None ELSE ExprPrint(el.data)]
ExprPrint(e) ==
  CASE e = None -> None
    [] e.t = "value" -> PrintValue(e)
    [] e.t = "string" -> [t |-> "string", chars |-> e.chars, wild |-> e.wild]
    [] e.t = "verdict" -> Verdict(e.v)
    [] e.t = "payload" -> PrintPayload(e)
    [] e.t = "meta" -> Meta(e.key)
    [] e.t = "ct" -> Ct(e.key)
    [] e.t = "unary" -> ExprPrint(e.arg)
    [] e.t = "binop" -> Binop(e.op, ExprPrint(e.left), ExprPrint(e.right))
    [] e.t = "range" -> [t |-> "range", left |-> ExprPrint(e.left), right |-> ExprPrint(e.right)] @@ Bare
    [] e.t = "prefix" -> [t |-> "prefix", arg |-> ExprPrint(e.arg), plen |-> e.plen] @@ Bare
    [] e.t = "concat" -> Concat([i \in DOMAIN e.es |-> ExprPrint(e.es[i])])
    [] e.t = "list" -> List([i \in DOMAIN e.es |-> ExprPrint(e.es[i])])
    [] e.t = "setref" -> IF e.set.name = "anon" THEN SetExpr([i \in DOMAIN e.set.elems |-> PrintElem(e.set.elems[i])])
                         ELSE [t |-> "setname", name |-> e.set.name]
    [] e.t = "map" -> MapExpr(ExprPrint(e.map), ExprPrint(e.mappings))
    [] e.t = "hash" -> [e EXCEPT !.arg = ExprPrint(@)]
    [] OTHER -> e

(* binop_expr_print() of a relation, with must_print_eq_op().                *)
MustPrintEq(e) == (e.right.t = "value" /\ IsBitmask(e.right) /\ ~IsTree(e.right)) \/ e.left.t = "binop"
PrintRel(e) ==
  Rel(IF e.op = "==" /\ ~MustPrintEq(e) THEN "implicit" ELSE e.op, ExprPrint(e.left), ExprPrint(e.right))

(* reject_stmt_print(): a reject by itself is one of its default.            *)
PrintReject(s) ==
  LET default == \/ s.type = "icmpx" /\ s.code = PortUnreach["icmpx"]
                 \/ s.type = "icmp" /\ s.family = "none"
                 \/ s.type = "icmp" /\ ~s.verbose /\ s.code = PortUnreach[s.family]
  IN  IF default THEN [t |-> "reject", type |-> "none", family |-> "none", code |-> -1]
      ELSE [t |-> "reject", type |-> s.type, family |-> IF s.type = "icmp" THEN s.family ELSE "none", code |-> s.code]

(* nat_stmt_print(), dup_stmt_print(), fwd_ and tproxy_stmt_print().          *)
PrintNat(s) == [s EXCEPT !.addr = ExprPrint(@), !.proto = ExprPrint(@)]
PrintDup(s) == [s EXCEPT !.addr = ExprPrint(@), !.dev = ExprPrint(@)]

(* set_stmt_print(), map_stmt_print(), meter_stmt_print(), objref.            *)
PrintSetStmt(s) == [s EXCEPT !.set = ExprPrint(@), !.key = ExprPrint(@), !.data = ExprPrint(@)]
PrintMeter(s) == [s EXCEPT !.set = None, !.key = ExprPrint(@)]
PrintObjref(s) == IF s.e.t = "map" THEN [s EXCEPT !.e = ExprPrint(@)] ELSE s

(* expr_stmt_print(): a match that is a map is a map of verdicts.            *)
PrintMatch(s) == IF s.e.t = "rel" THEN Match(PrintRel(s.e)) ELSE [t |-> "verdict", e |-> ExprPrint(s.e)]

(* stmt_print().                                                             *)
PrintStmt(s) ==
  CASE s.t = "match" -> PrintMatch(s)
    [] s.t = "payload" -> [s EXCEPT !.e = ExprPrint(@), !.val = ExprPrint(@)]
    [] s.t \in {"meta", "ct", "exthdr"} -> [s EXCEPT !.val = ExprPrint(@)]
    [] s.t \in {"nat", "tproxy"} -> PrintNat(s)
    [] s.t \in {"dup", "fwd"} -> PrintDup(s)
    [] s.t \in {"set", "map"} -> PrintSetStmt(s)
    [] s.t = "meter" -> PrintMeter(s)
    [] s.t = "objref" -> PrintObjref(s)
    [] s.t = "queue" -> [s EXCEPT !.e = ExprPrint(@)]
    [] s.t = "reject" -> PrintReject(s)
    [] OTHER -> s

(* rule_print().                                                             *)
PrintRule(stmts) == [i \in DOMAIN stmts |-> PrintStmt(stmts[i])]
=============================================================================
