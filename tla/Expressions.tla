---------------------------- MODULE Expressions ----------------------------
(* Expressions of rules, the data types they have and their bytes.          *)
(*                                                                          *)
(* An expression is a record whose field "t" is its etype.  All of them     *)
(* have a length in bits, a byteorder and a datatype, as struct expr has; a *)
(* value is a natural number, and data for the kernel a sequence of bytes.  *)
(* The size of a byte is a parameter: the code only ever uses               *)
(* BITS_PER_BYTE, and smaller bytes keep a whole header within TLC's        *)
(* integers.                                                                *)
EXTENDS Naturals, Sequences, FiniteSets, SequencesExt

CONSTANTS
  Byte,        \* BITS_PER_BYTE
  Types,       \* the datatypes: name -> [base, bo, size, prefix]
  Concats,     \* the types of concatenations: name -> the types of the parts
  MetaKeys,    \* meta_templates: key -> [len, bo, dt]
  CtKeys,      \* ct_templates: key -> [len, bo, dt]
  Protos       \* the proto_desc of proto.c: name -> description

Reg32 == 4 * Byte                    \* NFT_REG32_SIZE in bits
Slots == 16                          \* NFT_REG32_15 - NFT_REG32_00 + 1

DivRoundUp(n, d) == (n + d - 1) \div d
RoundUp(n, d) == DivRoundUp(n, d) * d
Bytes(len) == DivRoundUp(len, Byte)
SetMin(S) == CHOOSE n \in S : \A m \in S : n <= m
Total(ns) ==
  LET sum[i \in 0 .. Len(ns)] == IF i = 0 THEN 0 ELSE sum[i - 1] + ns[i]
  IN  sum[Len(ns)]

(* mpz_bitmask(), mpz_prefixmask().                                          *)
Mask(len) == 2 ^ len - 1
PrefixMask(len, plen) == Mask(len) - Mask(len - plen)

(* mpz_scan1() and mpz_scan0(): the first bit from n that is one, or zero;   *)
(* 31 stands for ULONG_MAX, none.                                            *)
Scan1(v, n) == SetMin({i \in n .. 30 : (v \div 2 ^ i) % 2 = 1} \cup {31})
Scan0(v, n) == SetMin({i \in n .. 30 : (v \div 2 ^ i) % 2 = 0} \cup {31})

(* netlink_register_space(), netlink_padded_len().                           *)
Space(len) == DivRoundUp(len, Reg32)
PaddedLen(len) == Space(len) * Reg32

----------------------------------------------------------------------------
(* Data: mpz_export_data(), mpz_import_data() and mpz_switch_byteorder().    *)

BigEndian(v, n) == [i \in 1 .. n |-> (v \div 2 ^ (Byte * (n - i))) % 2 ^ Byte]
Export(v, bo, n) ==
  IF bo = "host" THEN Reverse(BigEndian(v, n)) ELSE BigEndian(v, n)
Import(data) == FoldLeft(LAMBDA v, b : v * 2 ^ Byte + b, 0, data)
SwitchByteorder(v, n) == Import(Reverse(BigEndian(v, n)))
Zeros(n) == [i \in 1 .. n |-> 0]

(* netlink_export_pad(): each part of a concatenation fills whole registers. *)
ExportPad(e) ==
  Export(e.v, e.bo, Bytes(e.len)) \o Zeros((PaddedLen(e.len) \div Byte) - Bytes(e.len))

----------------------------------------------------------------------------
(* Constructors.  "none" stands for NULL.                                    *)

None == [t |-> "none", len |-> 0, bo |-> "none", dt |-> "invalid"]

Value(v, len, bo, dt) == [t |-> "value", len |-> len, bo |-> bo, dt |-> dt, v |-> v]
Unary(op, e) == [t |-> "unary", len |-> e.len, dt |-> e.dt, op |-> op, arg |-> e,
                 bo |-> IF op = "hton" THEN "big" ELSE "host"]
Binop(op, l, r) == [t |-> "binop", len |-> l.len, bo |-> l.bo, dt |-> l.dt,
                    op |-> op, left |-> l, right |-> r]
Rel(op, l, r) == [t |-> "rel", len |-> 0, bo |-> "none", dt |-> "verdict",
                  op |-> op, left |-> l, right |-> r]
RangeExpr(l, r) == [t |-> "range", len |-> l.len, bo |-> l.bo, dt |-> l.dt,
                    left |-> l, right |-> r]
Prefix(e, plen) == [t |-> "prefix", len |-> e.len, bo |-> e.bo, dt |-> e.dt,
                    arg |-> e, plen |-> plen]
Concat(es) == [t |-> "concat", len |-> 0, bo |-> "none", dt |-> "invalid", es |-> es]
(* concat_type_alloc(): the type of a concatenation names its parts, each of *)
(* which fills whole registers.                                              *)
ConcatOf(es) ==
  [Concat(es) EXCEPT
     !.dt = CHOOSE n \in DOMAIN Concats : Concats[n] = [i \in DOMAIN es |-> es[i].dt],
     !.len = Total([i \in DOMAIN es |-> PaddedLen(Types[es[i].dt].size)])]
List(es) == [t |-> "list", len |-> 0, bo |-> "none", dt |-> "bitmask", es |-> es]
Verdict(v) == [t |-> "verdict", len |-> 0, bo |-> "none", dt |-> "verdict", v |-> v]

(* set_expr_alloc() in a rule; set_ref_expr_alloc() for a set with a name.   *)
(* An element is a pair [key, data], its data None in a set.                 *)
SetExpr(elems) == [t |-> "set", len |-> 0, bo |-> "none", dt |-> "invalid",
                   elems |-> elems]
SetRef(s) == [t |-> "setref", len |-> s.key.len, bo |-> s.key.bo, dt |-> s.key.dt,
              set |-> s]
MapExpr(e, m) == [t |-> "map", len |-> 0, bo |-> "none", dt |-> "invalid",
                  map |-> e, mappings |-> m]

(* meta_expr_alloc() and ct_expr_alloc().                                    *)
ProtocolMeta == {"iiftype", "nfproto", "l4proto", "protocol"}
Meta(key) ==
  [t |-> "meta", key |-> key, len |-> MetaKeys[key].len, bo |-> MetaKeys[key].bo,
   dt |-> MetaKeys[key].dt, prot |-> key \in ProtocolMeta,
   base |-> CASE key = "l4proto" -> 2 [] key \in {"nfproto", "protocol"} -> 1
              [] OTHER -> 0]
Ct(key) ==
  [t |-> "ct", key |-> key, len |-> CtKeys[key].len, bo |-> CtKeys[key].bo,
   dt |-> CtKeys[key].dt, prot |-> key \in {"protocol", "l3proto"},
   base |-> CASE key \in {"src", "dst", "protocol"} -> 2 [] key = "l3proto" -> 1
              [] key = "proto-dst" -> 3 [] OTHER -> 0]

(* payload_expr_alloc() with a template, and for a field by its name.        *)
PayloadTmpl(p, i) ==
  LET tmpl == Protos[p].fields[i]
  IN  [t |-> "payload", base |-> Protos[p].base, off |-> tmpl.off, len |-> tmpl.len,
       bo |-> "big", dt |-> tmpl.dt, desc |-> p, tmpl |-> i,
       prot |-> \/ Protos[p].key = i
                \/ p = "ip" /\ tmpl.name = "protocol"
                \/ p = "ip6" /\ tmpl.name = "nexthdr",
       raw |-> FALSE, ev |-> FALSE]
FieldNo(p, name) ==
  CHOOSE i \in DOMAIN Protos[p].fields : Protos[p].fields[i].name = name
Payload(p, name) == PayloadTmpl(p, FieldNo(p, name))

(* payload_init_raw(): the ports are known without a protocol.               *)
RawPayload(base, off, len) ==
  LET th == {i \in DOMAIN Protos["th"].fields :
                base = 3 /\ len = 2 * Byte /\ Protos["th"].fields[i].off = off}
  IN  [t |-> "payload", base |-> base, off |-> off, len |-> len, bo |-> "none",
       desc |-> IF th = {} THEN "unknown" ELSE "th",
       tmpl |-> IF th = {} THEN 0 ELSE SetMin(th),
       dt |-> IF th = {} THEN "integer" ELSE "inet_service",
       prot |-> FALSE, raw |-> FALSE, ev |-> FALSE]

----------------------------------------------------------------------------
(* What the code asks of an expression.                                      *)

Base(e) == IF e.dt \in DOMAIN Types THEN Types[e.dt].base ELSE "invalid"
IsNumber(e) == Base(e) \in {"integer", "bitmask"}     \* expr_basetype()
IsBitmask(e) == Base(e) = "bitmask"
SingleConcat(e) == \A i \in DOMAIN e.es : e.es[i].t = "value"
ConstantParts(e) ==
  \A i \in DOMAIN e.es : e.es[i].t \in {"value", "range", "prefix"}
(* A map is flagged constant once it is evaluated.                           *)
IsConstant(e) ==
  \/ e.t \in {"value", "range", "prefix", "set", "setref", "list", "verdict", "map"}
  \/ e.t = "concat" /\ ConstantParts(e)
IsSingleton(e) == e.t = "value"
Adjusted(e) == e.off % Byte # 0 \/ e.len % Byte # 0    \* payload_needs_adjustment()
============================================================================
