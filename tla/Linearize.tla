------------------------------ MODULE Linearize ------------------------------
(* Instructions of a rule (netlink_linearize.c): expressions are evaluated   *)
(* into registers handed out as on a stack, constants become bytes.          *)
(*                                                                          *)
(* A register is named by its first slot of 32 bits, NoReg where the         *)
(* instruction has none and Verdict for the verdict register.  The state of  *)
(* the generation is g: the first free slot "low", the instructions "out"    *)
(* and "err", which is "BUG" after a failed assertion.                       *)
EXTENDS Statements, Integers

RECURSIVE Gen(_, _, _), GenStmt(_, _)

VerdictReg == -1
NoReg == -2
InitGen == [low |-> 0, out |-> <<>>, err |-> "none"]
Emit(g, i) == [g EXCEPT !.out = Append(@, i)]
Must(ok, g) == IF ok THEN g ELSE [g EXCEPT !.err = "BUG"]

(* get_register() and release_register(): an expression takes 128 bits, a    *)
(* concatenation what its parts take.  Mutant: one register is given back.   *)
RegSize(e) == IF e.t = "concat" THEN e.len ELSE 4 * Reg32
Get(g, e) ==
  [Must(g.low + Space(RegSize(e)) <= Slots, g) EXCEPT !.low = @ + Space(RegSize(e))]
ReleaseOne(g, e) == [g EXCEPT !.low = @ - 1]
Release(g, e) == [Must(g.low >= Space(RegSize(e)), g) EXCEPT !.low = @ - Space(RegSize(e))]

(* netlink_put_register() names a register that starts 128 bits by the old   *)
(* numbers 1 to 4, any other by NFT_REG32_00 onwards.                        *)
PutRegister(r) ==
  CASE r = VerdictReg -> 0 [] r >= 0 /\ r % 4 = 0 -> 1 + r \div 4 [] r >= 0 /\ r % 4 # 0 -> 8 + r
    [] OTHER -> NoReg

----------------------------------------------------------------------------
(* Constants: netlink_gen_data().                                            *)

(* netlink_gen_constant_data(), and netlink_gen_concat_data() for the lower  *)
(* or the upper end of its parts.                                            *)
PartEnd(e, end) ==
  CASE e.t = "range" -> IF end THEN e.right ELSE e.left
    [] e.t = "prefix" -> [e.arg EXCEPT !.v = IF end THEN @ + Mask(e.len - e.plen) ELSE @]
    [] OTHER -> e
ConcatData(e, end) == FoldLeft(LAMBDA data, x : data \o ExportPad(PartEnd(x, end)), <<>>, e.es)
GenData(e) ==
  CASE e.t = "value" -> Export(e.v, e.bo, Bytes(e.len))
    [] e.t = "concat" -> ConcatData(e, FALSE)
    [] e.t \in {"range", "prefix"} ->
         ExportPad(PartEnd(e, FALSE)) \o ExportPad(PartEnd(e, TRUE))
    [] e.t = "verdict" -> e.v

----------------------------------------------------------------------------
(* Expressions.                                                              *)

(* netlink_gen_concat(): each part has the registers its length takes.       *)
GenConcat(g, e, reg) ==
  FoldLeft(LAMBDA w, x : [g |-> Gen(w.g, x, w.reg), reg |-> w.reg + Space(x.len)],
           [g |-> g, reg |-> reg], e.es).g

(* netlink_gen_payload(), _exthdr(), _meta(), _ct(), _numgen() and the other *)
(* loads; netlink_gen_hash().                                                *)
GenLoad(g, e, reg) ==
  Emit(g, CASE e.t = "payload" -> [op |-> "payload", dreg |-> PutRegister(reg), base |-> e.base,
                                   off |-> e.off \div Byte, len |-> Bytes(e.len)]
            [] e.t = "exthdr" -> [op |-> "exthdr", dreg |-> PutRegister(reg), hdr |-> e.op, desc |-> e.desc,
                                  off |-> e.off \div Byte, len |-> Bytes(e.len)]
            [] e.t = "numgen" -> [op |-> "numgen", dreg |-> PutRegister(reg), mod |-> e.mod]
            [] OTHER -> [op |-> e.t, dreg |-> PutRegister(reg), key |-> e.key])
GenHash(g, e, reg) ==
  LET h == Release(Gen(Get(g, e.arg), e.arg, g.low), e.arg)
  IN  Emit(h, [op |-> "hash", sreg |-> PutRegister(g.low), dreg |-> PutRegister(reg),
               len |-> Bytes(e.arg.len), mod |-> e.mod])

(* netlink_gen_map(): what is looked up is put where the result goes, unless *)
(* the result is a verdict.                                                  *)
GenMap(g, e, reg) ==
  LET verdict == reg = VerdictReg
      h == IF verdict THEN Get(g, e.map) ELSE g
      sreg == IF verdict THEN g.low ELSE reg
      room == IF e.map.t = "concat" THEN Space(e.map.len) ELSE 0
      k == [Gen([h EXCEPT !.low = @ + room], e.map, sreg) EXCEPT !.low = @ - room]
      lookup == [op |-> "lookup", sreg |-> PutRegister(sreg), dreg |-> PutRegister(reg),
                 set |-> e.mappings.set, inv |-> FALSE]
  IN  Emit(IF verdict THEN Release(k, e.map) ELSE k, lookup)

(* netlink_gen_lookup().                                                     *)
GenLookup(g, e) ==
  LET sreg == g.low
      h == Gen(Get(g, e.left), e.left, sreg)
  IN  Emit(Release(Must(e.right.t = "setref", h), e.left),
           [op |-> "lookup", sreg |-> PutRegister(sreg), dreg |-> NoReg, set |-> e.right.set,
            inv |-> e.op = "!="])

(* netlink_gen_range().                                                      *)
Cmp(sreg, op, data) == [op |-> "cmp", sreg |-> PutRegister(sreg), cmp |-> op, data |-> data]
GenRange(g, e) ==
  LET sreg == g.low
      h == Gen(Get(g, e.left), e.left, sreg)
      from == GenData(e.right.left)
      to == GenData(e.right.right)
  IN  Release(CASE e.op = "!=" -> Emit(h, [op |-> "range", sreg |-> PutRegister(sreg), from |-> from, to |-> to])
                [] e.op \in {"==", "implicit"} -> Emit(Emit(h, Cmp(sreg, ">=", from)), Cmp(sreg, "<=", to))
                [] OTHER -> Must(FALSE, h),
              e.left)

(* netlink_gen_flagcmp(): some of the flags are set, or none of them.        *)
Bitwise32(reg, len, mask, xor) ==
  [op |-> "bitwise", sreg |-> PutRegister(reg), dreg |-> PutRegister(reg), len |-> len, mask |-> mask, xor |-> xor]
GenFlagcmp(g, e) ==
  LET sreg == g.low
      h == Gen(Get(g, e.left), e.left, sreg)
      len == Bytes(e.left.len)
  IN  Release(Emit(Emit(h, Bitwise32(sreg, len, GenData(e.right), Zeros(len))),
                   Cmp(sreg, IF e.op = "neg" THEN "==" ELSE "!=", Zeros(len))), e.left)

(* netlink_gen_relational() with netlink_gen_prefix() and                    *)
(* netlink_gen_cmp_op(): a prefix of whole bytes compares only those.        *)
CmpOp(op) == IF op = "implicit" THEN "==" ELSE op
GenPrefix(g, e) ==
  LET sreg == g.low
      r == e.right
      len == Bytes(r.len)
      masked == Base(e.left) # "string" /\ (r.plen = 0 \/ r.plen % Byte # 0)
      left == IF masked THEN e.left ELSE [e.left EXCEPT !.len = r.plen]
      h == Gen(Get(g, e.left), left, sreg)
      mask == Export(PrefixMask(r.len, r.plen), r.bo, len)
      data == SubSeq(GenData(r.arg) \o Zeros(len), 1, IF masked THEN len ELSE Bytes(r.plen))
  IN  Emit(Release(IF masked THEN Emit(h, Bitwise32(sreg, len, mask, Zeros(len))) ELSE h, left),
           Cmp(sreg, CmpOp(e.op), data))
GenRelational(g, e) ==
  LET sreg == g.low
      plain == Gen(Get(g, e.left), e.left, sreg)
  IN  CASE e.right.t = "range" -> GenRange(g, e)
        [] e.right.t \in {"set", "setref"} -> GenLookup(g, e)
        [] e.right.t = "list" -> GenFlagcmp(g, e)
        [] e.right.t = "prefix" -> GenPrefix(g, e)
        [] OTHER ->
             IF e.op \in {"implicit", "neg"} /\ IsBitmask(e.right) THEN GenFlagcmp(g, e)
             ELSE Emit(Release(Must(e.op # "neg", plain), e.left),
                       Cmp(sreg, CmpOp(e.op), GenData(e.right)))

(* netlink_gen_shift().                                                      *)
GenShift(g, e, reg) ==
  Emit(Gen(g, e.left, reg),
       [op |-> "shift", sreg |-> PutRegister(reg), dreg |-> PutRegister(reg), shift |-> e.op, len |-> Bytes(e.len),
        data |-> Export(e.right.v, e.right.bo, 4)])

(* netlink_gen_bitwise() and combine_binop(): a chain of operations is one   *)
(* mask and one exclusive or.                                                *)
Combine(w, m, x) == [xor |-> x ^^ (w.xor & m), mask |-> w.mask & m]
RECURSIVE Chain(_)
Chain(e) == IF e.t = "binop" /\ e.op \in {"&", "|", "^"} THEN Append(Chain(e.left), e) ELSE <<e>>
GenBitwise(g, e, reg) ==
  LET chain == Chain(e)
      len == Bytes(e.len)
      step(w, x) ==
        CASE x.op = "&" -> Combine(w, x.right.v, 0)
          [] x.op = "|" -> Combine(w, Flip(x.right.v & Mask(e.len), e.len), x.right.v)
          [] x.op = "^" -> Combine(w, Mask(e.len), x.right.v)
      w == FoldLeft(step, [mask |-> Mask(e.len), xor |-> 0], Tail(chain))
  IN  Emit(Gen(g, Head(chain), reg),
           Bitwise32(reg, len, Export(w.mask, e.bo, len), Export(w.xor, e.bo, len)))

(* netlink_gen_unary(): the registers are swapped in units of 2, 4 or 8.     *)
UnitBytes(len) == CASE len % (8 * Byte) = 0 -> 8 [] len % (8 * Byte) # 0 /\ len % Reg32 = 0 -> 4 [] OTHER -> 2
GenUnary(g, e, reg) ==
  Emit(Gen(g, e.arg, reg),
       [op |-> "byteorder", sreg |-> PutRegister(reg), dreg |-> PutRegister(reg), order |-> e.op,
        len |-> e.len \div Byte, size |-> UnitBytes(e.arg.len)])

(* netlink_gen_expr().                                                       *)
Gen(g0, e, reg) ==
  LET g == Must(reg < g0.low, g0)
  IN  CASE e.t \in {"verdict", "value"} ->
             Emit(g, [op |-> "immediate", dreg |-> PutRegister(reg), data |-> GenData(e)])
        [] e.t = "unary" -> GenUnary(g, e, reg)
        [] e.t = "binop" -> IF e.op \in {"<<", ">>"} THEN GenShift(g, e, reg) ELSE GenBitwise(g, e, reg)
        [] e.t = "rel" -> GenRelational(g, e)
        [] e.t = "concat" -> GenConcat(g, e, reg)
        [] e.t = "map" -> GenMap(g, e, reg)
        [] e.t = "hash" -> GenHash(g, e, reg)
        [] OTHER -> GenLoad(g, e, reg)

----------------------------------------------------------------------------
(* Statements.                                                               *)

(* An expression evaluated into a register that is free again afterwards.    *)
Into(g, e) == Release(Gen(Get(g, e), e, g.low), e)

(* netlink_gen_payload_stmt() and payload_needs_l4csum_update_pseudohdr():    *)
(* the checksum of the header, and of the next one for an address.           *)
GenPayloadStmt(g, s) ==
  LET p == s.e
  IN  Emit(Into(g, s.val),
           [op |-> "payload_set", sreg |-> PutRegister(g.low), base |-> p.base, off |-> p.off \div Byte,
            len |-> p.len \div Byte, csum |-> p.desc \in DOMAIN Protos /\ Protos[p.desc].csum,
            pseudo |-> p.base = NH /\ p.desc \in DOMAIN Protos /\ p.tmpl \in Protos[p.desc].pseudo])

(* netlink_gen_meta_stmt(), _ct_stmt() and _exthdr_stmt().                   *)
GenKeySet(g, s) ==
  Emit(Into(g, s.val),
       [op |-> s.t \o "_set", sreg |-> PutRegister(g.low), key |-> s.key])
GenExthdrStmt(g, s) ==
  Emit(Into(g, s.val),
       [op |-> "exthdr_set", sreg |-> PutRegister(g.low), hdr |-> s.e.op, desc |-> s.e.desc,
        off |-> s.e.off \div Byte, len |-> Bytes(s.e.len)])

(* netlink_gen_set_stmt(), _map_stmt() and _meter_stmt().                    *)
GenSetStmt(g, s) ==
  LET k == Gen(Get(g, s.key), s.key, g.low)
      h == IF s.data = None THEN Release(k, s.key)
           ELSE Release(Release(Gen(Get(k, s.data), s.data, k.low), s.key), s.data)
  IN  Emit(h, [op |-> "dynset", sreg |-> PutRegister(g.low),
               sdata |-> IF s.data = None THEN NoReg ELSE PutRegister(k.low),
               dynop |-> s.op, set |-> s.set.set, stmts |-> s.stmts])

(* netlink_gen_objref_stmt(): the register keeps its own number.             *)
GenObjref(g, s) ==
  IF s.e.t = "map"
  THEN Emit(Into(g, s.e.map), [op |-> "objref", sreg |-> 1 + g.low, set |-> s.e.mappings.set, kind |-> s.kind])
  ELSE Emit(g, [op |-> "objref", sreg |-> NoReg, name |-> s.e, kind |-> s.kind])

(* netlink_gen_log_stmt(): with a group there is no level.                   *)
GenLog(g, s) ==
  Emit(g, [op |-> "log",
           flags |-> IF "group" \in s.flags THEN s.flags \ {"level", "logflags"}
                     ELSE s.flags \ {"snaplen", "threshold"}])

(* netlink_gen_nat_stmt(): "taken" registers are released together; an       *)
(* address range and a port behind the address lie in its own register.      *)
AddrSlots(fam) == Space(Types[Addr(fam)].size)
GenEnds(g, e) ==           \* a value, or the two ends of a range
  LET lo == Get(g, None)
      hi == Get(lo, None)
  IN  CASE e = None -> [g |-> g, min |-> NoReg, max |-> NoReg]
        [] e.t = "range" -> [g |-> Gen(Gen(hi, e.left, g.low), e.right, lo.low), min |-> g.low, max |-> lo.low]
        [] OTHER -> [g |-> Gen(lo, e, g.low), min |-> g.low, max |-> NoReg]
GenNat(g, s) ==
  LET a == GenEnds(g, s.addr)
      spread == s.addr.t = "map" /\ s.addr.mappings.set.dinterval
      b == IF spread THEN [a EXCEPT !.g = Get(a.g, None), !.max = a.min + AddrSlots(s.family)] ELSE a
      p == GenEnds(b.g, s.proto)
      last == IF spread THEN b.max ELSE b.min
  IN  Emit([p.g EXCEPT !.low = g.low],
           [op |-> "nat", kind |-> s.kind, family |-> s.family,
            amin |-> PutRegister(b.min), amax |-> PutRegister(b.max),
            pmin |-> IF s.concat THEN PutRegister(last + AddrSlots(s.family)) ELSE PutRegister(p.min),
            pmax |-> PutRegister(p.max)])

(* netlink_gen_tproxy_stmt(), _dup_stmt() and _fwd_stmt().                   *)
GenTproxy(g, s) ==
  LET a == GenEnds(g, s.addr)
      p == GenEnds(a.g, s.proto)
  IN  Emit([p.g EXCEPT !.low = g.low],
           [op |-> "tproxy", family |-> s.family, amin |-> PutRegister(a.min), pmin |-> PutRegister(p.min)])
GenDup(g, s) ==
  LET first == IF s.t = "dup" THEN s.addr ELSE s.dev
      second == IF s.t = "dup" THEN s.dev ELSE s.addr
      a == Gen(Get(g, first), first, g.low)
      b == IF second = None THEN a ELSE Release(Gen(Get(a, second), second, a.low), second)
      r1 == PutRegister(g.low)
      r2 == IF second = None THEN NoReg ELSE PutRegister(a.low)
      device == first.dt = "iface_index"
  IN  Emit(Release(b, first),
           [op |-> s.t, addr |-> IF device THEN r2 ELSE r1, dev |-> IF device THEN r1 ELSE r2, family |-> s.family])

(* netlink_gen_queue_stmt(): the number of queues is a 16 bit number.        *)
GenQueue(g, s) ==
  LET lo == IF s.e = None THEN 0 ELSE PartEnd(s.e, FALSE).v
      hi == IF s.e = None THEN 0 ELSE PartEnd(s.e, TRUE).v
  IN  Emit(g, [op |-> "queue", num |-> lo, total |-> (hi - lo + 1) % 2 ^ 16])

(* netlink_gen_stmt().                                                       *)
GenStmt(g, s) ==
  CASE s.t \in {"match", "verdict"} -> Gen(g, s.e, VerdictReg)
    [] s.t = "payload" -> GenPayloadStmt(g, s)
    [] s.t = "exthdr" -> GenExthdrStmt(g, s)
    [] s.t \in {"meta", "ct"} -> GenKeySet(g, s)
    [] s.t \in {"set", "map", "meter"} -> GenSetStmt(g, s)
    [] s.t = "objref" -> GenObjref(g, s)
    [] s.t = "reject" -> Emit(g, [op |-> "reject", type |-> s.type, code |-> s.code])
    [] s.t = "nat" -> GenNat(g, s)
    [] s.t = "tproxy" -> GenTproxy(g, s)
    [] s.t \in {"dup", "fwd"} -> GenDup(g, s)
    [] s.t = "queue" -> GenQueue(g, s)
    [] s.t = "log" -> GenLog(g, s)
    [] OTHER -> Emit(g, [op |-> s.t, arg |-> s.arg])     \* counters, limits, quotas, notrack, ...

(* netlink_linearize_rule().                                                 *)
LinearizeRule(stmts) == FoldLeft(GenStmt, InitGen, stmts)
=============================================================================
