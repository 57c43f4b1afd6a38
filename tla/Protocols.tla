----------------------------- MODULE Protocols -----------------------------
(* The protocol context of a rule: which header each layer is known to      *)
(* hold, how matches teach it, and how matches that only repeat it are left *)
(* out when a rule is listed (proto.c, payload.c).                          *)
EXTENDS Expressions

CONSTANTS
  IcmpDep,     \* icmp_dep_to_type(): the type a field's dependency asks for
  EtherDev     \* ARPHRD_ETHER

LL == 1   NH == 2   TH == 3

(* hook_proto_desc: what a family knows of its packets.                      *)
Hook == [bridge |-> [base |-> LL, desc |-> "ether"], netdev |-> [base |-> LL, desc |-> "netdev"],
         inet |-> [base |-> LL, desc |-> "inet"], ip |-> [base |-> NH, desc |-> "ip"],
         ip6 |-> [base |-> NH, desc |-> "ip6"]]

Upper(p, n) ==
  IF p # "none" /\ n \in DOMAIN Protos[p].upper THEN Protos[p].upper[n] ELSE "none"
Links(p, q) == {n \in DOMAIN Protos[p].upper : Protos[p].upper[n] = q}
FindNum(p, q) == SetMin(Links(p, q))       \* proto_find_num() when it finds one

(* proto_dev_type() succeeds for ethernet and what runs on it.               *)
OnEther(p) == p = "ether" \/ Links("ether", p) # {}

----------------------------------------------------------------------------
(* struct proto_ctx: for each layer its protocol, the offset of stacked      *)
(* headers and, on the transport layer, all protocols a match allowed.       *)

ProtoInit(fam) ==
  [fam |-> fam, icmp |-> 0,
   at |-> [b \in {LL, NH, TH} |->
             [desc |-> IF b = Hook[fam].base THEN Hook[fam].desc ELSE "none",
              off |-> 0, protos |-> {}]]]

ProtoUpdate(p, b, desc) ==
  [p EXCEPT !.at[b].desc = desc,
            !.at[b].protos = IF b = TH THEN @ \cup {desc} ELSE @]

Desc(p, b) == IF b \in {LL, NH, TH} THEN p.at[b].desc ELSE "none"
IsAmbiguous(p, b) == Cardinality(p.at[b].protos) > 1

OrUnknown(desc) == IF desc = "none" THEN "unknown" ELSE desc

(* payload_expr_pctx_update(): the value of a protocol key names what is     *)
(* above; a protocol of the same layer is stacked behind the header.         *)
PayloadUpdate(p, left, v) ==
  LET base == p.at[left.base].desc
      desc == Upper(base, v)
      b == Protos[desc].base
  IN  CASE desc # "none" /\ b = Protos[base].base ->
             ProtoUpdate([p EXCEPT !.at[b].off = @ + Protos[base].len], b, desc)
        [] desc # "none" -> ProtoUpdate(p, b, desc)
        [] desc = "none" /\ base \in {"icmp", "icmp6"} ->
             [p EXCEPT !.icmp = IF v = 0 THEN IcmpDep["echo"] ELSE v]
        [] OTHER -> p

MetaUpdate(p, left, v) ==
  LET h == Hook[p.fam]
  IN  CASE left.key = "iiftype" ->
             IF h.base < NH /\ p.fam \notin {"inet", "netdev"} THEN p
             ELSE ProtoUpdate(p, LL, IF v = EtherDev THEN "ether" ELSE "unknown")
        [] left.key = "nfproto" ->
             LET desc == Upper(h.desc, v)
             IN  ProtoUpdate(p, NH,
                   IF desc = "none" /\ h.base = NH /\ v \in Links("inet", p.fam)
                   THEN h.desc ELSE OrUnknown(desc))
        [] left.key = "l4proto" ->
             ProtoUpdate(p, TH, OrUnknown(Upper("inet_service", v)))
        [] left.key = "protocol" /\ p.fam \in {"netdev", "bridge"} ->
             ProtoUpdate(p, NH, OrUnknown(Upper(h.desc, v)))
        [] OTHER -> p

CtUpdate(p, left, v) ==
  LET desc == Upper(Desc(p, left.base), v)
  IN  IF desc = "none" THEN p ELSE ProtoUpdate(p, left.base + 1, desc)

(* relational_expr_pctx_update(): each value of a set is another protocol.   *)
RelUpdate(p, rel) ==
  LET One(q, v) == CASE rel.left.t = "payload" -> PayloadUpdate(q, rel.left, v)
                     [] rel.left.t = "meta" -> MetaUpdate(q, rel.left, v)
                     [] OTHER -> CtUpdate(q, rel.left, v)
  IN  CASE rel.left.t \notin {"payload", "meta", "ct"} -> p
        [] rel.left.t \in {"payload", "meta", "ct"} /\ ~rel.left.prot -> p
        [] rel.right.t = "value" -> One(p, rel.right.v)
        [] rel.right.t = "set" ->
             FoldLeft(LAMBDA q, el : IF el.key.t = "value" THEN One(q, el.key.v) ELSE q,
                      p, rel.right.elems)
        [] OTHER -> p

----------------------------------------------------------------------------
(* Listing: fields of a header found again from offsets and lengths.         *)

(* The fields of a header at an offset that the icmp type allows, in the     *)
(* order of the templates.                                                   *)
Tmpl(p, i) == Protos[p].fields[i]
IcmpAllows(p, tmpl) ==
  tmpl.dep = "any" \/ p.icmp = 0 \/ p.icmp = IcmpDep[tmpl.dep]

(* payload_expr_complete(): template 0 stands for a meta key, not a field.   *)
Complete(e, p) ==
  LET desc == p.at[e.base].desc
      fits == {i \in DOMAIN Protos[desc].fields :
                 /\ Tmpl(desc, i).off = e.off /\ Tmpl(desc, i).len = e.len
                 /\ IcmpAllows(p, Tmpl(desc, i))}
  IN  IF desc \in {"none", "inet"} THEN e
      ELSE IF e.off = 0 /\ Protos[desc].metalen = e.len
      THEN [e EXCEPT !.desc = desc, !.tmpl = 0, !.dt = Protos[desc].metadt]
      ELSE IF fits = {} THEN e
      ELSE [e EXCEPT !.desc = desc, !.tmpl = SetMin(fits),
                     !.dt = Tmpl(desc, SetMin(fits)).dt]

IsKnown(e) == e.desc # "unknown"            \* payload_is_known()

(* payload_expr_trim(): the fields behind the mask's first bit that fill it  *)
(* up; "shift" is where the value starts.                                    *)
MaskOffset(v) == IF v = 0 THEN 31 ELSE Scan1(v, 0)
MaskLength(v) == IF v = 0 THEN 31 ELSE Scan0(v, Scan1(v, 0) + 1)

Trim(e, mask, p) ==
  LET desc == p.at[e.base].desc
      moff == MaskOffset(mask.v)
      mlen == MaskLength(mask.v)
      skip == RoundUp(mask.len, Byte) - mlen
      start == (e.off - p.at[e.base].off) + skip
      fields == IF desc = "none" THEN <<>> ELSE Protos[desc].fields
      walk == FoldLeft(LAMBDA w, f :
                IF w.done \/ f.off # start + w.len THEN w
                ELSE IF f.len >= e.len - w.len THEN [w EXCEPT !.done = TRUE]
                ELSE [len |-> w.len + f.len, done |-> moff + w.len + f.len = mlen,
                      found |-> moff + w.len + f.len = mlen],
                [len |-> 0, done |-> FALSE, found |-> FALSE], fields)
  IN  [found |-> walk.found, shift |-> moff,
       e |-> IF walk.found THEN [e EXCEPT !.off = @ + skip, !.len = walk.len] ELSE e]

(* payload_expr_expand(): a load over adjacent fields becomes the fields, a  *)
(* rest that is none stays raw.                                              *)
Expand(e, p) ==
  LET desc == p.at[e.base].desc
      fields == IF desc = "none" THEN <<>> ELSE Protos[desc].fields
      step(w, i) ==
        LET f == fields[i]
        IN  IF w.left = 0 \/ f.off # w.off \/ ~IcmpAllows(p, f) THEN w
            ELSE IF f.len <= w.left
            THEN [off |-> w.off + f.len, left |-> w.left - f.len,
                  out |-> Append(w.out, PayloadTmpl(desc, i))]
            ELSE [off |-> w.off, left |-> 0,
                  out |-> Append(w.out, [PayloadTmpl(desc, i) EXCEPT !.len = w.left])]
      walk == FoldLeft(step, [off |-> e.off, left |-> e.len, out |-> <<>>],
                       [i \in DOMAIN fields |-> i])
  IN  IF walk.left = 0 THEN walk.out
      ELSE Append(walk.out, RawPayload(e.base, walk.off, walk.left))

(* payload_can_merge() and payload_expr_join().                              *)
CanMerge(e1, e2) ==
  /\ e1.base = e2.base /\ e1.off + e1.len = e2.off
  /\ ~Adjusted(e1) /\ ~Adjusted(e2)
  /\ e1.len + e2.len <= Slots * Byte
  /\ \/ e1.len + e2.len <= Reg32
     \/ e1.base = LL
     \/ e1.len > Reg32
     \/ e2.len > Reg32

Join(e1, e2) == [RawPayload(0, 0, 0) EXCEPT !.base = e1.base, !.off = e1.off,
                                            !.len = e1.len + e2.len]

(* payload_is_stacked(): the number is read as two bytes in network order.   *)
IsStacked(desc, rel) ==
  /\ rel.left.t = "payload" /\ rel.left.prot /\ rel.op = "=="
  /\ LET v == IF desc # "none" /\ Protos[desc].base = LL THEN rel.right.v
              ELSE SwitchByteorder(rel.right.v, 2)
         next == Upper(desc, v)
     IN  next # "none" /\ Protos[next].base = Protos[desc].base

----------------------------------------------------------------------------
(* struct payload_dep_ctx: the last match that may turn out redundant, and   *)
(* the statement before; statements are named by their "id", 0 is none.      *)

NoDep == [pbase |-> 0, pdep |-> 0, dep |-> None, prev |-> 0, icmp |-> 0]

DepStore(d, id, rel, base) ==
  [d EXCEPT !.pbase = base + 1, !.pdep = id, !.dep = rel,
            !.icmp = IF rel.left.t = "payload" /\ rel.left.desc \in {"icmp", "icmp6"}
                     THEN IF rel.right.t # "value" \/ rel.right.len # Byte THEN 0
                          ELSE IF rel.left.desc = "icmp" /\ rel.right.v = 0
                          THEN IcmpDep["echo"] ELSE rel.right.v
                     ELSE @]

DepExists(d, base) ==
  /\ d.pbase # 0 /\ d.pdep # 0
  /\ d.pbase = base \/ (base = TH /\ d.pbase = base + 1)

DepRelease(d) ==
  [d EXCEPT !.pbase = 0, !.pdep = 0, !.dep = None,
            !.prev = IF d.pdep = d.prev THEN 0 ELSE @]

MayKillIcmp(d, e) ==
  /\ e.desc \in {"icmp", "icmp6"} /\ e.tmpl # 0 /\ Tmpl(e.desc, e.tmpl).dep # "any"
  /\ d.dep.left.desc = e.desc
  /\ d.icmp = IcmpDep[Tmpl(e.desc, e.tmpl).dep]

(* payload_may_dependency_kill(): where a match also tells the family apart  *)
(* it stays.  The layer of a left side that is no payload is not looked at.  *)
MayKill(d, fam, e) ==
  LET left == d.dep.left
  IN  /\ fam \in {"bridge", "netdev", "inet"} /\ left.t = "payload" =>
           /\ ~(left.base = NH /\ left.desc \in {"ip", "ip6"} /\ e.base = TH)
           /\ ~(d.dep.op = "==" /\ e.prot /\ e.base = left.base)
      /\ e.base = TH /\ left.t = "payload" /\ left.base = TH /\ left.desc \in {"icmp", "icmp6"} =>
           MayKillIcmp(d, e)
============================================================================
