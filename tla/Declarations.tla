---------------------------- MODULE Declarations ----------------------------
(* Tables, chains, sets, objects and flowtables on their way through the     *)
(* program: what is declared is evaluated (evaluate.c), sent (mnl.c), kept   *)
(* by the kernel, read from its answer (netlink.c), printed (rule.c, json.c) *)
(* and read again (parser_bison.y, parser_json.c).                           *)
(*                                                                           *)
(* A declaration has the same fields in the grammar and in a listing, those  *)
(* that are not there with the value they have without; "none", <<>> and     *)
(* None stand for what is absent.  Evaluation adds the fields of the struct. *)
EXTENDS Integers, SequencesExt, Rates

Done(d) == [err |-> "none", stmts |-> d]
Refused == [err |-> "refused", stmts |-> <<>>]
Bug == [err |-> "BUG", stmts |-> <<>>]
Magnitude(n) == IF n < 0 THEN -n ELSE n
(* The fields of two records.                                                *)
f ++ g == [x \in DOMAIN f \cup DOMAIN g |-> IF x \in DOMAIN f THEN f[x] ELSE g[x]]

----------------------------------------------------------------------------
(* Hooks and priorities of chains and flowtables (rule.c, evaluate.c).       *)

IpFamilies == {"ip", "ip6", "inet"}
NoHook == 6                                  \* NF_INET_NUMHOOKS
InetHooks == << "prerouting", "input", "forward", "output", "postrouting", "ingress" >>
ArpHooks == << "input", "output", "forward" >>

(* str2hooknum() and hooknum2str(): ingress only has a number in inet and    *)
(* netdev, but a name wherever the number appears.                           *)
HooksOf(fam) ==
  CASE fam = "netdev" -> <<"ingress">> [] fam = "arp" -> ArpHooks [] OTHER -> InetHooks
HookNum(fam, name) ==
  LET at == {n \in DOMAIN HooksOf(fam) : HooksOf(fam)[n] = name}
  IN  IF at = {} \/ (name = "ingress" /\ fam \notin {"inet", "netdev"}) THEN NoHook ELSE Min(at) - 1
HookName(fam, num) == IF num + 1 \in DOMAIN HooksOf(fam) THEN HooksOf(fam)[num + 1] ELSE "unknown"

Tag(val, str) == [val |-> val, str |-> str]
StdPrios == << Tag(-300, "raw"), Tag(-150, "mangle"), Tag(-100, "dstnat"), Tag(0, "filter"),
               Tag(50, "security"), Tag(100, "srcnat") >>
BridgeStdPrios == << Tag(-300, "dstnat"), Tag(-200, "filter"), Tag(100, "out"), Tag(300, "srcnat") >>
PriosOf(fam) == IF fam = "bridge" THEN BridgeStdPrios ELSE StdPrios

(* std_prio_family_hook_compat().                                            *)
Compat(prio, fam, hook) ==
  IF fam = "bridge"
  THEN prio = -200 \/ <<prio, hook>> \in {<<-300, 0>>, <<100, 3>>, <<300, 4>>}
  ELSE \/ prio = 0 /\ fam \in IpFamilies \cup {"arp", "netdev"}
       \/ fam \in IpFamilies /\ (prio \in {-300, -150, 50} \/ <<prio, hook>> \in {<<-100, 0>>, <<100, 4>>})

(* std_prio_lookup() with evaluate_priority(); a priority is a name and an   *)
(* offset, or a number.                                                      *)
StdPrioLookup(name, fam, hook) ==
  {p.val : p \in {q \in Range(PriosOf(fam)) : q.str = name /\ Compat(q.val, fam, hook)}}
(* Mutant: the sign between the name and the number is not looked at.        *)
PriorityUnsigned(prio, fam, hook) ==
  IF prio.name = "none" THEN {prio.off} ELSE {val + Magnitude(prio.off) : val \in StdPrioLookup(prio.name, fam, hook)}
EvaluatePriority(prio, fam, hook) ==
  IF prio.name = "none" THEN {prio.off} ELSE {val + prio.off : val \in StdPrioLookup(prio.name, fam, hook)}

(* prio2str(): by the first name within reach, if the hook has it.           *)
Reach == 10
Prio2Str(prio, fam, hook) ==
  LET near == {i \in DOMAIN PriosOf(fam) : Magnitude(prio - PriosOf(fam)[i].val) <= Reach}
      tag == PriosOf(fam)[Min(near)]
  IN  IF near = {} \/ ~Compat(tag.val, fam, hook) THEN [name |-> "none", off |-> prio]
      ELSE [name |-> tag.str, off |-> prio - tag.val]

(* evaluate_device_expr(): the list is turned around; JSON has symbols in it.*)
EvaluateDevices(devs) == IF \E i \in DOMAIN devs : devs[i].t = "symbol" THEN Bug ELSE Done(Reverse(devs))
DevNames(devs) == [i \in DOMAIN devs |-> devs[i].name]
Devices(names) == [i \in DOMAIN names |-> [t |-> "string", name |-> names[i]]]

----------------------------------------------------------------------------
(* Times (datatype.c): time_print() and time_parse().                        *)

Second == 1000
(* Mutant: what is less than a second is not printed.                        *)
TimePrintSeconds(ms) == [d |-> ms \div (86400 * Second), h |-> (ms % (86400 * Second)) \div (3600 * Second),
                         m |-> (ms % (3600 * Second)) \div (60 * Second), s |-> (ms % (60 * Second)) \div Second, ms |-> 0]
TimePrint(ms) == [d |-> ms \div (86400 * Second), h |-> (ms % (86400 * Second)) \div (3600 * Second),
                  m |-> (ms % (3600 * Second)) \div (60 * Second), s |-> (ms % (60 * Second)) \div Second, ms |-> ms % Second]
TimeParse(r) == (((24 * r.d + r.h) * 60 + r.m) * 60 + r.s) * Second + r.ms

----------------------------------------------------------------------------
(* Chains and tables.                                                        *)

(* chain_evaluate().                                                         *)
NeedsDevice(fam, hook) == fam = "netdev" \/ (fam = "inet" /\ hook = HookNum("inet", "ingress"))
EvaluateChain(fam, c) ==
  LET num == HookNum(fam, c.hook)
      prio == EvaluatePriority(c.prio, fam, num)
      devs == EvaluateDevices(c.devs)
      known == c ++ [num |-> IF c.base THEN num ELSE 0, priority |-> IF c.base THEN CHOOSE p \in prio : TRUE ELSE 0]
  IN  CASE ~c.base -> Done(known)
        [] c.base /\ (num = NoHook \/ prio = {} \/ ~(c.devs # <<>> <=> NeedsDevice(fam, num))) -> Refused
        [] OTHER -> IF devs.err # "none" THEN devs ELSE Done([known EXCEPT !.devs = devs.stmts])

(* mnl_nft_chain_add(): a base chain has a hook, a policy when there is one. *)
ChainMessage(c) ==
  [t |-> "chain", family |-> c.family, flags |-> c.flags, comment |-> c.comment, devs |-> DevNames(c.devs)]
  ++ (IF c.base THEN [hooknum |-> c.num, prio |-> c.priority, type |-> c.type] ELSE <<>>)
  ++ (IF c.policy = "none" THEN <<>> ELSE [policy |-> c.policy])
(* netlink_delinearize_chain().                                              *)
ChainOf(a) ==
  LET base == {"hooknum", "prio", "type", "policy"} \subseteq DOMAIN a
  IN  [a EXCEPT !.devs = IF base THEN @ ELSE <<>>] ++ [base |-> base, type |-> "none", policy |-> "none"]

(* chain_print_declaration() of what netlink_delinearize_chain() has read.   *)
ChainText(c) ==
  [t |-> "chain", base |-> c.base, type |-> c.type, policy |-> c.policy, comment |-> c.comment, devs |-> Devices(c.devs)]
  ++ IF c.base
     THEN [hook |-> HookName(c.family, c.hooknum), prio |-> Prio2Str(c.prio, c.family, c.hooknum), flags |-> c.flags]
     ELSE [hook |-> "none", prio |-> [name |-> "none", off |-> 0], flags |-> {}]

(* chain_print_json(): its devices are those of a declaration, which a chain *)
(* from the kernel does not have.                                            *)
ChainJson(c) ==
  [t |-> "chain"] ++
  IF c.base THEN [type |-> c.type, hook |-> HookName(c.family, c.hooknum), prio |-> c.prio, policy |-> c.policy] ELSE <<>>
(* json_parse_cmd_add_chain().                                               *)
ParseChainJson(o) ==
  [t |-> "chain", base |-> "hook" \in DOMAIN o, devs |-> <<>>, flags |-> {}, comment |-> "none",
   type |-> IF "type" \in DOMAIN o THEN o.type ELSE "none", hook |-> IF "hook" \in DOMAIN o THEN o.hook ELSE "none",
   prio |-> [name |-> "none", off |-> IF "prio" \in DOMAIN o THEN o.prio ELSE 0],
   policy |-> IF "policy" \in DOMAIN o THEN o.policy ELSE "none"]

(* mnl_nft_table_add(), netlink_delinearize_table() with table_print() and   *)
(* the grammar, which takes one flag; table_print_json(), and                *)
(* json_parse_cmd_add_table(), which reads no flags.                         *)
TableMessage(t) == [t |-> "table", flags |-> t.flags, comment |-> t.comment]
TableText(a) == [t |-> "table", flags |-> a.flags, comment |-> a.comment]
ParseTableText(x) == IF Cardinality(x.flags) > 1 THEN Refused ELSE Done(x)
TableJson(a) == [t |-> "table"] ++ IF a.flags = {} THEN <<>> ELSE [flags |-> a.flags]
ParseTableJson(o) == [t |-> "table", flags |-> {}, comment |-> "none"]

----------------------------------------------------------------------------
(* Flowtables.                                                               *)

(* flowtable_evaluate(): hooks and priorities are those of netdev.           *)
EvaluateFlowtable(f) ==
  LET num == HookNum("netdev", f.hook)
      prio == EvaluatePriority(f.prio, "netdev", num)
      devs == EvaluateDevices(f.devs)
  IN  CASE f.hook # "none" /\ (num = NoHook \/ prio = {}) -> Refused
        [] devs.err # "none" -> devs
        [] OTHER -> Done([f EXCEPT !.devs = devs.stmts] ++
                         [num |-> num, priority |-> IF f.hook = "none" THEN 0 ELSE CHOOSE p \in prio : TRUE])

(* mnl_nft_flowtable_add(), nft_flowtable_dev_array(): a flowtable without a *)
(* hook has the first one.                                                   *)
FlowtableMessage(f) ==
  [t |-> "flowtable", hooknum |-> IF f.hook = "none" THEN 0 ELSE f.num, prio |-> f.priority,
   devs |-> DevNames(f.devs), flags |-> f.flags]

(* netlink_delinearize_flowtable() with flowtable_print_declaration().       *)
FlowtableText(a) ==
  [t |-> "flowtable", hook |-> HookName("netdev", a.hooknum), prio |-> Prio2Str(a.prio, "netdev", a.hooknum),
   devs |-> Devices(a.devs), flags |-> a.flags]

(* flowtable_print_json(), json_parse_cmd_add_flowtable() and                *)
(* json_parse_flowtable_devs(): there are no flags, and names of devices are *)
(* read as symbols, which evaluate_device_expr() does not know.              *)
FlowtableJson(a) == [t |-> "flowtable", hook |-> HookName("netdev", a.hooknum), prio |-> a.prio, dev |-> a.devs]
ParseFlowtableJson(o) ==
  [t |-> "flowtable", hook |-> o.hook, prio |-> [name |-> "none", off |-> o.prio], flags |-> {},
   devs |-> [i \in DOMAIN o.dev |-> [t |-> "symbol", name |-> o.dev[i]]]]
============================================================================
