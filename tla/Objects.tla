------------------------------ MODULE Objects ------------------------------
(* Stateful objects: counters, quotas, limits, synproxies, secmarks and what *)
(* conntrack is given.  An object has the fields of its struct in "spec".    *)
EXTENDS Declarations

ObjKinds == {"counter", "quota", "limit", "ct helper", "ct timeout", "ct expectation", "secmark", "synproxy"}

(* timeout_protocol: the states of a protocol and their timeouts.            *)
State(name, dflt) == [name |-> name, dflt |-> dflt]
TimeoutProtocol ==
  [none |-> <<>>, udp |-> << State("unreplied", 30), State("replied", 180) >>,
   tcp |-> << State("syn_sent", 120), State("syn_recv", 60), State("established", 432000), State("fin_wait", 120),
              State("close_wait", 60), State("last_ack", 30), State("time_wait", 120), State("close", 10),
              State("syn_sent2", 120), State("retrans", 300), State("unack", 300) >>]
StateNames(l4) == {s.name : s \in Range(TimeoutProtocol[l4])}

(* obj_evaluate(), ct_timeout_evaluate() and ct_expect_evaluate().           *)
TimesOf(l4, policy) ==
  LET states == TimeoutProtocol[l4]
  IN  [i \in DOMAIN states |-> IF states[i].name \in DOMAIN policy THEN policy[states[i].name] ELSE states[i].dflt]
EvaluateObj(o) ==
  CASE o.type = "ct timeout" ->
         IF DOMAIN o.spec.policy \ StateNames(o.spec.l4) # {} THEN Refused
         ELSE Done([o EXCEPT !.spec.policy = TimesOf(o.spec.l4, o.spec.policy)])
    [] o.type = "ct expectation" /\ (o.spec.l4 = "none" \/ 0 \in {o.spec.dport, o.spec.timeout, o.spec.size}) -> Refused
    [] OTHER -> Done(o)

(* mnl_nft_obj_add().                                                        *)
(* Mutant: the kind that was added last was forgotten.                       *)
OlderKinds == ObjKinds \ {"ct expectation"}
SentKinds == ObjKinds
ObjMessage(o) ==
  IF o.type \notin SentKinds THEN [err |-> "BUG", out |-> <<>>]
  ELSE [err |-> "none", out |-> [t |-> "object", type |-> o.type, comment |-> o.comment, spec |-> o.spec]]

(* The kernel: the family of the table where none is given, and a burst.     *)
KeptObj(fam, o) ==
  CASE "l3" \in DOMAIN o.spec /\ o.spec.l3 = "none" -> [o EXCEPT !.spec.l3 = fam]
    [] o.type = "limit" /\ o.spec.type = "packets" /\ o.spec.burst = 0 -> [o EXCEPT !.spec.burst = 5]
    [] OTHER -> o

----------------------------------------------------------------------------
(* As text: netlink_delinearize_obj() with obj_print_data(), and the blocks  *)
(* of the grammar.                                                           *)

(* print_proto_timeout_policy().                                             *)
PolicyText(spec) ==
  LET states == TimeoutProtocol[spec.l4]
      changed == {i \in DOMAIN states : spec.policy[i] # states[i].dflt}
      at(name) == CHOOSE i \in changed : states[i].name = name
  IN  [name \in {states[i].name : i \in changed} |-> spec.policy[at(name)]]

BurstShown(spec) == spec.burst # 0 /\ (spec.type = "packets" => spec.burst # 5)
LimitText(spec) ==
  [inv |-> spec.inv, unit |-> spec.unit, type |-> spec.type,
   rate |-> IF spec.type = "packets" THEN [val |-> spec.rate, unit |-> "packets"] ELSE RateJson(spec.rate)]
  ++ (IF ~BurstShown(spec) THEN <<>>
      ELSE [burst |-> IF spec.type = "packets" THEN [val |-> spec.burst, unit |-> "packets"] ELSE RateJson(spec.burst)])

ObjText(o) ==
  [o EXCEPT !.spec =
     CASE o.type = "quota" -> [inv |-> o.spec.inv, bytes |-> RateJson(o.spec.bytes), used |-> RateJson(o.spec.used)]
       [] o.type = "limit" -> LimitText(o.spec)
       [] o.type = "ct timeout" -> [o.spec EXCEPT !.policy = PolicyText(o.spec)]
       [] o.type = "ct expectation" -> [o.spec EXCEPT !.timeout = TimePrint(@)]
       [] OTHER -> o.spec]

(* quota_config, limit_config with limit_burst_pkts and limit_burst_bytes,   *)
(* ct_timeout_config, in which a policy is not empty, ct_expect_config.      *)
NumberOf(r) == IF r.unit = "packets" THEN r.val ELSE RateOf(r)
ParseObjText(x) ==
  IF x.type = "ct timeout" /\ DOMAIN x.spec.policy = {} THEN Refused
  ELSE Done([x EXCEPT !.spec =
     CASE x.type = "quota" -> [inv |-> x.spec.inv, bytes |-> RateOf(x.spec.bytes), used |-> RateOf(x.spec.used)]
       [] x.type = "limit" ->
            [inv |-> x.spec.inv, unit |-> x.spec.unit, type |-> x.spec.type, rate |-> NumberOf(x.spec.rate),
             burst |-> IF "burst" \in DOMAIN x.spec THEN NumberOf(x.spec.burst) ELSE 5]
       [] x.type = "ct expectation" -> [x.spec EXCEPT !.timeout = TimeParse(@)]
       [] OTHER -> x.spec])

----------------------------------------------------------------------------
(* As JSON: obj_print_json() with timeout_policy_json(), which knows no      *)
(* comments, and json_parse_cmd_add_object() with                            *)
(* json_parse_ct_timeout_policy(), which puts l3proto where a helper has it; *)
(* the numbers of an expectation are read from where the JSON value is, which*)
(* does not start with a digit.                                              *)

LimitJson(spec) ==
  [rate |-> IF spec.type = "packets" THEN spec.rate ELSE RateJson(spec.rate).val, per |-> spec.unit, inv |-> spec.inv]
  ++ (IF spec.type = "packets" THEN <<>> ELSE [rate_unit |-> RateJson(spec.rate).unit])
  ++ (IF spec.burst = 0 THEN <<>>
      ELSE IF spec.type = "packets" THEN [burst |-> spec.burst]
      ELSE [burst |-> RateJson(spec.burst).val, burst_unit |-> RateJson(spec.burst).unit])
ParseLimitJson(o) ==
  LET bytes == "rate_unit" \in DOMAIN o
      burst == IF "burst" \in DOMAIN o THEN o.burst ELSE 0
  IN  [type |-> IF bytes THEN "bytes" ELSE "packets", unit |-> o.per, inv |-> o.inv,
       rate |-> IF bytes THEN RateOf([val |-> o.rate, unit |-> o.rate_unit]) ELSE o.rate,
       burst |-> IF bytes /\ burst # 0 THEN RateOf([val |-> burst, unit |-> o.burst_unit]) ELSE burst]

ObjJson(o) ==
  [t |-> "object", type |-> o.type,
   spec |-> CASE o.type = "limit" -> LimitJson(o.spec)
              [] o.type = "ct timeout" -> [o.spec EXCEPT !.policy = PolicyText(o.spec)]
              [] OTHER -> o.spec]
ParseObjJson(o) ==
  IF o.type = "synproxy" \/ (o.type = "ct timeout" /\ DOMAIN o.spec.policy = {}) THEN Refused
  ELSE Done([t |-> "object", type |-> o.type, comment |-> "none",
             spec |-> CASE o.type = "limit" -> ParseLimitJson(o.spec)
                        [] o.type = "ct timeout" -> [o.spec EXCEPT !.l3 = "none"]
                        [] o.type = "ct expectation" -> [o.spec EXCEPT !.dport = 0, !.size = 0]
                        [] OTHER -> o.spec])
============================================================================
