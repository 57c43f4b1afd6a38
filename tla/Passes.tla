------------------------------- MODULE Passes -------------------------------
(* The passes of the program over one rule, each from what it is given to    *)
(* what it leaves: what RulePath is a machine of.                            *)
EXTENDS Meaning, Json

(* rule_evaluate() with rule_postprocess().                                  *)
RuleEvaluated(fam, stmts) ==
  LET done == EvalRule(fam, stmts)
  IN  [err |-> done.err, stmts |-> done.stmts]

(* netlink_linearize_rule().                                                 *)
RuleGenerated(stmts) ==
  LET done == LinearizeRule(stmts)
  IN  [err |-> done.err, out |-> done.out, low |-> done.low]

(* netlink_delinearize_rule() with rule_print() or rule_print_json().        *)
RuleListed(fam, how, instrs) ==
  LET done == DelinearizeRule(fam, instrs)
  IN  [err |-> done.err, stmts |-> IF how = "json" THEN RuleJson(fam, done.stmts) ELSE PrintRule(done.stmts)]

(* The parsers that read a listing.                                          *)
RuleRead(how, text) ==
  LET done == IF how = "json" THEN ParseRuleJson(text) ELSE [err |-> "none", stmts |-> text]
  IN  [err |-> done.err, stmts |-> done.stmts]

(* What a rule says of a packet, and what the kernel does to it.             *)
RuleMeans(stmts, P) == LET said == Means(stmts, P) IN said
RuleDoes(instrs, P) == LET done == Execute(instrs, P) IN done
=============================================================================
