---------------------------- MODULE MCRuleIndex ----------------------------
(* Instances of RuleIndex for TLC.                                         *)
EXTENDS RuleIndex

Cmd(o, h, n) == [op |-> o, how |-> h, n |-> n]
UpTo(n, S) == UNION {[1 .. m -> S] : m \in 1 .. n}

(* Rules at every place of a chain of two rules that grows.                *)
Located == {Cmd(o, "index", n) : o \in {"ADD", "INSERT"}, n \in 0 .. 2}
            \cup {Cmd("ADD", "end", 0), Cmd("INSERT", "end", 0), Cmd("ADD", "handle", 1)}

(* Batches that replace another rule first, or delete and flush last.      *)
Adds2 == {Cmd("ADD", "index", 1), Cmd("INSERT", "index", 1), Cmd("ADD", "end", 0)}
EndBatches ==
    {Append(b, c) : b \in UpTo(2, Adds2),
                    c \in {Cmd("DELETE", "handle", 1), Cmd("FLUSH", "end", 0)}}
      \cup {<<Cmd("REPLACE", "handle", 1)>> \o b : b \in UpTo(2, Adds2)}

MCBatches == UpTo(3, Located) \cup EndBatches
=============================================================================
