------------------------------ MODULE MCNftRun ------------------------------
(* Instances of NftRun for TLC.                                            *)
EXTENDS NftRun, TLC

CONSTANTS t1, t2

Cmd(o, b, t) == [op |-> o, obj |-> b, tbl |-> t]

Adds(t)    == {Cmd("ADD", b, t) : b \in {"TABLE", "CHAIN", "SET", "ELEMENTS",
                                         "RULE", "RULE @SET", "RULE INDEX"}}
Deletes(t) == {Cmd("DELETE", b, t) : b \in {"TABLE", "CHAIN", "SET",
                                            "ELEMENTS", "RULE"}}
Others(t)  == {Cmd("FLUSH", "SET", t), Cmd("FLUSH", "CHAIN", t),
               Cmd("LIST", "TABLE", t), Cmd("LIST", "SET", t),
               Cmd("RENAME", "CHAIN", t)}
Queries(t) == {Cmd("GET", "ELEMENTS", t), Cmd("RESET", "COUNTERS", t)}
Replace(t) == Cmd("REPLACE", "RULE", t)
Block(t)   == Cmd("ADD", "BLOCK", t)
Flush(t)   == Cmd("FLUSH", "RULESET", t)

(* Every batch of up to n commands of S.                                   *)
UpTo(n, S) == UNION {[1 .. m -> S] : m \in 1 .. n}

Changes(t) == Adds(t) \cup Deletes(t) \cup Others(t)

(* Batches of two commands of which the second does not take away what the *)
(* first one is executed with, batches of three, and queries before a      *)
(* change.                                                                 *)
TakenAway(t) == {Cmd("RENAME", "CHAIN", t), Cmd("LIST", "TABLE", t), Cmd("LIST", "SET", t),
                 Cmd("RESET", "COUNTERS", t)}
                    \X {Cmd("DELETE", "TABLE", t)}
Bigger(t) == Adds(t) \ {Cmd("ADD", "RULE", t)}
PlainBatches ==
    ((UpTo(2, Changes(t1)) \cup Queries(t1) \X Changes(t1)) \ TakenAway(t1))
      \cup UpTo(1, Queries(t1))
      \cup {<<a, b, c>> : a \in {Cmd("DELETE", o, t1) : o \in {"TABLE", "CHAIN", "SET"}}
                                 \cup {Flush(t1)},
                          b \in Bigger(t1), c \in Bigger(t1)}

(* Replace, but not after an index; blocks, but none before a command that *)
(* looks up what is in them; flush the ruleset, but first.                 *)
SpecialBatches ==
    UpTo(1, {Replace(t1), Block(t1), Flush(t1)})
      \cup {<<Replace(t1), c>> : c \in Changes(t1)}
      \cup {<<c, Replace(t1)>> : c \in Changes(t1) \ {Cmd("ADD", "RULE INDEX", t1)}}
      \cup {<<c, Block(t1)>> : c \in Changes(t1)}
      \cup {<<Block(t1), c>> : c \in Deletes(t1)}
      \cup {<<Flush(t1), c>> : c \in Changes(t1) \cup {Block(t1), Replace(t1)}}

MCBatches == PlainBatches \cup SpecialBatches

Families == t1 :> "ip" @@ t2 :> "ip6"
=============================================================================
