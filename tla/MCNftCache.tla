----------------------------- MODULE MCNftCache -----------------------------
(* Instances of NftCache for TLC.                                          *)
EXTENDS NftCache

(* The contents a table is created with: the kinds of objects it has.      *)
MCShapes == { {"CHAIN", "SET"}, {"CHAIN", "RULE", "SET", "SETELEM"} }

(* The flags of: a command that needs no cache; adding a table; list       *)
(* counters; flush ruleset; adding a rule at an index.                     *)
MCRequests == { {}, {"TABLE"}, Kinds \cup {"REFRESH"}, {"FLUSHED", "TABLE"},
                {"TABLE", "CHAIN", "SET", "RULE", "UPDATE"} }
=============================================================================
