------------------------------ MODULE Ruleset ------------------------------
(***************************************************************************)
(* The nf_tables ruleset as the user-space tool sees it: tables, and in    *)
(* each table the lists of objects the cache can load.  The kernel is not  *)
(* part of this repository: its content is abstracted to what the cache    *)
(* protocol can tell apart, the generation that last wrote a table and the *)
(* kinds of objects the table has.                                         *)
(***************************************************************************)
EXTENDS Naturals, Sequences

CONSTANTS Tables,     \* names of tables
          Shapes,     \* the sets of object kinds a table may contain
          MaxGen      \* bound on the kernel's generation counter

(* enum cache_level_bits, include/cache.h: one bit per list of a table.    *)
Kinds == {"TABLE", "CHAIN", "SET", "FLOWTABLE", "OBJECT", "SETELEM", "RULE"}

(* Elements live in sets and rules live in chains, in the kernel and in    *)
(* the cache levels alike.                                                 *)
Closed(K) == /\ "SETELEM" \in K => "SET" \in K
             /\ "RULE" \in K => "CHAIN" \in K

ASSUME ShapesAssumption == \A s \in Shapes : s \subseteq Kinds /\ Closed(s)
ASSUME MaxGenAssumption == MaxGen \in Nat \ {0}

NoTable == [ver |-> 0, has |-> {}]

(* What generation g may leave in a table: nothing, or a content it wrote. *)
Contents(g) == {NoTable} \cup [ver : {g}, has : Shapes]

(* The rulesets a transaction may turn a ruleset into.                     *)
Commits(kernel, g) ==
    {[t \in Tables |-> IF t \in touched THEN now[t] ELSE kernel[t]] :
        touched \in SUBSET Tables, now \in [Tables -> Contents(g)]}

Rulesets == [Tables -> [ver : 0 .. MaxGen, has : Shapes \cup {{}}]]

(* The objects of kind k that a dump of table t returns, as the stamp of   *)
(* the generation that wrote them.                                         *)
Holds(kernel, t, k) == /\ kernel[t].ver # 0
                       /\ k = "TABLE" \/ k \in kernel[t].has

Objects(kernel, t, k) ==
    IF Holds(kernel, t, k) THEN <<kernel[t].ver>> ELSE <<>>

(* The lists of a cache that holds exactly the ruleset, at a cache level.  *)
EmptyLists == [t \in Tables |-> [k \in Kinds |-> <<>>]]

Snapshot(kernel, level) ==
    [t \in Tables |-> [k \in Kinds |->
        IF k \in level THEN Objects(kernel, t, k) ELSE <<>>]]

=============================================================================
