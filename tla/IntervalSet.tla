----------------------------- MODULE IntervalSet -----------------------------
(***************************************************************************)
(* segtree.c: the intervals a user gives to a set or a map become elements *)
(* of the kernel, the start of each interval and the key behind its end,   *)
(* and the elements of the kernel become the intervals nft lists.          *)
(*                                                                         *)
(* One set lives here through any number of batches.  The intervals of a   *)
(* command are inserted into a tree by descending size, where a smaller    *)
(* one cuts the larger ones or is in conflict with them, and the tree is   *)
(* read from left to right.                                                *)
(***************************************************************************)
EXTENDS Integers, SequencesExt

CONSTANTS
    Top,        \* the largest key, 2^keylen - 1
    Data,       \* what a map maps to; the elements of a set have "none"
    SetKinds,   \* the kinds of sets: anonymous, auto-merge, map
    Batches     \* the batches users run on a set of each kind

Interval(l, r, d) == [left |-> l, right |-> r, data |-> d]
Intervals == {i \in [left : 0 .. Top, right : 0 .. Top, data : Data \cup {"none"}] :
                  i.left <= i.right}

ASSUME TopAssumption   == Top \in Nat \ {0}

(* implicit_set_declaration(): an anonymous set of intervals merges.       *)
ASSUME KindsAssumption == /\ SetKinds \subseteq [anon : BOOLEAN, merge : BOOLEAN, map : BOOLEAN]
                          /\ \A k \in SetKinds : k.anon => k.merge
(* A set is made before its elements; only the elements of maps have data. *)
ASSUME BatchesAssumption ==
    /\ Batches \in [SetKinds -> SUBSET Seq([op : {"NEW", "ADD", "CREATE", "DELETE"},
                                            elems : SUBSET Intervals])]
    /\ \A k \in SetKinds : <<>> \notin Batches[k]
    /\ \A k \in SetKinds : \A b \in Batches[k] : \A i \in DOMAIN b :
          /\ b[i].op = "NEW" => i = 1
          /\ b[i].op # "NEW" => b[i].elems # {} /\ ~k.anon
          /\ ~k.map => \A e \in b[i].elems : e.data = "none"

VARIABLES
    kind,       \* the flags of the set
    made,       \* the set is in the kernel
    kernel,     \* its elements
    given,      \* the intervals users put into it and did not take out
    stage,      \* "idle", "command", "insert", "send", "failed" or "refused"
    cmds,       \* the commands of the batch
    next,       \* the command in progress
    known,      \* set->init of the cached set is there ...
    init,       \* ... and holds these intervals
    todo,       \* the intervals of the command still to insert
    tree,       \* the elementary intervals of the segment tree
    msgs        \* the elements in the messages of the batch

vars == <<kind, made, kernel, given, stage, cmds, next, known, init, todo, tree, msgs>>

-----------------------------------------------------------------------------
Start(i) == [key |-> i.left, end |-> FALSE, data |-> i.data]
End(k)   == [key |-> k, end |-> TRUE, data |-> "none"]

Size(i)           == i.right - i.left
Holds(i, x)       == i.left <= x /\ x <= i.right
Cut(i, l, r)      == {j \in {[i EXCEPT !.left = l, !.right = r]} : l <= r}
SameKeys(i, j)    == i.left = j.left /\ i.right = j.right
Intersect(i, j)   == i.left <= j.right /\ j.left <= i.right

(* interval_map_decompose(): an interval goes from its start to the next   *)
(* element, whatever that is, or to the end of the dimension.              *)
Behind(E, k)   == {e.key : e \in {f \in E : f.key > k}}
Upto(E, k)     == IF Behind(E, k) = {} THEN Top
                  ELSE (CHOOSE n \in Behind(E, k) : \A m \in Behind(E, k) : n <= m) - 1
Decompose(E)   == {Interval(s.key, Upto(E, s.key), s.data) : s \in {e \in E : ~e.end}}

(* interval_overlap(): intervals that are the same do not overlap.         *)
Overlap(i, j) == ~SameKeys(i, j) /\ Intersect(i, j)

(* set_overlap(): the first test of the intervals of a command, against    *)
(* the cached ones.  Mutant: new intervals wrap existing ones unseen.      *)
OverlapAtEnds(op, S) ==
    IF op = "DELETE" THEN \E i \in S : \A j \in init : ~SameKeys(i, j)
    ELSE \E i \in S, j \in init : Overlap(i, j) /\ (Holds(j, i.left) \/ Holds(j, i.right))

SetOverlap(op, S) ==
    IF op = "DELETE" THEN \E i \in S : \A j \in init : ~SameKeys(i, j)
                     ELSE \E i \in S, j \in init : Overlap(i, j)

(* interval_cmp(): the largest interval comes first, then the leftmost.    *)
Before(i, j) == Size(i) > Size(j) \/ (Size(i) = Size(j) /\ i.left <= j.left)

-----------------------------------------------------------------------------
(* ei_lookup(): in a tree of disjoint intervals there is one at most.      *)
Found(x) == {i \in tree : Holds(i, x)}

(* The parts of an interval that a new one leaves on its left and on its   *)
(* right; a part of a single key on the right is lost when the new one is  *)
(* within the interval.  Mutants: a part takes in a key of the new one.     *)
LeftOver(i, new)  == Cut(i, i.left, new.left)
RightOver(i, new) == Cut(i, new.right, i.right)

LeftPart(i, new)  == Cut(i, i.left, new.left - 1)
RightPart(i, new) == Cut(i, new.right + 1, i.right)
Split(i, new)     == LeftPart(i, new) \cup {j \in RightPart(i, new) : j.left < j.right}

(* ei_insert(): the intervals that hold the ends of the new one make way.  *)
MakeWay(new) ==
    LET lei == Found(new.left)
        rei == Found(new.right)
    IN  IF lei = rei THEN (tree \ lei) \cup UNION {Split(i, new) : i \in lei}
        ELSE (tree \ (lei \cup rei)) \cup (UNION {LeftPart(i, new) : i \in lei})
                                     \cup (UNION {RightPart(i, new) : i \in rei})

(* segtree_needs_first_segment(): was the set empty?                       *)
NeedsFirst(op) == op # "DELETE" /\ (op = "NEW" \/ ~known \/ init = {})

(* segtree_linearize(): the tree is walked from left to right.  An         *)
(* interval is closed unless the next one is right behind it and the set   *)
(* merges.  Mutant: or unless the next one is right behind it.             *)
ClosesApart(prev, i) == prev + 1 < i.left

Closes(prev, i) == prev + 1 < i.left \/ (~kind.anon /\ ~kind.merge)

LeftOf(i) == {j \in tree : j.left < i.left}
Prev(i)   == CHOOSE j \in LeftOf(i) : \A k \in LeftOf(i) : k.left <= j.left
Rightmost == {i \in tree : \A j \in tree : j.left <= i.left}

(* What is written on the way for an interval.                             *)
WrittenFor(op, i) ==
    IF LeftOf(i) = {}
    THEN {Start(i)} \cup {e \in {End(0)} : NeedsFirst(op) /\ i.left # 0}
    ELSE IF Closes(Prev(i).right, i) THEN {End(Prev(i).right + 1), Start(i)}
    ELSE {e \in {Start(i)} : op = "DELETE" \/ ~kind.merge \/ kind.map}

Walked(op) == UNION {WrittenFor(op, i) : i \in tree}

(* Mutants: the last interval is closed at the end of the dimension too,   *)
(* or not closed when it is deleted.                                       *)
LinearizeClosed(op) == Walked(op) \cup {End(i.right + 1) : i \in Rightmost}
LinearizeAdded(op)  ==
    Walked(op) \cup {End(i.right + 1) : i \in {j \in Rightmost : j.right # Top /\ op # "DELETE"}}

Linearize(op) == Walked(op) \cup {End(i.right + 1) : i \in {j \in Rightmost : j.right # Top}}

-----------------------------------------------------------------------------
(* nf_tables, not part of this repository: what elements the set has after *)
(* a message, or that the message is refused: elements to delete are       *)
(* missing, elements to create are there, an element has other data, or    *)
(* intervals would overlap.                                                *)
Same(e, f) == e.key = f.key /\ e.end = f.end

Clash(E, m) ==
    \/ m.op = "DELETE" /\ \E e \in m.list : \A f \in E : ~Same(e, f)
    \/ m.op = "CREATE" /\ \E e \in m.list, f \in E : Same(e, f)
    \/ m.op # "DELETE" /\ \/ \E e \in m.list, f \in E : Same(e, f) /\ e.data # f.data
                          \/ \E i \in Decompose(m.list), j \in Decompose(E) : Overlap(i, j)

Apply(E, m) == IF m.op = "DELETE" THEN {f \in E : \A e \in m.list : ~Same(e, f)}
                                  ELSE E \cup m.list

(* What the first i messages make of the set.                              *)
Carried ==
    LET f[i \in 0 .. Len(msgs)] ==
            IF i = 0 THEN [ok |-> TRUE, to |-> kernel]
            ELSE [ok |-> f[i - 1].ok /\ ~Clash(f[i - 1].to, msgs[i]),
                  to |-> Apply(f[i - 1].to, msgs[i])]
    IN  f

Transaction == Carried[Len(msgs)]

-----------------------------------------------------------------------------
(* What users mean: a command puts its intervals into the set, merged with *)
(* one another where the set is to do so, or takes them out.               *)
Reach(S, l) == CHOOSE r \in l .. Top :
                  /\ \A x \in l .. r : \E i \in S : Holds(i, x)
                  /\ r < Top => \A i \in S : ~Holds(i, r + 1)
Coalesce(S) == {Interval(l, Reach(S, l), "none") : l \in
                   {i.left : i \in {j \in S : \A k \in S : ~Holds(k, j.left - 1)}}}
Taken(S)    == IF kind.merge /\ ~kind.map THEN Coalesce(S) ELSE S

Given(n) ==
    LET f[i \in 0 .. Len(cmds)] ==
            IF i = 0 THEN given
            ELSE IF cmds[i].op = "DELETE"
                 THEN {j \in f[i - 1] : \A d \in cmds[i].elems : ~SameKeys(d, j)}
            ELSE f[i - 1] \cup Taken(cmds[i].elems)
    IN  f[n]

-----------------------------------------------------------------------------
Init == /\ kind \in SetKinds
        /\ made = FALSE /\ kernel = {} /\ given = {}
        /\ stage = "idle"
        /\ cmds = <<>> /\ next = 1
        /\ known = FALSE /\ init = {}
        /\ todo = {} /\ tree = {} /\ msgs = <<>>

(* A run starts: cache_update() lists the elements of the set, if there is *)
(* one.                                                                    *)
Run(b) == /\ stage = "idle"
          /\ (b[1].op = "NEW") <=> ~made
          /\ stage' = "command"
          /\ cmds' = b
          /\ next' = 1
          /\ known' = made
          /\ init' = Decompose(kernel)
          /\ UNCHANGED <<kind, made, kernel, given, todo, tree, msgs>>

(* do_add_set(), do_add_setelems() and do_delete_setelems() of the next    *)
(* command: the test against the cached intervals is only made when there  *)
(* are any known, and never for the elements a set is made with.           *)
Refuses(c) == c.op # "NEW" /\ known /\ SetOverlap(c.op, c.elems)

Command == /\ stage = "command"
           /\ next <= Len(cmds)
           /\ ~Refuses(cmds[next])
           /\ stage' = "insert"
           /\ todo' = cmds[next].elems
           /\ tree' = {}
           /\ UNCHANGED <<kind, made, kernel, given, cmds, next, known, init, msgs>>

CommandFails == /\ stage = "command"
                /\ next <= Len(cmds)
                /\ Refuses(cmds[next])
                /\ stage' = "failed"
                /\ UNCHANGED <<kind, made, kernel, given, cmds, next, known, init, todo,
                               tree, msgs>>

(* One call of ei_insert() by set_to_segtree().                            *)
Conflict(new) == ~kind.merge /\ Found(new.left) \cup Found(new.right) # {}

Insert == /\ stage = "insert"
          /\ \E new \in todo :
                /\ \A i \in todo : Before(new, i)
                /\ ~Conflict(new)
                /\ tree' = MakeWay(new) \cup {new}
                /\ todo' = todo \ {new}
          /\ UNCHANGED <<kind, made, kernel, given, stage, cmds, next, known, init, msgs>>

InsertFails == /\ stage = "insert"
               /\ \E new \in todo : (\A i \in todo : Before(new, i)) /\ Conflict(new)
               /\ stage' = "failed"
               /\ UNCHANGED <<kind, made, kernel, given, cmds, next, known, init, todo,
                              tree, msgs>>

(* The elements go into messages, and those added also to the cached set;  *)
(* a set just made is cached without any.  Mutant: the cached set keeps    *)
(* what it was loaded with.                                                *)
InitStays(op, list) == init

InitAfter(op, list) == IF op \in {"ADD", "CREATE"} /\ known THEN init \cup Decompose(list)
                       ELSE init

Message == /\ stage = "insert"
           /\ todo = {}
           /\ LET op   == cmds[next].op
                  list == Linearize(op)
              IN  /\ msgs' = Append(msgs, [op |-> op, list |-> list])
                  /\ init' = InitAfter(op, list)
           /\ next' = next + 1
           /\ stage' = IF next = Len(cmds) THEN "send" ELSE "command"
           /\ UNCHANGED <<kind, made, kernel, given, cmds, known, todo, tree>>

Send == /\ stage = "send"
        /\ Transaction.ok
        /\ kernel' = Transaction.to
        /\ given' = Given(Len(cmds))
        /\ made' = TRUE
        /\ stage' = "idle"
        /\ cmds' = <<>> /\ next' = 1
        /\ known' = FALSE /\ init' = {}
        /\ tree' = {} /\ msgs' = <<>>
        /\ UNCHANGED <<kind, todo>>

SendFails == /\ stage = "send"
             /\ ~Transaction.ok
             /\ stage' = "refused"
             /\ UNCHANGED <<kind, made, kernel, given, cmds, next, known, init, todo, tree,
                            msgs>>

(* The run ends with an error and has changed nothing.                     *)
Abort == /\ stage \in {"failed", "refused"}
         /\ stage' = "idle"
         /\ cmds' = <<>> /\ next' = 1
         /\ known' = FALSE /\ init' = {}
         /\ todo' = {} /\ tree' = {} /\ msgs' = <<>>
         /\ UNCHANGED <<kind, made, kernel, given>>

(* The set is deleted, an anonymous one with its rule.                     *)
Destroy == /\ stage = "idle"
           /\ made
           /\ made' = FALSE /\ kernel' = {} /\ given' = {}
           /\ UNCHANGED <<kind, stage, cmds, next, known, init, todo, tree, msgs>>

Next == \/ \E b \in Batches[kind] : Run(b)
        \/ Command
        \/ CommandFails
        \/ Insert
        \/ InsertFails
        \/ Message
        \/ Send
        \/ SendFails
        \/ Abort
        \/ Destroy

Spec == Init /\ [][Next]_vars

-----------------------------------------------------------------------------
(* Properties.                                                             *)

(* The variables hold what the code puts there.                            *)
Elements == [key : 0 .. Top, end : BOOLEAN, data : Data \cup {"none"}]

TypeOK == /\ kind \in SetKinds /\ made \in BOOLEAN /\ known \in BOOLEAN
          /\ kernel \subseteq Elements
          /\ {given, init, todo, tree} \subseteq SUBSET Intervals
          /\ stage \in {"idle", "command", "insert", "send", "failed", "refused"}
          /\ cmds \in Batches[kind] \cup {<<>>}
          /\ next \in 1 .. Len(cmds) + 1
          /\ \A m \in Range(msgs) : m.list \subseteq Elements

(* The packet path finds the greatest element that is not above a key, and *)
(* the start when an interval starts where another ends.                   *)
Match(x) == {i.data : i \in {j \in Decompose(kernel) : Holds(j, x)}}

(* "New entries take precedence over existing ones", segtree.c:186, and    *)
(* the smaller ones are newer: whatever the intervals of a set, its        *)
(* elements match the keys in them and no other, and a key is mapped by    *)
(* the smallest interval it is in.                                         *)
KernelMeans ==
    \A x \in 0 .. Top :
        LET in == {i \in given : Holds(i, x)}
        IN  Match(x) = {i.data : i \in {j \in in : \A k \in in : Before(k, j)}}

(* interval_map_decompose() takes back what segtree_linearize() did: what  *)
(* is listed is what was given, neither cut nor joined, after any sequence *)
(* of additions and deletions.                                             *)
ListedBack == kind.anon \/ Decompose(kernel) = given

(* A command that deletes intervals deletes both ends of each: an end that *)
(* stays would cut an interval that is added later.                        *)
NoOrphans ==
    \A e \in kernel : e.end /\ e.key # 0 =>
        \E i \in Decompose(kernel) : i.right = e.key - 1

(* A run only fails for a reason: intervals of the command overlap where   *)
(* the set does not merge them, they or what they make up overlap one of the  *)
(* set, those to delete are not there, or those to create are.             *)
Bad(n) ==
    LET S == Given(n - 1)
        T == cmds[n].elems
    IN  \/ ~kind.merge /\ \E i, j \in T : i # j /\ Intersect(i, j)
        \/ cmds[n].op = "DELETE" /\ \E i \in T : \A j \in S : ~SameKeys(i, j)
        \/ cmds[n].op # "DELETE" /\ \E i \in T \cup Taken(T), j \in S : Overlap(i, j)
        \/ cmds[n].op # "DELETE" /\ \E i \in T, j \in S : SameKeys(i, j) /\ i.data # j.data
        \/ cmds[n].op = "CREATE" /\ \E i \in T, j \in S : SameKeys(i, j)

Refusals == /\ stage = "failed" => Bad(next)
            /\ stage = "refused" => \E n \in DOMAIN cmds : Bad(n)

(* An overlap with an interval the cached set holds, or that an earlier    *)
(* command of the run adds to it, is found before anything is sent.        *)
FoundHere ==
    stage = "refused" /\ known =>
        \A n \in DOMAIN cmds : cmds[n].op # "DELETE" =>
            \A i \in cmds[n].elems, j \in Given(n - 1) : ~Overlap(i, j)

(* "The new interval never extends over more than two existing intervals", *)
(* segtree.c:187-188: so those of the tree stay apart.                     *)
TreeDisjoint == \A i, j \in tree : i # j => ~Intersect(i, j)
=============================================================================
