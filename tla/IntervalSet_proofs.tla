------------------------- MODULE IntervalSet_proofs -------------------------
(***************************************************************************)
(* Proofs about IntervalSet, for every dimension: why ei_insert() may look *)
(* at the two ends of a new interval only, and why the elements of the     *)
(* kernel are those of the intervals users gave, in sets that do not merge *)
(* and in those that merge intervals which are nested or apart (Tame).     *)
(***************************************************************************)
EXTENDS IntervalSet, Induction

(* What is inserted goes from the largest interval to the smallest, so an  *)
(* interval of the tree is never within a new one.                         *)
LargestFirst == \A i \in tree, j \in todo : Size(i) >= Size(j)

TreeInv ==
    /\ kind \in SetKinds
    /\ cmds \in Batches[kind] \cup {<<>>}
    /\ next \in Nat \ {0}
    /\ todo \subseteq Intervals
    /\ ~kind.merge => tree \subseteq Intervals /\ LargestFirst /\ TreeDisjoint

LEMMA IntervalIs ==
    ASSUME NEW i \in Intervals
    PROVE  i.left \in Nat /\ i.right \in Nat /\ i.left <= i.right /\ Size(i) \in Nat
  BY TopAssumption DEF Intervals, Size

LEMMA CommandIs ==
    ASSUME TreeInv, next <= Len(cmds)
    PROVE  cmds[next].elems \subseteq Intervals
  <1> DEFINE C == [op : {"NEW", "ADD", "CREATE", "DELETE"}, elems : SUBSET Intervals]
  <1>1. cmds # <<>>
    BY DEF TreeInv
  <1>2. cmds \in Seq(C) /\ next \in Nat \ {0}
    BY <1>1, BatchesAssumption DEF TreeInv
  <1>3. \A c \in C : c.elems \subseteq Intervals
    OBVIOUS
  <1> HIDE DEF C
  <1>4. cmds[next] \in C
    BY <1>2
  <1> QED
    BY <1>3, <1>4

(* A new interval that overlaps one of the tree, none of which is smaller, *)
(* has an end in it.                                                       *)
LEMMA EndWithin ==
    ASSUME NEW i \in Intervals, NEW new \in Intervals, Size(i) >= Size(new),
           Intersect(i, new)
    PROVE  Holds(i, new.left) \/ Holds(i, new.right)
  BY IntervalIs DEF Intersect, Holds, Size

(* Without a conflict the new interval is put next to the others as it is. *)
LEMMA InsertApart ==
    ASSUME TreeInv, Insert, ~kind.merge
    PROVE  tree' \subseteq Intervals /\ LargestFirst' /\ TreeDisjoint'
  <1>1. PICK new \in todo :
            /\ \A i \in todo : Before(new, i)
            /\ ~Conflict(new)
            /\ tree' = MakeWay(new) \cup {new}
            /\ todo' = todo \ {new}
    BY DEF Insert
  <1>2. Found(new.left) = {} /\ Found(new.right) = {}
    BY <1>1 DEF Conflict
  <1>3. tree' = tree \cup {new}
    BY <1>1, <1>2 DEF MakeWay
  <1>4. new \in Intervals /\ tree \subseteq Intervals /\ LargestFirst /\ TreeDisjoint
    BY DEF TreeInv
  <1>5. \A i \in tree : ~Intersect(i, new)
    BY <1>2, <1>4, EndWithin DEF Found, LargestFirst
  <1>6. \A i \in tree : ~Intersect(new, i)
    BY <1>5 DEF Intersect
  <1>7. \A j \in todo : Size(new) >= Size(j)
    BY <1>1, <1>4, IntervalIs DEF Before, TreeInv
  <1>8. LargestFirst'
    BY <1>1, <1>3, <1>4, <1>7 DEF LargestFirst
  <1>9. TreeDisjoint'
    BY <1>3, <1>4, <1>5, <1>6 DEF TreeDisjoint
  <1> QED
    BY <1>3, <1>4, <1>8, <1>9

LEMMA TreeKept == Spec => []TreeInv
  <1>1. Init => TreeInv
    BY DEF Init, TreeInv, LargestFirst, TreeDisjoint
  <1>2. TreeInv /\ [Next]_vars => TreeInv'
    <2> SUFFICES ASSUME TreeInv, [Next]_vars PROVE TreeInv'
      OBVIOUS
    <2>1. ASSUME NEW b \in Batches[kind], Run(b) PROVE TreeInv'
      BY <2>1 DEF Run, TreeInv, LargestFirst, TreeDisjoint
    <2>2. CASE Command
      BY <2>2, CommandIs DEF Command, TreeInv, LargestFirst, TreeDisjoint
    <2>3. CASE CommandFails
      BY <2>3 DEF CommandFails, TreeInv, LargestFirst, TreeDisjoint
    <2>4. CASE Insert
      <3>1. UNCHANGED <<kind, cmds, next>> /\ todo' \subseteq todo
        BY <2>4 DEF Insert
      <3> QED
        BY <2>4, <3>1, InsertApart DEF TreeInv
    <2>5. CASE InsertFails
      BY <2>5 DEF InsertFails, TreeInv, LargestFirst, TreeDisjoint
    <2>6. CASE Message
      BY <2>6 DEF Message, TreeInv, LargestFirst, TreeDisjoint
    <2>7. CASE Send \/ Abort
      BY <2>7 DEF Send, Abort, TreeInv, LargestFirst, TreeDisjoint
    <2>8. CASE SendFails \/ Destroy \/ UNCHANGED vars
      BY <2>8 DEF SendFails, Destroy, vars, TreeInv, LargestFirst, TreeDisjoint
    <2> QED
      BY <2>1, <2>2, <2>3, <2>4, <2>5, <2>6, <2>7, <2>8 DEF Next
  <1> QED
    BY <1>1, <1>2, PTL DEF Spec

(* segtree.c:182-188: in a set that does not merge, the two lookups of     *)
(* ei_insert() find every overlap of the intervals of a command, however   *)
(* many there are, and those of the tree are disjoint.  In a set that      *)
(* merges, the parts that are left of larger intervals break the order of  *)
(* insertion: the code has the property only for intervals that are nested *)
(* or apart (NestedTreeTheorem).                                           *)
THEOREM PlainTreeTheorem == Spec => [](~kind.merge => TreeDisjoint)
  <1>1. TreeInv => (~kind.merge => TreeDisjoint)
    BY DEF TreeInv
  <1> QED
    BY <1>1, TreeKept, PTL

-----------------------------------------------------------------------------
(* What a set of intervals is in the kernel: the elements, but for the     *)
(* segment in front of the first interval.                                 *)
Elems(G) == {Start(i) : i \in G} \cup {End(i.right + 1) : i \in {j \in G : j.right # Top}}

StandsFor(E, G) == E \ {End(0)} = Elems(G)

Fits(G) == G \subseteq Intervals /\ \A i, j \in G : i # j => ~Intersect(i, j)

(* The ends of intervals are numbers up to Top, and an interval is what    *)
(* its fields say.                                                         *)
LEMMA Bounds ==
    ASSUME NEW i \in Intervals
    PROVE  /\ i.left \in 0 .. Top /\ i.right \in 0 .. Top /\ i.left <= i.right
           /\ i = Interval(i.left, i.right, i.data)
           /\ i.data \in Data \cup {"none"}
  BY DEF Intervals, Interval

LEMMA IntervalAgain ==
    ASSUME NEW l \in 0 .. Top, NEW r \in 0 .. Top, NEW d \in Data \cup {"none"}, l <= r
    PROVE  Interval(l, r, d) \in Intervals
  BY DEF Intervals, Interval

LEMMA StartIs ==
    ASSUME NEW i
    PROVE  Start(i).key = i.left /\ Start(i).end = FALSE /\ Start(i).data = i.data
  BY DEF Start

LEMMA EndIs ==
    ASSUME NEW k
    PROVE  End(k).key = k /\ End(k).end = TRUE /\ End(k).data = "none"
  BY DEF End

(* Two intervals of a set share no end.                                    *)
LEMMA SharesNoEnd ==
    ASSUME NEW G, Fits(G), NEW i \in G, NEW j \in G,
           i.left = j.left \/ i.right = j.right \/ SameKeys(i, j) \/ Intersect(i, j)
    PROVE  i = j
  <1>1. i \in Intervals /\ j \in Intervals
    BY DEF Fits
  <1>2. Intersect(i, j)
    BY <1>1, Bounds DEF Intersect, SameKeys
  <1> QED
    BY <1>2 DEF Fits

(* The keys of the elements are numbers up to Top, and only the segment in *)
(* front of all others ends at zero.                                       *)
LEMMA ElementsOf ==
    ASSUME NEW G, Fits(G), NEW e \in Elems(G)
    PROVE  /\ e.key \in 0 .. Top
           /\ e # End(0)
           /\ \/ \E i \in G : e = Start(i)
              \/ \E i \in G : i.right # Top /\ e = End(i.right + 1)
  <1>1. CASE \E i \in G : e = Start(i)
    <2>1. PICK i \in G : e = Start(i)
      BY <1>1
    <2>2. i.left \in 0 .. Top
      BY Bounds DEF Fits
    <2>3. e.key = i.left /\ e.end = FALSE /\ End(0).end = TRUE
      BY <2>1, StartIs, EndIs
    <2> QED
      BY <2>1, <2>2, <2>3
  <1>2. CASE \E i \in {j \in G : j.right # Top} : e = End(i.right + 1)
    <2>1. PICK i \in G : i.right # Top /\ e = End(i.right + 1)
      BY <1>2
    <2>2. i.right \in 0 .. Top
      BY Bounds DEF Fits
    <2>3. e.key = i.right + 1 /\ End(0).key = 0
      BY <2>1, EndIs
    <2>4. i.right + 1 \in 0 .. Top /\ i.right + 1 # 0
      BY <2>1, <2>2, TopAssumption
    <2> QED
      BY <2>1, <2>3, <2>4
  <1> QED
    BY <1>1, <1>2 DEF Elems

LEMMA StandsIn ==
    ASSUME NEW E, NEW G, Fits(G), StandsFor(E, G)
    PROVE  /\ \A e \in E : e.key \in 0 .. Top
           /\ \A i \in G : Start(i) \in E
           /\ \A i \in G : i.right # Top => End(i.right + 1) \in E
           /\ \A e \in E : \/ e = End(0)
                           \/ \E i \in G : e = Start(i)
                           \/ \E i \in G : i.right # Top /\ e = End(i.right + 1)
  <1>1. \A e \in E : e = End(0) \/ e \in Elems(G)
    BY DEF StandsFor
  <1>2. End(0).key \in 0 .. Top
    <2>1. End(0).key = 0
      BY EndIs
    <2> QED
      BY <2>1, TopAssumption
  <1>3. ASSUME NEW e \in E PROVE e.key \in 0 .. Top
    <2>1. CASE e = End(0)
      BY <1>2, <2>1
    <2>2. CASE e \in Elems(G)
      BY <2>2, ElementsOf
    <2> QED
      BY <1>1, <2>1, <2>2
  <1>4. \A e \in Elems(G) : e \in E
    BY DEF StandsFor
  <1>5. \A i \in G : Start(i) \in E
    BY <1>4 DEF Elems
  <1>6. \A i \in G : i.right # Top => End(i.right + 1) \in E
    BY <1>4 DEF Elems
  <1>7. \A e \in E : \/ e = End(0)
                     \/ \E i \in G : e = Start(i)
                     \/ \E i \in G : i.right # Top /\ e = End(i.right + 1)
    BY <1>1 DEF Elems
  <1> QED
    BY <1>3, <1>5, <1>6, <1>7

(* The key in front of the next element, or Top.                           *)
LEMMA UptoIs ==
    ASSUME NEW E, \A e \in E : e.key \in 0 .. Top, NEW k \in 0 .. Top
    PROVE  /\ Upto(E, k) \in k .. Top
           /\ Behind(E, k) = {} => Upto(E, k) = Top
           /\ Behind(E, k) # {} => /\ Upto(E, k) + 1 \in Behind(E, k)
                                   /\ \A m \in Behind(E, k) : Upto(E, k) + 1 <= m
  <1>1. \A m \in Behind(E, k) : m \in 0 .. Top /\ m > k
    BY DEF Behind
  <1>2. CASE Behind(E, k) = {}
    BY <1>2, TopAssumption DEF Upto
  <1>3. CASE Behind(E, k) # {}
    <2> DEFINE B == Behind(E, k)
               n == CHOOSE n \in B : \A m \in B : n <= m
    <2>1. B \in SUBSET (0 .. Top) /\ Top \in Nat
      BY <1>1, TopAssumption
    <2>2. \E m \in B : \A x \in B : m <= x
      <3> HIDE DEF B
      <3> QED
        BY <1>3, <2>1, LeastNumber DEF B
    <2>3. n \in B /\ \A m \in B : n <= m
      BY <2>2
    <2>4. Upto(E, k) = n - 1
      BY <1>3 DEF Upto
    <2>5. n \in 0 .. Top /\ n > k
      BY <1>1, <2>3
    <2> HIDE DEF n
    <2>6. Upto(E, k) + 1 = n /\ Upto(E, k) \in k .. Top
      BY <2>4, <2>5, TopAssumption
    <2> QED
      BY <1>3, <2>3, <2>6
  <1> QED
    BY <1>2, <1>3

(* interval_map_decompose() finds the end of each interval, or the segment *)
(* up to the end of the dimension, and nothing else.                       *)
LEMMA UptoEnd ==
    ASSUME NEW E, NEW G, Fits(G), StandsFor(E, G), NEW i \in G
    PROVE  Upto(E, i.left) = i.right
  <1>1. i \in Intervals /\ G \subseteq Intervals
    BY DEF Fits
  <1>2. i.left \in 0 .. Top /\ i.right \in 0 .. Top /\ i.left <= i.right
    BY <1>1, Bounds
  <1>3. \A e \in E : e.key \in 0 .. Top
    BY StandsIn
  <1>4. ASSUME NEW e \in E, e.key > i.left PROVE e.key > i.right
    <2>1. CASE e = End(0)
      <3>1. e.key = 0
        BY <2>1, EndIs
      <3> QED
        BY <1>2, <1>4, <3>1
    <2>2. CASE \E j \in G : e = Start(j)
      <3>1. PICK j \in G : e = Start(j)
        BY <2>2
      <3>2. e.key = j.left
        BY <3>1, StartIs
      <3>3. j \in Intervals /\ i # j
        BY <1>1, <1>2, <1>4, <3>2
      <3>4. ~Intersect(i, j)
        BY <3>3 DEF Fits
      <3>5. j.left \in 0 .. Top /\ j.right \in 0 .. Top /\ j.left <= j.right
        BY <3>3, Bounds
      <3> QED
        BY <1>2, <1>4, <3>2, <3>4, <3>5 DEF Intersect
    <2>3. CASE \E j \in G : j.right # Top /\ e = End(j.right + 1)
      <3>1. PICK j \in G : e = End(j.right + 1)
        BY <2>3
      <3>2. e.key = j.right + 1
        BY <3>1, EndIs
      <3>3. j \in Intervals
        BY <1>1
      <3>4. j.left \in 0 .. Top /\ j.right \in 0 .. Top /\ j.left <= j.right
        BY <3>3, Bounds
      <3>5. CASE i = j
        BY <1>2, <3>2, <3>5
      <3>6. CASE i # j
        <4>1. ~Intersect(i, j)
          BY <3>6 DEF Fits
        <4> QED
          BY <1>2, <1>4, <3>2, <3>4, <4>1 DEF Intersect
      <3> QED
        BY <3>5, <3>6
    <2> QED
      BY <2>1, <2>2, <2>3, StandsIn
  <1>5. \A m \in Behind(E, i.left) : m > i.right /\ m \in 0 .. Top
    BY <1>3, <1>4 DEF Behind
  <1>6. CASE i.right = Top
    <2>1. Behind(E, i.left) = {}
      BY <1>5, <1>6, TopAssumption
    <2> QED
      BY <1>2, <1>3, <1>6, <2>1, UptoIs
  <1>7. CASE i.right # Top
    <2>1. End(i.right + 1) \in E
      BY <1>7, StandsIn
    <2>2. End(i.right + 1).key = i.right + 1
      BY EndIs
    <2>3. i.right + 1 > i.left
      BY <1>2
    <2>4. i.right + 1 \in Behind(E, i.left)
      BY <2>1, <2>2, <2>3 DEF Behind
    <2>5. /\ Upto(E, i.left) \in i.left .. Top
          /\ Upto(E, i.left) + 1 \in Behind(E, i.left)
          /\ Upto(E, i.left) + 1 <= i.right + 1
      BY <1>2, <1>3, <2>4, UptoIs
    <2>6. Upto(E, i.left) + 1 > i.right
      BY <1>5, <2>5
    <2> QED
      BY <1>2, <2>5, <2>6, TopAssumption
  <1> QED
    BY <1>6, <1>7

LEMMA DecomposeOf ==
    ASSUME NEW E, NEW G, Fits(G), StandsFor(E, G)
    PROVE  Decompose(E) = G
  <1>1. G \subseteq Intervals
    BY DEF Fits
  <1>2. ASSUME NEW s \in {e \in E : ~e.end}
        PROVE  Interval(s.key, Upto(E, s.key), s.data) \in G
    <2>1. ~s.end /\ s \in E
      OBVIOUS
    <2>2. PICK i \in G : s = Start(i)
      <3>1. \A k : End(k).end = TRUE
        BY EndIs
      <3> QED
        BY <2>1, <3>1, StandsIn
    <2>3. s.key = i.left /\ s.data = i.data
      BY <2>2, StartIs
    <2>4. Upto(E, i.left) = i.right
      BY UptoEnd
    <2>5. i = Interval(i.left, i.right, i.data)
      BY <1>1, Bounds
    <2> QED
      BY <2>3, <2>4, <2>5
  <1>3. ASSUME NEW i \in G
        PROVE  \E s \in {e \in E : ~e.end} : i = Interval(s.key, Upto(E, s.key), s.data)
    <2>1. Start(i) \in E
      BY StandsIn
    <2>2. Start(i).key = i.left /\ Start(i).end = FALSE /\ Start(i).data = i.data
      BY StartIs
    <2>3. Upto(E, i.left) = i.right
      BY UptoEnd
    <2>4. i = Interval(i.left, i.right, i.data)
      BY <1>1, Bounds
    <2> QED
      BY <2>1, <2>2, <2>3, <2>4
  <1> QED
    BY <1>2, <1>3 DEF Decompose

(* The neighbours of an interval of the tree.                              *)
LEMMA PrevIs ==
    ASSUME NEW i \in tree, tree \subseteq Intervals, LeftOf(i) # {}
    PROVE  /\ Prev(i) \in tree /\ Prev(i).left < i.left
           /\ \A j \in tree : j.left < i.left => j.left <= Prev(i).left
  <1> DEFINE L == LeftOf(i)
             T == {j.left : j \in L}
  <1>1. \A j \in L : j \in tree /\ j.left < i.left /\ j.left \in 0 .. Top
    BY Bounds DEF LeftOf
  <1>2. T \in SUBSET (0 .. Top) /\ T # {} /\ Top \in Nat
    BY <1>1, TopAssumption
  <1>3. PICK m \in T : \A k \in T : k <= m
    <2> HIDE DEF T
    <2> QED
      BY <1>2, GreatestNumber
  <1>4. \E j \in L : \A k \in L : k.left <= j.left
    BY <1>3
  <1>5. Prev(i) \in L /\ \A k \in L : k.left <= Prev(i).left
    <2>1. Prev(i) = CHOOSE j \in L : \A k \in L : k.left <= j.left
      BY DEF Prev
    <2> HIDE DEF L
    <2> QED
      BY <1>4, <2>1
  <1>6. \A j \in tree : j.left < i.left => j \in L
    BY DEF LeftOf
  <1> HIDE DEF L
  <1> QED
    BY <1>1, <1>5, <1>6

LEMMA NextIs ==
    ASSUME NEW i \in tree, tree \subseteq Intervals, i \notin Rightmost
    PROVE  \E n \in tree : /\ i.left < n.left
                           /\ \A j \in tree : i.left < j.left => n.left <= j.left
  <1> DEFINE T == {j.left : j \in {k \in tree : i.left < k.left}}
  <1>1. \A j \in tree : j.left \in 0 .. Top
    BY Bounds
  <1>2. \E j \in tree : ~(j.left <= i.left)
    BY DEF Rightmost
  <1>3. T \in SUBSET (0 .. Top) /\ T # {} /\ Top \in Nat
    BY <1>1, <1>2, TopAssumption
  <1>4. PICK m \in T : \A k \in T : m <= k
    <2> HIDE DEF T
    <2> QED
      BY <1>3, LeastNumber
  <1> QED
    BY <1>4

PrecededBy(n, i) == LeftOf(n) # {} /\ Prev(n) = i

LEMMA Preceded ==
    ASSUME Fits(tree), NEW i \in tree, NEW n \in tree, i.left < n.left,
           \A j \in tree : i.left < j.left => n.left <= j.left
    PROVE  PrecededBy(n, i)
  <1>1. tree \subseteq Intervals
    BY DEF Fits
  <1>2. i \in LeftOf(n) /\ LeftOf(n) # {}
    BY DEF LeftOf
  <1>3. Prev(n) \in tree /\ Prev(n).left < n.left /\ i.left <= Prev(n).left
    BY <1>1, <1>2, PrevIs
  <1>4. i.left \in 0 .. Top /\ n.left \in 0 .. Top /\ Prev(n).left \in 0 .. Top
    BY <1>1, <1>3, Bounds
  <1>5. ~(i.left < Prev(n).left)
    BY <1>3, <1>4
  <1>6. i.left = Prev(n).left
    BY <1>3, <1>4, <1>5
  <1>7. i = Prev(n)
    BY <1>3, <1>6, SharesNoEnd
  <1> QED
    BY <1>2, <1>7 DEF PrecededBy

(* segtree_linearize() closes each interval of a set that does not merge,  *)
(* behind it or with the next one; in one that merges it does so where     *)
(* there are gaps.                                                         *)
Spaced == \A i \in tree : LeftOf(i) # {} => Closes(Prev(i).right, i)

LEMMA PlainSpaced ==
    ASSUME kind \in SetKinds, ~kind.merge
    PROVE  Spaced
  <1>1. ~kind.anon
    BY KindsAssumption
  <1> QED
    BY <1>1 DEF Spaced, Closes

LEMMA WalkedIs ==
    ASSUME Spaced, Fits(tree), NEW op, NEW e
    PROVE  /\ e \in Walked(op) =>
                  \/ e = End(0) /\ NeedsFirst(op)
                  \/ \E i \in tree : e = Start(i)
                  \/ \E i \in tree : i.right # Top /\ e = End(i.right + 1)
           /\ \A i \in tree : Start(i) \in Walked(op)
           /\ \A i \in tree : i \notin Rightmost => End(i.right + 1) \in Walked(op)
  <1>1. tree \subseteq Intervals
    BY DEF Fits
  <1>2. \A i \in tree : LeftOf(i) # {} =>
            WrittenFor(op, i) = {End(Prev(i).right + 1), Start(i)}
    BY DEF WrittenFor, Spaced
  <1>3. \A i \in tree : LeftOf(i) = {} =>
            WrittenFor(op, i) = {Start(i)} \cup {f \in {End(0)} : NeedsFirst(op) /\ i.left # 0}
    BY DEF WrittenFor
  <1>4. \A i \in tree : Start(i) \in WrittenFor(op, i)
    BY <1>2, <1>3
  <1>5. \A i \in tree : Start(i) \in Walked(op)
    BY <1>4 DEF Walked
  <1>6. ASSUME NEW i \in tree, LeftOf(i) # {} PROVE Prev(i) \in tree /\ Prev(i).right # Top
    <2>1. Prev(i) \in tree /\ Prev(i).left < i.left
      BY <1>1, <1>6, PrevIs
    <2>2. i \in Intervals /\ Prev(i) \in Intervals
      BY <1>1, <2>1
    <2>3. i.left \in 0 .. Top /\ i.right \in 0 .. Top /\ i.left <= i.right
      BY <2>2, Bounds
    <2>4. Prev(i).left \in 0 .. Top /\ Prev(i).right \in 0 .. Top
      BY <2>2, Bounds
    <2>5. Prev(i) # i
      BY <2>1, <2>3
    <2>6. ~Intersect(Prev(i), i)
      BY <2>1, <2>5 DEF Fits
    <2> QED
      BY <2>1, <2>3, <2>4, <2>6, TopAssumption DEF Intersect
  <1>7. ASSUME e \in Walked(op)
        PROVE  \/ e = End(0) /\ NeedsFirst(op)
               \/ \E i \in tree : e = Start(i)
               \/ \E i \in tree : i.right # Top /\ e = End(i.right + 1)
    <2>1. PICK i \in tree : e \in WrittenFor(op, i)
      BY <1>7 DEF Walked
    <2>2. CASE LeftOf(i) = {}
      BY <1>3, <2>1, <2>2
    <2>3. CASE LeftOf(i) # {}
      BY <1>2, <1>6, <2>1, <2>3
    <2> QED
      BY <2>2, <2>3
  <1>8. ASSUME NEW i \in tree, i \notin Rightmost PROVE End(i.right + 1) \in Walked(op)
    <2>1. PICK n \in tree : /\ i.left < n.left
                            /\ \A j \in tree : i.left < j.left => n.left <= j.left
      BY <1>1, <1>8, NextIs
    <2>2. LeftOf(n) # {} /\ Prev(n) = i
      BY <2>1, Preceded DEF PrecededBy
    <2>3. End(i.right + 1) \in WrittenFor(op, n)
      BY <1>2, <2>2
    <2> QED
      BY <2>3 DEF Walked
  <1> QED
    BY <1>5, <1>7, <1>8

LEMMA LinearizeStands ==
    ASSUME Spaced, Fits(tree), NEW op
    PROVE  /\ StandsFor(Linearize(op), tree)
           /\ End(0) \in Linearize(op) => NeedsFirst(op)
  <1> DEFINE R == {j \in Rightmost : j.right # Top}
             L == {End(i.right + 1) : i \in R}
  <1>1. Linearize(op) = Walked(op) \cup L
    BY DEF Linearize
  <1>2. \A i \in R : i \in tree /\ i.right # Top
    BY DEF Rightmost
  <1>3. \A i \in tree : i \in Rightmost /\ i.right # Top => End(i.right + 1) \in L
    OBVIOUS
  <1>4. \A e \in Elems(tree) : e \in Linearize(op)
    <2>1. SUFFICES ASSUME NEW e \in Elems(tree) PROVE e \in Linearize(op)
      OBVIOUS
    <2>2. CASE \E i \in tree : e = Start(i)
      BY <1>1, <2>2, WalkedIs
    <2>3. CASE \E i \in {j \in tree : j.right # Top} : e = End(i.right + 1)
      <3>1. PICK i \in tree : i.right # Top /\ e = End(i.right + 1)
        BY <2>3
      <3>2. CASE i \in Rightmost
        BY <1>1, <1>3, <3>1, <3>2
      <3>3. CASE i \notin Rightmost
        BY <1>1, <3>1, <3>3, WalkedIs
      <3> QED
        BY <3>2, <3>3
    <2> QED
      BY <2>1, <2>2, <2>3 DEF Elems
  <1>5. \A i \in tree : i.right # Top => End(i.right + 1) \in Elems(tree)
    BY DEF Elems
  <1>6. \A i \in tree : Start(i) \in Elems(tree)
    BY DEF Elems
  <1>7. \A e \in L : e \in Elems(tree)
    BY <1>2, <1>5
  <1>8. \A e \in Walked(op) : e \in Elems(tree) \/ (e = End(0) /\ NeedsFirst(op))
    BY <1>5, <1>6, WalkedIs
  <1>9. \A e \in Elems(tree) : e # End(0)
    BY ElementsOf
  <1> HIDE DEF L
  <1>10. \A e \in Linearize(op) : e \in Elems(tree) \/ (e = End(0) /\ NeedsFirst(op))
    BY <1>1, <1>7, <1>8
  <1> QED
    BY <1>4, <1>9, <1>10 DEF StandsFor

-----------------------------------------------------------------------------
(* What the messages of a batch make of the set.                           *)
CarriedState == [ok : BOOLEAN, to : SUBSET (kernel \cup UNION {m.list : m \in Range(msgs)})]

CarriedStep(i) ==
    [x \in CarriedState |-> [ok |-> x.ok /\ ~Clash(x.to, msgs[i]), to |-> Apply(x.to, msgs[i])]]

LEMMA CarriedIs ==
    ASSUME NEW n \in Nat, Len(msgs) = n, DOMAIN msgs = 1 .. n
    PROVE  \A i \in 0 .. n :
              Carried[i] = IF i = 0 THEN [ok |-> TRUE, to |-> kernel]
                           ELSE [ok |-> Carried[i - 1].ok /\ ~Clash(Carried[i - 1].to, msgs[i]),
                                 to |-> Apply(Carried[i - 1].to, msgs[i])]
  <1> DEFINE X == CarriedState
             x0 == [ok |-> TRUE, to |-> kernel]
             Do(x, i) == [ok |-> x.ok /\ ~Clash(x.to, msgs[i]), to |-> Apply(x.to, msgs[i])]
             F == [i \in 1 .. n |-> CarriedStep(i)]
             Is(g) == g = [i \in 0 .. n |-> IF i = 0 THEN x0 ELSE Do(g[i - 1], i)]
             C == CHOOSE g : Is(g)
  <1>1. x0 \in X
    BY DEF CarriedState
  <1>2. ASSUME NEW i \in 1 .. n, NEW x \in X PROVE Do(x, i) \in X
    <2>1. msgs[i] \in Range(msgs)
      BY DEF Range
    <2>2. x.to \subseteq kernel \cup UNION {m.list : m \in Range(msgs)}
      BY DEF CarriedState
    <2>3. msgs[i].list \subseteq UNION {m.list : m \in Range(msgs)}
      BY <2>1
    <2>4. Apply(x.to, msgs[i]) \subseteq x.to \cup msgs[i].list
      BY DEF Apply
    <2>5. Apply(x.to, msgs[i]) \subseteq kernel \cup UNION {m.list : m \in Range(msgs)}
      BY <2>2, <2>3, <2>4
    <2>6. (x.ok /\ ~Clash(x.to, msgs[i])) \in BOOLEAN
      OBVIOUS
    <2> QED
      BY <2>5, <2>6 DEF CarriedState
  <1>3. \A i \in 1 .. n : CarriedStep(i) \in [X -> X]
    BY <1>2 DEF CarriedStep
  <1>4. F \in [1 .. n -> [X -> X]]
    BY <1>3
  <1>5. PICK g \in [0 .. n -> X] : Steps(g, n, x0, F)
    <2> HIDE DEF F, X, x0
    <2> QED
      BY <1>1, <1>4, Recursion
  <1>6. Is(g)
    <2>1. \A i \in 0 .. n : i # 0 => i \in 1 .. n /\ i - 1 \in 0 .. n
      OBVIOUS
    <2>2. \A i \in 0 .. n : i # 0 => F[i][g[i - 1]] = Do(g[i - 1], i)
      BY <1>5, <2>1 DEF CarriedStep
    <2>3. g = [i \in 0 .. n |-> IF i = 0 THEN x0 ELSE F[i][g[i - 1]]]
      BY <1>5 DEF Steps
    <2>4. [i \in 0 .. n |-> IF i = 0 THEN x0 ELSE F[i][g[i - 1]]]
            = [i \in 0 .. n |-> IF i = 0 THEN x0 ELSE Do(g[i - 1], i)]
      BY <2>2
    <2> QED
      BY <2>3, <2>4
  <1>7. Is(C)
    <2> HIDE DEF Is
    <2> QED
      BY <1>6
  <1>8. Carried = C
    BY DEF Carried
  <1>9. \A i \in 0 .. n : C[i] = IF i = 0 THEN x0 ELSE Do(C[i - 1], i)
    <2> HIDE DEF C
    <2> QED
      BY <1>7
  <1> HIDE DEF C
  <1> QED
    BY <1>8, <1>9

LEMMA CarriedSteps ==
    ASSUME NEW n \in Nat, Len(msgs) = n, DOMAIN msgs = 1 .. n
    PROVE  /\ Carried[0].ok /\ Carried[0].to = kernel
           /\ \A i \in 1 .. n :
                 /\ Carried[i].ok <=> Carried[i - 1].ok /\ ~Clash(Carried[i - 1].to, msgs[i])
                 /\ Carried[i].to = Apply(Carried[i - 1].to, msgs[i])
  <1> DEFINE To(i) == Carried[i - 1].to
             Ok(i) == Carried[i - 1].ok /\ ~Clash(To(i), msgs[i])
  <1>1. Carried[0] = [ok |-> TRUE, to |-> kernel]
    <2>1. 0 \in 0 .. n
      OBVIOUS
    <2>2. Carried[0] = IF 0 = 0 THEN [ok |-> TRUE, to |-> kernel]
                       ELSE [ok |-> Carried[0 - 1].ok /\ ~Clash(Carried[0 - 1].to, msgs[0]),
                             to |-> Apply(Carried[0 - 1].to, msgs[0])]
      BY <2>1, CarriedIs, Zenon
    <2> QED
      BY <2>2
  <1>2. ASSUME NEW i \in 1 .. n
        PROVE  (Carried[i].ok <=> Ok(i)) /\ Carried[i].to = Apply(To(i), msgs[i])
    <2>1. i \in 0 .. n /\ i # 0
      OBVIOUS
    <2>2. Carried[i] = [ok |-> Ok(i), to |-> Apply(To(i), msgs[i])]
      BY <2>1, CarriedIs
    <2> HIDE DEF Ok, To
    <2> QED
      BY <2>2
  <1> QED
    BY <1>1, <1>2

(* What users mean by a batch.                                             *)
GivenAfter(S, c) ==
    IF c.op = "DELETE" THEN {j \in S : \A d \in c.elems : ~SameKeys(d, j)}
                       ELSE S \cup Taken(c.elems)

LEMMA GivenIs ==
    ASSUME NEW n \in Nat, Len(cmds) = n
    PROVE  \A i \in 0 .. n :
              Given(i) = IF i = 0 THEN given ELSE GivenAfter(Given(i - 1), cmds[i])
  <1> DEFINE X == SUBSET (given \cup UNION {Taken(cmds[i].elems) : i \in 1 .. n})
             F == [i \in 1 .. n |-> [x \in X |-> GivenAfter(x, cmds[i])]]
             Is(g) == g = [i \in 0 .. n |-> IF i = 0 THEN given
                                            ELSE GivenAfter(g[i - 1], cmds[i])]
             C == CHOOSE g : Is(g)
  <1>1. given \in X
    OBVIOUS
  <1>2. ASSUME NEW i \in 1 .. n, NEW x \in X PROVE GivenAfter(x, cmds[i]) \in X
    <2>1. Taken(cmds[i].elems) \subseteq UNION {Taken(cmds[j].elems) : j \in 1 .. n}
      OBVIOUS
    <2>2. GivenAfter(x, cmds[i]) \subseteq x \cup Taken(cmds[i].elems)
      BY DEF GivenAfter
    <2> QED
      BY <2>1, <2>2
  <1>3. F \in [1 .. n -> [X -> X]]
    BY <1>2
  <1>4. PICK g \in [0 .. n -> X] : Steps(g, n, given, F)
    <2> HIDE DEF F, X
    <2> QED
      BY <1>1, <1>3, Recursion
  <1>5. Is(g)
    <2>1. \A i \in 0 .. n : i # 0 => i \in 1 .. n /\ i - 1 \in 0 .. n
      OBVIOUS
    <2>2. \A i \in 0 .. n : i # 0 => F[i][g[i - 1]] = GivenAfter(g[i - 1], cmds[i])
      BY <1>4, <2>1
    <2>3. g = [i \in 0 .. n |-> IF i = 0 THEN given ELSE F[i][g[i - 1]]]
      BY <1>4 DEF Steps
    <2>4. [i \in 0 .. n |-> IF i = 0 THEN given ELSE F[i][g[i - 1]]]
            = [i \in 0 .. n |-> IF i = 0 THEN given ELSE GivenAfter(g[i - 1], cmds[i])]
      BY <2>2
    <2> QED
      BY <2>3, <2>4
  <1>6. Is(C)
    <2> HIDE DEF Is
    <2> QED
      BY <1>5
  <1>7. \A i : Given(i) = C[i]
    BY DEF Given, GivenAfter
  <1>8. \A i \in 0 .. n : C[i] = IF i = 0 THEN given ELSE GivenAfter(C[i - 1], cmds[i])
    <2> HIDE DEF C
    <2> QED
      BY <1>6
  <1> HIDE DEF C
  <1> QED
    BY <1>7, <1>8

-----------------------------------------------------------------------------
(* Types, for every kind of set.                                           *)
Ops      == {"NEW", "ADD", "CREATE", "DELETE"}
Commands == [op : Ops, elems : SUBSET Intervals]
Messages == [op : Ops, list : SUBSET Elements]

TypeInv ==
    /\ kind \in SetKinds /\ made \in BOOLEAN /\ known \in BOOLEAN
    /\ kernel \subseteq Elements
    /\ given \subseteq Intervals /\ init \subseteq Intervals
    /\ todo \subseteq Intervals /\ tree \subseteq Intervals
    /\ stage \in {"idle", "command", "insert", "send", "failed", "refused"}
    /\ cmds \in Batches[kind] \cup {<<>>} /\ cmds \in Seq(Commands)
    /\ next \in 1 .. Len(cmds) + 1
    /\ stage = "insert" => next <= Len(cmds)
    /\ msgs \in Seq(Messages)

LEMMA BatchIs ==
    ASSUME kind \in SetKinds, NEW b \in Batches[kind]
    PROVE  /\ b \in Seq(Commands) /\ b # <<>>
           /\ \A i \in DOMAIN b : /\ b[i].op = "NEW" => i = 1
                                  /\ b[i].op # "NEW" => b[i].elems # {} /\ ~kind.anon
  BY BatchesAssumption DEF Commands, Ops

LEMMA CutType ==
    ASSUME NEW i \in Intervals, NEW l \in Int, NEW r \in Int, 0 <= l, r <= Top
    PROVE  Cut(i, l, r) \subseteq Intervals
  <1>1. SUFFICES ASSUME l <= r PROVE [i EXCEPT !.left = l, !.right = r] \in Intervals
    BY DEF Cut
  <1>2. l \in 0 .. Top /\ r \in 0 .. Top
    BY <1>1, TopAssumption
  <1> QED
    BY <1>1, <1>2 DEF Intervals

LEMMA PartsType ==
    ASSUME NEW i \in Intervals, NEW new \in Intervals
    PROVE  /\ LeftPart(i, new) \subseteq Intervals
           /\ RightPart(i, new) \subseteq Intervals
           /\ Split(i, new) \subseteq Intervals
  <1>1. /\ i.left \in 0 .. Top /\ i.right \in 0 .. Top
        /\ new.left \in 0 .. Top /\ new.right \in 0 .. Top
    BY Bounds
  <1>2. new.left - 1 \in Int /\ new.left - 1 <= Top /\ new.right + 1 \in Int /\ 0 <= new.right + 1
    BY <1>1, TopAssumption
  <1>3. i.left \in Int /\ 0 <= i.left /\ i.right \in Int /\ i.right <= Top
    BY <1>1
  <1>4. LeftPart(i, new) \subseteq Intervals
    BY <1>2, <1>3, CutType DEF LeftPart
  <1>5. RightPart(i, new) \subseteq Intervals
    BY <1>2, <1>3, CutType DEF RightPart
  <1> QED
    BY <1>4, <1>5 DEF Split

LEMMA MakeWayType ==
    ASSUME tree \subseteq Intervals, NEW new \in Intervals
    PROVE  MakeWay(new) \subseteq Intervals
  <1>1. Found(new.left) \subseteq tree /\ Found(new.right) \subseteq tree
    BY DEF Found
  <1>2. \A i \in Found(new.left) : Split(i, new) \subseteq Intervals
    BY <1>1, PartsType
  <1>3. \A i \in Found(new.left) : LeftPart(i, new) \subseteq Intervals
    BY <1>1, PartsType
  <1>4. \A i \in Found(new.right) : RightPart(i, new) \subseteq Intervals
    BY <1>1, PartsType
  <1>5. ASSUME NEW x \in MakeWay(new)
        PROVE  \/ x \in tree
               \/ \E i \in Found(new.left) : x \in Split(i, new)
               \/ \E i \in Found(new.left) : x \in LeftPart(i, new)
               \/ \E i \in Found(new.right) : x \in RightPart(i, new)
    <2>1. CASE Found(new.left) = Found(new.right)
      BY <1>5, <2>1 DEF MakeWay
    <2>2. CASE Found(new.left) # Found(new.right)
      BY <1>5, <2>2 DEF MakeWay
    <2> QED
      BY <2>1, <2>2
  <1> QED
    BY <1>2, <1>3, <1>4, <1>5

LEMMA StartType ==
    ASSUME NEW i \in Intervals
    PROVE  Start(i) \in Elements
  BY Bounds DEF Start, Elements

LEMMA EndType ==
    ASSUME NEW k \in 0 .. Top
    PROVE  End(k) \in Elements
  BY DEF End, Elements

LEMMA EndBehindType ==
    ASSUME NEW i \in Intervals, i.right # Top
    PROVE  End(i.right + 1) \in Elements
  <1>1. i.right + 1 \in 0 .. Top
    BY Bounds, TopAssumption
  <1> QED
    BY <1>1, EndType

LEMMA DecomposeType ==
    ASSUME NEW E, E \subseteq Elements
    PROVE  Decompose(E) \subseteq Intervals
  <1>1. SUFFICES ASSUME NEW s \in E PROVE Interval(s.key, Upto(E, s.key), s.data) \in Intervals
    BY DEF Decompose
  <1>2. \A e \in E : e.key \in 0 .. Top /\ e.data \in Data \cup {"none"}
    BY DEF Elements
  <1>3. s.key \in 0 .. Top /\ s.data \in Data \cup {"none"}
    BY <1>2
  <1>4. Upto(E, s.key) \in s.key .. Top
    BY <1>2, <1>3, UptoIs
  <1>5. Upto(E, s.key) \in 0 .. Top /\ s.key <= Upto(E, s.key)
    BY <1>3, <1>4, TopAssumption
  <1> QED
    BY <1>3, <1>5, IntervalAgain

LEMMA LinearizeType ==
    ASSUME TypeInv, TreeInv, NEW op
    PROVE  Linearize(op) \subseteq Elements
  <1>1. tree \subseteq Intervals /\ kind \in SetKinds
    BY DEF TypeInv
  <1>2. 0 \in 0 .. Top
    BY TopAssumption
  <1>3. End(0) \in Elements
    BY <1>2, EndType
  <1>4. CASE kind.merge
    <2>1. ASSUME NEW i \in tree PROVE WrittenFor(op, i) \subseteq Elements
      <3>1. Start(i) \in Elements
        BY <1>1, StartType
      <3>2. CASE LeftOf(i) = {}
        BY <1>3, <3>1, <3>2 DEF WrittenFor
      <3>3. CASE LeftOf(i) # {} /\ Closes(Prev(i).right, i)
        <4>1. Prev(i) \in Intervals
          BY <1>1, <3>3, PrevIs
        <4>2. Prev(i).right + 1 < i.left
          BY <1>4, <3>3 DEF Closes
        <4>3. i.left \in 0 .. Top /\ Prev(i).right \in 0 .. Top
          BY <1>1, <4>1, Bounds
        <4>4. Prev(i).right # Top
          BY <4>2, <4>3, TopAssumption
        <4>5. End(Prev(i).right + 1) \in Elements
          BY <4>1, <4>4, EndBehindType
        <4> QED
          BY <3>1, <3>3, <4>5 DEF WrittenFor
      <3>4. CASE LeftOf(i) # {} /\ ~Closes(Prev(i).right, i)
        BY <3>1, <3>4 DEF WrittenFor
      <3> QED
        BY <3>2, <3>3, <3>4
    <2>2. Walked(op) \subseteq Elements
      BY <2>1 DEF Walked
    <2>3. ASSUME NEW i \in {j \in Rightmost : j.right # Top} PROVE End(i.right + 1) \in Elements
      <3>1. i \in Intervals /\ i.right # Top
        BY <1>1 DEF Rightmost
      <3> QED
        BY <3>1, EndBehindType
    <2> QED
      BY <2>2, <2>3 DEF Linearize
  <1>5. CASE ~kind.merge
    <2>1. Spaced
      BY <1>1, <1>5, PlainSpaced
    <2>2. Fits(tree)
      BY <1>1, <1>5 DEF TreeInv, TreeDisjoint, Fits
    <2>3. StandsFor(Linearize(op), tree)
      BY <2>1, <2>2, LinearizeStands
    <2>4. ASSUME NEW e \in Linearize(op) PROVE e \in Elements
      <3>1. CASE e = End(0)
        BY <1>3, <3>1
      <3>2. CASE \E i \in tree : e = Start(i)
        BY <1>1, <3>2, StartType
      <3>3. CASE \E i \in tree : i.right # Top /\ e = End(i.right + 1)
        BY <1>1, <3>3, EndBehindType
      <3> QED
        BY <2>2, <2>3, <3>1, <3>2, <3>3, StandsIn
    <2> QED
      BY <2>4
  <1> QED
    BY <1>4, <1>5

(* The keys a set of intervals covers from a key on end somewhere.         *)
LEMMA ReachIs ==
    ASSUME NEW S, S \subseteq Intervals, NEW i \in S
    PROVE  LET r == Reach(S, i.left)
           IN  /\ r \in i.left .. Top
               /\ \A x \in i.left .. r : \E j \in S : Holds(j, x)
               /\ r < Top => \A j \in S : ~Holds(j, r + 1)
  <1> DEFINE l == i.left
             Whole(r) == \A x \in l .. r : \E j \in S : Holds(j, x)
             T == {r \in l .. Top : Whole(r)}
             P(r) == Whole(r) /\ (r < Top => \A j \in S : ~Holds(j, r + 1))
  <1>1. l \in 0 .. Top /\ i.right \in 0 .. Top /\ l <= i.right /\ Top \in Nat
    BY Bounds, TopAssumption
  <1>2. Holds(i, l)
    BY <1>1 DEF Holds
  <1>3. l \in T
    <2>1. \A x \in l .. l : x = l
      BY <1>1
    <2>2. l \in l .. Top
      BY <1>1
    <2> QED
      BY <1>2, <2>1, <2>2
  <1>4. T \in SUBSET (0 .. Top)
    BY <1>1
  <1>5. PICK m \in T : \A k \in T : k <= m
    <2> HIDE DEF T
    <2> QED
      BY <1>1, <1>3, <1>4, GreatestNumber
  <1>6. m \in l .. Top /\ Whole(m) /\ m \in Int
    BY <1>1, <1>5
  <1>7. ASSUME m < Top, NEW j \in S, Holds(j, m + 1) PROVE FALSE
    <2>1. \A x \in l .. m + 1 : x \in l .. m \/ x = m + 1
      BY <1>1, <1>6
    <2>2. Whole(m + 1)
      BY <1>6, <1>7, <2>1
    <2>3. m + 1 \in l .. Top
      BY <1>1, <1>6, <1>7
    <2>4. m + 1 \in T
      BY <2>2, <2>3
    <2>5. m + 1 <= m
      BY <1>5, <2>4
    <2> QED
      BY <1>6, <2>5
  <1>8. \E r \in l .. Top : P(r)
    BY <1>6, <1>7
  <1>9. Reach(S, l) = CHOOSE r \in l .. Top : P(r)
    BY DEF Reach
  <1> HIDE DEF P
  <1>10. Reach(S, l) \in l .. Top /\ P(Reach(S, l))
    BY <1>8, <1>9
  <1> QED
    BY <1>10 DEF P

LEMMA TakenType ==
    ASSUME NEW S, S \subseteq Intervals
    PROVE  Taken(S) \subseteq Intervals
  <1>1. ASSUME NEW i \in S PROVE Interval(i.left, Reach(S, i.left), "none") \in Intervals
    <2>1. i.left \in 0 .. Top
      BY Bounds
    <2>2. Reach(S, i.left) \in i.left .. Top
      BY ReachIs
    <2>3. Reach(S, i.left) \in 0 .. Top /\ i.left <= Reach(S, i.left)
      BY <2>1, <2>2, TopAssumption
    <2> QED
      BY <2>1, <2>3, IntervalAgain
  <1>2. Coalesce(S) \subseteq Intervals
    BY <1>1 DEF Coalesce
  <1> QED
    BY <1>2 DEF Taken

LEMMA CommandType ==
    ASSUME TypeInv
    PROVE  /\ Len(cmds) \in Nat /\ DOMAIN cmds = 1 .. Len(cmds)
           /\ \A i \in 1 .. Len(cmds) : cmds[i].op \in Ops /\ cmds[i].elems \subseteq Intervals
  <1>1. cmds \in Seq(Commands)
    BY DEF TypeInv
  <1>2. Len(cmds) \in Nat /\ DOMAIN cmds = 1 .. Len(cmds)
    BY <1>1
  <1>3. \A i \in 1 .. Len(cmds) : cmds[i] \in Commands
    BY <1>1
  <1>4. \A c \in Commands : c.op \in Ops /\ c.elems \subseteq Intervals
    BY DEF Commands
  <1> QED
    BY <1>2, <1>3, <1>4

LEMMA MessageType ==
    ASSUME TypeInv
    PROVE  /\ Len(msgs) \in Nat /\ DOMAIN msgs = 1 .. Len(msgs)
           /\ \A i \in 1 .. Len(msgs) : msgs[i].op \in Ops /\ msgs[i].list \subseteq Elements
  <1>1. msgs \in Seq(Messages)
    BY DEF TypeInv
  <1>2. Len(msgs) \in Nat /\ DOMAIN msgs = 1 .. Len(msgs)
    BY <1>1
  <1>3. \A i \in 1 .. Len(msgs) : msgs[i] \in Messages
    BY <1>1
  <1>4. \A m \in Messages : m.op \in Ops /\ m.list \subseteq Elements
    BY DEF Messages
  <1> QED
    BY <1>2, <1>3, <1>4

LEMMA GivenType ==
    ASSUME TypeInv, NEW k \in 0 .. Len(cmds)
    PROVE  Given(k) \subseteq Intervals
  <1> DEFINE n == Len(cmds)
             S == {i \in 0 .. n : Given(i) \subseteq Intervals}
  <1>1. n \in Nat
    BY CommandType
  <1> HIDE DEF n
  <1>2. \A i \in 0 .. n : Given(i) = IF i = 0 THEN given ELSE GivenAfter(Given(i - 1), cmds[i])
    BY <1>1, GivenIs DEF n
  <1>3. 0 \in S
    BY <1>1, <1>2 DEF TypeInv
  <1>4. ASSUME NEW i \in 0 .. n - 1, i \in S PROVE i + 1 \in S
    <2>1. i + 1 \in 0 .. n /\ i + 1 # 0 /\ (i + 1) - 1 = i /\ i + 1 \in 1 .. n
      BY <1>1
    <2>2. Given(i + 1) = GivenAfter(Given(i), cmds[i + 1])
      BY <1>2, <2>1
    <2>3. Given(i) \subseteq Intervals
      BY <1>4
    <2>4. Taken(cmds[i + 1].elems) \subseteq Intervals
      BY <2>1, CommandType, TakenType DEF n
    <2>5. Given(i + 1) \subseteq Intervals
      BY <2>2, <2>3, <2>4 DEF GivenAfter
    <2> QED
      BY <2>1, <2>5
  <1>5. 0 .. n \subseteq S
    <2> HIDE DEF S
    <2> QED
      BY <1>1, <1>3, <1>4, InductionTo
  <1> QED
    BY <1>5 DEF n

LEMMA CarriedType ==
    ASSUME TypeInv
    PROVE  Transaction.to \subseteq Elements
  <1> DEFINE n == Len(msgs)
             S == {i \in 0 .. n : Carried[i].to \subseteq Elements}
  <1>1. n \in Nat /\ DOMAIN msgs = 1 .. n
    BY MessageType
  <1> HIDE DEF n
  <1>2. /\ Carried[0].to = kernel
        /\ \A i \in 1 .. n : Carried[i].to = Apply(Carried[i - 1].to, msgs[i])
    BY <1>1, CarriedSteps DEF n
  <1>3. 0 \in S
    BY <1>1, <1>2 DEF TypeInv
  <1>4. ASSUME NEW i \in 0 .. n - 1, i \in S PROVE i + 1 \in S
    <2>1. i + 1 \in 0 .. n /\ i + 1 # 0 /\ (i + 1) - 1 = i /\ i + 1 \in 1 .. n
      BY <1>1
    <2>2. Carried[i + 1].to = Apply(Carried[i].to, msgs[i + 1])
      BY <1>2, <2>1
    <2>3. Carried[i].to \subseteq Elements
      BY <1>4
    <2>4. msgs[i + 1].list \subseteq Elements
      BY <2>1, MessageType DEF n
    <2>5. Carried[i + 1].to \subseteq Elements
      BY <2>2, <2>3, <2>4 DEF Apply
    <2> QED
      BY <2>1, <2>5
  <1>5. 0 .. n \subseteq S
    <2> HIDE DEF S
    <2> QED
      BY <1>1, <1>3, <1>4, InductionTo
  <1>6. n \in 0 .. n
    BY <1>1
  <1> QED
    BY <1>5, <1>6 DEF n, Transaction

LEMMA NothingYet ==
    /\ <<>> \in Seq(Commands) /\ <<>> \in Seq(Messages)
    /\ Len(<<>>) = 0 /\ 1 \in 1 .. Len(<<>>) + 1
  OBVIOUS

LEMMA TypeKept == Spec => [](TypeInv /\ TreeInv)
  <1>1. Init => TypeInv
    BY NothingYet DEF Init, TypeInv
  <1>2. TypeInv /\ TreeInv /\ [Next]_vars => TypeInv'
    <2> SUFFICES ASSUME TypeInv, TreeInv, [Next]_vars PROVE TypeInv'
      OBVIOUS
    <2> USE DEF TypeInv
    <2>1. ASSUME NEW b \in Batches[kind], Run(b) PROVE TypeInv'
      <3>1. b \in Seq(Commands) /\ b # <<>>
        BY BatchIs
      <3>2. Len(b) \in Nat /\ 1 \in 1 .. Len(b) + 1
        BY <3>1
      <3>3. Decompose(kernel) \subseteq Intervals
        BY DecomposeType
      <3> QED
        BY <2>1, <3>1, <3>2, <3>3 DEF Run
    <2>2. CASE Command
      <3>1. next \in 1 .. Len(cmds) /\ next <= Len(cmds)
        BY <2>2, CommandType DEF Command
      <3>2. cmds[next].elems \subseteq Intervals
        BY <3>1, CommandType
      <3> QED
        BY <2>2, <3>1, <3>2 DEF Command
    <2>3. CASE CommandFails
      BY <2>3 DEF CommandFails
    <2>4. CASE Insert
      <3>1. PICK new \in todo : tree' = MakeWay(new) \cup {new} /\ todo' = todo \ {new}
        BY <2>4 DEF Insert
      <3>2. tree' \subseteq Intervals /\ todo' \subseteq Intervals
        BY <3>1, MakeWayType
      <3> QED
        BY <2>4, <3>2 DEF Insert
    <2>5. CASE InsertFails
      BY <2>5 DEF InsertFails
    <2>6. CASE Message
      <3> DEFINE op == cmds[next].op
                 list == Linearize(op)
      <3>1. next \in 1 .. Len(cmds) /\ Len(cmds) \in Nat
        BY <2>6, CommandType DEF Message
      <3>2. op \in Ops
        BY <3>1, CommandType
      <3>3. list \subseteq Elements
        BY LinearizeType
      <3>4. [op |-> op, list |-> list] \in Messages
        BY <3>2, <3>3 DEF Messages
      <3>5. msgs' = Append(msgs, [op |-> op, list |-> list]) /\ init' = InitAfter(op, list)
        BY <2>6 DEF Message
      <3>6. Decompose(list) \subseteq Intervals
        BY <3>3, DecomposeType
      <3> HIDE DEF op, list
      <3>7. msgs' \in Seq(Messages)
        BY <3>4, <3>5
      <3>8. init' \subseteq Intervals
        BY <3>5, <3>6 DEF InitAfter
      <3>9. next' \in 1 .. Len(cmds) + 1 /\ stage' \in {"send", "command"}
        BY <2>6, <3>1 DEF Message
      <3>10. UNCHANGED <<kind, made, kernel, given, cmds, known, todo, tree>>
        BY <2>6 DEF Message
      <3> QED
        BY <3>7, <3>8, <3>9, <3>10
    <2>7. CASE Send
      <3>1. Transaction.to \subseteq Elements
        BY CarriedType
      <3>2. Len(cmds) \in 0 .. Len(cmds)
        BY CommandType
      <3>3. Given(Len(cmds)) \subseteq Intervals
        BY <3>2, GivenType
      <3> QED
        BY <2>7, <3>1, <3>3, NothingYet DEF Send
    <2>8. CASE SendFails
      BY <2>8 DEF SendFails
    <2>9. CASE Abort
      BY <2>9, NothingYet DEF Abort
    <2>10. CASE Destroy \/ UNCHANGED vars
      BY <2>10 DEF Destroy, vars
    <2> QED
      BY <2>1, <2>2, <2>3, <2>4, <2>5, <2>6, <2>7, <2>8, <2>9, <2>10 DEF Next
  <1> QED
    BY <1>1, <1>2, TreeKept, PTL DEF Spec

(* Elements have keys of the dimension and intervals are intervals: the    *)
(* key behind an end stays within the dimension, whatever the intervals    *)
(* and the kind of the set.                                                *)
THEOREM Typing == Spec => []TypeOK
  <1>1. TypeInv => TypeOK
    <2> SUFFICES ASSUME TypeInv PROVE TypeOK
      OBVIOUS
    <2>1. \A m \in Range(msgs) : m.list \subseteq Elements
      BY MessageType DEF Range
    <2> QED
      BY <2>1 DEF TypeInv, TypeOK
  <1> QED
    BY <1>1, TypeKept, PTL

-----------------------------------------------------------------------------
(* The runs of the keys that some intervals hold.                          *)
Held(S, x) == \E i \in S : Holds(i, x)

(* What a maximal run of keys is.                                          *)
IsRun(S, r) == /\ \A x \in r.left .. r.right : Held(S, x)
               /\ ~Held(S, r.left - 1)
               /\ r.right < Top => ~Held(S, r.right + 1)

LEMMA CoalesceIs ==
    ASSUME NEW S, S \subseteq Intervals
    PROVE  \A r \in Coalesce(S) : /\ r \in Intervals /\ r.data = "none" /\ IsRun(S, r)
                                  /\ \E i \in S : i.left = r.left
  <1> SUFFICES ASSUME NEW r \in Coalesce(S)
               PROVE  /\ r \in Intervals /\ r.data = "none" /\ IsRun(S, r)
                      /\ \E i \in S : i.left = r.left
    OBVIOUS
  <1>1. PICK i \in S : /\ \A k \in S : ~Holds(k, i.left - 1)
                       /\ r = Interval(i.left, Reach(S, i.left), "none")
    BY DEF Coalesce
  <1>2. i.left \in 0 .. Top
    BY Bounds
  <1>3. /\ Reach(S, i.left) \in i.left .. Top
        /\ \A x \in i.left .. Reach(S, i.left) : \E j \in S : Holds(j, x)
        /\ Reach(S, i.left) < Top => \A j \in S : ~Holds(j, Reach(S, i.left) + 1)
    BY ReachIs
  <1>4. Reach(S, i.left) \in 0 .. Top /\ i.left <= Reach(S, i.left)
    BY <1>2, <1>3, TopAssumption
  <1>5. r \in Intervals
    BY <1>1, <1>2, <1>4, IntervalAgain
  <1>6. r.left = i.left /\ r.right = Reach(S, i.left) /\ r.data = "none"
    BY <1>1 DEF Interval
  <1> QED
    BY <1>1, <1>3, <1>5, <1>6 DEF IsRun, Held

(* Two runs of the same keys that share a key, or touch, are the same.     *)
LEMMA RunsApart ==
    ASSUME NEW S, NEW r \in Intervals, NEW s \in Intervals, IsRun(S, r), IsRun(S, s),
           Intersect(r, s)
    PROVE  r.left = s.left /\ r.right = s.right
  <1>1. /\ r.left \in 0 .. Top /\ r.right \in 0 .. Top /\ r.left <= r.right
        /\ s.left \in 0 .. Top /\ s.right \in 0 .. Top /\ s.left <= s.right
    BY Bounds
  <1>2. Top \in Nat
    BY TopAssumption
  <1>3. r.left <= s.right /\ s.left <= r.right
    BY DEF Intersect
  <1>4. ~(r.left < s.left)
    <2> SUFFICES ASSUME r.left < s.left PROVE FALSE
      OBVIOUS
    <2>1. s.left - 1 \in r.left .. r.right
      BY <1>1, <1>3
    <2> QED
      BY <2>1 DEF IsRun
  <1>5. ~(s.left < r.left)
    <2> SUFFICES ASSUME s.left < r.left PROVE FALSE
      OBVIOUS
    <2>1. r.left - 1 \in s.left .. s.right
      BY <1>1, <1>3
    <2> QED
      BY <2>1 DEF IsRun
  <1>6. ~(r.right < s.right)
    <2> SUFFICES ASSUME r.right < s.right PROVE FALSE
      OBVIOUS
    <2>1. r.right + 1 \in s.left .. s.right /\ r.right < Top
      BY <1>1, <1>2, <1>3
    <2> QED
      BY <2>1 DEF IsRun
  <1>7. ~(s.right < r.right)
    <2> SUFFICES ASSUME s.right < r.right PROVE FALSE
      OBVIOUS
    <2>1. s.right + 1 \in r.left .. r.right /\ s.right < Top
      BY <1>1, <1>2, <1>3
    <2> QED
      BY <2>1 DEF IsRun
  <1> QED
    BY <1>1, <1>4, <1>5, <1>6, <1>7

LEMMA CoalesceFits ==
    ASSUME NEW S, S \subseteq Intervals
    PROVE  Fits(Coalesce(S))
  <1>1. ASSUME NEW r \in Coalesce(S), NEW s \in Coalesce(S), Intersect(r, s) PROVE r = s
    <2>1. /\ r \in Intervals /\ r.data = "none" /\ IsRun(S, r)
          /\ s \in Intervals /\ s.data = "none" /\ IsRun(S, s)
      BY CoalesceIs
    <2>2. r.left = s.left /\ r.right = s.right
      BY <1>1, <2>1, RunsApart
    <2>3. r = Interval(r.left, r.right, r.data) /\ s = Interval(s.left, s.right, s.data)
      BY <2>1, Bounds
    <2> QED
      BY <2>1, <2>2, <2>3
  <1> QED
    BY <1>1, CoalesceIs DEF Fits

(* Each key of the intervals is in a run.                                  *)
LEMMA CoalesceHolds ==
    ASSUME NEW S, S \subseteq Intervals, NEW x \in 0 .. Top, Held(S, x)
    PROVE  \E r \in Coalesce(S) : Holds(r, x)
  <1> DEFINE Whole(l) == \A y \in l .. x : Held(S, y)
             T == {l \in 0 .. x : Whole(l)}
  <1>1. x \in Nat /\ x <= Top /\ Top \in Nat
    BY TopAssumption
  <1>2. x \in T
    <2>1. \A y \in x .. x : y = x
      BY <1>1
    <2> QED
      BY <1>1, <2>1
  <1>3. PICK l \in T : \A k \in T : l <= k
    <2>1. T \in SUBSET (0 .. x) /\ T # {}
      BY <1>2
    <2> HIDE DEF T
    <2> QED
      BY <1>1, <2>1, LeastNumber
  <1>4. l \in 0 .. x /\ Whole(l)
    BY <1>3
  <1>5. ~Held(S, l - 1)
    <2> SUFFICES ASSUME Held(S, l - 1) PROVE FALSE
      OBVIOUS
    <2>1. l - 1 >= 0
      <3>1. PICK i \in S : Holds(i, l - 1)
        BY DEF Held
      <3>2. i.left \in 0 .. Top
        BY Bounds
      <3> QED
        BY <1>4, <3>1, <3>2 DEF Holds
    <2>2. \A y \in l - 1 .. x : y = l - 1 \/ y \in l .. x
      BY <1>1, <1>4
    <2>3. Whole(l - 1)
      BY <1>4, <2>2
    <2>4. l - 1 \in 0 .. x
      BY <1>1, <1>4, <2>1
    <2>5. l - 1 \in T
      BY <2>3, <2>4
    <2>6. l <= l - 1
      BY <1>3, <2>5
    <2> QED
      BY <1>4, <2>6
  <1>6. PICK i \in S : i.left = l
    <2>1. l \in l .. x
      BY <1>1, <1>4
    <2>2. PICK i \in S : Holds(i, l)
      BY <1>4, <2>1 DEF Held
    <2>3. i.left \in 0 .. Top /\ i.right \in 0 .. Top
      BY Bounds
    <2>4. ~Holds(i, l - 1)
      BY <1>5 DEF Held
    <2>5. i.left = l
      BY <1>4, <2>2, <2>3, <2>4 DEF Holds
    <2> QED
      BY <2>5
  <1> DEFINE r == Interval(l, Reach(S, l), "none")
  <1>7. r \in Coalesce(S)
    <2>1. i \in {j \in S : \A k \in S : ~Holds(k, j.left - 1)}
      BY <1>5, <1>6 DEF Held
    <2> QED
      BY <1>6, <2>1 DEF Coalesce
  <1>8. r.left = l /\ r.right = Reach(S, l)
    BY DEF Interval
  <1>9. r \in Intervals /\ IsRun(S, r)
    BY <1>7, CoalesceIs
  <1>10. r.right \in 0 .. Top /\ l <= r.right
    BY <1>8, <1>9, Bounds
  <1>11. ~(r.right < x)
    <2> SUFFICES ASSUME r.right < x PROVE FALSE
      OBVIOUS
    <2>1. r.right + 1 \in l .. x /\ r.right < Top
      BY <1>1, <1>4, <1>10
    <2> QED
      BY <1>4, <1>9, <2>1 DEF IsRun
  <1>12. Holds(r, x)
    <2> HIDE DEF r
    <2> QED
      BY <1>1, <1>4, <1>8, <1>10, <1>11 DEF Holds
  <1> QED
    BY <1>7, <1>12

(* The runs are those of the keys, whatever intervals hold these.          *)
SameCover(S, T) == \A x \in Int : Held(S, x) <=> Held(T, x)

LEMMA CoalesceWithin ==
    ASSUME NEW S, S \subseteq Intervals, NEW T, T \subseteq Intervals, SameCover(S, T)
    PROVE  Coalesce(S) \subseteq Coalesce(T)
  <1> SUFFICES ASSUME NEW r \in Coalesce(S) PROVE r \in Coalesce(T)
    OBVIOUS
  <1>1. r \in Intervals /\ r.data = "none" /\ IsRun(S, r)
    BY CoalesceIs
  <1>2. r.left \in 0 .. Top /\ r.right \in 0 .. Top /\ r.left <= r.right
    BY <1>1, Bounds
  <1>3. IsRun(T, r)
    <2>1. \A x \in r.left .. r.right : x \in Int
      OBVIOUS
    <2>2. r.left - 1 \in Int /\ r.right + 1 \in Int
      BY <1>2
    <2> QED
      BY <1>1, <2>1, <2>2 DEF IsRun, SameCover
  <1>4. r.left \in r.left .. r.right
    BY <1>2
  <1>5. Held(T, r.left)
    BY <1>3, <1>4 DEF IsRun
  <1>6. PICK s \in Coalesce(T) : Holds(s, r.left)
    BY <1>2, <1>5, CoalesceHolds
  <1>7. s \in Intervals /\ s.data = "none" /\ IsRun(T, s)
    BY CoalesceIs
  <1>8. Intersect(r, s)
    <2>1. s.left \in 0 .. Top /\ s.right \in 0 .. Top
      BY <1>7, Bounds
    <2> QED
      BY <1>2, <1>6, <2>1 DEF Holds, Intersect
  <1>9. r.left = s.left /\ r.right = s.right
    BY <1>1, <1>3, <1>7, <1>8, RunsApart
  <1>10. r = Interval(r.left, r.right, r.data) /\ s = Interval(s.left, s.right, s.data)
    BY <1>1, <1>7, Bounds
  <1> QED
    BY <1>1, <1>7, <1>9, <1>10

LEMMA CoalesceSame ==
    ASSUME NEW S, S \subseteq Intervals, NEW T, T \subseteq Intervals, SameCover(S, T)
    PROVE  Coalesce(S) = Coalesce(T)
  <1>1. SameCover(T, S)
    BY DEF SameCover
  <1> QED
    BY <1>1, CoalesceWithin

(* The ends of the runs are ends of intervals with nothing next to them.   *)
LEMMA RunEnds ==
    ASSUME NEW S, S \subseteq Intervals
    PROVE  /\ \A i \in S : ~Held(S, i.left - 1) => \E r \in Coalesce(S) : r.left = i.left
           /\ \A r \in Coalesce(S) : \E i \in S : i.left = r.left /\ ~Held(S, i.left - 1)
           /\ \A i \in S : i.right # Top /\ ~Held(S, i.right + 1) =>
                  \E r \in Coalesce(S) : r.right = i.right
           /\ \A r \in Coalesce(S) : r.right # Top =>
                  \E i \in S : i.right = r.right /\ ~Held(S, i.right + 1)
  <1>1. \A i \in S : i.left \in 0 .. Top /\ i.right \in 0 .. Top /\ i.left <= i.right
    BY Bounds
  <1>2. \A r \in Coalesce(S) : /\ r.left \in 0 .. Top /\ r.right \in 0 .. Top /\ r.left <= r.right
                               /\ IsRun(S, r) /\ \E i \in S : i.left = r.left
    BY CoalesceIs, Bounds
  <1>3. Top \in Nat
    BY TopAssumption
  <1>4. ASSUME NEW i \in S, ~Held(S, i.left - 1) PROVE \E r \in Coalesce(S) : r.left = i.left
    <2>1. Held(S, i.left)
      BY <1>1 DEF Held, Holds
    <2>2. PICK r \in Coalesce(S) : Holds(r, i.left)
      BY <1>1, <2>1, CoalesceHolds
    <2>3. ~(i.left - 1 \in r.left .. r.right)
      BY <1>2, <1>4 DEF IsRun
    <2>4. r.left = i.left
      BY <1>1, <1>2, <2>2, <2>3 DEF Holds
    <2> QED
      BY <2>4
  <1>5. ASSUME NEW r \in Coalesce(S) PROVE \E i \in S : i.left = r.left /\ ~Held(S, i.left - 1)
    <2>1. ~Held(S, r.left - 1)
      BY <1>2 DEF IsRun
    <2> QED
      BY <1>2, <2>1
  <1>6. ASSUME NEW i \in S, i.right # Top, ~Held(S, i.right + 1)
        PROVE  \E r \in Coalesce(S) : r.right = i.right
    <2>1. Held(S, i.right)
      BY <1>1 DEF Held, Holds
    <2>2. PICK r \in Coalesce(S) : Holds(r, i.right)
      BY <1>1, <2>1, CoalesceHolds
    <2>3. ~(i.right + 1 \in r.left .. r.right)
      BY <1>2, <1>6 DEF IsRun
    <2>4. r.right = i.right
      BY <1>1, <1>2, <2>2, <2>3 DEF Holds
    <2> QED
      BY <2>4
  <1>7. ASSUME NEW r \in Coalesce(S), r.right # Top
        PROVE  \E i \in S : i.right = r.right /\ ~Held(S, i.right + 1)
    <2>1. r.right \in r.left .. r.right /\ r.right < Top
      BY <1>2, <1>3, <1>7
    <2>2. Held(S, r.right) /\ ~Held(S, r.right + 1)
      BY <1>2, <2>1 DEF IsRun
    <2>3. PICK i \in S : Holds(i, r.right)
      BY <2>2 DEF Held
    <2>4. ~Holds(i, r.right + 1)
      BY <2>2 DEF Held
    <2>5. i.right = r.right
      BY <1>1, <1>2, <2>3, <2>4 DEF Holds
    <2> QED
      BY <2>2, <2>5
  <1> QED
    BY <1>4, <1>5, <1>6, <1>7

(* In a set that merges, what is written on the way for an interval tells  *)
(* whether there is another right in front of it.                          *)
LEMMA WrittenJoined ==
    ASSUME kind.merge, ~kind.map, Fits(tree), NEW op, op # "DELETE", NEW i \in tree
    PROVE  /\ Start(i) \in WrittenFor(op, i) <=> ~Held(tree, i.left - 1)
           /\ \A e \in WrittenFor(op, i) :
                 \/ e = Start(i)
                 \/ e = End(0) /\ NeedsFirst(op)
                 \/ \E p \in tree : /\ p.right # Top /\ ~Held(tree, p.right + 1)
                                    /\ e = End(p.right + 1)
           /\ LeftOf(i) # {} /\ ~Held(tree, Prev(i).right + 1) =>
                 End(Prev(i).right + 1) \in WrittenFor(op, i)
  <1>1. tree \subseteq Intervals
    BY DEF Fits
  <1>2. \A j \in tree : j.left \in 0 .. Top /\ j.right \in 0 .. Top /\ j.left <= j.right
    BY <1>1, Bounds
  <1>3. \A k : Start(i) # End(k)
    BY StartIs, EndIs
  <1>4. CASE LeftOf(i) = {}
    <2>1. ASSUME NEW j \in tree, Holds(j, i.left - 1) PROVE FALSE
      <3>1. j.left < i.left
        BY <1>2, <2>1 DEF Holds
      <3> QED
        BY <1>4, <3>1 DEF LeftOf
    <2>2. ~Held(tree, i.left - 1)
      BY <2>1 DEF Held
    <2>3. WrittenFor(op, i) = {Start(i)} \cup {e \in {End(0)} : NeedsFirst(op) /\ i.left # 0}
      BY <1>4 DEF WrittenFor
    <2> QED
      BY <1>4, <2>2, <2>3
  <1>5. CASE LeftOf(i) # {}
    <2> DEFINE p == Prev(i)
    <2>1. /\ p \in tree /\ p.left < i.left
          /\ \A j \in tree : j.left < i.left => j.left <= p.left
      BY <1>1, <1>5, PrevIs
    <2> HIDE DEF p
    <2>2. p.right < i.left
      <3>1. ~Intersect(p, i)
        BY <1>2, <2>1 DEF Fits
      <3> QED
        BY <1>2, <2>1, <3>1 DEF Intersect
    <2>3. ASSUME NEW j \in tree, NEW x \in Int, p.right < x, x < i.left, Holds(j, x) PROVE FALSE
      <3>1. j.left < i.left
        BY <1>2, <2>3 DEF Holds
      <3>2. j.left <= p.left
        BY <2>1, <3>1
      <3>3. j # p
        BY <1>2, <2>1, <2>3 DEF Holds
      <3>4. ~Intersect(j, p)
        BY <2>1, <3>3 DEF Fits
      <3> QED
        BY <1>2, <2>1, <2>3, <3>2, <3>4 DEF Intersect, Holds
    <2>4. CASE p.right + 1 < i.left
      <3>1. ~Held(tree, i.left - 1)
        <4>1. i.left - 1 \in Int /\ p.right < i.left - 1 /\ i.left - 1 < i.left
          BY <1>2, <2>1, <2>4
        <4> QED
          BY <2>3, <4>1 DEF Held
      <3>2. ~Held(tree, p.right + 1)
        <4>1. p.right + 1 \in Int /\ p.right < p.right + 1
          BY <1>2, <2>1
        <4> QED
          BY <2>3, <2>4, <4>1 DEF Held
      <3>3. p.right # Top
        BY <1>2, <2>1, <2>4, TopAssumption
      <3>4. WrittenFor(op, i) = {End(p.right + 1), Start(i)}
        BY <1>5, <2>4 DEF WrittenFor, Closes, p
      <3> QED
        BY <2>1, <3>1, <3>2, <3>3, <3>4 DEF p
    <2>5. CASE ~(p.right + 1 < i.left)
      <3>1. p.right + 1 = i.left /\ p.right = i.left - 1
        BY <1>2, <2>1, <2>2, <2>5
      <3>2. Held(tree, i.left - 1)
        BY <1>2, <2>1, <3>1 DEF Held, Holds
      <3>3. Held(tree, p.right + 1)
        BY <1>2, <3>1 DEF Held, Holds
      <3>4. WrittenFor(op, i) = {}
        BY <1>5, <2>5 DEF WrittenFor, Closes, p
      <3> QED
        BY <3>2, <3>3, <3>4 DEF p
    <2> QED
      BY <2>4, <2>5
  <1> QED
    BY <1>4, <1>5

(* segtree_linearize() joins the intervals of a set that merges: its       *)
(* elements are those of the maximal runs of the keys in them.             *)
LEMMA LinearizeJoins ==
    ASSUME kind.merge, ~kind.map, Fits(tree), \A i \in tree : i.data = "none",
           NEW op, op # "DELETE"
    PROVE  /\ StandsFor(Linearize(op), Coalesce(tree))
           /\ End(0) \in Linearize(op) => NeedsFirst(op)
  <1> DEFINE C == Coalesce(tree)
             R == {j \in Rightmost : j.right # Top}
             L == {End(i.right + 1) : i \in R}
  <1>1. tree \subseteq Intervals
    BY DEF Fits
  <1>2. \A j \in tree : j.left \in 0 .. Top /\ j.right \in 0 .. Top /\ j.left <= j.right
    BY <1>1, Bounds
  <1>3. Linearize(op) = Walked(op) \cup L
    BY DEF Linearize
  <1>4. \A r \in C : r.data = "none"
    BY <1>1, CoalesceIs
  <1>5. ASSUME NEW i \in tree, ~Held(tree, i.left - 1) PROVE Start(i) \in Elems(C)
    <2>1. PICK r \in C : r.left = i.left
      BY <1>1, <1>5, RunEnds
    <2>2. Start(i) = Start(r)
      BY <1>4, <2>1 DEF Start
    <2> QED
      BY <2>1, <2>2 DEF Elems
  <1>6. ASSUME NEW i \in tree, i.right # Top, ~Held(tree, i.right + 1)
        PROVE  End(i.right + 1) \in Elems(C)
    <2>1. PICK r \in C : r.right = i.right
      BY <1>1, <1>6, RunEnds
    <2> QED
      BY <1>6, <2>1 DEF Elems
  <1>7. ASSUME NEW e \in Walked(op)
        PROVE  e \in Elems(C) \/ (e = End(0) /\ NeedsFirst(op))
    <2>1. PICK i \in tree : e \in WrittenFor(op, i)
      BY DEF Walked
    <2>2. \/ e = Start(i) /\ ~Held(tree, i.left - 1)
          \/ e = End(0) /\ NeedsFirst(op)
          \/ \E p \in tree : p.right # Top /\ ~Held(tree, p.right + 1) /\ e = End(p.right + 1)
      BY <2>1, WrittenJoined
    <2> HIDE DEF C
    <2> QED
      BY <1>5, <1>6, <2>2
  <1>8. ASSUME NEW i \in Rightmost, i.right # Top PROVE i \in tree /\ ~Held(tree, i.right + 1)
    <2>1. i \in tree /\ \A j \in tree : j.left <= i.left
      BY DEF Rightmost
    <2>2. ASSUME NEW j \in tree, Holds(j, i.right + 1) PROVE FALSE
      <3>1. j # i
        BY <1>2, <2>1, <2>2 DEF Holds
      <3>2. ~Intersect(i, j)
        BY <2>1, <3>1 DEF Fits
      <3>3. j.left <= i.left /\ i.right + 1 <= j.right
        BY <2>1, <2>2 DEF Holds
      <3> QED
        BY <1>2, <2>1, <3>2, <3>3 DEF Intersect
    <2> QED
      BY <2>1, <2>2 DEF Held
  <1>9. \A e \in L : e \in Elems(C)
    <2> SUFFICES ASSUME NEW e \in L PROVE e \in Elems(C)
      OBVIOUS
    <2>1. PICK i \in R : e = End(i.right + 1)
      OBVIOUS
    <2>2. i \in Rightmost /\ i.right # Top
      OBVIOUS
    <2> HIDE DEF C, L, R
    <2> QED
      BY <1>6, <1>8, <2>1, <2>2
  <1>10. ASSUME NEW r \in C PROVE Start(r) \in Linearize(op)
    <2>1. PICK i \in tree : i.left = r.left /\ ~Held(tree, i.left - 1)
      BY <1>1, RunEnds
    <2>2. Start(r) = Start(i)
      BY <1>4, <2>1 DEF Start
    <2>3. Start(i) \in WrittenFor(op, i)
      BY <2>1, WrittenJoined
    <2>4. Start(i) \in Walked(op)
      BY <2>3 DEF Walked
    <2> QED
      BY <1>3, <2>2, <2>4
  <1>11. ASSUME NEW r \in C, r.right # Top PROVE End(r.right + 1) \in Linearize(op)
    <2>1. PICK i \in tree : i.right = r.right /\ ~Held(tree, i.right + 1)
      BY <1>1, <1>11, RunEnds
    <2>2. CASE i \in Rightmost
      <3>1. End(i.right + 1) \in L
        BY <1>11, <2>1, <2>2
      <3> QED
        BY <1>3, <2>1, <3>1
    <2>3. CASE i \notin Rightmost
      <3>1. PICK n \in tree : /\ i.left < n.left
                              /\ \A j \in tree : i.left < j.left => n.left <= j.left
        BY <1>1, <2>3, NextIs
      <3>2. PrecededBy(n, i)
        BY <3>1, Preceded
      <3>3. End(i.right + 1) \in WrittenFor(op, n)
        BY <2>1, <3>2, WrittenJoined DEF PrecededBy
      <3>4. End(i.right + 1) \in Walked(op)
        BY <3>3 DEF Walked
      <3> QED
        BY <1>3, <2>1, <3>4
    <2> QED
      BY <2>2, <2>3
  <1>12. Fits(C)
    BY <1>1, CoalesceFits
  <1> HIDE DEF L, C
  <1>13. \A e \in Elems(C) : e # End(0)
    BY <1>12, ElementsOf
  <1>14. \A e \in Linearize(op) : e \in Elems(C) \/ (e = End(0) /\ NeedsFirst(op))
    BY <1>3, <1>7, <1>9
  <1>15. \A e \in Elems(C) : e \in Linearize(op)
    BY <1>10, <1>11 DEF Elems
  <1> QED
    BY <1>13, <1>14, <1>15 DEF StandsFor, C

-----------------------------------------------------------------------------
(* Sets that merge.                                                        *)
Within(i, j) == j.left <= i.left /\ i.right <= j.right

(* The parts that are left of an interval around a new one: a part of one  *)
(* key on the right is not kept.                                           *)
LEMMA PartsAre ==
    ASSUME NEW t \in Intervals, NEW new \in Intervals, Within(new, t)
    PROVE  /\ \A x \in Split(t, new) :
                 /\ x \in Intervals /\ x.data = t.data
                 /\ \/ x.left = t.left /\ x.right = new.left - 1
                    \/ x.left = new.right + 1 /\ x.right = t.right
           /\ t.left < new.left =>
                 \E x \in Split(t, new) : x.left = t.left /\ x.right = new.left - 1
           /\ new.right + 1 < t.right =>
                 \E x \in Split(t, new) : x.left = new.right + 1 /\ x.right = t.right
  <1> DEFINE a == [t EXCEPT !.left = t.left, !.right = new.left - 1]
             b == [t EXCEPT !.left = new.right + 1, !.right = t.right]
  <1>1. t.left \in 0 .. Top /\ t.right \in 0 .. Top /\ new.left \in 0 .. Top /\ new.right \in 0 .. Top
    BY Bounds
  <1>2. a.left = t.left /\ a.right = new.left - 1 /\ a.data = t.data
    BY DEF Intervals
  <1>3. b.left = new.right + 1 /\ b.right = t.right /\ b.data = t.data
    BY DEF Intervals
  <1>4. \A x \in LeftPart(t, new) : x = a
    BY DEF LeftPart, Cut
  <1>5. \A x \in RightPart(t, new) : x = b
    BY DEF RightPart, Cut
  <1>6. t.left < new.left => a \in LeftPart(t, new)
    BY <1>1 DEF LeftPart, Cut
  <1>7. new.right + 1 < t.right => b \in RightPart(t, new)
    BY <1>1 DEF RightPart, Cut
  <1>8. \A x \in Split(t, new) : x \in Intervals
    BY PartsType
  <1> HIDE DEF a, b
  <1>9. \A x \in Split(t, new) : x = a \/ x = b
    BY <1>4, <1>5 DEF Split
  <1>10. t.left < new.left => a \in Split(t, new)
    BY <1>6 DEF Split
  <1>11. new.right + 1 < t.right => b \in Split(t, new)
    BY <1>3, <1>7 DEF Split
  <1> QED
    BY <1>2, <1>3, <1>8, <1>9, <1>10, <1>11

(* Where intervals are nested or apart, a new one either meets none of the *)
(* tree or is within one of it.                                            *)
LEMMA WayMade ==
    ASSUME Fits(tree), NEW new \in Intervals,
           \A t \in tree : ~Intersect(new, t) \/ Within(new, t)
    PROVE  \/ MakeWay(new) = tree /\ \A t \in tree : ~Intersect(new, t)
           \/ \E t \in tree : /\ Within(new, t)
                              /\ MakeWay(new) = (tree \ {t}) \cup Split(t, new)
                              /\ \A s \in tree \ {t} : ~Intersect(new, s)
  <1>1. \A t \in tree \cup {new} : /\ t.left \in 0 .. Top /\ t.right \in 0 .. Top
                                   /\ t.left <= t.right
    BY Bounds DEF Fits
  <1>2. CASE \A t \in tree : ~Intersect(new, t)
    <2>1. \A t \in tree : ~Holds(t, new.left) /\ ~Holds(t, new.right)
      BY <1>1, <1>2 DEF Intersect, Holds
    <2>2. Found(new.left) = {} /\ Found(new.right) = {}
      BY <2>1 DEF Found
    <2>3. MakeWay(new) = tree
      BY <2>2 DEF MakeWay
    <2> QED
      BY <1>2, <2>3
  <1>3. CASE \E t \in tree : Intersect(new, t)
    <2>1. PICK t \in tree : Intersect(new, t)
      BY <1>3
    <2>2. Within(new, t)
      BY <2>1
    <2>3. ASSUME NEW s \in tree, s # t PROVE ~Intersect(new, s)
      <3>1. ~Intersect(s, t)
        BY <2>3 DEF Fits
      <3> QED
        BY <1>1, <2>2, <3>1 DEF Within, Intersect
    <2>4. \A s \in tree \ {t} : ~Holds(s, new.left) /\ ~Holds(s, new.right)
      BY <1>1, <2>3 DEF Intersect, Holds
    <2>5. Holds(t, new.left) /\ Holds(t, new.right)
      BY <1>1, <2>2 DEF Within, Holds
    <2>6. Found(new.left) = {t} /\ Found(new.right) = {t}
      BY <2>4, <2>5 DEF Found
    <2>7. MakeWay(new) = (tree \ {t}) \cup Split(t, new)
      BY <2>6 DEF MakeWay
    <2> QED
      BY <2>2, <2>3, <2>7
  <1> QED
    BY <1>2, <1>3

(* Intervals from which ei_insert() makes a tree that covers their keys:   *)
(* the smaller ones are within the larger or apart, and none leaves a      *)
(* single key on its right.                                                *)
Clean(T) ==
    \A i, j \in T : i # j /\ Before(j, i) =>
        /\ ~Intersect(i, j) \/ Within(i, j)
        /\ j.right # i.right + 1
        /\ j.left = i.right + 2 => \A k \in T : Before(k, i) /\ k # i => ~Holds(k, i.right + 1)

(* The tree of the intervals done, for those still to insert.              *)
Grown(T, tr, rest) ==
    /\ Fits(tr)
    /\ \A t \in tr : /\ t.data = "none"
                     /\ \A i \in rest : ~Intersect(i, t) \/ Within(i, t)
                     /\ \E j \in T \ rest : t.right = j.right \/ t.right = j.left - 1
    /\ SameCover(tr, T \ rest)
    /\ \A j \in T \ rest, i \in rest : Before(j, i)

(* No key is lost on the right of a new interval.                          *)
LEMMA NothingLost ==
    ASSUME NEW T, T \subseteq Intervals, Clean(T), NEW tr, NEW rest, rest \subseteq T,
           Grown(T, tr, rest), NEW new \in rest, NEW t \in tr, Within(new, t)
    PROVE  t.right # new.right + 1
  <1> SUFFICES ASSUME t.right = new.right + 1 PROVE FALSE
    OBVIOUS
  <1>1. t \in Intervals /\ new \in Intervals
    BY DEF Grown, Fits
  <1>2. /\ t.left \in 0 .. Top /\ t.right \in 0 .. Top /\ t.left <= t.right
        /\ new.left \in 0 .. Top /\ new.right \in 0 .. Top
    BY <1>1, Bounds
  <1>3. PICK j \in T \ rest : t.right = j.right \/ t.right = j.left - 1
    BY DEF Grown
  <1>4. j # new /\ Before(j, new) /\ j \in Intervals
    BY <1>3 DEF Grown
  <1>5. j.right # new.right + 1
    BY <1>3, <1>4 DEF Clean
  <1>6. j.left \in 0 .. Top
    BY <1>4, Bounds
  <1>7. j.left = new.right + 2
    BY <1>2, <1>3, <1>5, <1>6
  <1>8. Held(tr, new.right + 1)
    BY <1>2 DEF Held, Holds
  <1>9. new.right + 1 \in Int
    BY <1>2
  <1>10. Held(T \ rest, new.right + 1)
    BY <1>8, <1>9 DEF Grown, SameCover
  <1>11. PICK k \in T \ rest : Holds(k, new.right + 1)
    BY <1>10 DEF Held
  <1>12. Before(k, new) /\ k # new
    BY DEF Grown
  <1> QED
    BY <1>3, <1>4, <1>7, <1>11, <1>12 DEF Clean

(* What is left of the tree around a new interval.                         *)
LeftOfTree(new, x) ==
    \E t \in tree :
       /\ x.data = t.data
       /\ \/ x.left = t.left /\ x.right = t.right /\ ~Intersect(new, t)
          \/ Within(new, t) /\ x.left = t.left /\ x.right = new.left - 1
          \/ Within(new, t) /\ x.left = new.right + 1 /\ x.right = t.right

LEMMA WayLeft ==
    ASSUME NEW T, T \subseteq Intervals, Clean(T), todo \subseteq T, Grown(T, tree, todo),
           NEW new \in todo
    PROVE  /\ MakeWay(new) \subseteq Intervals
           /\ \A x \in MakeWay(new) : LeftOfTree(new, x)
           /\ \A x, y \in MakeWay(new) : x # y => ~Intersect(x, y)
           /\ \A z \in Int : Held(tree, z) => Holds(new, z) \/ Held(MakeWay(new), z)
  <1>1. Fits(tree) /\ new \in Intervals /\ \A t \in tree : ~Intersect(new, t) \/ Within(new, t)
    BY DEF Grown
  <1>2. MakeWay(new) \subseteq Intervals
    BY <1>1, MakeWayType DEF Fits
  <1>3. CASE MakeWay(new) = tree /\ \A t \in tree : ~Intersect(new, t)
    <2>1. \A x \in MakeWay(new) : LeftOfTree(new, x)
      BY <1>3 DEF LeftOfTree
    <2> QED
      BY <1>1, <1>2, <1>3, <2>1 DEF Fits
  <1>4. ASSUME NEW t \in tree, Within(new, t), MakeWay(new) = (tree \ {t}) \cup Split(t, new),
               \A s \in tree \ {t} : ~Intersect(new, s)
        PROVE  /\ \A x \in MakeWay(new) : LeftOfTree(new, x)
               /\ \A x, y \in MakeWay(new) : x # y => ~Intersect(x, y)
               /\ \A z \in Int : Held(tree, z) => Holds(new, z) \/ Held(MakeWay(new), z)
    <2>1. /\ t \in Intervals
          /\ t.left \in 0 .. Top /\ t.right \in 0 .. Top
          /\ new.left \in 0 .. Top /\ new.right \in 0 .. Top /\ new.left <= new.right
          /\ t.left <= new.left /\ new.right <= t.right
      BY <1>1, <1>4, Bounds DEF Fits, Within
    <2>2. \A x \in Split(t, new) :
              /\ x \in Intervals /\ x.data = t.data
              /\ \/ x.left = t.left /\ x.right = new.left - 1
                 \/ x.left = new.right + 1 /\ x.right = t.right
      BY <1>1, <1>4, <2>1, PartsAre
    <2>3. ASSUME NEW x \in MakeWay(new) PROVE LeftOfTree(new, x)
      <3>1. CASE x \in tree \ {t}
        BY <1>4, <3>1 DEF LeftOfTree
      <3>2. CASE x \in Split(t, new)
        BY <1>4, <2>2, <3>2 DEF LeftOfTree
      <3> QED
        BY <1>4, <3>1, <3>2
    <2>4. ASSUME NEW x \in Split(t, new), NEW y \in tree \ {t}
          PROVE  ~Intersect(x, y) /\ ~Intersect(y, x)
      <3>1. ~Intersect(t, y)
        BY <1>1 DEF Fits
      <3>2. x \in Intervals /\ y \in Intervals
        BY <1>1, <2>2 DEF Fits
      <3>3. /\ x.left \in 0 .. Top /\ x.right \in 0 .. Top
            /\ y.left \in 0 .. Top /\ y.right \in 0 .. Top
        BY <3>2, Bounds
      <3>4. t.left <= x.left /\ x.right <= t.right
        BY <2>1, <2>2, <3>3
      <3> QED
        BY <2>1, <3>1, <3>3, <3>4 DEF Intersect
    <2>5. ASSUME NEW x \in Split(t, new), NEW y \in Split(t, new), x # y PROVE ~Intersect(x, y)
      <3>1. x \in Intervals /\ y \in Intervals /\ x.data = y.data
        BY <2>2
      <3>2. x = Interval(x.left, x.right, x.data) /\ y = Interval(y.left, y.right, y.data)
        BY <3>1, Bounds
      <3>3. ~(x.left = y.left /\ x.right = y.right)
        BY <2>5, <3>1, <3>2
      <3>4. \/ x.right = new.left - 1 /\ y.left = new.right + 1
            \/ y.right = new.left - 1 /\ x.left = new.right + 1
        BY <2>2, <3>3
      <3> QED
        BY <2>1, <3>4 DEF Intersect
    <2>6. ASSUME NEW x \in MakeWay(new), NEW y \in MakeWay(new), x # y PROVE ~Intersect(x, y)
      <3>1. CASE x \in tree \ {t} /\ y \in tree \ {t}
        BY <1>1, <2>6, <3>1 DEF Fits
      <3> QED
        BY <1>4, <2>4, <2>5, <2>6, <3>1
    <2>7. ASSUME NEW z \in Int, Held(tree, z), ~Holds(new, z) PROVE Held(MakeWay(new), z)
      <3>1. PICK s \in tree : Holds(s, z)
        BY <2>7 DEF Held
      <3>2. CASE s # t
        BY <1>4, <3>1, <3>2 DEF Held
      <3>3. CASE s = t /\ z < new.left
        <4>1. t.left <= z /\ t.left < new.left
          BY <2>1, <3>1, <3>3 DEF Holds
        <4>2. PICK x \in Split(t, new) : x.left = t.left /\ x.right = new.left - 1
          BY <1>1, <1>4, <2>1, <4>1, PartsAre
        <4>3. Holds(x, z)
          BY <2>1, <3>3, <4>1, <4>2 DEF Holds
        <4> QED
          BY <1>4, <4>3 DEF Held
      <3>4. CASE s = t /\ ~(z < new.left)
        <4>1. new.right < z /\ z <= t.right
          BY <2>1, <2>7, <3>1, <3>4 DEF Holds
        <4>2. t.right # new.right + 1
          BY <1>4, NothingLost
        <4>3. new.right + 1 < t.right
          BY <2>1, <4>1, <4>2
        <4>4. PICK x \in Split(t, new) : x.left = new.right + 1 /\ x.right = t.right
          BY <1>1, <1>4, <2>1, <4>3, PartsAre
        <4>5. Holds(x, z)
          BY <2>1, <4>1, <4>4 DEF Holds
        <4> QED
          BY <1>4, <4>5 DEF Held
      <3> QED
        BY <3>2, <3>3, <3>4
    <2> QED
      BY <2>3, <2>6, <2>7
  <1> QED
    BY <1>1, <1>2, <1>3, <1>4, WayMade

(* ei_insert() keeps the tree disjoint, and its keys are those of the      *)
(* intervals inserted so far.                                              *)
LEMMA Grows ==
    ASSUME NEW T, T \subseteq Intervals, Clean(T), \A i \in T : i.data = "none",
           todo \subseteq T, Grown(T, tree, todo),
           NEW new \in todo, \A i \in todo : Before(new, i)
    PROVE  Grown(T, MakeWay(new) \cup {new}, todo \ {new})
  <1> DEFINE W == MakeWay(new)
             tr == W \cup {new}
             rest == todo \ {new}
  <1>1. new \in Intervals /\ new \in T /\ new.data = "none"
    OBVIOUS
  <1>2. /\ W \subseteq Intervals
        /\ \A x \in W : LeftOfTree(new, x)
        /\ \A x, y \in W : x # y => ~Intersect(x, y)
        /\ \A z \in Int : Held(tree, z) => Holds(new, z) \/ Held(W, z)
    BY WayLeft
  <1>3. T \ rest = (T \ todo) \cup {new}
    BY <1>1
  <1>4. /\ \A t \in tree : /\ t \in Intervals /\ t.data = "none"
                           /\ \A i \in todo : ~Intersect(i, t) \/ Within(i, t)
                           /\ \E j \in T \ todo : t.right = j.right \/ t.right = j.left - 1
        /\ SameCover(tree, T \ todo)
        /\ \A j \in T \ todo, i \in todo : Before(j, i)
    BY DEF Grown, Fits
  <1>5. \A i \in W \cup tree \cup {new} \cup todo :
            i.left \in 0 .. Top /\ i.right \in 0 .. Top /\ i.left <= i.right
    <2>1. \A i \in W \cup tree \cup {new} \cup todo : i \in Intervals
      BY <1>1, <1>2, <1>4
    <2> QED
      BY <2>1, Bounds
  <1> HIDE DEF W
  <1>6. ASSUME NEW x \in W PROVE ~Intersect(x, new) /\ ~Intersect(new, x)
    <2>1. LeftOfTree(new, x)
      BY <1>2
    <2> QED
      BY <1>5, <2>1 DEF LeftOfTree, Intersect
  <1>7. Fits(tr)
    BY <1>1, <1>2, <1>6 DEF Fits
  <1>8. ASSUME NEW i \in rest PROVE ~Intersect(i, new) \/ Within(i, new)
    BY <1>1 DEF Clean
  <1>9. ASSUME NEW x \in W, NEW i \in rest PROVE ~Intersect(i, x) \/ Within(i, x)
    <2>1. PICK t \in tree :
             \/ x.left = t.left /\ x.right = t.right
             \/ Within(new, t) /\ x.left = t.left /\ x.right = new.left - 1
             \/ Within(new, t) /\ x.left = new.right + 1 /\ x.right = t.right
      BY <1>2 DEF LeftOfTree
    <2>2. ~Intersect(i, t) \/ Within(i, t)
      BY <1>4
    <2>3. CASE x.left = t.left /\ x.right = t.right
      BY <2>2, <2>3 DEF Intersect, Within
    <2>4. CASE Within(new, t) /\ x.left = t.left /\ x.right = new.left - 1
      BY <1>5, <1>8, <2>2, <2>4 DEF Intersect, Within
    <2>5. CASE Within(new, t) /\ x.left = new.right + 1 /\ x.right = t.right
      BY <1>5, <1>8, <2>2, <2>5 DEF Intersect, Within
    <2> QED
      BY <2>1, <2>3, <2>4, <2>5
  <1>10. ASSUME NEW x \in W
         PROVE  x.data = "none" /\ \E j \in T \ rest : x.right = j.right \/ x.right = j.left - 1
    <2>1. PICK t \in tree : x.data = t.data /\ (x.right = t.right \/ x.right = new.left - 1)
      BY <1>2 DEF LeftOfTree
    <2> QED
      BY <1>3, <1>4, <2>1
  <1>11. SameCover(tr, T \ rest)
    <2>1. ASSUME NEW z \in Int PROVE Held(tr, z) <=> Held(T \ rest, z)
      <3>1. Held(tr, z) <=> Held(W, z) \/ Holds(new, z)
        BY DEF Held
      <3>2. Held(T \ rest, z) <=> Held(T \ todo, z) \/ Holds(new, z)
        BY <1>3 DEF Held
      <3>3. Held(T \ todo, z) <=> Held(tree, z)
        BY <1>4 DEF SameCover
      <3>4. Held(tree, z) => Holds(new, z) \/ Held(W, z)
        BY <1>2
      <3>5. ASSUME NEW x \in W, Holds(x, z) PROVE Held(tree, z)
        <4>1. PICK t \in tree :
                 \/ x.left = t.left /\ x.right = t.right
                 \/ Within(new, t) /\ x.left = t.left /\ x.right = new.left - 1
                 \/ Within(new, t) /\ x.left = new.right + 1 /\ x.right = t.right
          BY <1>2 DEF LeftOfTree
        <4>2. Holds(t, z)
          BY <1>5, <3>5, <4>1 DEF Holds, Within
        <4> QED
          BY <4>2 DEF Held
      <3>6. Held(W, z) => Held(tree, z)
        BY <3>5 DEF Held
      <3> QED
        BY <3>1, <3>2, <3>3, <3>4, <3>6
    <2> QED
      BY <2>1 DEF SameCover
  <1>12. \A j \in T \ rest, i \in rest : Before(j, i)
    BY <1>3, <1>4
  <1>13. \E j \in T \ rest : new.right = j.right \/ new.right = j.left - 1
    BY <1>3
  <1>14. \A t \in tr : /\ t.data = "none"
                       /\ \A i \in rest : ~Intersect(i, t) \/ Within(i, t)
                       /\ \E j \in T \ rest : t.right = j.right \/ t.right = j.left - 1
    BY <1>1, <1>8, <1>9, <1>10, <1>13
  <1> HIDE DEF tr, rest
  <1>15. Grown(T, tr, rest)
    BY <1>7, <1>11, <1>12, <1>14 DEF Grown
  <1> QED
    BY <1>15 DEF tr, rest, W

-----------------------------------------------------------------------------
(* What one message makes of a set.                                        *)

(* One message puts intervals next to those of the set, when the kernel    *)
(* takes it.                                                               *)
LEMMA AddStands ==
    ASSUME NEW E, NEW G, Fits(G), StandsFor(E, G), NEW m, NEW T, Fits(T), StandsFor(m.list, T),
           m.op # "DELETE", ~Clash(E, m)
    PROVE  Fits(G \cup T) /\ StandsFor(Apply(E, m), G \cup T)
  <1>1. Decompose(m.list) = T /\ Decompose(E) = G
    BY DecomposeOf
  <1>2. \A i \in T, j \in G : ~Overlap(i, j)
    BY <1>1 DEF Clash
  <1>3. \A e \in m.list, f \in E : Same(e, f) => e.data = f.data
    BY DEF Clash
  <1>4. ASSUME NEW i \in T, NEW j \in G, i # j PROVE ~Intersect(i, j) /\ ~Intersect(j, i)
    <2>1. i \in Intervals /\ j \in Intervals
      BY DEF Fits
    <2>2. i = Interval(i.left, i.right, i.data) /\ j = Interval(j.left, j.right, j.data)
      BY <2>1, Bounds
    <2>3. Start(i) \in m.list /\ Start(j) \in E
      BY StandsIn
    <2>4. ASSUME SameKeys(i, j) PROVE FALSE
      <3>1. Same(Start(i), Start(j))
        BY <2>4 DEF Same, SameKeys, Start
      <3>2. Start(i).data = Start(j).data
        BY <1>3, <2>3, <3>1
      <3>3. i.data = j.data
        BY <3>2, StartIs
      <3> QED
        BY <1>4, <2>2, <2>4, <3>3 DEF SameKeys
    <2>5. ~Intersect(i, j)
      BY <1>2, <2>4 DEF Overlap
    <2> QED
      BY <2>5 DEF Intersect
  <1>5. Fits(G \cup T)
    BY <1>4 DEF Fits
  <1>6. Apply(E, m) = E \cup m.list
    BY DEF Apply
  <1>7. Elems(G \cup T) = Elems(G) \cup Elems(T)
    BY DEF Elems
  <1>8. StandsFor(Apply(E, m), G \cup T)
    BY <1>6, <1>7 DEF StandsFor
  <1> QED
    BY <1>5, <1>8

(* One message takes intervals out of the set.  The kernel only sees       *)
(* whether it has elements with these keys; that they are the two ends of  *)
(* one interval follows from the test against the cached ones, of which    *)
(* one that is left of a deletion may at most be within one of the set.    *)
LEMMA DeleteMeans ==
    ASSUME NEW E, NEW G, Fits(G), StandsFor(E, G), NEW m, NEW T, Fits(T), StandsFor(m.list, T),
           m.op = "DELETE", ~Clash(E, m),
           NEW I, I \subseteq Intervals, \A i \in I, j \in G : Overlap(i, j) => Within(i, j),
           NEW d \in T, \E i \in I : SameKeys(d, i)
    PROVE  \E j \in G : SameKeys(d, j)
  <1>1. PICK i \in I : SameKeys(d, i)
    OBVIOUS
  <1>2. ASSUME NEW e \in m.list PROVE \E f \in E : f.key = e.key /\ f.end = e.end
    <2>1. PICK f \in E : Same(e, f)
      BY DEF Clash
    <2> QED
      BY <2>1 DEF Same
  <1>3. PICK f \in E : f.key = d.left /\ f.end = FALSE
    <2>1. Start(d) \in m.list
      BY StandsIn
    <2> QED
      BY <1>2, <2>1, StartIs
  <1>4. PICK j \in G : f = Start(j)
    <2>1. \A k : End(k).end = TRUE
      BY EndIs
    <2> QED
      BY <1>3, <2>1, StandsIn
  <1>5. j.left = i.left
    BY <1>1, <1>3, <1>4, StartIs DEF SameKeys
  <1>6. /\ i.left \in 0 .. Top /\ i.right \in 0 .. Top /\ i.left <= i.right
        /\ j.left \in 0 .. Top /\ j.right \in 0 .. Top /\ j.left <= j.right
    BY Bounds DEF Fits
  <1>7. SUFFICES ASSUME ~SameKeys(i, j) PROVE FALSE
    BY <1>1 DEF SameKeys
  <1>8. Overlap(i, j)
    BY <1>5, <1>6, <1>7 DEF Overlap, Intersect
  <1>9. i.right < j.right
    BY <1>5, <1>6, <1>7, <1>8 DEF Within, SameKeys
  <1>10. d.right = i.right /\ d.right # Top
    BY <1>1, <1>6, <1>9, TopAssumption DEF SameKeys
  <1>11. PICK g \in E : g.key = d.right + 1 /\ g.end = TRUE
    <2>1. End(d.right + 1) \in m.list
      BY <1>10, StandsIn
    <2>2. End(d.right + 1).key = d.right + 1 /\ End(d.right + 1).end = TRUE
      BY EndIs
    <2> QED
      BY <1>2, <2>1, <2>2
  <1>12. PICK k \in G : g = End(k.right + 1)
    <2>1. \A l : Start(l).end = FALSE
      BY StartIs
    <2>2. g # End(0)
      <3>1. End(0).key = 0
        BY EndIs
      <3> QED
        BY <1>6, <1>10, <1>11, <3>1
    <2> QED
      BY <1>11, <2>1, <2>2, StandsIn
  <1>13. k.right + 1 = d.right + 1
    BY <1>11, <1>12, EndIs
  <1>14. k.left \in 0 .. Top /\ k.right \in 0 .. Top /\ k.left <= k.right
    BY Bounds DEF Fits
  <1>15. k.right = i.right
    BY <1>6, <1>10, <1>13, <1>14
  <1>16. k # j /\ Intersect(k, j)
    BY <1>5, <1>6, <1>9, <1>14, <1>15 DEF Intersect
  <1> QED
    BY <1>16 DEF Fits

LEMMA DeleteStands ==
    ASSUME NEW E, NEW G, Fits(G), StandsFor(E, G), NEW m, NEW T, Fits(T), StandsFor(m.list, T),
           m.op = "DELETE", End(0) \notin m.list,
           \A d \in T : \E j \in G : SameKeys(d, j)
    PROVE  LET L == {j \in G : \A d \in T : ~SameKeys(d, j)}
           IN  Fits(L) /\ StandsFor(Apply(E, m), L)
  <1> DEFINE L == {j \in G : \A d \in T : ~SameKeys(d, j)}
  <1>1. Fits(L)
    BY DEF Fits
  <1>2. Apply(E, m) = {f \in E : \A e \in m.list : ~Same(e, f)}
    BY DEF Apply
  <1>3. ASSUME NEW j \in G, NEW d \in T, d.left = j.left \/ d.right = j.right PROVE SameKeys(d, j)
    <2>1. PICK i \in G : SameKeys(d, i)
      OBVIOUS
    <2>2. i = j
      BY <1>3, <2>1, SharesNoEnd DEF SameKeys
    <2> QED
      BY <2>1, <2>2
  <1>4. ASSUME NEW f \in E, \A e \in m.list : ~Same(e, f), f # End(0) PROVE f \in Elems(L)
    <2>1. CASE \E j \in G : f = Start(j)
      <3>1. PICK j \in G : f = Start(j)
        BY <2>1
      <3>2. ASSUME NEW d \in T, SameKeys(d, j) PROVE FALSE
        <4>1. Start(d) \in m.list
          BY StandsIn
        <4>2. Same(Start(d), f)
          BY <3>1, <3>2 DEF Same, SameKeys, Start
        <4> QED
          BY <1>4, <4>1, <4>2
      <3> QED
        BY <3>1, <3>2 DEF Elems
    <2>2. CASE \E j \in G : j.right # Top /\ f = End(j.right + 1)
      <3>1. PICK j \in G : j.right # Top /\ f = End(j.right + 1)
        BY <2>2
      <3>2. ASSUME NEW d \in T, SameKeys(d, j) PROVE FALSE
        <4>1. d.right = j.right
          BY <3>2 DEF SameKeys
        <4>2. End(d.right + 1) \in m.list
          BY <3>1, <4>1, StandsIn
        <4>3. Same(End(d.right + 1), f)
          BY <3>1, <4>1 DEF Same
        <4> QED
          BY <1>4, <4>2, <4>3
      <3> QED
        BY <3>1, <3>2 DEF Elems
    <2> QED
      BY <1>4, <2>1, <2>2, StandsIn
  <1>5. ASSUME NEW f \in Elems(L) PROVE f \in E /\ f # End(0) /\ \A e \in m.list : ~Same(e, f)
    <2>1. f # End(0)
      BY <1>1, ElementsOf
    <2>2. CASE \E j \in L : f = Start(j)
      <3>1. PICK j \in L : f = Start(j)
        BY <2>2
      <3>2. j \in G /\ \A d \in T : ~SameKeys(d, j)
        OBVIOUS
      <3>3. f \in E /\ f.end = FALSE /\ f.key = j.left
        BY <3>1, <3>2, StandsIn, StartIs
      <3>4. ASSUME NEW e \in m.list, Same(e, f) PROVE FALSE
        <4>1. e.end = FALSE /\ e.key = j.left
          BY <3>3, <3>4 DEF Same
        <4>2. PICK d \in T : e = Start(d)
          <5>1. \A k : End(k).end = TRUE
            BY EndIs
          <5> QED
            BY <4>1, <5>1, StandsIn
        <4>3. d.left = j.left
          BY <4>1, <4>2, StartIs
        <4> QED
          BY <1>3, <3>2, <4>3
      <3> QED
        BY <2>1, <3>3, <3>4
    <2>3. CASE \E j \in L : j.right # Top /\ f = End(j.right + 1)
      <3>1. PICK j \in L : j.right # Top /\ f = End(j.right + 1)
        BY <2>3
      <3>2. j \in G /\ \A d \in T : ~SameKeys(d, j)
        OBVIOUS
      <3>3. f \in E /\ f.end = TRUE /\ f.key = j.right + 1
        BY <3>1, <3>2, StandsIn, EndIs
      <3>4. ASSUME NEW e \in m.list, Same(e, f) PROVE FALSE
        <4>1. e.end = TRUE /\ e.key = j.right + 1
          BY <3>3, <3>4 DEF Same
        <4>2. PICK d \in T : e = End(d.right + 1)
          <5>1. \A k : Start(k).end = FALSE
            BY StartIs
          <5> QED
            BY <4>1, <5>1, StandsIn
        <4>3. d.right + 1 = j.right + 1
          BY <4>1, <4>2, EndIs
        <4>4. d.right \in 0 .. Top /\ j.right \in 0 .. Top
          BY <3>2, Bounds DEF Fits
        <4>5. d.right = j.right
          BY <4>3, <4>4
        <4> QED
          BY <1>3, <3>2, <4>5
      <3> QED
        BY <2>1, <3>3, <3>4
    <2> QED
      BY <1>1, <2>2, <2>3, ElementsOf
  <1>6. StandsFor(Apply(E, m), L)
    <2> HIDE DEF L
    <2> QED
      BY <1>2, <1>4, <1>5 DEF StandsFor
  <1> QED
    BY <1>1, <1>6

-----------------------------------------------------------------------------
(* No batch takes elements out of a set that it makes: nothing is cached   *)
(* of such a set, set_to_segtree() tests nothing, and the kernel takes an  *)
(* interval that begins and ends with two of the set for one of it.        *)
DeletesFromMade ==
    \A k \in SetKinds : \A b \in Batches[k] :
        b[1].op = "NEW" => \A i \in DOMAIN b : b[i].op # "DELETE"

(* Sets that merge, where the tree covers the keys of the intervals and    *)
(* there are gaps between those of a deletion.                             *)
Gaps(T) == \A i, j \in T : i # j => i.right + 1 < j.left \/ j.right + 1 < i.left

MergesWell(k) ==
    /\ ~k.map
    /\ \A b \in Batches[k] : \A i \in DOMAIN b :
          IF b[i].op = "DELETE" THEN Gaps(b[i].elems) ELSE Clean(b[i].elems)

Tame == kind.merge => MergesWell(kind)

(* Where a run is.                                                         *)
RunInv ==
    /\ Len(msgs) = next - 1
    /\ stage = "idle" => cmds = <<>> /\ ~known
    /\ stage # "idle" => /\ cmds \in Batches[kind] /\ known = made
                         /\ cmds[1].op = "NEW" <=> ~made
    /\ stage = "send" => next = Len(cmds) + 1
    /\ stage = "refused" => next = Len(cmds) + 1

(* The elements of the kernel are those of the intervals users gave.       *)
KernelInv ==
    /\ Fits(given) /\ StandsFor(kernel, given)
    /\ ~made => kernel = {} /\ given = {}

(* What the tree holds of the intervals of the command that are done.      *)
InsertInv == stage = "insert" =>
    /\ todo \subseteq cmds[next].elems
    /\ IF kind.merge /\ cmds[next].op # "DELETE" THEN Grown(cmds[next].elems, tree, todo)
                                                ELSE tree = cmds[next].elems \ todo
    /\ known => ~SetOverlap(cmds[next].op, cmds[next].elems)

(* The cached set holds what the set held and what the batch has added so  *)
(* far, whatever it has deleted.                                           *)
CachedAt(n) ==
    given \cup UNION {Taken(cmds[i].elems) : i \in {k \in 1 .. n : cmds[k].op # "DELETE"}}

InitInv == known => init = CachedAt(Len(msgs))

(* Each message says what its command meant, and its intervals passed the  *)
(* test against those cached before it.                                    *)
Meant(c) == IF c.op = "DELETE" THEN c.elems ELSE Taken(c.elems)

Passes(c, S) == IF c.op = "DELETE" THEN \A i \in c.elems : \E j \in S : SameKeys(i, j)
                                   ELSE \A i \in c.elems, j \in S : ~Overlap(i, j)

Written(i) ==
    /\ msgs[i].op = cmds[i].op
    /\ Fits(Meant(cmds[i])) /\ StandsFor(msgs[i].list, Meant(cmds[i]))
    /\ cmds[i].op = "DELETE" => End(0) \notin msgs[i].list
    /\ known => Passes(cmds[i], CachedAt(i - 1))

MsgsInv == \A i \in 1 .. Len(msgs) : Written(i)

TameInv == Tame => KernelInv /\ InsertInv /\ MsgsInv /\ InitInv

(* What a command of the batch may be.                                     *)
LEMMA OpsAre ==
    ASSUME TypeInv, RunInv, NEW i \in 1 .. Len(cmds)
    PROVE  /\ stage # "idle"
           /\ known => cmds[i].op \in {"ADD", "CREATE", "DELETE"}
           /\ DeletesFromMade /\ cmds[i].op = "DELETE" => known
  <1>1. Len(cmds) \in Nat /\ DOMAIN cmds = 1 .. Len(cmds) /\ cmds[i].op \in Ops
    BY CommandType
  <1>2. stage # "idle"
    <2>1. Len(<<>>) = 0
      OBVIOUS
    <2>2. Len(cmds) # 0
      BY <1>1
    <2> QED
      BY <2>1, <2>2 DEF RunInv
  <1>3. cmds \in Batches[kind] /\ known = made /\ (cmds[1].op = "NEW" <=> ~made) /\ kind \in SetKinds
    BY <1>2 DEF RunInv, TypeInv
  <1>4. cmds[i].op = "NEW" => i = 1
    BY <1>1, <1>3, BatchIs
  <1>5. known => cmds[i].op # "NEW"
    BY <1>3, <1>4
  <1>6. DeletesFromMade /\ cmds[i].op = "DELETE" => known
    BY <1>1, <1>3 DEF DeletesFromMade, TypeInv
  <1> QED
    BY <1>1, <1>2, <1>5, <1>6 DEF Ops

(* The intervals of the commands on a set that merges.                     *)
LEMMA CleanIs ==
    ASSUME TypeInv, RunInv, Tame, kind.merge, NEW i \in 1 .. Len(cmds)
    PROVE  /\ ~kind.map
           /\ \A e \in cmds[i].elems : e.data = "none"
           /\ IF cmds[i].op = "DELETE" THEN Gaps(cmds[i].elems) ELSE Clean(cmds[i].elems)
  <1>1. DOMAIN cmds = 1 .. Len(cmds) /\ stage # "idle"
    BY CommandType, OpsAre
  <1>2. cmds \in Batches[kind] /\ kind \in SetKinds
    BY <1>1 DEF RunInv, TypeInv
  <1>3. MergesWell(kind)
    BY DEF Tame
  <1>4. ~kind.map
    BY <1>3 DEF MergesWell
  <1>5. \A e \in cmds[i].elems : e.data = "none"
    BY <1>1, <1>2, <1>4, BatchesAssumption
  <1> QED
    BY <1>1, <1>2, <1>3, <1>4, <1>5 DEF MergesWell

(* An interval that is taken is one of the command, or a run that begins   *)
(* with one.                                                               *)
LEMMA TakenFrom ==
    ASSUME NEW T, T \subseteq Intervals, kind.merge => \A t \in T : t.data = "none",
           NEW i \in Taken(T)
    PROVE  \E t \in T : t.left = i.left /\ t.right <= i.right /\ t.data = i.data
  <1>1. CASE kind.merge /\ ~kind.map
    <2>1. i \in Coalesce(T)
      BY <1>1 DEF Taken
    <2>2. i \in Intervals /\ i.data = "none" /\ IsRun(T, i)
      BY <2>1, CoalesceIs
    <2>3. PICK t \in T : t.left = i.left
      BY <2>1, CoalesceIs
    <2>4. /\ t.left \in 0 .. Top /\ t.right \in 0 .. Top /\ t.left <= t.right
          /\ i.left \in 0 .. Top /\ i.right \in 0 .. Top /\ i.left <= i.right /\ Top \in Nat
      BY <2>2, Bounds, TopAssumption
    <2>5. ~(i.right < t.right)
      <3> SUFFICES ASSUME i.right < t.right PROVE FALSE
        OBVIOUS
      <3>1. Holds(t, i.right + 1) /\ i.right < Top
        BY <2>3, <2>4 DEF Holds
      <3> QED
        BY <2>2, <3>1 DEF IsRun, Held
    <2> QED
      BY <1>1, <2>2, <2>3, <2>4, <2>5
  <1>2. CASE ~(kind.merge /\ ~kind.map)
    <2>1. i \in T
      BY <1>2 DEF Taken
    <2>2. i.right <= i.right
      BY <2>1, Bounds
    <2> QED
      BY <2>1, <2>2
  <1> QED
    BY <1>1, <1>2

(* What is taken of some intervals is something.                           *)
LEMMA TakenSome ==
    ASSUME NEW T, T \subseteq Intervals, T # {}
    PROVE  Taken(T) # {}
  <1>1. PICK t \in T : TRUE
    OBVIOUS
  <1>2. t.left \in 0 .. Top /\ t.right \in 0 .. Top /\ t.left <= t.right
    BY Bounds
  <1>3. Held(T, t.left)
    BY <1>2 DEF Held, Holds
  <1>4. Coalesce(T) # {}
    BY <1>2, <1>3, CoalesceHolds
  <1> QED
    BY <1>1, <1>4 DEF Taken

(* What overlaps none of the intervals of a command can only be within one *)
(* that they make up.                                                      *)
LEMMA TakenAround ==
    ASSUME NEW T, T \subseteq Intervals, NEW j \in Intervals, \A t \in T : ~Overlap(t, j),
           NEW i \in Taken(T), Overlap(j, i)
    PROVE  Within(j, i)
  <1>1. CASE kind.merge /\ ~kind.map
    <2>1. i \in Coalesce(T)
      BY <1>1 DEF Taken
    <2>2. i \in Intervals /\ IsRun(T, i)
      BY <2>1, CoalesceIs
    <2>3. /\ j.left \in 0 .. Top /\ j.right \in 0 .. Top /\ j.left <= j.right
          /\ i.left \in 0 .. Top /\ i.right \in 0 .. Top /\ i.left <= i.right /\ Top \in Nat
      BY <2>2, Bounds, TopAssumption
    <2>4. PICK x \in i.left .. i.right : Holds(j, x)
      <3>1. j.left <= i.right /\ i.left <= j.right
        BY DEF Overlap, Intersect
      <3>2. CASE i.left <= j.left
        <4>1. j.left \in i.left .. i.right /\ Holds(j, j.left)
          BY <2>3, <3>1, <3>2 DEF Holds
        <4> QED
          BY <4>1
      <3>3. CASE ~(i.left <= j.left)
        <4>1. i.left \in i.left .. i.right /\ Holds(j, i.left)
          BY <2>3, <3>1, <3>3 DEF Holds
        <4> QED
          BY <4>1
      <3> QED
        BY <3>2, <3>3
    <2>5. PICK t \in T : Holds(t, x)
      BY <2>2 DEF IsRun, Held
    <2>6. t.left \in 0 .. Top /\ t.right \in 0 .. Top /\ t.left <= t.right
      BY Bounds
    <2>7. Intersect(t, j)
      BY <2>3, <2>4, <2>5, <2>6 DEF Intersect, Holds
    <2>8. t.left = j.left /\ t.right = j.right
      BY <2>7 DEF Overlap, SameKeys
    <2>9. ~(t.left < i.left)
      <3> SUFFICES ASSUME t.left < i.left PROVE FALSE
        OBVIOUS
      <3>1. Holds(t, i.left - 1)
        BY <2>3, <2>4, <2>5, <2>6 DEF Holds
      <3> QED
        BY <2>2, <3>1 DEF IsRun, Held
    <2>10. ~(i.right < t.right)
      <3> SUFFICES ASSUME i.right < t.right PROVE FALSE
        OBVIOUS
      <3>1. Holds(t, i.right + 1) /\ i.right < Top
        BY <2>3, <2>4, <2>5, <2>6 DEF Holds
      <3> QED
        BY <2>2, <3>1 DEF IsRun, Held
    <2> QED
      BY <2>3, <2>6, <2>8, <2>9, <2>10 DEF Within
  <1>2. CASE ~(kind.merge /\ ~kind.map)
    <2>1. i \in T
      BY <1>2 DEF Taken
    <2>2. ~Overlap(i, j)
      BY <2>1
    <2> QED
      BY <2>2 DEF Overlap, SameKeys, Intersect
  <1> QED
    BY <1>1, <1>2

LEMMA CachedIs ==
    /\ CachedAt(0) = given
    /\ \A n \in Nat : CachedAt(n + 1) = IF cmds[n + 1].op = "DELETE" THEN CachedAt(n)
                                        ELSE CachedAt(n) \cup Taken(cmds[n + 1].elems)
  <1>1. CachedAt(0) = given
    BY DEF CachedAt
  <1>2. ASSUME NEW n \in Nat
        PROVE  CachedAt(n + 1) = IF cmds[n + 1].op = "DELETE" THEN CachedAt(n)
                                 ELSE CachedAt(n) \cup Taken(cmds[n + 1].elems)
    <2>1. \A k : k \in 1 .. n + 1 <=> k \in 1 .. n \/ k = n + 1
      OBVIOUS
    <2>2. {k \in 1 .. n + 1 : cmds[k].op # "DELETE"} =
              {k \in 1 .. n : cmds[k].op # "DELETE"}
              \cup {k \in {n + 1} : cmds[k].op # "DELETE"}
      BY <2>1
    <2> QED
      BY <2>2 DEF CachedAt
  <1> QED
    BY <1>1, <1>2

(* What the first messages mean is cached, whether they will be taken or   *)
(* not.                                                                    *)
LEMMA GivenCached ==
    ASSUME TypeInv, NEW k \in 0 .. Len(cmds)
    PROVE  Given(k) \subseteq CachedAt(k) /\ CachedAt(k) \subseteq Intervals
  <1> DEFINE n == Len(cmds)
             S == {i \in 0 .. n : Given(i) \subseteq CachedAt(i) /\ CachedAt(i) \subseteq Intervals}
  <1>1. n \in Nat
    BY CommandType
  <1>2. \A i \in 0 .. n :
            Given(i) = IF i = 0 THEN given ELSE GivenAfter(Given(i - 1), cmds[i])
    BY <1>1, GivenIs
  <1>3. \A i \in 1 .. n : Taken(cmds[i].elems) \subseteq Intervals
    BY CommandType, TakenType
  <1> HIDE DEF n
  <1>4. 0 \in S
    BY <1>1, <1>2, CachedIs DEF TypeInv
  <1>5. ASSUME NEW i \in 0 .. n - 1, i \in S PROVE i + 1 \in S
    <2>1. i + 1 \in 0 .. n /\ i + 1 # 0 /\ (i + 1) - 1 = i /\ i + 1 \in 1 .. n /\ i \in Nat
      BY <1>1
    <2>2. Given(i + 1) = GivenAfter(Given(i), cmds[i + 1])
      BY <1>2, <2>1
    <2>3. Given(i) \subseteq CachedAt(i) /\ CachedAt(i) \subseteq Intervals
      BY <1>5
    <2>4. CachedAt(i + 1) = IF cmds[i + 1].op = "DELETE" THEN CachedAt(i)
                            ELSE CachedAt(i) \cup Taken(cmds[i + 1].elems)
      BY <2>1, CachedIs
    <2>5. Given(i + 1) \subseteq CachedAt(i + 1)
      BY <2>2, <2>3, <2>4 DEF GivenAfter
    <2>6. CachedAt(i + 1) \subseteq Intervals
      BY <1>3, <2>1, <2>3, <2>4
    <2> QED
      BY <2>1, <2>5, <2>6
  <1>6. 0 .. n \subseteq S
    <2> HIDE DEF S
    <2> QED
      BY <1>1, <1>4, <1>5, InductionTo
  <1> QED
    BY <1>6 DEF n

(* As long as the kernel takes the messages, the set holds what they mean, *)
(* and what is cached of a set that merges is at most within an interval   *)
(* of the set.                                                             *)
Holding(n) ==
    Carried[n].ok => /\ Fits(Given(n)) /\ StandsFor(Carried[n].to, Given(n))
                     /\ known => \A i \in CachedAt(n), j \in Given(n) : Overlap(i, j) => Within(i, j)

LEMMA FitsApart ==
    ASSUME NEW G, Fits(G), NEW i \in G, NEW j \in G
    PROVE  ~Overlap(i, j)
  BY DEF Fits, Overlap, SameKeys

LEMMA CarriedStands ==
    ASSUME DeletesFromMade, TypeInv, RunInv, KernelInv, MsgsInv, NEW k \in 0 .. Len(msgs)
    PROVE  Holding(k)
  <1> DEFINE n == Len(msgs)
             S == {i \in 0 .. n : Holding(i)}
  <1>1. n \in Nat /\ n <= Len(cmds) /\ Len(cmds) \in Nat /\ DOMAIN msgs = 1 .. n
    BY MessageType, CommandType DEF RunInv, TypeInv
  <1> HIDE DEF n
  <1>2. \A i \in 0 .. Len(cmds) :
            Given(i) = IF i = 0 THEN given ELSE GivenAfter(Given(i - 1), cmds[i])
    BY <1>1, GivenIs
  <1>3. /\ Carried[0].ok /\ Carried[0].to = kernel
        /\ \A i \in 1 .. n :
              /\ Carried[i].ok <=> Carried[i - 1].ok /\ ~Clash(Carried[i - 1].to, msgs[i])
              /\ Carried[i].to = Apply(Carried[i - 1].to, msgs[i])
    BY <1>1, CarriedSteps DEF n
  <1>4. 0 \in S
    <2>1. Given(0) = given /\ CachedAt(0) = given
      BY <1>1, <1>2, CachedIs
    <2>2. Fits(given) /\ StandsFor(kernel, given)
      BY DEF KernelInv
    <2>3. \A i, j \in given : ~Overlap(i, j)
      BY <2>2, FitsApart
    <2>4. Holding(0)
      BY <1>3, <2>1, <2>2, <2>3 DEF Holding
    <2> QED
      BY <1>1, <2>4
  <1>5. ASSUME NEW i \in 0 .. n - 1, i \in S PROVE i + 1 \in S
    <2> DEFINE T == cmds[i + 1].elems
               M == Meant(cmds[i + 1])
               m == msgs[i + 1]
               E == Carried[i].to
               G == Given(i)
               I == CachedAt(i)
    <2>1. i + 1 \in 0 .. n /\ i + 1 \in 0 .. Len(cmds) /\ i + 1 # 0 /\ (i + 1) - 1 = i
          /\ i + 1 \in 1 .. n /\ i \in 0 .. n /\ i + 1 \in 1 .. Len(cmds)
          /\ i \in 0 .. Len(cmds) /\ i \in Nat
      BY <1>1
    <2>2. SUFFICES ASSUME Carried[i + 1].ok PROVE Holding(i + 1)
      BY <2>1 DEF Holding
    <2>3. Given(i + 1) = GivenAfter(G, cmds[i + 1])
      BY <1>2, <2>1
    <2>4. Carried[i].ok /\ ~Clash(E, m) /\ Carried[i + 1].to = Apply(E, m)
      BY <1>3, <2>1, <2>2
    <2>5. /\ Fits(G) /\ StandsFor(E, G)
          /\ known => \A p \in I, q \in G : Overlap(p, q) => Within(p, q)
      BY <1>5, <2>4 DEF Holding
    <2>6. /\ m.op = cmds[i + 1].op
          /\ Fits(M) /\ StandsFor(m.list, M)
          /\ cmds[i + 1].op = "DELETE" => End(0) \notin m.list
          /\ known => Passes(cmds[i + 1], I)
      BY <2>1 DEF MsgsInv, Written, n
    <2>7. CachedAt(i + 1) = IF cmds[i + 1].op = "DELETE" THEN I ELSE I \cup Taken(T)
      BY <2>1, CachedIs
    <2>8. T \subseteq Intervals /\ I \subseteq Intervals
      BY <2>1, CommandType, GivenCached
    <2>9. CASE cmds[i + 1].op # "DELETE"
      <3>1. M = Taken(T) /\ Given(i + 1) = G \cup M /\ CachedAt(i + 1) = I \cup M
        BY <2>3, <2>7, <2>9 DEF GivenAfter, Meant
      <3>2. known => \A t \in T, p \in I : ~Overlap(t, p)
        BY <2>6, <2>9 DEF Passes
      <3> HIDE DEF T, M, m, E, G, I
      <3>3. m.op # "DELETE"
        BY <2>6, <2>9
      <3>4. Fits(G \cup M) /\ StandsFor(Apply(E, m), G \cup M)
        BY <2>4, <2>5, <2>6, <3>3, AddStands
      <3>5. ASSUME known, NEW p \in I \cup M, NEW q \in G \cup M, Overlap(p, q)
            PROVE  Within(p, q)
        <4>1. p \notin M
          BY <3>4, <3>5, FitsApart
        <4>2. CASE q \in G
          BY <2>5, <3>5, <4>1, <4>2
        <4>3. CASE q \in M
          <5>1. p \in Intervals /\ \A t \in T : ~Overlap(t, p)
            BY <2>8, <3>2, <3>5, <4>1
          <5>2. q \in Taken(T)
            BY <3>1, <4>3
          <5> QED
            BY <2>8, <3>5, <5>1, <5>2, TakenAround
        <4> QED
          BY <4>2, <4>3
      <3> QED
        BY <2>4, <3>1, <3>4, <3>5 DEF Holding
    <2>10. CASE cmds[i + 1].op = "DELETE"
      <3> DEFINE L == {j \in G : \A d \in T : ~SameKeys(d, j)}
      <3>1. M = T /\ Given(i + 1) = L /\ CachedAt(i + 1) = I
        BY <2>3, <2>7, <2>10 DEF GivenAfter, Meant
      <3>2. known
        BY <2>1, <2>10, OpsAre
      <3>3. \A d \in T : \E j \in I : SameKeys(d, j)
        BY <2>6, <2>10, <3>2 DEF Passes
      <3> HIDE DEF T, M, m, E, G, I
      <3>4. m.op = "DELETE" /\ End(0) \notin m.list
        BY <2>6, <2>10
      <3>5. Fits(T) /\ StandsFor(m.list, T)
        BY <2>6, <3>1
      <3>6. ASSUME NEW d \in T PROVE \E j \in G : SameKeys(d, j)
        BY <2>4, <2>5, <2>8, <3>2, <3>3, <3>4, <3>5, DeleteMeans
      <3>7. Fits(L) /\ StandsFor(Apply(E, m), L)
        BY <2>5, <3>4, <3>5, <3>6, DeleteStands
      <3>8. \A p \in I, q \in L : Overlap(p, q) => Within(p, q)
        BY <2>5, <3>2
      <3> HIDE DEF L
      <3> QED
        BY <2>4, <3>1, <3>7, <3>8 DEF Holding
    <2> QED
      BY <2>9, <2>10
  <1>6. 0 .. n \subseteq S
    <2> HIDE DEF S
    <2> QED
      BY <1>1, <1>4, <1>5, InductionTo
  <1> QED
    BY <1>6 DEF n

LEMMA RunStarts ==
    ASSUME TypeInv, RunInv, TameInv, NEW b \in Batches[kind], Run(b)
    PROVE  RunInv' /\ TameInv'
  <1>1. /\ stage = "idle" /\ ((b[1].op = "NEW") <=> ~made)
        /\ stage' = "command" /\ cmds' = b /\ next' = 1 /\ known' = made
        /\ init' = Decompose(kernel)
        /\ UNCHANGED <<kind, made, kernel, given, todo, tree, msgs>>
    BY DEF Run
  <1>2. cmds = <<>> /\ next = 1
    <2>1. Len(<<>>) = 0
      OBVIOUS
    <2> QED
      BY <1>1, <2>1 DEF RunInv, TypeInv
  <1>3. Len(msgs) = 0 /\ Len(msgs') = 0
    BY <1>1, <1>2 DEF RunInv
  <1>4. RunInv'
    BY <1>1, <1>3 DEF RunInv
  <1>5. ASSUME Tame PROVE KernelInv' /\ InsertInv' /\ MsgsInv' /\ InitInv'
    <2>1. Fits(given) /\ StandsFor(kernel, given) /\ KernelInv
      BY <1>5 DEF TameInv, KernelInv
    <2>2. Decompose(kernel) = given
      BY <2>1, DecomposeOf
    <2>3. KernelInv'
      BY <1>1, <2>1 DEF KernelInv
    <2>4. CachedAt(Len(msgs))' = given'
      BY <1>3 DEF CachedAt
    <2>5. InitInv'
      BY <1>1, <2>2, <2>4 DEF InitInv
    <2>6. MsgsInv'
      BY <1>3 DEF MsgsInv
    <2>7. InsertInv'
      BY <1>1 DEF InsertInv
    <2> QED
      BY <2>3, <2>5, <2>6, <2>7
  <1>6. Tame' => Tame
    BY <1>1 DEF Tame
  <1> QED
    BY <1>4, <1>5, <1>6 DEF TameInv

(* Actions that leave the batch, its messages and the sets as they are.    *)
LEMMA TameStays ==
    ASSUME TameInv, UNCHANGED <<kind, made, kernel, given, cmds, known, init, msgs>>,
           Tame => InsertInv'
    PROVE  TameInv'
  <1>1. KernelInv => KernelInv'
    BY DEF KernelInv
  <1>2. \A n : CachedAt(n)' = CachedAt(n)
    BY DEF CachedAt, Taken
  <1>3. InitInv => InitInv'
    BY <1>2 DEF InitInv
  <1>4. ASSUME MsgsInv PROVE MsgsInv'
    <2>1. SUFFICES ASSUME NEW i \in 1 .. Len(msgs) PROVE Written(i)'
      BY DEF MsgsInv
    <2>2. Written(i)
      BY <1>4 DEF MsgsInv
    <2>3. Meant(cmds[i])' = Meant(cmds[i])
      BY DEF Meant, Taken
    <2>4. (known => Passes(cmds[i], CachedAt(i - 1)))' <=> (known => Passes(cmds[i], CachedAt(i - 1)))
      BY <1>2 DEF Passes
    <2> QED
      BY <2>2, <2>3, <2>4 DEF Written
  <1>5. Tame' => Tame
    BY DEF Tame
  <1> QED
    BY <1>1, <1>3, <1>4, <1>5 DEF TameInv

LEMMA CommandStarts ==
    ASSUME TypeInv, RunInv, TameInv, Command
    PROVE  RunInv' /\ TameInv'
  <1>1. /\ stage = "command" /\ ~Refuses(cmds[next])
        /\ stage' = "insert" /\ todo' = cmds[next].elems /\ tree' = {}
        /\ next <= Len(cmds)
        /\ UNCHANGED <<kind, made, kernel, given, cmds, next, known, init, msgs>>
    BY DEF Command
  <1>2. RunInv'
    BY <1>1 DEF RunInv
  <1>3. next \in 1 .. Len(cmds)
    BY <1>1, CommandType DEF TypeInv
  <1>4. known => cmds[next].op # "NEW"
    BY <1>3, OpsAre
  <1>5. known => ~SetOverlap(cmds[next].op, cmds[next].elems)
    BY <1>1, <1>4 DEF Refuses
  <1>6. (known => ~SetOverlap(cmds[next].op, cmds[next].elems))'
    BY <1>1, <1>5 DEF SetOverlap
  <1>7. \A T : Grown(T, {}, T)
    BY DEF Grown, Fits, SameCover, Held
  <1>8. InsertInv'
    BY <1>1, <1>6, <1>7 DEF InsertInv
  <1> QED
    BY <1>1, <1>2, <1>8, TameStays

(* An interval goes next to the others of the tree where none meets it.    *)
LEMMA InsertTame ==
    ASSUME TypeInv, RunInv, Tame, InsertInv, stage = "insert", NEW new \in todo,
           \A i \in todo : Before(new, i), ~Conflict(new)
    PROVE  LET T == cmds[next].elems
           IN  IF kind.merge /\ cmds[next].op # "DELETE"
               THEN Grown(T, MakeWay(new) \cup {new}, todo \ {new})
               ELSE MakeWay(new) \cup {new} = T \ (todo \ {new})
  <1> DEFINE T == cmds[next].elems
  <1>1. next \in 1 .. Len(cmds) /\ T \subseteq Intervals
    BY CommandType DEF TypeInv
  <1>2. /\ todo \subseteq T
        /\ IF kind.merge /\ cmds[next].op # "DELETE" THEN Grown(T, tree, todo)
                                                    ELSE tree = T \ todo
    BY DEF InsertInv
  <1>3. CASE kind.merge /\ cmds[next].op # "DELETE"
    <2>1. Clean(T) /\ \A i \in T : i.data = "none"
      BY <1>1, <1>3, CleanIs
    <2> HIDE DEF T
    <2>2. Grown(T, MakeWay(new) \cup {new}, todo \ {new})
      BY <1>1, <1>2, <1>3, <2>1, Grows
    <2> QED
      BY <1>3, <2>2 DEF T
  <1>4. CASE ~(kind.merge /\ cmds[next].op # "DELETE")
    <2>1. tree = T \ todo /\ new \in T
      BY <1>2, <1>4
    <2>2. Found(new.left) = {} /\ Found(new.right) = {}
      <3>1. CASE ~kind.merge
        BY <3>1 DEF Conflict
      <3>2. CASE kind.merge
        <4>1. Gaps(T)
          BY <1>1, <1>4, <3>2, CleanIs
        <4>2. ASSUME NEW i \in tree PROVE ~Holds(i, new.left) /\ ~Holds(i, new.right)
          <5>1. i \in T /\ i # new
            BY <2>1, <4>2
          <5>2. i.right + 1 < new.left \/ new.right + 1 < i.left
            BY <2>1, <4>1, <5>1 DEF Gaps
          <5>3. /\ i.left \in 0 .. Top /\ i.right \in 0 .. Top /\ i.left <= i.right
                /\ new.left \in 0 .. Top /\ new.right \in 0 .. Top /\ new.left <= new.right
            BY <1>1, <2>1, <5>1, Bounds
          <5> QED
            BY <5>2, <5>3 DEF Holds
        <4> QED
          BY <4>2 DEF Found
      <3> QED
        BY <3>1, <3>2
    <2>3. MakeWay(new) = tree
      BY <2>2 DEF MakeWay
    <2> QED
      BY <1>4, <2>1, <2>3
  <1> QED
    BY <1>3, <1>4

LEMMA InsertKeeps ==
    ASSUME TypeInv, RunInv, TameInv, Insert
    PROVE  RunInv' /\ TameInv'
  <1>1. PICK new \in todo :
            /\ \A i \in todo : Before(new, i)
            /\ ~Conflict(new)
            /\ tree' = MakeWay(new) \cup {new}
            /\ todo' = todo \ {new}
    BY DEF Insert
  <1>2. stage = "insert" /\ UNCHANGED <<kind, made, kernel, given, stage, cmds, next, known, init, msgs>>
    BY DEF Insert
  <1>3. RunInv'
    BY <1>2 DEF RunInv
  <1>4. ASSUME Tame PROVE InsertInv'
    <2> DEFINE T == cmds[next].elems
    <2>1. InsertInv
      BY <1>4 DEF TameInv
    <2>2. IF kind.merge /\ cmds[next].op # "DELETE"
          THEN Grown(T, MakeWay(new) \cup {new}, todo \ {new})
          ELSE MakeWay(new) \cup {new} = T \ (todo \ {new})
      BY <1>1, <1>2, <1>4, <2>1, InsertTame
    <2>3. IF kind.merge /\ cmds[next].op # "DELETE" THEN Grown(T, tree', todo') ELSE tree' = T \ todo'
      BY <1>1, <2>2
    <2>4. todo \subseteq T /\ (known => ~SetOverlap(cmds[next].op, cmds[next].elems))
      BY <1>2, <2>1 DEF InsertInv
    <2>5. (known => ~SetOverlap(cmds[next].op, cmds[next].elems))'
      BY <1>2, <2>4 DEF SetOverlap
    <2>6. todo' \subseteq T
      BY <1>1, <2>4
    <2>7. kind' = kind /\ cmds' = cmds /\ next' = next
      BY <1>2
    <2> QED
      BY <2>3, <2>5, <2>6, <2>7 DEF InsertInv
  <1> QED
    BY <1>2, <1>3, <1>4, TameStays

LEMMA MessageIs ==
    ASSUME TypeInv, TreeInv, RunInv, Message
    PROVE  LET op == cmds[next].op
               n  == Len(msgs)
           IN  /\ n \in Nat /\ next = n + 1 /\ next \in 1 .. Len(cmds)
               /\ Len(msgs') = n + 1
               /\ \A i \in 1 .. n : msgs'[i] = msgs[i]
               /\ msgs'[n + 1] = [op |-> op, list |-> Linearize(op)]
  <1> DEFINE op == cmds[next].op
             list == Linearize(op)
             n == Len(msgs)
  <1>1. stage = "insert" /\ msgs' = Append(msgs, [op |-> op, list |-> list])
    BY DEF Message
  <1>2. n \in Nat /\ msgs \in Seq(Messages) /\ next = n + 1 /\ Len(cmds) \in Nat
    BY MessageType, CommandType DEF TypeInv, RunInv
  <1>3. next \in 1 .. Len(cmds)
    BY <1>1, <1>2 DEF TypeInv
  <1>4. op \in Ops
    BY <1>3, CommandType
  <1>5. list \subseteq Elements
    BY LinearizeType
  <1>6. [op |-> op, list |-> list] \in Messages
    BY <1>4, <1>5 DEF Messages
  <1>7. /\ Len(msgs') = n + 1
        /\ \A i \in 1 .. n : msgs'[i] = msgs[i]
        /\ msgs'[n + 1] = [op |-> op, list |-> list]
    <2> HIDE DEF op, list
    <2> QED
      BY <1>1, <1>2, <1>6
  <1> QED
    BY <1>2, <1>3, <1>7

(* A message is made of what its command means.                            *)
LEMMA MessageStands ==
    ASSUME TypeInv, TreeInv, RunInv, Tame, InsertInv, stage = "insert", todo = {}
    PROVE  LET c == cmds[next]
           IN  /\ Fits(tree) /\ Fits(Meant(c)) /\ StandsFor(Linearize(c.op), Meant(c))
               /\ End(0) \in Linearize(c.op) => NeedsFirst(c.op)
               /\ c.elems = {} => tree = {}
  <1> DEFINE c == cmds[next]
             T == c.elems
             op == c.op
  <1>1. next \in 1 .. Len(cmds) /\ T \subseteq Intervals /\ kind \in SetKinds
    BY CommandType DEF TypeInv
  <1>2. IF kind.merge /\ op # "DELETE" THEN Grown(T, tree, {}) ELSE tree = T
    BY DEF InsertInv
  <1>3. CASE kind.merge /\ op # "DELETE"
    <2>1. ~kind.map
      BY <1>1, <1>3, CleanIs
    <2>2. /\ Fits(tree) /\ SameCover(tree, T) /\ \A i \in tree : i.data = "none"
      BY <1>2, <1>3 DEF Grown
    <2>3. tree \subseteq Intervals
      BY <2>2 DEF Fits
    <2>4. Meant(c) = Coalesce(T)
      BY <1>3, <2>1 DEF Meant, Taken
    <2>5. Coalesce(tree) = Coalesce(T)
      BY <1>1, <2>2, <2>3, CoalesceSame
    <2>6. /\ StandsFor(Linearize(op), Coalesce(tree))
          /\ End(0) \in Linearize(op) => NeedsFirst(op)
      BY <1>3, <2>1, <2>2, LinearizeJoins
    <2>7. Fits(Coalesce(T))
      BY <1>1, CoalesceFits
    <2>8. ASSUME T = {}, NEW i \in tree PROVE FALSE
      <3>1. i.left \in 0 .. Top /\ i.right \in 0 .. Top /\ i.left <= i.right
        BY <2>3, Bounds
      <3>2. Held(tree, i.left) /\ i.left \in Int
        BY <3>1 DEF Held, Holds
      <3>3. Held(T, i.left)
        BY <2>2, <3>2 DEF SameCover
      <3> QED
        BY <2>8, <3>3 DEF Held
    <2> QED
      BY <2>2, <2>4, <2>5, <2>6, <2>7, <2>8
  <1>4. CASE ~(kind.merge /\ op # "DELETE")
    <2>1. tree = T
      BY <1>2, <1>4
    <2>2. Meant(c) = T
      BY <1>4 DEF Meant, Taken
    <2>3. Fits(tree) /\ Spaced
      <3>1. CASE ~kind.merge
        <4>1. Fits(tree)
          BY <1>1, <2>1, <3>1 DEF TreeInv, TreeDisjoint, Fits
        <4> QED
          BY <1>1, <3>1, <4>1, PlainSpaced
      <3>2. CASE kind.merge
        <4>1. Gaps(tree)
          BY <1>1, <1>4, <2>1, <3>2, CleanIs
        <4>2. \A i \in tree : i.left \in 0 .. Top /\ i.right \in 0 .. Top /\ i.left <= i.right
          BY <1>1, <2>1, Bounds
        <4>3. Fits(tree)
          BY <1>1, <2>1, <4>1, <4>2 DEF Gaps, Fits, Intersect
        <4>4. ASSUME NEW i \in tree, LeftOf(i) # {} PROVE Closes(Prev(i).right, i)
          <5>1. Prev(i) \in tree /\ Prev(i).left < i.left
            BY <1>1, <2>1, <4>4, PrevIs
          <5>2. Prev(i) # i
            BY <4>2, <5>1
          <5>3. Prev(i).right + 1 < i.left \/ i.right + 1 < Prev(i).left
            BY <4>1, <5>1, <5>2 DEF Gaps
          <5>4. Prev(i).right + 1 < i.left
            BY <4>2, <5>1, <5>3
          <5> QED
            BY <5>4 DEF Closes
        <4> QED
          BY <4>3, <4>4 DEF Spaced
      <3> QED
        BY <3>1, <3>2
    <2>4. StandsFor(Linearize(op), tree) /\ (End(0) \in Linearize(op) => NeedsFirst(op))
      BY <2>3, LinearizeStands
    <2> QED
      BY <2>1, <2>2, <2>3, <2>4
  <1> QED
    BY <1>3, <1>4

LEMMA MessageKeeps ==
    ASSUME DeletesFromMade, TypeInv, TreeInv, RunInv, TameInv, Message
    PROVE  RunInv' /\ TameInv'
  <1> DEFINE c == cmds[next]
             op == c.op
             M == Meant(c)
             list == Linearize(op)
             n == Len(msgs)
  <1>1. /\ stage = "insert" /\ todo = {} /\ next' = next + 1
        /\ init' = InitAfter(op, list)
        /\ stage' = IF next = Len(cmds) THEN "send" ELSE "command"
        /\ UNCHANGED <<kind, made, kernel, given, cmds, known, todo, tree>>
    BY DEF Message
  <1>2. n \in Nat /\ next = n + 1 /\ Len(cmds) \in Nat
    BY CommandType, MessageIs
  <1>3. next \in 1 .. Len(cmds)
    BY MessageIs
  <1>4. /\ Len(msgs') = n + 1
        /\ \A i \in 1 .. n : msgs'[i] = msgs[i]
        /\ msgs'[n + 1] = [op |-> op, list |-> list]
    BY MessageIs
  <1>5. RunInv'
    BY <1>1, <1>2, <1>3, <1>4 DEF RunInv
  <1>6. ASSUME Tame PROVE KernelInv' /\ InsertInv' /\ MsgsInv' /\ InitInv'
    <2>1. KernelInv /\ InsertInv /\ MsgsInv /\ InitInv
      BY <1>6 DEF TameInv
    <2>2. Fits(M) /\ StandsFor(list, M) /\ (End(0) \in list => NeedsFirst(op))
      BY <1>1, <1>6, <2>1, MessageStands
    <2>3. op = "DELETE" => End(0) \notin list
      BY <2>2 DEF NeedsFirst
    <2>4. Decompose(list) = M
      BY <2>2, DecomposeOf
    <2>5. known => op \in {"ADD", "CREATE", "DELETE"}
      BY <1>3, OpsAre
    <2>6. known => init = CachedAt(n) /\ ~SetOverlap(op, c.elems)
      BY <1>1, <2>1 DEF InsertInv, InitInv
    <2>7. known => Passes(c, CachedAt(n))
      BY <2>6 DEF SetOverlap, Passes
    <2>8. CachedAt(n + 1) = IF op = "DELETE" THEN CachedAt(n) ELSE CachedAt(n) \cup Taken(c.elems)
      BY <1>2, CachedIs
    <2>9. known => init' = CachedAt(n + 1)
      <3>1. CASE op = "DELETE"
        BY <1>1, <2>6, <2>8, <3>1 DEF InitAfter
      <3>2. CASE op # "DELETE"
        <4>1. M = Taken(c.elems)
          BY <3>2 DEF Meant
        <4>2. known => init' = init \cup M
          BY <1>1, <2>4, <2>5, <3>2 DEF InitAfter
        <4> QED
          BY <2>6, <2>8, <3>2, <4>1, <4>2
      <3> QED
        BY <3>1, <3>2
    <2>10. \A k : CachedAt(k)' = CachedAt(k)
      BY <1>1 DEF CachedAt, Taken
    <2>11. KernelInv'
      BY <1>1, <2>1 DEF KernelInv
    <2>12. InsertInv'
      BY <1>1 DEF InsertInv
    <2>13. InitInv'
      <3>1. CachedAt(Len(msgs))' = CachedAt(n + 1)
        BY <1>4, <2>10
      <3> QED
        BY <1>1, <2>9, <3>1 DEF InitInv
    <2>14. MsgsInv'
      <3>1. SUFFICES ASSUME NEW i \in 1 .. n + 1 PROVE Written(i)'
        BY <1>4 DEF MsgsInv
      <3>2. Meant(cmds[i])' = Meant(cmds[i])
        BY <1>1 DEF Meant, Taken
      <3>3. (known => Passes(cmds[i], CachedAt(i - 1)))' <=> (known => Passes(cmds[i], CachedAt(i - 1)))
        BY <1>1, <2>10 DEF Passes
      <3>4. cmds' = cmds
        BY <1>1
      <3>5. CASE i \in 1 .. n
        <4>1. Written(i)
          BY <2>1, <3>5 DEF MsgsInv
        <4>2. msgs'[i] = msgs[i]
          BY <1>4, <3>5
        <4> QED
          BY <3>2, <3>3, <3>4, <4>1, <4>2 DEF Written
      <3>6. CASE i = n + 1
        <4>1. cmds[i] = c /\ i - 1 = n
          BY <1>2, <3>6
        <4>2. msgs'[i].op = op /\ msgs'[i].list = list
          BY <1>4, <3>6
        <4>3. known => Passes(cmds[i], CachedAt(i - 1))
          BY <2>7, <4>1
        <4>4. Fits(Meant(cmds[i])) /\ StandsFor(list, Meant(cmds[i]))
          BY <2>2, <4>1
        <4>5. cmds[i].op = op
          BY <4>1
        <4> HIDE DEF op, list
        <4> QED
          BY <2>3, <3>2, <3>3, <3>4, <4>2, <4>3, <4>4, <4>5 DEF Written
      <3> QED
        BY <1>2, <3>1, <3>5, <3>6
    <2> QED
      BY <2>11, <2>12, <2>13, <2>14
  <1>7. Tame' => Tame
    BY <1>1 DEF Tame
  <1> QED
    BY <1>5, <1>6, <1>7 DEF TameInv

LEMMA SendKeeps ==
    ASSUME DeletesFromMade, TypeInv, RunInv, TameInv, Send
    PROVE  RunInv' /\ TameInv'
  <1>1. /\ stage = "send" /\ Transaction.ok
        /\ kernel' = Transaction.to /\ given' = Given(Len(cmds)) /\ made' = TRUE
        /\ stage' = "idle" /\ cmds' = <<>> /\ next' = 1
        /\ known' = FALSE /\ init' = {}
        /\ tree' = {} /\ msgs' = <<>>
        /\ UNCHANGED <<kind, todo>>
    BY DEF Send
  <1>2. Len(<<>>) = 0
    OBVIOUS
  <1>3. RunInv'
    BY <1>1, <1>2 DEF RunInv
  <1>4. Len(msgs) \in Nat /\ Len(cmds) \in Nat
    BY MessageType, CommandType
  <1>5. Len(msgs) = Len(cmds) /\ Len(msgs) \in 0 .. Len(msgs)
    BY <1>1, <1>4 DEF RunInv
  <1>6. ASSUME Tame PROVE KernelInv'
    <2>1. KernelInv /\ MsgsInv
      BY <1>6 DEF TameInv
    <2>2. Carried[Len(msgs)].ok
      BY <1>1 DEF Transaction
    <2>3. Fits(Given(Len(msgs))) /\ StandsFor(Carried[Len(msgs)].to, Given(Len(msgs)))
      BY <1>5, <2>1, <2>2, CarriedStands DEF Holding
    <2>4. kernel' = Carried[Len(msgs)].to /\ given' = Given(Len(msgs))
      BY <1>1, <1>5 DEF Transaction
    <2>5. Fits(given') /\ StandsFor(kernel', given')
      BY <2>3, <2>4
    <2> QED
      BY <1>1, <2>5 DEF KernelInv
  <1>7. InsertInv' /\ MsgsInv' /\ InitInv'
    BY <1>1, <1>2 DEF InsertInv, MsgsInv, InitInv
  <1>8. Tame' => Tame
    BY <1>1 DEF Tame
  <1> QED
    BY <1>3, <1>6, <1>7, <1>8 DEF TameInv

LEMMA OthersKeep ==
    ASSUME TypeInv, RunInv, TameInv
    PROVE  /\ CommandFails \/ InsertFails \/ SendFails \/ UNCHANGED vars => RunInv' /\ TameInv'
           /\ Abort \/ Destroy => RunInv' /\ TameInv'
  <1>1. Len(<<>>) = 0
    OBVIOUS
  <1>2. CASE CommandFails \/ InsertFails
    <2>1. /\ stage' = "failed" /\ stage \in {"command", "insert"}
          /\ UNCHANGED <<kind, made, kernel, given, cmds, next, known, init, todo, tree, msgs>>
      BY <1>2 DEF CommandFails, InsertFails
    <2>2. InsertInv'
      BY <2>1 DEF InsertInv
    <2>3. RunInv'
      BY <2>1 DEF RunInv
    <2> QED
      BY <2>1, <2>2, <2>3, TameStays
  <1>3. CASE SendFails
    <2>1. /\ stage' = "refused" /\ stage = "send"
          /\ UNCHANGED <<kind, made, kernel, given, cmds, next, known, init, todo, tree, msgs>>
      BY <1>3 DEF SendFails
    <2>2. InsertInv'
      BY <2>1 DEF InsertInv
    <2>3. RunInv'
      BY <2>1 DEF RunInv
    <2> QED
      BY <2>1, <2>2, <2>3, TameStays
  <1>4. CASE UNCHANGED vars
    <2>1. UNCHANGED <<kind, made, kernel, given, stage, cmds, next, known, init, todo, tree, msgs>>
      BY <1>4 DEF vars
    <2>2. InsertInv => InsertInv'
      BY <2>1 DEF InsertInv, SetOverlap
    <2>3. RunInv'
      BY <2>1 DEF RunInv
    <2>4. Tame => InsertInv'
      BY <2>2 DEF TameInv
    <2> QED
      BY <2>1, <2>3, <2>4, TameStays
  <1>5. CASE Abort
    <2>1. /\ stage' = "idle" /\ cmds' = <<>> /\ next' = 1 /\ known' = FALSE /\ msgs' = <<>>
          /\ UNCHANGED <<kind, made, kernel, given>>
      BY <1>5 DEF Abort
    <2>2. RunInv'
      BY <1>1, <2>1 DEF RunInv
    <2>3. KernelInv => KernelInv'
      BY <2>1 DEF KernelInv
    <2>4. InsertInv' /\ MsgsInv' /\ InitInv'
      BY <1>1, <2>1 DEF InsertInv, MsgsInv, InitInv
    <2>5. Tame' => Tame
      BY <2>1 DEF Tame
    <2> QED
      BY <2>2, <2>3, <2>4, <2>5 DEF TameInv
  <1>6. CASE Destroy
    <2>1. /\ stage = "idle" /\ made' = FALSE /\ kernel' = {} /\ given' = {}
          /\ UNCHANGED <<kind, stage, cmds, next, known, init, todo, tree, msgs>>
      BY <1>6 DEF Destroy
    <2>2. RunInv'
      BY <2>1 DEF RunInv
    <2>3. KernelInv'
      BY <2>1 DEF KernelInv, Fits, StandsFor, Elems
    <2>4. InsertInv'
      BY <2>1 DEF InsertInv
    <2>5. Len(msgs) = 0 /\ Len(msgs') = 0
      BY <1>1, <2>1 DEF RunInv, TypeInv
    <2>6. MsgsInv'
      BY <2>5 DEF MsgsInv
    <2>7. InitInv'
      BY <2>1 DEF RunInv, InitInv
    <2> QED
      BY <2>1, <2>2, <2>3, <2>4, <2>6, <2>7 DEF TameInv
  <1> QED
    BY <1>2, <1>3, <1>4, <1>5, <1>6

LEMMA TameKept == DeletesFromMade /\ Spec => [](TypeInv /\ TreeInv /\ RunInv /\ TameInv)
  <1> SUFFICES ASSUME DeletesFromMade
               PROVE  Spec => [](TypeInv /\ TreeInv /\ RunInv /\ TameInv)
    OBVIOUS
  <1>1. Init => RunInv /\ TameInv
    <2> SUFFICES ASSUME Init PROVE RunInv /\ TameInv
      OBVIOUS
    <2>1. Len(<<>>) = 0
      OBVIOUS
    <2>2. RunInv
      BY <2>1 DEF Init, RunInv
    <2>3. KernelInv
      BY DEF Init, KernelInv, Fits, StandsFor, Elems
    <2>4. InsertInv /\ MsgsInv /\ InitInv
      BY <2>1 DEF Init, InsertInv, MsgsInv, InitInv
    <2> QED
      BY <2>2, <2>3, <2>4 DEF TameInv
  <1>2. TypeInv /\ TreeInv /\ RunInv /\ TameInv /\ [Next]_vars => RunInv' /\ TameInv'
    <2> SUFFICES ASSUME TypeInv, TreeInv, RunInv, TameInv, [Next]_vars
                 PROVE  RunInv' /\ TameInv'
      OBVIOUS
    <2>1. ASSUME NEW b \in Batches[kind], Run(b) PROVE RunInv' /\ TameInv'
      BY <2>1, RunStarts
    <2>2. CASE Command
      BY <2>2, CommandStarts
    <2>3. CASE Insert
      BY <2>3, InsertKeeps
    <2>4. CASE Message
      BY <2>4, MessageKeeps
    <2>5. CASE Send
      BY <2>5, SendKeeps
    <2>6. CASE CommandFails \/ InsertFails \/ SendFails \/ Abort \/ Destroy \/ UNCHANGED vars
      BY <2>6, OthersKeep
    <2> QED
      BY <2>1, <2>2, <2>3, <2>4, <2>5, <2>6 DEF Next
  <1> QED
    BY <1>1, <1>2, TypeKept, PTL DEF Spec

(* The tree of intervals that are nested or apart is disjoint, also in a   *)
(* set that merges: "the new interval never extends over more than two     *)
(* existing intervals", segtree.c:187-188, holds for these.                *)
THEOREM NestedTreeTheorem == DeletesFromMade /\ Spec => [](Tame => TreeDisjoint)
  <1> SUFFICES ASSUME DeletesFromMade PROVE Spec => [](Tame => TreeDisjoint)
    OBVIOUS
  <1> DEFINE Inserted == stage = "insert" /\ Tame => TreeDisjoint
  <1>1. TypeInv /\ TreeInv /\ RunInv /\ TameInv => Inserted
    <2> SUFFICES ASSUME TypeInv, TreeInv, RunInv, TameInv, stage = "insert", Tame
                 PROVE  TreeDisjoint
      OBVIOUS
    <2>1. next \in 1 .. Len(cmds) /\ cmds[next].elems \subseteq Intervals
      BY CommandType DEF TypeInv
    <2>2. IF kind.merge /\ cmds[next].op # "DELETE" THEN Grown(cmds[next].elems, tree, todo)
                                                  ELSE tree \subseteq cmds[next].elems
      BY DEF TameInv, InsertInv
    <2>3. CASE ~kind.merge
      BY <2>3 DEF TreeInv
    <2>4. CASE kind.merge /\ cmds[next].op # "DELETE"
      BY <2>2, <2>4 DEF Grown, Fits, TreeDisjoint
    <2>5. CASE kind.merge /\ cmds[next].op = "DELETE"
      <3>1. Gaps(cmds[next].elems)
        BY <2>1, <2>5, CleanIs
      <3>2. \A i \in tree : i \in cmds[next].elems /\ i \in Intervals
        BY <2>1, <2>2, <2>5
      <3>3. \A i, j \in tree : i # j => i.right + 1 < j.left \/ j.right + 1 < i.left
        BY <3>1, <3>2 DEF Gaps
      <3> QED
        BY <3>2, <3>3, Bounds DEF TreeDisjoint, Intersect
    <2> QED
      BY <2>3, <2>4, <2>5
  <1>2. Init => (Tame => TreeDisjoint)
    BY DEF Init, TreeDisjoint
  <1>3. Inserted' /\ (Tame => TreeDisjoint) /\ [Next]_vars => (Tame => TreeDisjoint)'
    <2> SUFFICES ASSUME Inserted', Tame => TreeDisjoint, [Next]_vars, Tame' PROVE TreeDisjoint'
      OBVIOUS
    <2>1. UNCHANGED kind
      BY DEF Next, Run, Command, CommandFails, Insert, InsertFails, Message, Send, SendFails,
             Abort, Destroy, vars
    <2>2. TreeDisjoint
      BY <2>1 DEF Tame
    <2>3. CASE stage' = "insert"
      BY <2>3
    <2>4. CASE stage' # "insert" /\ tree' = tree
      BY <2>2, <2>4 DEF TreeDisjoint
    <2>5. CASE stage' # "insert" /\ tree' # tree
      <3>1. tree' = {}
        BY <2>5 DEF Next, Run, Command, CommandFails, Insert, InsertFails, Message, Send,
                    SendFails, Abort, Destroy, vars
      <3> QED
        BY <3>1 DEF TreeDisjoint
    <2> QED
      BY <2>3, <2>4, <2>5
  <1> HIDE DEF Inserted
  <1> QED
    BY <1>1, <1>2, <1>3, TameKept, PTL DEF Spec

-----------------------------------------------------------------------------
(* What the kernel matches: after any sequence of batches, the elements of *)
(* the kernel match the keys in the intervals users gave and no other, and *)
(* map each to the data given, whether intervals of the set merge or not.  *)
THEOREM KernelMeansTheorem == DeletesFromMade /\ Spec => [](Tame => KernelMeans)
  <1>1. TameInv => (Tame => KernelMeans)
    <2> SUFFICES ASSUME TameInv, Tame, NEW x \in 0 .. Top,
                        NEW in, in = {i \in given : Holds(i, x)}
                 PROVE  Match(x) = {i.data : i \in {j \in in : \A k \in in : Before(k, j)}}
      BY DEF KernelMeans
    <2>1. Fits(given) /\ StandsFor(kernel, given)
      BY DEF TameInv, KernelInv
    <2>2. Decompose(kernel) = given
      BY <2>1, DecomposeOf
    <2>3. ASSUME NEW i \in in, NEW j \in in PROVE i = j
      <3>1. i \in Intervals /\ j \in Intervals
        BY <2>1 DEF Fits
      <3>2. Intersect(i, j)
        BY <3>1, Bounds DEF Holds, Intersect
      <3> QED
        BY <2>1, <3>2, SharesNoEnd
    <2>4. ASSUME NEW j \in in, NEW k \in in PROVE Before(k, j)
      <3>1. j \in Intervals /\ k = j
        BY <2>1, <2>3 DEF Fits
      <3> QED
        BY <3>1, IntervalIs, Bounds DEF Before
    <2>5. {j \in in : \A k \in in : Before(k, j)} = in
      BY <2>4
    <2>6. Match(x) = {i.data : i \in in}
      BY <2>2 DEF Match
    <2> QED
      BY <2>5, <2>6
  <1> QED
    BY <1>1, TameKept, PTL

(* What nft lists is what was given, neither cut nor joined:               *)
(* interval_map_decompose() takes back what segtree_linearize() did, also  *)
(* for the elements that many messages left.                               *)
THEOREM ListedBackTheorem == DeletesFromMade /\ Spec => [](Tame => ListedBack)
  <1>1. TameInv => (Tame => ListedBack)
    BY DecomposeOf DEF TameInv, KernelInv, ListedBack
  <1> QED
    BY <1>1, TameKept, PTL

(* No end stays in the kernel without its interval.                        *)
THEOREM NoOrphansTheorem == DeletesFromMade /\ Spec => [](Tame => NoOrphans)
  <1>1. TameInv => (Tame => NoOrphans)
    <2> SUFFICES ASSUME TameInv, Tame, NEW e \in kernel, e.end, e.key # 0
                 PROVE  \E i \in Decompose(kernel) : i.right = e.key - 1
      BY DEF NoOrphans
    <2>1. Fits(given) /\ StandsFor(kernel, given)
      BY DEF TameInv, KernelInv
    <2>2. Decompose(kernel) = given
      BY <2>1, DecomposeOf
    <2>3. e # End(0)
      BY EndIs
    <2>4. \A i \in given : e # Start(i)
      BY StartIs
    <2>5. PICK i \in given : e = End(i.right + 1)
      BY <2>1, <2>3, <2>4, StandsIn
    <2>6. e.key = i.right + 1 /\ i.right \in 0 .. Top
      BY <2>1, <2>5, EndIs, Bounds DEF Fits
    <2> QED
      BY <2>2, <2>6
  <1> QED
    BY <1>1, TameKept, PTL

(* A batch the kernel refuses has no interval that overlaps one of the set *)
(* or of an earlier command: the cached set grows with the batch, so these *)
(* are found before anything is sent.                                      *)
THEOREM FoundHereTheorem == DeletesFromMade /\ Spec => [](Tame => FoundHere)
  <1>1. TypeInv /\ RunInv /\ TameInv => (Tame => FoundHere)
    <2> SUFFICES ASSUME TypeInv, RunInv, TameInv, Tame, stage = "refused", known,
                        NEW n \in DOMAIN cmds, cmds[n].op # "DELETE",
                        NEW i \in cmds[n].elems, NEW j \in Given(n - 1)
                 PROVE  ~Overlap(i, j)
      BY DEF FoundHere
    <2>1. Len(cmds) \in Nat /\ n \in 1 .. Len(cmds)
      BY CommandType
    <2>2. Len(msgs) = Len(cmds)
      BY <2>1 DEF RunInv
    <2>3. n \in 1 .. Len(msgs) /\ n - 1 \in 0 .. Len(cmds)
      BY <2>1, <2>2
    <2>4. Passes(cmds[n], CachedAt(n - 1))
      BY <2>3 DEF TameInv, MsgsInv, Written
    <2>5. j \in CachedAt(n - 1)
      BY <2>3, GivenCached
    <2> QED
      BY <2>4, <2>5 DEF Passes
  <1> QED
    BY <1>1, TameKept, PTL

-----------------------------------------------------------------------------
(* Why a batch fails.                                                      *)

(* No batch adds to a set behind a command that takes from it: the cached  *)
(* set does not forget, and what was deleted would be in the way.          *)
AddsFirst ==
    \A k \in SetKinds : \A b \in Batches[k] : \A i, j \in DOMAIN b :
        i < j /\ b[i].op = "DELETE" => b[j].op = "DELETE"

(* Elements are created in a set that is just made without any, or in one  *)
(* that is never emptied: the segment in front of the first interval stays *)
(* when the last interval goes, and would be created again.                *)
KeepsAll(k) == \A b \in Batches[k] : \A i \in DOMAIN b : b[i].op # "DELETE"

CreatesFirst ==
    \A k \in SetKinds : \A b \in Batches[k] : \A i \in DOMAIN b :
        b[i].op = "CREATE" => IF b[1].op = "NEW" THEN i = 2 /\ b[1].elems = {} ELSE KeepsAll(k)

FailInv == stage = "failed" =>
    /\ next <= Len(cmds)
    /\ \/ Refuses(cmds[next])
       \/ ~kind.merge /\ \E i, j \in cmds[next].elems : i # j /\ Intersect(i, j)

(* The segment in front is there with an interval, and is only sent to a   *)
(* set that holds none.                                                    *)
FirstInv == KeepsAll(kind) /\ End(0) \in kernel => given # {}

WrittenFirst(i) ==
    /\ cmds[i].elems = {} => msgs[i].list = {}
    /\ known /\ End(0) \in msgs[i].list =>
          given = {} /\ \A j \in 1 .. i - 1 : cmds[j].op = "DELETE"

RefuseInv == Tame => /\ FailInv /\ FirstInv
                            /\ \A i \in 1 .. Len(msgs) : WrittenFirst(i)

(* The segment in front is not all that a batch leaves of a set that is    *)
(* never emptied.                                                          *)
LEMMA FirstCarried ==
    ASSUME TypeInv, RunInv, Tame, RefuseInv, KeepsAll(kind), NEW k \in 0 .. Len(msgs),
           End(0) \in Carried[k].to
    PROVE  Given(k) # {}
  <1> DEFINE n == Len(msgs)
             S == {i \in 0 .. n : End(0) \in Carried[i].to => Given(i) # {}}
  <1>1. n \in Nat /\ n <= Len(cmds) /\ Len(cmds) \in Nat /\ DOMAIN msgs = 1 .. n
        /\ DOMAIN cmds = 1 .. Len(cmds)
    BY MessageType, CommandType DEF RunInv, TypeInv
  <1> HIDE DEF n
  <1>2. \A i \in 0 .. Len(cmds) :
            Given(i) = IF i = 0 THEN given ELSE GivenAfter(Given(i - 1), cmds[i])
    BY <1>1, GivenIs
  <1>3. /\ Carried[0].to = kernel
        /\ \A i \in 1 .. n : Carried[i].to = Apply(Carried[i - 1].to, msgs[i])
    BY <1>1, CarriedSteps DEF n
  <1>4. 0 \in S
    <2>1. Given(0) = given
      BY <1>1, <1>2
    <2> QED
      BY <1>1, <1>3, <2>1 DEF RefuseInv, FirstInv
  <1>5. ASSUME NEW i \in 0 .. n - 1, i \in S PROVE i + 1 \in S
    <2> DEFINE T == cmds[i + 1].elems
               m == msgs[i + 1]
    <2>1. i + 1 \in 0 .. n /\ i + 1 \in 0 .. Len(cmds) /\ i + 1 # 0 /\ (i + 1) - 1 = i
          /\ i + 1 \in 1 .. n /\ i + 1 \in 1 .. Len(cmds)
      BY <1>1
    <2>2. SUFFICES ASSUME End(0) \in Carried[i + 1].to PROVE Given(i + 1) # {}
      BY <2>1
    <2>3. cmds[i + 1].op # "DELETE"
      <3>1. cmds \in Batches[kind]
        BY <2>1, OpsAre DEF RunInv
      <3> QED
        BY <1>1, <2>1, <3>1 DEF KeepsAll
    <2>4. Given(i + 1) = Given(i) \cup Taken(T)
      BY <1>2, <2>1, <2>3 DEF GivenAfter
    <2>5. End(0) \in Carried[i].to \/ End(0) \in m.list
      BY <1>3, <2>1, <2>2 DEF Apply
    <2>6. End(0) \in Carried[i].to => Given(i) # {}
      BY <1>5
    <2>7. End(0) \in m.list => T # {}
      BY <2>1 DEF RefuseInv, WrittenFirst, n
    <2>8. T \subseteq Intervals
      BY <2>1, CommandType
    <2> HIDE DEF T, m
    <2> QED
      BY <2>4, <2>5, <2>6, <2>7, <2>8, TakenSome
  <1>6. 0 .. n \subseteq S
    <2> HIDE DEF S
    <2> QED
      BY <1>1, <1>4, <1>5, InductionTo
  <1> QED
    BY <1>6 DEF n

LEMMA InsertFailsFor ==
    ASSUME TypeInv, RunInv, TameInv, Tame, InsertFails
    PROVE  FailInv'
  <1>1. PICK new \in todo : Conflict(new)
    BY DEF InsertFails
  <1>2. stage = "insert" /\ UNCHANGED <<kind, cmds, next>>
    BY DEF InsertFails
  <1>3. PICK i \in tree : Holds(i, new.left) \/ Holds(i, new.right)
    BY <1>1 DEF Conflict, Found
  <1>4. i \in Intervals /\ new \in Intervals
    BY DEF TypeInv
  <1>5. Intersect(i, new)
    BY <1>3, <1>4, Bounds DEF Holds, Intersect
  <1>6. ~kind.merge /\ i \in cmds[next].elems /\ new \in cmds[next].elems /\ i # new
    BY <1>1, <1>2 DEF Conflict, TameInv, InsertInv
  <1>7. next <= Len(cmds)
    BY <1>2 DEF TypeInv
  <1> QED
    BY <1>2, <1>5, <1>6, <1>7 DEF FailInv

LEMMA MessageFirst ==
    ASSUME TypeInv, TreeInv, RunInv, TameInv, RefuseInv, Tame, Message
    PROVE  \A i \in 1 .. Len(msgs') : WrittenFirst(i)'
  <1> DEFINE op == cmds[next].op
             T == cmds[next].elems
             list == Linearize(op)
             n == Len(msgs)
  <1>1. /\ n \in Nat /\ next = n + 1 /\ next \in 1 .. Len(cmds)
        /\ Len(msgs') = n + 1
        /\ \A i \in 1 .. n : msgs'[i] = msgs[i]
        /\ msgs'[n + 1] = [op |-> op, list |-> list]
    BY MessageIs
  <1>2. stage = "insert" /\ todo = {} /\ UNCHANGED <<kind, given, cmds, known, tree>>
    BY DEF Message
  <1>3. (T = {} => tree = {}) /\ (End(0) \in list => NeedsFirst(op))
    BY <1>2, MessageStands DEF TameInv
  <1>4. T = {} => list = {}
    BY <1>3 DEF Linearize, Walked, Rightmost
  <1>5. ASSUME known, End(0) \in list
        PROVE  given = {} /\ \A j \in 1 .. n : cmds[j].op = "DELETE"
    <2>1. NeedsFirst(op)
      BY <1>3, <1>5
    <2>2. op # "NEW"
      BY <1>1, <1>5, OpsAre
    <2>3. init = {}
      BY <1>5, <2>1, <2>2 DEF NeedsFirst
    <2>4. CachedAt(n) = {}
      BY <1>5, <2>3 DEF TameInv, InitInv
    <2>5. ASSUME NEW j \in 1 .. n, cmds[j].op # "DELETE" PROVE FALSE
      <3>1. j \in 1 .. Len(cmds) /\ DOMAIN cmds = 1 .. Len(cmds)
        BY <1>1, CommandType
      <3>2. Taken(cmds[j].elems) \subseteq CachedAt(n)
        BY <2>5 DEF CachedAt
      <3>3. cmds[j].op # "NEW" /\ stage # "idle"
        BY <1>5, <3>1, OpsAre
      <3>4. cmds \in Batches[kind] /\ kind \in SetKinds
        BY <3>3 DEF RunInv, TypeInv
      <3>5. cmds[j].elems # {}
        BY <3>1, <3>3, <3>4, BatchIs
      <3>6. Taken(cmds[j].elems) # {}
        BY <3>1, <3>5, CommandType, TakenSome
      <3> QED
        BY <2>4, <3>2, <3>6
    <2>6. given \subseteq CachedAt(n)
      BY DEF CachedAt
    <2> QED
      BY <2>4, <2>5, <2>6
  <1>6. SUFFICES ASSUME NEW i \in 1 .. n + 1 PROVE WrittenFirst(i)'
    BY <1>1
  <1>7. CASE i \in 1 .. n
    <2>1. WrittenFirst(i)
      BY <1>7 DEF RefuseInv
    <2>2. msgs'[i] = msgs[i]
      BY <1>1, <1>7
    <2> QED
      BY <1>2, <2>1, <2>2 DEF WrittenFirst
  <1>8. CASE i = n + 1
    <2>1. i = next /\ msgs'[i].list = list /\ i - 1 = n
      BY <1>1, <1>8
    <2>2. cmds'[i].elems = T /\ UNCHANGED <<given, cmds, known>>
      BY <1>2, <2>1
    <2> HIDE DEF list, T, n
    <2> QED
      BY <1>4, <1>5, <2>1, <2>2 DEF WrittenFirst
  <1> QED
    BY <1>1, <1>6, <1>7, <1>8

LEMMA RefuseKept == DeletesFromMade /\ Spec => []RefuseInv
  <1> SUFFICES ASSUME DeletesFromMade PROVE Spec => []RefuseInv
    OBVIOUS
  <1>1. Init => RefuseInv
    BY DEF Init, RefuseInv, FailInv, FirstInv
  <1>2. TypeInv /\ TreeInv /\ RunInv /\ TameInv /\ RefuseInv /\ [Next]_vars => RefuseInv'
    <2> SUFFICES ASSUME TypeInv, TreeInv, RunInv, TameInv, RefuseInv, [Next]_vars
                 PROVE  RefuseInv'
      OBVIOUS
    <2>1. UNCHANGED kind
      BY DEF Next, Run, Command, CommandFails, Insert, InsertFails, Message, Send, SendFails,
             Abort, Destroy, vars
    <2>2. SUFFICES ASSUME Tame
                   PROVE  FailInv' /\ FirstInv' /\ \A i \in 1 .. Len(msgs)' : WrittenFirst(i)'
      BY <2>1 DEF RefuseInv, Tame
    <2>3. FailInv /\ FirstInv /\ \A i \in 1 .. Len(msgs) : WrittenFirst(i)
      BY <2>2 DEF RefuseInv
    <2>4. Len(<<>>) = 0
      OBVIOUS
    <2>5. ASSUME NEW b \in Batches[kind], Run(b)
          PROVE  FailInv' /\ FirstInv' /\ \A i \in 1 .. Len(msgs)' : WrittenFirst(i)'
      <3>1. /\ stage = "idle" /\ stage' = "command"
            /\ UNCHANGED <<kind, kernel, given, msgs>>
        BY <2>5 DEF Run
      <3>2. Len(msgs) = 0
        BY <2>4, <3>1 DEF RunInv, TypeInv
      <3> QED
        BY <2>3, <3>1, <3>2 DEF FailInv, FirstInv
    <2>6. CASE Command \/ Insert \/ SendFails
      <3>1. stage' # "failed" /\ UNCHANGED <<kind, kernel, given, cmds, known, msgs>>
        BY <2>6 DEF Command, Insert, SendFails
      <3> QED
        BY <2>3, <3>1 DEF FailInv, FirstInv, WrittenFirst
    <2>7. CASE CommandFails
      <3>1. /\ next <= Len(cmds) /\ Refuses(cmds[next])
            /\ UNCHANGED <<kind, kernel, given, cmds, next, known, init, msgs>>
        BY <2>7 DEF CommandFails
      <3>2. FailInv'
        BY <3>1 DEF FailInv, Refuses, SetOverlap
      <3> QED
        BY <2>3, <3>1, <3>2 DEF FirstInv, WrittenFirst
    <2>8. CASE InsertFails
      <3>1. UNCHANGED <<kind, kernel, given, cmds, known, msgs>>
        BY <2>8 DEF InsertFails
      <3>2. FailInv'
        BY <2>2, <2>8, InsertFailsFor
      <3> QED
        BY <2>3, <3>1, <3>2 DEF FirstInv, WrittenFirst
    <2>9. CASE Message
      <3>1. stage' # "failed" /\ UNCHANGED <<kind, kernel, given>>
        BY <2>9 DEF Message
      <3>2. \A i \in 1 .. Len(msgs') : WrittenFirst(i)'
        BY <2>2, <2>9, MessageFirst
      <3> QED
        BY <2>3, <3>1, <3>2 DEF FailInv, FirstInv
    <2>10. CASE Send
      <3>1. /\ stage = "send" /\ kernel' = Transaction.to /\ given' = Given(Len(cmds))
            /\ stage' = "idle" /\ msgs' = <<>> /\ UNCHANGED kind
        BY <2>10 DEF Send
      <3>2. Len(msgs) = Len(cmds) /\ Len(msgs) \in 0 .. Len(msgs)
        BY <3>1, MessageType, CommandType DEF RunInv
      <3>3. FirstInv'
        BY <2>2, <3>1, <3>2, FirstCarried DEF FirstInv, Transaction
      <3> QED
        BY <2>4, <3>1, <3>3 DEF FailInv
    <2>11. CASE Abort
      <3>1. stage' = "idle" /\ msgs' = <<>> /\ UNCHANGED <<kind, kernel, given>>
        BY <2>11 DEF Abort
      <3> QED
        BY <2>3, <2>4, <3>1 DEF FailInv, FirstInv
    <2>12. CASE Destroy
      <3>1. stage = "idle" /\ stage' = "idle" /\ kernel' = {} /\ UNCHANGED <<next, cmds, msgs>>
        BY <2>12 DEF Destroy
      <3>2. Len(msgs') = 0
        BY <2>4, <3>1 DEF RunInv, TypeInv
      <3> QED
        BY <3>1, <3>2 DEF FailInv, FirstInv
    <2>13. CASE UNCHANGED vars
      <3>1. UNCHANGED <<kind, kernel, given, stage, cmds, next, known, init, msgs>>
        BY <2>13 DEF vars
      <3> QED
        BY <2>3, <3>1 DEF FailInv, FirstInv, WrittenFirst, Refuses, SetOverlap
    <2> QED
      BY <2>5, <2>6, <2>7, <2>8, <2>9, <2>10, <2>11, <2>12, <2>13 DEF Next
  <1> QED
    BY <1>1, <1>2, TameKept, PTL DEF Spec

(* What is cached before the first deletion of a batch is in the set.      *)
LEMMA CachedGiven ==
    ASSUME TypeInv, RunInv, Tame, InitInv, known,
           \A i \in 1 .. Len(msgs) : cmds[i].op # "DELETE"
    PROVE  init \subseteq Given(Len(msgs))
  <1> DEFINE n == Len(msgs)
             S == {i \in 0 .. n : CachedAt(i) \subseteq Given(i)}
  <1>1. n \in Nat /\ n <= Len(cmds) /\ Len(cmds) \in Nat
    BY MessageType, CommandType DEF RunInv, TypeInv
  <1>2. init = CachedAt(n)
    BY DEF InitInv
  <1> HIDE DEF n
  <1>3. \A i \in 0 .. Len(cmds) :
            Given(i) = IF i = 0 THEN given ELSE GivenAfter(Given(i - 1), cmds[i])
    BY <1>1, GivenIs
  <1>4. 0 \in S
    BY <1>1, <1>3, CachedIs
  <1>5. ASSUME NEW i \in 0 .. n - 1, i \in S PROVE i + 1 \in S
    <2>1. i + 1 \in 0 .. n /\ i + 1 \in 0 .. Len(cmds) /\ i + 1 # 0 /\ (i + 1) - 1 = i
          /\ i + 1 \in 1 .. n /\ i \in Nat
      BY <1>1
    <2>2. Given(i + 1) = GivenAfter(Given(i), cmds[i + 1])
      BY <1>3, <2>1
    <2>3. cmds[i + 1].op # "DELETE"
      BY <2>1 DEF n
    <2>4. Given(i + 1) = Given(i) \cup Taken(cmds[i + 1].elems)
      BY <2>2, <2>3 DEF GivenAfter
    <2>5. CachedAt(i + 1) = CachedAt(i) \cup Taken(cmds[i + 1].elems)
      BY <2>1, <2>3, CachedIs
    <2> QED
      BY <1>5, <2>1, <2>4, <2>5
  <1>6. 0 .. n \subseteq S
    <2> HIDE DEF S
    <2> QED
      BY <1>1, <1>4, <1>5, InductionTo
  <1>7. n \in 0 .. n
    BY <1>1
  <1> QED
    BY <1>2, <1>6, <1>7 DEF n

(* A run that fails here does so for a reason.                             *)
LEMMA FailsForReason ==
    ASSUME AddsFirst, TypeInv, RunInv, TameInv, RefuseInv, Tame, stage = "failed"
    PROVE  Bad(next)
  <1>1. next \in 1 .. Len(cmds) /\ DOMAIN cmds = 1 .. Len(cmds) /\ Len(cmds) \in Nat
    BY CommandType DEF RefuseInv, FailInv, TypeInv
  <1>2. Len(msgs) = next - 1 /\ next - 1 \in 0 .. Len(msgs)
    BY <1>1 DEF RunInv
  <1>3. CASE ~kind.merge /\ \E i, j \in cmds[next].elems : i # j /\ Intersect(i, j)
    BY <1>3 DEF Bad
  <1>4. CASE Refuses(cmds[next])
    <2>1. known /\ SetOverlap(cmds[next].op, cmds[next].elems) /\ InitInv
      BY <1>4 DEF Refuses, TameInv
    <2>2. CASE cmds[next].op = "DELETE"
      <3>1. PICK i \in cmds[next].elems : \A j \in init : ~SameKeys(i, j)
        BY <2>1, <2>2 DEF SetOverlap
      <3>2. Given(next - 1) \subseteq CachedAt(next - 1) /\ init = CachedAt(next - 1)
        BY <1>1, <1>2, <2>1, GivenCached DEF InitInv
      <3> QED
        BY <2>2, <3>1, <3>2 DEF Bad
    <2>3. CASE cmds[next].op # "DELETE"
      <3>1. PICK i \in cmds[next].elems, j \in init : Overlap(i, j)
        BY <2>1, <2>3 DEF SetOverlap
      <3>2. cmds \in Batches[kind] /\ kind \in SetKinds
        BY DEF RunInv, TypeInv
      <3>3. ASSUME NEW k \in 1 .. Len(msgs) PROVE cmds[k].op # "DELETE"
        <4>1. k \in 1 .. Len(cmds) /\ k < next
          BY <1>1, <1>2
        <4> QED
          BY <1>1, <2>3, <3>2, <4>1 DEF AddsFirst
      <3>4. j \in Given(next - 1)
        BY <1>2, <2>1, <3>1, <3>3, CachedGiven
      <3> QED
        BY <2>3, <3>1, <3>4 DEF Bad
    <2> QED
      BY <2>2, <2>3
  <1> QED
    BY <1>3, <1>4 DEF RefuseInv, FailInv

(* A message that clashes with a set it was meant for says something bad.  *)
LEMMA SharedEnd ==
    ASSUME NEW T, Fits(T), NEW G, Fits(G), NEW L, StandsFor(L, T), NEW E, StandsFor(E, G),
           NEW e \in L, NEW f \in E, Same(e, f), ~(e = End(0) /\ f = End(0))
    PROVE  \E i \in T, j \in G :
              /\ SameKeys(i, j) \/ Overlap(i, j)
              /\ e.data # f.data => i.data # j.data
  <1>1. \A i \in T \cup G : /\ i \in Intervals
                            /\ i.left \in 0 .. Top /\ i.right \in 0 .. Top /\ i.left <= i.right
    BY Bounds DEF Fits
  <1>2. e.key = f.key /\ e.end = f.end
    BY DEF Same
  <1>3. e = End(0) \/ e \in Elems(T)
    BY DEF StandsFor
  <1>4. f = End(0) \/ f \in Elems(G)
    BY DEF StandsFor
  <1>5. ASSUME NEW i \in T, NEW j \in G, i.left = j.left \/ i.right = j.right
        PROVE  SameKeys(i, j) \/ Overlap(i, j)
    BY <1>1, <1>5 DEF Overlap, Intersect
  <1>6. CASE e.end = FALSE
    <2>1. \A k : End(k).end = TRUE
      BY EndIs
    <2>2. PICK i \in T : e = Start(i)
      BY <1>6, <2>1, StandsIn
    <2>3. PICK j \in G : f = Start(j)
      BY <1>2, <1>6, <2>1, StandsIn
    <2>4. i.left = j.left /\ e.data = i.data /\ f.data = j.data
      BY <1>2, <2>2, <2>3, StartIs
    <2> QED
      BY <1>5, <2>4
  <1>7. CASE e.end # FALSE
    <2>1. \A k : e # Start(k) /\ f # Start(k)
      BY <1>2, <1>7, StartIs
    <2>2. e = End(0) \/ \E i \in T : e = End(i.right + 1)
      <3>1. \/ e = End(0) \/ \E i \in T : e = Start(i)
            \/ \E i \in T : i.right # Top /\ e = End(i.right + 1)
        BY StandsIn
      <3> QED
        BY <2>1, <3>1
    <2>3. f = End(0) \/ \E j \in G : f = End(j.right + 1)
      <3>1. \/ f = End(0) \/ \E j \in G : f = Start(j)
            \/ \E j \in G : j.right # Top /\ f = End(j.right + 1)
        BY StandsIn
      <3> QED
        BY <2>1, <3>1
    <2>4. End(0).key = 0 /\ End(0).data = "none"
      BY EndIs
    <2>5. \A i \in T \cup G : /\ End(i.right + 1).key = i.right + 1
                              /\ End(i.right + 1).data = "none"
                              /\ i.right + 1 # 0
      <3>1. \A i \in T \cup G : i.right + 1 # 0
        BY <1>1
      <3> QED
        BY <3>1, EndIs
    <2>6. e # End(0) /\ f # End(0)
      BY <1>2, <2>2, <2>3, <2>4, <2>5
    <2>7. PICK i \in T : e = End(i.right + 1)
      BY <2>2, <2>6
    <2>8. PICK j \in G : f = End(j.right + 1)
      BY <2>3, <2>6
    <2>9. i.right + 1 = j.right + 1 /\ e.data = f.data
      BY <1>2, <2>5, <2>7, <2>8
    <2>10. i.right = j.right
      BY <1>1, <2>9
    <2> QED
      BY <1>5, <2>9, <2>10
  <1> QED
    BY <1>6, <1>7

LEMMA ClashIsBad ==
    ASSUME DeletesFromMade, CreatesFirst, TypeInv, RunInv, TameInv, RefuseInv, Tame,
           NEW k \in 1 .. Len(msgs), Carried[k - 1].ok, Clash(Carried[k - 1].to, msgs[k])
    PROVE  Bad(k)
  <1> DEFINE E == Carried[k - 1].to
             G == Given(k - 1)
             T == cmds[k].elems
             M == Meant(cmds[k])
             m == msgs[k]
  <1>1. /\ k \in 1 .. Len(cmds) /\ k - 1 \in 0 .. Len(msgs) /\ DOMAIN cmds = 1 .. Len(cmds)
        /\ Len(msgs) \in Nat /\ DOMAIN msgs = 1 .. Len(msgs)
    BY MessageType, CommandType DEF RunInv, TypeInv
  <1>2. KernelInv /\ MsgsInv
    BY DEF TameInv
  <1>3. Fits(G) /\ StandsFor(E, G)
    BY <1>1, <1>2, CarriedStands DEF Holding
  <1>4. /\ m.op = cmds[k].op /\ Fits(M) /\ StandsFor(m.list, M)
        /\ cmds[k].op = "DELETE" => End(0) \notin m.list
    BY <1>2 DEF MsgsInv, Written
  <1>5. WrittenFirst(k)
    BY DEF RefuseInv
  <1>6. stage # "idle" /\ cmds \in Batches[kind] /\ kind \in SetKinds /\ known = made
        /\ (cmds[1].op = "NEW" <=> ~made)
    BY <1>1, OpsAre DEF RunInv, TypeInv
  <1>7. CASE m.op = "DELETE" /\ \E e \in m.list : \A f \in E : ~Same(e, f)
    <2>1. PICK e \in m.list : \A f \in E : ~Same(e, f)
      BY <1>7
    <2>2. cmds[k].op = "DELETE" /\ End(0) \notin m.list /\ M = T
      BY <1>4, <1>7 DEF Meant
    <2>3. ASSUME NEW i \in T, NEW j \in G, SameKeys(i, j),
                 e = Start(i) \/ (i.right # Top /\ e = End(i.right + 1))
          PROVE  FALSE
      <3>1. CASE e = Start(i)
        <4>1. Start(j) \in E
          BY <1>3, StandsIn
        <4>2. Same(e, Start(j))
          BY <2>3, <3>1 DEF Same, Start, SameKeys
        <4> QED
          BY <2>1, <4>1, <4>2
      <3>2. CASE i.right # Top /\ e = End(i.right + 1)
        <4>1. i.right = j.right
          BY <2>3 DEF SameKeys
        <4>2. End(i.right + 1) \in E
          BY <1>3, <3>2, <4>1, StandsIn
        <4> QED
          BY <2>1, <3>2, <4>2 DEF Same
      <3> QED
        BY <2>3, <3>1, <3>2
    <2>4. e # End(0)
      BY <2>1, <2>2
    <2>5. \E i \in T : e = Start(i) \/ (i.right # Top /\ e = End(i.right + 1))
      BY <1>4, <2>2, <2>4, StandsIn
    <2>6. \E i \in T : \A j \in G : ~SameKeys(i, j)
      BY <2>3, <2>5
    <2> QED
      BY <2>2, <2>6 DEF Bad
  <1>8. ASSUME m.op # "DELETE", NEW e \in m.list, NEW f \in E, Same(e, f),
               m.op = "CREATE" \/ e.data # f.data,
               ~(e = End(0) /\ f = End(0))
        PROVE  Bad(k)
    <2>1. M = Taken(T) /\ cmds[k].op # "DELETE"
      BY <1>4, <1>8 DEF Meant
    <2>2. T \subseteq Intervals /\ (kind.merge => \A t \in T : t.data = "none")
      BY <1>1, CommandType, CleanIs
    <2> HIDE DEF E, G, T, M, m
    <2>3. PICK i \in M, j \in G : /\ SameKeys(i, j) \/ Overlap(i, j)
                                  /\ e.data # f.data => i.data # j.data
      BY <1>3, <1>4, <1>8, SharedEnd
    <2>4. CASE Overlap(i, j)
      BY <2>1, <2>4 DEF Bad, T, G
    <2>5. CASE SameKeys(i, j)
      <3>1. PICK t \in T : t.left = i.left /\ t.right <= i.right /\ t.data = i.data
        BY <2>1, <2>2, TakenFrom
      <3>2. t \in Intervals /\ j \in Intervals
        BY <1>3, <2>2 DEF Fits
      <3>3. Intersect(t, j)
        BY <2>5, <3>1, <3>2, Bounds DEF SameKeys, Intersect
      <3>4. CASE ~SameKeys(t, j)
        BY <2>1, <3>3, <3>4 DEF Overlap, Bad, T, G
      <3>5. CASE SameKeys(t, j) /\ m.op = "CREATE"
        BY <1>4, <3>5 DEF Bad, T, G
      <3>6. CASE SameKeys(t, j) /\ e.data # f.data
        <4>1. t.data # j.data
          BY <2>3, <3>1, <3>6
        <4> QED
          BY <2>1, <3>6, <4>1 DEF Bad, T, G
      <3> QED
        BY <1>8, <3>4, <3>5, <3>6
    <2> QED
      BY <2>3, <2>4, <2>5
  <1>9. ASSUME m.op = "CREATE", End(0) \in m.list, End(0) \in E PROVE FALSE
    <2>1. cmds[k].op = "CREATE"
      BY <1>4, <1>9
    <2>2. IF cmds[1].op = "NEW" THEN k = 2 /\ cmds[1].elems = {} ELSE KeepsAll(kind)
      BY <1>1, <1>6, <2>1 DEF CreatesFirst
    <2>3. CASE known
      <3>1. given = {} /\ \A j \in 1 .. k - 1 : cmds[j].op = "DELETE"
        BY <1>5, <1>9, <2>3 DEF WrittenFirst
      <3>2. KeepsAll(kind)
        BY <1>6, <2>2, <2>3
      <3>3. ASSUME k # 1 PROVE FALSE
        <4>1. 1 \in 1 .. k - 1 /\ 1 \in 1 .. Len(cmds)
          BY <1>1, <3>3
        <4> QED
          BY <1>1, <1>6, <3>1, <3>2, <4>1 DEF KeepsAll
      <3>4. E = kernel
        <4>1. k - 1 = 0
          BY <3>3
        <4> QED
          BY <1>1, <4>1, CarriedSteps
      <3> QED
        BY <1>9, <3>1, <3>2, <3>4 DEF RefuseInv, FirstInv
    <2>4. CASE ~known
      <3>1. k = 2 /\ cmds[1].elems = {} /\ cmds[1].op = "NEW" /\ ~made
        BY <1>6, <2>2, <2>4
      <3>2. kernel = {}
        BY <1>2, <3>1 DEF KernelInv
      <3>3. 1 \in 1 .. Len(msgs) /\ k - 1 = 1 /\ 1 - 1 = 0
        BY <1>1, <3>1
      <3>4. msgs[1].list = {} /\ msgs[1].op = "NEW"
        <4>1. WrittenFirst(1) /\ Written(1)
          BY <1>2, <3>3 DEF RefuseInv, MsgsInv
        <4> QED
          BY <3>1, <4>1 DEF WrittenFirst, Written
      <3>5. E = Apply(Carried[0].to, msgs[1]) /\ Carried[0].to = kernel
        BY <1>1, <3>3, CarriedSteps
      <3>6. E = {}
        BY <3>2, <3>4, <3>5 DEF Apply
      <3> QED
        BY <1>9, <3>6
    <2> QED
      BY <2>3, <2>4
  <1>10. CASE m.op = "CREATE" /\ \E e \in m.list, f \in E : Same(e, f)
    <2>1. PICK e \in m.list, f \in E : Same(e, f)
      BY <1>10
    <2>2. m.op # "DELETE"
      BY <1>10
    <2> HIDE DEF E, G, T, M, m
    <2> QED
      BY <1>8, <1>9, <1>10, <2>1, <2>2
  <1>11. CASE m.op # "DELETE" /\ \E e \in m.list, f \in E : Same(e, f) /\ e.data # f.data
    <2>1. PICK e \in m.list, f \in E : Same(e, f) /\ e.data # f.data
      BY <1>11
    <2> HIDE DEF E, G, T, M, m
    <2> QED
      BY <1>8, <1>11, <2>1
  <1>12. CASE m.op # "DELETE" /\ \E i \in Decompose(m.list), j \in Decompose(E) : Overlap(i, j)
    <2> HIDE DEF E, G, T, M, m
    <2>1. Decompose(m.list) = M /\ Decompose(E) = G
      BY <1>3, <1>4, DecomposeOf
    <2>2. PICK i \in M, j \in G : Overlap(i, j)
      BY <1>12, <2>1
    <2>3. cmds[k].op # "DELETE" /\ M = Taken(T)
      BY <1>4, <1>12 DEF Meant, M, T
    <2> QED
      BY <2>2, <2>3 DEF Bad, T, G
  <1>13. \/ m.op = "DELETE" /\ \E e \in m.list : \A f \in E : ~Same(e, f)
         \/ m.op = "CREATE" /\ \E e \in m.list, f \in E : Same(e, f)
         \/ m.op # "DELETE" /\ \E e \in m.list, f \in E : Same(e, f) /\ e.data # f.data
         \/ m.op # "DELETE" /\ \E i \in Decompose(m.list), j \in Decompose(E) : Overlap(i, j)
    BY DEF Clash
  <1> HIDE DEF E, G, T, M, m
  <1> QED
    BY <1>7, <1>10, <1>11, <1>12, <1>13

(* A batch the kernel refuses has a message that clashes.                  *)
LEMMA FirstClash ==
    ASSUME TypeInv, ~Transaction.ok
    PROVE  \E k \in 1 .. Len(msgs) : Carried[k - 1].ok /\ Clash(Carried[k - 1].to, msgs[k])
  <1> DEFINE n == Len(msgs)
             S == {i \in 0 .. n : Carried[i].ok}
  <1>1. SUFFICES ASSUME \A k \in 1 .. n : Carried[k - 1].ok => ~Clash(Carried[k - 1].to, msgs[k])
                 PROVE  FALSE
    OBVIOUS
  <1>2. n \in Nat /\ DOMAIN msgs = 1 .. n
    BY MessageType
  <1>3. /\ Carried[0].ok
        /\ \A i \in 1 .. n : Carried[i].ok <=> Carried[i - 1].ok /\ ~Clash(Carried[i - 1].to, msgs[i])
    BY <1>2, CarriedSteps
  <1>4. ~Carried[n].ok
    BY DEF Transaction
  <1> HIDE DEF n
  <1>5. 0 \in S
    BY <1>2, <1>3
  <1>6. ASSUME NEW i \in 0 .. n - 1, i \in S PROVE i + 1 \in S
    <2>1. i + 1 \in 0 .. n /\ (i + 1) - 1 = i /\ i + 1 \in 1 .. n
      BY <1>2
    <2>2. Carried[i].ok
      BY <1>6
    <2>3. ~Clash(Carried[i].to, msgs[i + 1])
      BY <1>1, <2>1, <2>2
    <2> QED
      BY <1>3, <2>1, <2>2, <2>3
  <1>7. 0 .. n \subseteq S
    <2> HIDE DEF S
    <2> QED
      BY <1>2, <1>5, <1>6, InductionTo
  <1>8. n \in 0 .. n
    BY <1>2
  <1> QED
    BY <1>4, <1>7, <1>8

RefusedInv == stage = "refused" => ~Transaction.ok

LEMMA RefusedKept == Spec => []RefusedInv
  <1>1. Init => RefusedInv
    BY DEF Init, RefusedInv
  <1>2. RefusedInv /\ [Next]_vars => RefusedInv'
    <2> SUFFICES ASSUME RefusedInv, [Next]_vars PROVE RefusedInv'
      OBVIOUS
    <2>1. ASSUME UNCHANGED <<kernel, msgs>> PROVE Transaction' = Transaction
      BY <2>1 DEF Transaction, Carried
    <2>2. CASE SendFails
      <3>1. ~Transaction.ok /\ UNCHANGED <<kernel, msgs>>
        BY <2>2 DEF SendFails
      <3> QED
        BY <2>1, <3>1 DEF RefusedInv
    <2>3. CASE UNCHANGED vars
      <3>1. UNCHANGED <<stage, kernel, msgs>>
        BY <2>3 DEF vars
      <3> QED
        BY <2>1, <3>1 DEF RefusedInv
    <2>4. CASE (\E b \in Batches[kind] : Run(b)) \/ Command \/ CommandFails \/ Insert
               \/ InsertFails \/ Message \/ Send \/ Abort \/ Destroy
      <3>1. stage' # "refused"
        BY <2>4 DEF Run, Command, CommandFails, Insert, InsertFails, Message, Send, Abort, Destroy
      <3> QED
        BY <3>1 DEF RefusedInv
    <2> QED
      BY <2>2, <2>3, <2>4 DEF Next
  <1> QED
    BY <1>1, <1>2, PTL DEF Spec

(* set_overlap() and the kernel refuse nothing that could be carried out:  *)
(* a run fails only for intervals that overlap, are not there to delete or *)
(* are there to create.  The batches left out do fail without a reason:    *)
(* what is added behind a deletion meets the deleted interval in the       *)
(* cached set, and what is created in an emptied set brings a segment that *)
(* is still there.                                                         *)
THEOREM RefusalsTheorem ==
    DeletesFromMade /\ AddsFirst /\ CreatesFirst /\ Spec => [](Tame => Refusals)
  <1> SUFFICES ASSUME DeletesFromMade, AddsFirst, CreatesFirst
               PROVE  Spec => [](Tame => Refusals)
    OBVIOUS
  <1>1. TypeInv /\ RunInv /\ TameInv /\ RefuseInv /\ RefusedInv => (Tame => Refusals)
    <2> SUFFICES ASSUME TypeInv, RunInv, TameInv, RefuseInv, RefusedInv, Tame
                 PROVE  Refusals
      OBVIOUS
    <2>1. stage = "failed" => Bad(next)
      BY FailsForReason
    <2>2. ASSUME stage = "refused" PROVE \E n \in DOMAIN cmds : Bad(n)
      <3>1. PICK k \in 1 .. Len(msgs) : Carried[k - 1].ok /\ Clash(Carried[k - 1].to, msgs[k])
        BY <2>2, FirstClash DEF RefusedInv
      <3>2. Bad(k)
        BY <3>1, ClashIsBad
      <3>3. k \in DOMAIN cmds
        BY <2>2, MessageType, CommandType DEF RunInv
      <3> QED
        BY <3>2, <3>3
    <2> QED
      BY <2>1, <2>2 DEF Refusals
  <1> QED
    BY <1>1, TameKept, RefuseKept, RefusedKept, PTL
=============================================================================
