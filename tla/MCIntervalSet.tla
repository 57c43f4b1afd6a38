---------------------------- MODULE MCIntervalSet ----------------------------
(* Instances of IntervalSet and Monitor for TLC.                           *)
EXTENDS Monitor, TLC

Named     == [anon |-> FALSE, merge |-> FALSE, map |-> FALSE]
NamedMap  == [anon |-> FALSE, merge |-> FALSE, map |-> TRUE]
AutoMerge == [anon |-> FALSE, merge |-> TRUE, map |-> FALSE]
Anonymous == [anon |-> TRUE, merge |-> TRUE, map |-> FALSE]
AnonMap   == [anon |-> TRUE, merge |-> TRUE, map |-> TRUE]
MCKinds   == {Named, NamedMap, AutoMerge, Anonymous, AnonMap}

Cmd(o, S) == [op |-> o, elems |-> S]
Plain     == {i \in Intervals : i.data = "none"}
Mapped    == {i \in Intervals : i.data # "none"}

(* Sets of up to n members of S that satisfy P pairwise.                   *)
UpTo(n, S, P(_, _)) ==
    {T \in UNION {{Range(s) : s \in [1 .. m -> S]} : m \in 1 .. n} :
        \A i, j \in T : i # j => P(i, j)}
Each(i, j)   == TRUE
Apart(i, j) == ~Intersect(i, j)
Gap(i, j)   == i.right + 1 < j.left \/ j.right + 1 < i.left

(* A smaller interval may not leave a single key of a larger one on its    *)
(* right, where the code loses it.                                         *)
Kept(i, j) == /\ ~SameKeys(i, j)
              /\ i.left < j.left /\ j.right < i.right => j.right + 1 < i.right
              /\ i.left = j.left /\ j.right < i.right => j.right + 1 < i.right
              /\ j.left < i.left /\ i.right < j.right => i.right + 1 < j.right
              /\ i.left = j.left /\ i.right < j.right => i.right + 1 < j.right

NewWith(S)    == {<<Cmd("NEW", T)>> : T \in S}
One(op, S)    == {<<Cmd(op, T)>> : T \in S}
Two(a, S, b, T) == {<<Cmd(a, U), Cmd(b, V)>> : U \in S, V \in T}

Few  == {Interval(0, 1, "none"), Interval(2, 2, "none"), Interval(1, 2, "none"),
         Interval(4, Top, "none")}
FewA == {Interval(0, 1, "none"), Interval(2, 2, "none"), Interval(0, 2, "none"),
         Interval(4, Top, "none")}
FewM == {Interval(0, 1, "a"), Interval(2, 2, "b"), Interval(2, 2, "a"), Interval(1, 2, "a"),
         Interval(4, Top, "b")}

(* Pairs that satisfy P are added, pairs that satisfy Q deleted.           *)
Life(S, P(_, _), Q(_, _)) ==
    NewWith(UpTo(2, S, P) \cup {{}})
      \cup One("ADD", UpTo(2, S, P)) \cup One("DELETE", UpTo(2, S, Q))
      \cup Two("NEW", {{}}, "CREATE", UpTo(2, S, P))
      \cup Two("NEW", UpTo(1, S, P), "ADD", UpTo(1, S, P))
      \cup Two("ADD", UpTo(1, S, P), "ADD", UpTo(1, S, P))
      \cup Two("ADD", UpTo(1, S, P), "DELETE", UpTo(1, S, P))

NamedBatches     == Life(Few, Each, Each) \cup NewWith(UpTo(3, Plain, Each))
NamedMapBatches  == Life(FewM, Each, Each)
AutoMergeBatches == Life(FewA, Apart, Gap)
AnonymousBatches == NewWith(UpTo(2, Plain, Kept))
AnonMapBatches   == NewWith(UpTo(2, Mapped, Kept))

MCBatches == Named :> NamedBatches @@ NamedMap :> NamedMapBatches
               @@ AutoMerge :> AutoMergeBatches @@ Anonymous :> AnonymousBatches
               @@ AnonMap :> AnonMapBatches

(* Any two intervals in an anonymous set.                                  *)
PairKinds   == {Anonymous}
PairBatches == Anonymous :> NewWith(UpTo(2, Plain, Each))
=============================================================================
