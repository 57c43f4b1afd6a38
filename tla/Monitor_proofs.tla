--------------------------- MODULE Monitor_proofs ---------------------------
(***************************************************************************)
(* Proofs about Monitor, for the sets whose elements IntervalSet_proofs    *)
(* knows: the two halves of an interval are told one after the other, so   *)
(* that the one half netlink_event_range_cache() keeps is always the right *)
(* one.                                                                    *)
(***************************************************************************)
EXTENDS Monitor, IntervalSet_proofs

(* The set does with a monitor what it does without.                       *)
LEMMA LooksOn == MonSpec => Spec
  <1>1. MonInit => Init
    BY DEF MonInit
  <1>2. [MonNext]_<<vars, monVars>> => [Next]_vars
    <2> SUFFICES ASSUME [MonNext]_<<vars, monVars>> PROVE [Next]_vars
      OBVIOUS
    <2>1. CASE Quiet
      BY <2>1 DEF Quiet, Next
    <2>2. CASE Commit
      BY <2>2 DEF Commit, Next
    <2>3. CASE Drop
      BY <2>3 DEF Drop, Next
    <2>4. CASE SetEvent
      BY <2>4 DEF SetEvent
    <2>5. CASE ElemEvent
      BY <2>5 DEF ElemEvent
    <2>6. CASE UNCHANGED <<vars, monVars>>
      BY <2>6
    <2> QED
      BY <2>1, <2>2, <2>3, <2>4, <2>5, <2>6 DEF MonNext
  <1> QED
    BY <1>1, <1>2, PTL DEF MonSpec, Spec

-----------------------------------------------------------------------------
(* The order in which the elements of a message are told.                  *)

Keyed(e) == e.key \in 0 .. Top /\ e.end \in BOOLEAN

(* Ends before starts, at every key.                                       *)
Place(e) == e.key + e.key + (IF e.end THEN 0 ELSE 1)

LEMMA PlaceIs ==
    ASSUME NEW e, Keyed(e)
    PROVE  /\ Place(e) \in 0 .. Top + Top + 1
           /\ Place(e) = IF e.end THEN e.key + e.key ELSE e.key + e.key + 1
  BY TopAssumption DEF Keyed, Place

LEMMA PlacesDiffer ==
    ASSUME NEW e, NEW f, Keyed(e), Keyed(f)
    PROVE  /\ Place(e) = Place(f) => e.key = f.key /\ (e.end <=> f.end)
           /\ Earlier(e, f) <=> Place(e) < Place(f)
  <1>1. e.key \in Int /\ f.key \in Int /\ e.end \in BOOLEAN /\ f.end \in BOOLEAN
    BY TopAssumption DEF Keyed
  <1>2. /\ Place(e) = IF e.end THEN e.key + e.key ELSE e.key + e.key + 1
        /\ Place(f) = IF f.end THEN f.key + f.key ELSE f.key + f.key + 1
    BY PlaceIs
  <1>3. CASE e.end /\ f.end
    BY <1>1, <1>2, <1>3 DEF Earlier
  <1>4. CASE e.end /\ ~f.end
    BY <1>1, <1>2, <1>4 DEF Earlier
  <1>5. CASE ~e.end /\ f.end
    BY <1>1, <1>2, <1>5 DEF Earlier
  <1>6. CASE ~e.end /\ ~f.end
    BY <1>1, <1>2, <1>6 DEF Earlier
  <1> QED
    BY <1>1, <1>3, <1>4, <1>5, <1>6

LEMMA FirstIs ==
    ASSUME NEW R, R # {}, \A e \in R : Keyed(e)
    PROVE  First(R) \in R /\ \A f \in R : ~Earlier(f, First(R))
  <1> DEFINE T == {Place(e) : e \in R}
  <1>1. Top + Top + 1 \in Nat
    BY TopAssumption
  <1>2. T \in SUBSET (0 .. Top + Top + 1) /\ T # {}
    BY PlaceIs
  <1>3. PICK p \in T : \A q \in T : p =< q
    <2> HIDE DEF T
    <2> QED
      BY <1>1, <1>2, LeastNumber
  <1>4. PICK e \in R : p = Place(e)
    BY <1>3
  <1>5. ASSUME NEW f \in R PROVE ~Earlier(f, e)
    <2>1. Place(e) =< Place(f) /\ Place(e) \in Int /\ Place(f) \in Int
      BY <1>3, <1>4, PlaceIs
    <2>2. ~(Place(f) < Place(e))
      BY <2>1
    <2> QED
      BY <2>2, PlacesDiffer
  <1>6. \E x \in R : \A f \in R : ~Earlier(f, x)
    BY <1>4, <1>5
  <1> QED
    BY <1>6 DEF First

(* What is left of a list after each of its elements.                      *)
LEMMA RestIs ==
    ASSUME NEW C, IsFiniteSet(C), \A e \in C : Keyed(e)
    PROVE  /\ Cardinality(C) \in Nat
           /\ \A n \in 0 .. Cardinality(C) :
                 Rest(C)[n] = IF n = 0 THEN C ELSE Rest(C)[n - 1] \ {First(Rest(C)[n - 1])}
  <1> DEFINE N == Cardinality(C)
             X == SUBSET C
             Do(x) == x \ {First(x)}
             F == [i \in 1 .. N |-> [x \in X |-> Do(x)]]
             Is(g) == g = [n \in 0 .. N |-> IF n = 0 THEN C ELSE Do(g[n - 1])]
             G == CHOOSE g : Is(g)
  <1>1. N \in Nat
    BY FS_CardinalityType
  <1>2. C \in X
    OBVIOUS
  <1>3. F \in [1 .. N -> [X -> X]]
    OBVIOUS
  <1>4. PICK g \in [0 .. N -> X] : Steps(g, N, C, F)
    <2> HIDE DEF F, X, N
    <2> QED
      BY <1>1, <1>2, <1>3, Recursion
  <1>5. Is(g)
    <2>1. \A i \in 0 .. N : i # 0 => i \in 1 .. N /\ i - 1 \in 0 .. N
      BY <1>1
    <2>2. \A i \in 0 .. N : i # 0 => F[i][g[i - 1]] = Do(g[i - 1])
      BY <1>4, <2>1
    <2>3. g = [i \in 0 .. N |-> IF i = 0 THEN C ELSE F[i][g[i - 1]]]
      BY <1>4 DEF Steps
    <2>4. [i \in 0 .. N |-> IF i = 0 THEN C ELSE F[i][g[i - 1]]]
            = [i \in 0 .. N |-> IF i = 0 THEN C ELSE Do(g[i - 1])]
      BY <2>2
    <2> QED
      BY <2>3, <2>4
  <1>6. Is(G)
    <2> HIDE DEF Is
    <2> QED
      BY <1>5
  <1>7. Rest(C) = G
    BY DEF Rest
  <1>8. \A n \in 0 .. N : G[n] = IF n = 0 THEN C ELSE Do(G[n - 1])
    <2> HIDE DEF G
    <2> QED
      BY <1>6
  <1> HIDE DEF G
  <1> QED
    BY <1>1, <1>7, <1>8

(* The list gets shorter by one, and what is left is not before what went. *)
Suffix(R, C) == R \subseteq C /\ \A f \in C \ R, g \in R : ~Earlier(g, f)

LEMMA RestShrinks ==
    ASSUME NEW C, IsFiniteSet(C), \A e \in C : Keyed(e), NEW n \in 0 .. Cardinality(C)
    PROVE  /\ Suffix(Rest(C)[n], C)
           /\ IsFiniteSet(Rest(C)[n]) /\ Cardinality(Rest(C)[n]) = Cardinality(C) - n
  <1> DEFINE N == Cardinality(C)
             R(k) == Rest(C)[k]
             Fine(k) == Suffix(R(k), C) /\ IsFiniteSet(R(k)) /\ Cardinality(R(k)) = N - k
             S == {k \in 0 .. N : Fine(k)}
  <1>1. N \in Nat /\ \A k \in 0 .. N : R(k) = IF k = 0 THEN C ELSE R(k - 1) \ {First(R(k - 1))}
    BY RestIs
  <1> HIDE DEF R, N
  <1>2. 0 \in S
    <2>1. R(0) = C /\ 0 \in 0 .. N /\ N - 0 = N
      BY <1>1
    <2>2. Fine(0)
      BY <2>1 DEF Suffix, N
    <2> QED
      BY <2>1, <2>2
  <1>3. ASSUME NEW k \in 0 .. N - 1, k \in S PROVE k + 1 \in S
    <2>1. /\ k + 1 \in 0 .. N /\ k + 1 # 0 /\ (k + 1) - 1 = k /\ N - k # 0
          /\ (N - k) - 1 = N - (k + 1)
      BY <1>1
    <2>2. Fine(k)
      BY <1>3
    <2>3. R(k) # {}
      BY <2>1, <2>2, FS_EmptySet
    <2>4. \A e \in R(k) : Keyed(e)
      BY <2>2 DEF Suffix
    <2> DEFINE e == First(R(k))
    <2>5. e \in R(k) /\ \A f \in R(k) : ~Earlier(f, e)
      BY <2>3, <2>4, FirstIs
    <2>6. R(k + 1) = R(k) \ {e}
      BY <1>1, <2>1
    <2> HIDE DEF e
    <2>7. Suffix(R(k + 1), C)
      BY <2>2, <2>5, <2>6 DEF Suffix
    <2>8. IsFiniteSet(R(k) \ {e}) /\ Cardinality(R(k) \ {e}) = (N - k) - 1
      BY <2>2, <2>5, FS_RemoveElement
    <2>9. Fine(k + 1)
      BY <2>1, <2>6, <2>7, <2>8
    <2> QED
      BY <2>1, <2>9
  <1>4. 0 .. N \subseteq S
    <2> HIDE DEF S
    <2> QED
      BY <1>1, <1>2, <1>3, InductionTo
  <1>5. n \in S
    BY <1>4 DEF N
  <1> QED
    BY <1>5 DEF R, N

(* The elements of a set of intervals, one after the other.                *)
LEMMA OrderIs ==
    ASSUME NEW C, IsFiniteSet(C), \A e \in C : Keyed(e)
    PROVE  /\ InOrder(C) \in Seq(C) /\ Len(InOrder(C)) = Cardinality(C) /\ Cardinality(C) \in Nat
           /\ Rest(C)[0] = C /\ Rest(C)[Cardinality(C)] = {}
           /\ \A n \in 1 .. Cardinality(C) :
                 LET R == Rest(C)[n - 1]
                     e == InOrder(C)[n]
                 IN  /\ Suffix(R, C) /\ e \in R /\ \A f \in R : ~Earlier(f, e)
                     /\ Rest(C)[n] = R \ {e}
  <1> DEFINE N == Cardinality(C)
             R(k) == Rest(C)[k]
             s == [n \in 1 .. N |-> First(R(n - 1))]
  <1>1. N \in Nat /\ \A k \in 0 .. N : R(k) = IF k = 0 THEN C ELSE R(k - 1) \ {First(R(k - 1))}
    BY RestIs
  <1>2. \A k \in 0 .. N : Suffix(R(k), C) /\ IsFiniteSet(R(k)) /\ Cardinality(R(k)) = N - k
    BY RestShrinks
  <1>3. InOrder(C) = s
    BY DEF InOrder
  <1> HIDE DEF N, R
  <1>4. ASSUME NEW n \in 1 .. N
        PROVE  /\ n \in 0 .. N /\ n - 1 \in 0 .. N /\ n # 0
               /\ First(R(n - 1)) \in R(n - 1)
               /\ \A f \in R(n - 1) : ~Earlier(f, First(R(n - 1)))
    <2>1. n \in 0 .. N /\ n - 1 \in 0 .. N /\ n # 0 /\ N - (n - 1) # 0
      BY <1>1
    <2>2. R(n - 1) # {}
      BY <1>2, <2>1, FS_EmptySet
    <2>3. \A e \in R(n - 1) : Keyed(e)
      BY <1>2, <2>1 DEF Suffix
    <2> QED
      BY <2>1, <2>2, <2>3, FirstIs
  <1>5. \A n \in 1 .. N : First(R(n - 1)) \in C
    BY <1>2, <1>4 DEF Suffix
  <1>6. s \in Seq(C) /\ Len(s) = N
    BY <1>1, <1>5
  <1>7. R(0) = C /\ R(N) = {}
    <2>1. 0 \in 0 .. N /\ N \in 0 .. N /\ N - N = 0
      BY <1>1
    <2> QED
      BY <1>1, <1>2, <2>1, FS_EmptySet
  <1>8. ASSUME NEW n \in 1 .. N
        PROVE  /\ s[n] = First(R(n - 1))
               /\ Suffix(R(n - 1), C) /\ s[n] \in R(n - 1) /\ \A f \in R(n - 1) : ~Earlier(f, s[n])
               /\ R(n) = R(n - 1) \ {s[n]}
    <2>1. s[n] = First(R(n - 1))
      OBVIOUS
    <2> QED
      BY <1>1, <1>2, <1>4, <2>1
  <1> HIDE DEF s
  <1> QED
    BY <1>1, <1>3, <1>6, <1>7, <1>8 DEF N, R

-----------------------------------------------------------------------------
(* The elements of intervals that are told.                                *)
LEMMA StandsKeyed ==
    ASSUME NEW C, NEW D, Fits(D), StandsFor(C, D)
    PROVE  \A e \in C : Keyed(e)
  <1> SUFFICES ASSUME NEW e \in C PROVE Keyed(e)
    OBVIOUS
  <1>1. e.key \in 0 .. Top
    BY StandsIn
  <1>2. \/ e = End(0)
        \/ \E i \in D : e = Start(i)
        \/ \E i \in D : i.right # Top /\ e = End(i.right + 1)
    BY StandsIn
  <1>3. e.end \in BOOLEAN
    BY <1>2, StartIs, EndIs
  <1> QED
    BY <1>1, <1>3 DEF Keyed

LEMMA OneAtAPlace ==
    ASSUME NEW C, NEW D, Fits(D), StandsFor(C, D), NEW e \in C, NEW f \in C,
           e.key = f.key, e.end <=> f.end
    PROVE  e = f
  <1>1. \/ e = End(0) \/ \E i \in D : e = Start(i)
        \/ \E i \in D : i.right # Top /\ e = End(i.right + 1)
    BY StandsIn
  <1>2. \/ f = End(0) \/ \E i \in D : f = Start(i)
        \/ \E i \in D : i.right # Top /\ f = End(i.right + 1)
    BY StandsIn
  <1>3. CASE e.end
    <2>1. (\E k : e = End(k)) /\ (\E k : f = End(k))
      BY <1>1, <1>2, <1>3, StartIs
    <2>2. e = End(e.key) /\ f = End(f.key)
      BY <2>1, EndIs
    <2> QED
      BY <2>2
  <1>4. CASE ~e.end
    <2>1. PICK i \in D : e = Start(i)
      BY <1>1, <1>4, EndIs
    <2>2. PICK j \in D : f = Start(j)
      BY <1>2, <1>4, EndIs
    <2>3. i.left = j.left
      BY <2>1, <2>2, StartIs
    <2>4. i = j
      BY <2>3, SharesNoEnd
    <2> QED
      BY <2>1, <2>2, <2>4
  <1> QED
    BY <1>3, <1>4

LEMMA StandsFinite ==
    ASSUME NEW C, NEW D, Fits(D), StandsFor(C, D)
    PROVE  IsFiniteSet(C)
  <1> DEFINE T == 0 .. Top + Top + 1
             f == [e \in C |-> Place(e)]
  <1>1. \A e \in C : Keyed(e)
    BY StandsKeyed
  <1>2. f \in [C -> T]
    BY <1>1, PlaceIs
  <1>3. ASSUME NEW a \in C, NEW b \in C, f[a] = f[b] PROVE a = b
    <2>1. Place(a) = Place(b) /\ Keyed(a) /\ Keyed(b)
      BY <1>1, <1>3
    <2>2. a.key = b.key /\ (a.end <=> b.end)
      BY <2>1, PlacesDiffer
    <2> QED
      BY <2>2, OneAtAPlace
  <1>4. f \in Injection(C, T)
    <2> HIDE DEF f
    <2> QED
      BY <1>2, <1>3 DEF Injection, IsInjective
  <1>5. IsFiniteSet(T)
    <2>1. 0 \in Int /\ Top + Top + 1 \in Int
      BY TopAssumption
    <2> QED
      BY <2>1, FS_Interval
  <1> HIDE DEF f, T
  <1> QED
    BY <1>4, <1>5, FS_Injection

-----------------------------------------------------------------------------
(* A monitor that has read some events.                                    *)
At(c, rg, sh) == [cached |-> c, rg |-> rg, shown |-> sh]

Shows(type, sh, S) == IF type = "newelem" THEN sh \cup S ELSE sh \ S

After(m, event) ==
    IF event.type \in {"newset", "delset"} THEN At(TRUE, m.rg, {})
    ELSE IF ~m.cached \/ Ignored(event.elem) THEN m
    ELSE IF m.rg = {} /\ ~event.open THEN At(m.cached, {event.elem}, m.shown)
    ELSE At(m.cached, {}, Shows(event.type, m.shown, Decompose({event.elem} \cup m.rg)))

(* R is what is left of the elements of D: the intervals of which both     *)
(* halves were told, and the start of the one of which the end is missing. *)
EndLeft(i, R) == i.right # Top /\ End(i.right + 1) \in R
Done(D, R)    == {i \in D : Start(i) \notin R /\ ~EndLeft(i, R)}
Half(D, R)    == {Start(i) : i \in {j \in D : Start(j) \notin R /\ EndLeft(j, R)}}

LEMMA EndsLater ==
    ASSUME NEW D, Fits(D), NEW i \in D, i.right # Top
    PROVE  Earlier(Start(i), End(i.right + 1))
  <1>1. i.left < i.right + 1
    BY Bounds, TopAssumption DEF Fits
  <1> QED
    BY <1>1, StartIs, EndIs DEF Earlier

LEMMA StartNoEnd ==
    ASSUME NEW i, NEW k
    PROVE  Start(i) # End(k)
  <1>1. Start(i).end = FALSE /\ End(k).end = TRUE
    BY StartIs, EndIs
  <1> QED
    BY <1>1

(* The halves of an interval are an interval.                              *)
LEMMA HalvesJoin ==
    ASSUME NEW D, Fits(D), NEW i \in D
    PROVE  /\ i.right # Top => Decompose({End(i.right + 1)} \cup {Start(i)}) = {i}
           /\ i.right = Top => Decompose({Start(i)} \cup {}) = {i}
  <1>1. i \in Intervals
    BY DEF Fits
  <1>2. Fits({i})
    BY <1>1 DEF Fits
  <1>3. Start(i) # End(0)
    BY StartNoEnd
  <1>4. ASSUME i.right # Top PROVE Decompose({End(i.right + 1)} \cup {Start(i)}) = {i}
    <2>1. End(i.right + 1) # End(0)
      <3>1. i.right + 1 # 0
        BY <1>1, Bounds, TopAssumption
      <3> QED
        BY <3>1, EndIs
    <2>2. Elems({i}) = {Start(i)} \cup {End(i.right + 1)}
      BY <1>4 DEF Elems
    <2>3. StandsFor({End(i.right + 1)} \cup {Start(i)}, {i})
      BY <1>3, <2>1, <2>2 DEF StandsFor
    <2> QED
      BY <1>2, <2>3, DecomposeOf
  <1>5. ASSUME i.right = Top PROVE Decompose({Start(i)} \cup {}) = {i}
    <2>1. Elems({i}) = {Start(i)}
      BY <1>5 DEF Elems
    <2>2. StandsFor({Start(i)} \cup {}, {i})
      BY <1>3, <2>1 DEF StandsFor
    <2> QED
      BY <1>2, <2>2, DecomposeOf
  <1> QED
    BY <1>4, <1>5

(* An element that is no half of an interval changes nothing.              *)
LEMMA NothingTold ==
    ASSUME NEW D, Fits(D), NEW R
    PROVE  Half(D, R \ {End(0)}) = Half(D, R) /\ Done(D, R \ {End(0)}) = Done(D, R)
  <1>1. ASSUME NEW i \in D PROVE Start(i) # End(0) /\ (i.right # Top => End(i.right + 1) # End(0))
    <2>1. i.right + 1 # 0
      BY Bounds, TopAssumption DEF Fits
    <2>2. End(i.right + 1) # End(0)
      BY <2>1, EndIs
    <2> QED
      BY <2>2, StartNoEnd
  <1>2. \A i \in D : /\ Start(i) \in R \ {End(0)} <=> Start(i) \in R
                     /\ EndLeft(i, R \ {End(0)}) <=> EndLeft(i, R)
    BY <1>1 DEF EndLeft
  <1> QED
    BY <1>2 DEF Half, Done

(* When a start is next no interval is half told, and its end is to come.  *)
LEMMA StartTold ==
    ASSUME NEW C, NEW D, Fits(D), StandsFor(C, D), NEW R, Suffix(R, C),
           NEW i \in D, Start(i) \in R, \A f \in R : ~Earlier(f, Start(i))
    PROVE  LET L == R \ {Start(i)}
           IN  /\ Half(D, R) = {}
               /\ i.right # Top => Half(D, L) = {Start(i)} /\ Done(D, L) = Done(D, R)
               /\ i.right = Top => Half(D, L) = {} /\ Done(D, L) = Done(D, R) \cup {i}
  <1> DEFINE L == R \ {Start(i)}
  <1>1. \A j \in D : /\ j.left \in 0 .. Top /\ j.right \in 0 .. Top /\ j.left <= j.right
                     /\ Top \in Nat
    BY Bounds, TopAssumption DEF Fits
  <1>2. \A j \in D : Start(j) \in C /\ (j.right # Top => End(j.right + 1) \in C)
    BY StandsIn
  <1>3. ASSUME NEW j \in D, Start(j) \notin R, EndLeft(j, R) PROVE FALSE
    <2>1. j # i
      BY <1>3
    <2>2. ~Earlier(Start(i), Start(j)) /\ ~Earlier(End(j.right + 1), Start(i))
      BY <1>2, <1>3 DEF Suffix, EndLeft
    <2>3. ~(i.left < j.left) /\ ~(j.right + 1 < i.left) /\ j.right + 1 # i.left
      BY <2>2, StartIs, EndIs DEF Earlier
    <2>4. Intersect(j, i)
      BY <1>1, <2>3 DEF Intersect
    <2> QED
      BY <2>1, <2>4, SharesNoEnd
  <1>4. \A j \in D : Start(j) = Start(i) => j = i
    <2>1. SUFFICES ASSUME NEW j \in D, Start(j) = Start(i) PROVE j = i
      OBVIOUS
    <2>2. j.left = i.left
      BY <2>1, StartIs
    <2> QED
      BY <2>2, SharesNoEnd
  <1>5. \A k : End(k) # Start(i)
    BY StartNoEnd
  <1>6. \A j \in D : /\ Start(j) \notin L <=> Start(j) \notin R \/ j = i
                     /\ EndLeft(j, L) <=> EndLeft(j, R)
    BY <1>4, <1>5 DEF EndLeft
  <1>7. i.right # Top => EndLeft(i, R)
    <2>1. SUFFICES ASSUME i.right # Top, End(i.right + 1) \notin R PROVE FALSE
      BY DEF EndLeft
    <2>2. Earlier(Start(i), End(i.right + 1))
      BY <2>1, EndsLater
    <2> QED
      BY <1>2, <2>1, <2>2 DEF Suffix
  <1>8. i.right = Top => ~EndLeft(i, R)
    BY DEF EndLeft
  <1> HIDE DEF L
  <1>9. Half(D, R) = {}
    BY <1>3 DEF Half
  <1>10. i.right # Top => Half(D, L) = {Start(i)} /\ Done(D, L) = Done(D, R)
    <2>1. SUFFICES ASSUME i.right # Top
                   PROVE  Half(D, L) = {Start(i)} /\ Done(D, L) = Done(D, R)
      OBVIOUS
    <2>2. EndLeft(i, R)
      BY <1>7, <2>1
    <2>3. \A j \in D : Start(j) \notin L /\ EndLeft(j, L) <=> j = i
      BY <1>3, <1>6, <2>2
    <2>4. \A j \in D : Start(j) \notin L /\ ~EndLeft(j, L) <=> Start(j) \notin R /\ ~EndLeft(j, R)
      BY <1>6, <2>2
    <2>5. {j \in D : Start(j) \notin L /\ EndLeft(j, L)} = {i}
      BY <2>3
    <2> QED
      BY <2>4, <2>5 DEF Half, Done
  <1>11. i.right = Top => Half(D, L) = {} /\ Done(D, L) = Done(D, R) \cup {i}
    <2>1. SUFFICES ASSUME i.right = Top
                   PROVE  Half(D, L) = {} /\ Done(D, L) = Done(D, R) \cup {i}
      OBVIOUS
    <2>2. ~EndLeft(i, R)
      BY <1>8, <2>1
    <2>3. \A j \in D : ~(Start(j) \notin L /\ EndLeft(j, L))
      BY <1>3, <1>6, <2>2
    <2>4. \A j \in D : Start(j) \notin L /\ ~EndLeft(j, L)
                          <=> (Start(j) \notin R /\ ~EndLeft(j, R)) \/ j = i
      BY <1>6, <2>2
    <2> QED
      BY <2>3, <2>4 DEF Half, Done
  <1> QED
    BY <1>9, <1>10, <1>11 DEF L

(* When an end is next its interval is the one that is half told.          *)
LEMMA EndTold ==
    ASSUME NEW C, NEW D, Fits(D), StandsFor(C, D), NEW R, Suffix(R, C),
           NEW i \in D, i.right # Top, End(i.right + 1) \in R,
           \A f \in R : ~Earlier(f, End(i.right + 1))
    PROVE  LET L == R \ {End(i.right + 1)}
           IN  /\ Half(D, R) = {Start(i)} /\ Half(D, L) = {}
               /\ Done(D, L) = Done(D, R) \cup {i}
  <1> DEFINE e == End(i.right + 1)
             L == R \ {e}
  <1>1. \A j \in D : /\ j.left \in 0 .. Top /\ j.right \in 0 .. Top /\ j.left <= j.right
                     /\ Top \in Nat
    BY Bounds, TopAssumption DEF Fits
  <1>2. \A j \in D : Start(j) \in C
    BY StandsIn
  <1>3. Start(i) \notin R /\ EndLeft(i, R)
    <2>1. Earlier(Start(i), e)
      BY EndsLater
    <2> QED
      BY <2>1 DEF EndLeft
  <1>4. ASSUME NEW j \in D, Start(j) \notin R, EndLeft(j, R) PROVE j = i
    <2>1. ~Earlier(e, Start(j)) /\ ~Earlier(End(j.right + 1), e)
      BY <1>2, <1>4 DEF Suffix, EndLeft
    <2>2. ~(i.right + 1 < j.left) /\ i.right + 1 # j.left /\ ~(j.right + 1 < i.right + 1)
      BY <2>1, StartIs, EndIs DEF Earlier
    <2>3. Intersect(j, i)
      BY <1>1, <2>2 DEF Intersect
    <2> QED
      BY <2>3, SharesNoEnd
  <1>5. \A j \in D : End(j.right + 1) = e => j = i
    <2>1. SUFFICES ASSUME NEW j \in D, End(j.right + 1) = e PROVE j = i
      OBVIOUS
    <2>2. j.right + 1 = i.right + 1
      BY <2>1, EndIs
    <2>3. j.right = i.right
      BY <1>1, <2>2
    <2> QED
      BY <2>3, SharesNoEnd
  <1>6. \A j \in D : Start(j) # e
    BY StartNoEnd
  <1>7. \A j \in D : /\ Start(j) \notin L <=> Start(j) \notin R
                     /\ EndLeft(j, L) <=> EndLeft(j, R) /\ j # i
    BY <1>5, <1>6 DEF EndLeft
  <1> HIDE DEF L
  <1>8. {j \in D : Start(j) \notin R /\ EndLeft(j, R)} = {i}
    BY <1>3, <1>4
  <1>9. {j \in D : Start(j) \notin L /\ EndLeft(j, L)} = {}
    BY <1>4, <1>7
  <1>10. \A j \in D : Start(j) \notin L /\ ~EndLeft(j, L)
                         <=> (Start(j) \notin R /\ ~EndLeft(j, R)) \/ j = i
    BY <1>3, <1>4, <1>7
  <1>11. Done(D, L) = Done(D, R) \cup {i}
    BY <1>10 DEF Done
  <1> QED
    BY <1>8, <1>9, <1>11 DEF Half, L

-----------------------------------------------------------------------------
(* A monitor in state a that reads the events s gets into state b.         *)
Leads(a, s, b) == \E h : /\ h[0] = a /\ h[Len(s)] = b
                         /\ \A n \in 1 .. Len(s) : h[n] = After(h[n - 1], s[n])

LEMMA LeadsNowhere ==
    ASSUME NEW a, NEW b
    PROVE  Leads(a, <<>>, b) <=> a = b
  <1>1. Len(<<>>) = 0 /\ 1 .. 0 = {}
    OBVIOUS
  <1>2. [n \in {0} |-> a][0] = a
    OBVIOUS
  <1> QED
    BY <1>1, <1>2 DEF Leads

LEMMA LeadsOnce ==
    ASSUME NEW a, NEW e
    PROVE  Leads(a, <<e>>, After(a, e))
  <1> DEFINE h == [n \in 0 .. 1 |-> IF n = 0 THEN a ELSE After(a, e)]
  <1>1. Len(<<e>>) = 1 /\ <<e>>[1] = e /\ \A n \in 1 .. 1 : n = 1 /\ n - 1 = 0
    OBVIOUS
  <1>2. h[0] = a /\ h[1] = After(a, e)
    OBVIOUS
  <1> HIDE DEF h
  <1>3. \A n \in 1 .. 1 : h[n] = After(h[n - 1], <<e>>[n])
    BY <1>1, <1>2
  <1> QED
    BY <1>1, <1>2, <1>3 DEF Leads

LEMMA LeadsOn ==
    ASSUME NEW S, NEW s \in Seq(S), NEW t \in Seq(S), NEW a, NEW b, NEW c,
           Leads(a, s, b), Leads(b, t, c)
    PROVE  Leads(a, s \o t, c)
  <1> DEFINE k == Len(s)
             l == Len(t)
  <1>1. /\ k \in Nat /\ l \in Nat /\ Len(s \o t) = k + l
        /\ \A n \in 1 .. k + l : (s \o t)[n] = IF n <= k THEN s[n] ELSE t[n - k]
    OBVIOUS
  <1>2. PICK g : /\ g[0] = a /\ g[k] = b
                 /\ \A n \in 1 .. k : g[n] = After(g[n - 1], s[n])
    BY DEF Leads
  <1>3. PICK h : /\ h[0] = b /\ h[l] = c
                 /\ \A n \in 1 .. l : h[n] = After(h[n - 1], t[n])
    BY DEF Leads
  <1> HIDE DEF k, l
  <1> DEFINE f == [n \in 0 .. k + l |-> IF n <= k THEN g[n] ELSE h[n - k]]
  <1>4. \A n \in 0 .. k + l : f[n] = IF n <= k THEN g[n] ELSE h[n - k]
    OBVIOUS
  <1> HIDE DEF f
  <1>5. f[0] = a
    BY <1>1, <1>2, <1>4
  <1>6. f[k + l] = c
    <2>1. CASE l = 0
      <3>1. k + l \in 0 .. k + l /\ k + l = k
        BY <1>1, <2>1
      <3>2. f[k + l] = g[k]
        BY <1>1, <1>4, <3>1
      <3> QED
        BY <1>2, <1>3, <2>1, <3>2
    <2>2. CASE l # 0
      <3>1. k + l \in 0 .. k + l /\ ~(k + l <= k) /\ (k + l) - k = l
        BY <1>1, <2>2
      <3> QED
        BY <1>3, <1>4, <3>1
    <2> QED
      BY <2>1, <2>2
  <1>7. ASSUME NEW n \in 1 .. k + l PROVE f[n] = After(f[n - 1], (s \o t)[n])
    <2>1. n \in 0 .. k + l /\ n - 1 \in 0 .. k + l /\ n \in Nat
      BY <1>1
    <2>2. CASE n <= k
      <3>1. n \in 1 .. k /\ n - 1 <= k
        BY <1>1, <2>2
      <3>2. f[n] = g[n] /\ f[n - 1] = g[n - 1] /\ (s \o t)[n] = s[n]
        BY <1>1, <1>4, <2>1, <2>2, <3>1
      <3> QED
        BY <1>2, <3>1, <3>2
    <2>3. CASE n = k + 1
      <3>1. ~(n <= k) /\ n - k = 1 /\ n - 1 = k /\ k <= k /\ 1 \in 1 .. l /\ 1 - 1 = 0
        BY <1>1, <2>3
      <3>2. f[n] = h[1] /\ f[n - 1] = g[k] /\ (s \o t)[n] = t[1]
        BY <1>1, <1>4, <2>1, <3>1
      <3> QED
        BY <1>2, <1>3, <3>1, <3>2
    <2>4. CASE n > k + 1
      <3>1. ~(n <= k) /\ ~(n - 1 <= k) /\ n - k \in 1 .. l /\ (n - 1) - k = (n - k) - 1
        BY <1>1, <2>4
      <3>2. f[n] = h[n - k] /\ f[n - 1] = h[(n - k) - 1] /\ (s \o t)[n] = t[n - k]
        BY <1>1, <1>4, <2>1, <3>1
      <3> QED
        BY <1>3, <3>1, <3>2
    <2> QED
      BY <1>1, <2>1, <2>2, <2>3, <2>4
  <1> QED
    BY <1>1, <1>5, <1>6, <1>7 DEF Leads

LEMMA LeadsFrom ==
    ASSUME NEW S, NEW s \in Seq(S), s # <<>>, NEW a, NEW b, Leads(a, s, b)
    PROVE  Leads(After(a, Head(s)), Tail(s), b)
  <1> DEFINE k == Len(s)
  <1>1. k \in Nat \ {0} /\ Head(s) = s[1]
    OBVIOUS
  <1>2. Len(Tail(s)) = k - 1
    OBVIOUS
  <1>7. \A n \in 1 .. k - 1 : Tail(s)[n] = s[n + 1]
    OBVIOUS
  <1>3. PICK g : /\ g[0] = a /\ g[k] = b
                 /\ \A n \in 1 .. k : g[n] = After(g[n - 1], s[n])
    BY DEF Leads
  <1> HIDE DEF k
  <1> DEFINE h == [n \in 0 .. k - 1 |-> g[n + 1]]
  <1>4. \A n \in 0 .. k - 1 : h[n] = g[n + 1]
    OBVIOUS
  <1> HIDE DEF h
  <1>5. h[0] = After(a, Head(s)) /\ h[k - 1] = b
    <2>1. 0 \in 0 .. k - 1 /\ 0 + 1 = 1 /\ 1 \in 1 .. k /\ 1 - 1 = 0
          /\ k - 1 \in 0 .. k - 1 /\ (k - 1) + 1 = k
      BY <1>1
    <2>2. h[0] = g[1] /\ h[k - 1] = g[k]
      BY <1>4, <2>1
    <2>3. g[1] = After(g[0], s[1])
      BY <1>3, <2>1
    <2> QED
      BY <1>1, <1>3, <2>2, <2>3
  <1>6. ASSUME NEW n \in 1 .. k - 1 PROVE h[n] = After(h[n - 1], Tail(s)[n])
    <2>1. n \in 0 .. k - 1 /\ n - 1 \in 0 .. k - 1 /\ (n - 1) + 1 = n
          /\ n + 1 \in 1 .. k /\ (n + 1) - 1 = n
      BY <1>1
    <2>2. h[n] = g[n + 1] /\ h[n - 1] = g[n]
      BY <1>4, <2>1
    <2>3. g[n + 1] = After(g[n], s[n + 1])
      BY <1>3, <2>1
    <2> QED
      BY <1>7, <2>2, <2>3
  <1> QED
    BY <1>2, <1>5, <1>6 DEF Leads

(* A monitor that knows of the set, with R still to read of a message.     *)
Reading(type, sh, D, R) == At(TRUE, Half(D, R), Shows(type, sh, Done(D, R)))

LEMMA AtIs ==
    ASSUME NEW c, NEW rg, NEW sh
    PROVE  At(c, rg, sh).cached = c /\ At(c, rg, sh).rg = rg /\ At(c, rg, sh).shown = sh
  BY DEF At

LEMMA ShowsMore ==
    ASSUME NEW type, NEW sh, NEW S, NEW T
    PROVE  Shows(type, Shows(type, sh, S), T) = Shows(type, sh, S \cup T)
  BY DEF Shows

LEMMA ElementTold ==
    ASSUME NEW C, NEW D, Fits(D), StandsFor(C, D), NEW R, Suffix(R, C),
           NEW e \in R, \A f \in R : ~Earlier(f, e),
           NEW type \in {"newelem", "delelem"}, NEW open, ~e.end \/ ~open,
           \A i \in D : e = Start(i) => (open <=> i.right = Top), NEW sh
    PROVE  After(Reading(type, sh, D, R), [type |-> type, elem |-> e, open |-> open])
              = Reading(type, sh, D, R \ {e})
  <1> DEFINE m == Reading(type, sh, D, R)
             was == Shows(type, sh, Done(D, R))
             event == [type |-> type, elem |-> e, open |-> open]
  <1>0. m = At(TRUE, Half(D, R), was)
    BY DEF Reading
  <1>1. m.cached = TRUE /\ m.rg = Half(D, R) /\ m.shown = was
    <2> HIDE DEF m, was
    <2>1. m = [cached |-> TRUE, rg |-> Half(D, R), shown |-> was]
      BY <1>0 DEF At
    <2> QED
      BY <2>1
  <1>2. event.type = type /\ event.elem = e /\ event.open = open
    OBVIOUS
  <1>3. type \notin {"newset", "delset"}
    OBVIOUS
  <1> HIDE DEF m, event, was
  <1>4. After(m, event) =
            IF Ignored(e) THEN m
            ELSE IF Half(D, R) = {} /\ ~open THEN At(TRUE, {e}, was)
            ELSE At(TRUE, {}, Shows(type, was, Decompose({e} \cup Half(D, R))))
    BY <1>1, <1>2, <1>3 DEF After
  <1>5. CASE e = End(0)
    <2>1. Ignored(e)
      BY <1>5, EndIs DEF Ignored
    <2>2. Reading(type, sh, D, R \ {e}) = m
      BY <1>5, NothingTold DEF Reading, m
    <2> QED
      BY <1>4, <2>1, <2>2 DEF m, event
  <1>6. CASE \E i \in D : e = Start(i)
    <2>1. PICK i \in D : e = Start(i)
      BY <1>6
    <2>2. ~Ignored(e)
      BY <2>1, StartIs DEF Ignored
    <2> DEFINE L == R \ {Start(i)}
    <2>3. /\ Half(D, R) = {}
          /\ i.right # Top => Half(D, L) = {Start(i)} /\ Done(D, L) = Done(D, R)
          /\ i.right = Top => Half(D, L) = {} /\ Done(D, L) = Done(D, R) \cup {i}
      BY <2>1, StartTold
    <2>4. L = R \ {e}
      BY <2>1
    <2> HIDE DEF L
    <2>5. CASE i.right # Top
      <3>1. ~open
        BY <2>1, <2>5
      <3>2. After(m, event) = At(TRUE, {e}, was)
        BY <1>4, <2>2, <2>3, <3>1
      <3> QED
        BY <2>1, <2>3, <2>4, <2>5, <3>2 DEF Reading, m, event, was
    <2>6. CASE i.right = Top
      <3>1. open
        BY <2>1, <2>6
      <3>2. After(m, event) = At(TRUE, {}, Shows(type, was, Decompose({Start(i)} \cup {})))
        BY <1>4, <2>1, <2>2, <2>3, <3>1
      <3>3. Shows(type, was, {i}) = Shows(type, sh, Done(D, R) \cup {i})
        BY ShowsMore DEF was
      <3>4. After(m, event) = At(TRUE, {}, Shows(type, sh, Done(D, R) \cup {i}))
        BY <2>6, <3>2, <3>3, HalvesJoin
      <3> QED
        BY <2>3, <2>4, <2>6, <3>4 DEF Reading, m, event
    <2> QED
      BY <2>5, <2>6
  <1>7. CASE \E i \in D : i.right # Top /\ e = End(i.right + 1)
    <2>1. PICK i \in D : i.right # Top /\ e = End(i.right + 1)
      BY <1>7
    <2>2. ~Ignored(e) /\ ~open
      <3>1. i.right + 1 # 0
        BY Bounds, TopAssumption DEF Fits
      <3>2. e.key # 0 /\ e.end
        BY <2>1, <3>1, EndIs
      <3> QED
        BY <3>2 DEF Ignored
    <2> DEFINE L == R \ {End(i.right + 1)}
    <2>9. i.right # Top /\ End(i.right + 1) \in R /\ \A f \in R : ~Earlier(f, End(i.right + 1))
      BY <2>1
    <2>3. /\ Half(D, R) = {Start(i)} /\ Half(D, L) = {}
          /\ Done(D, L) = Done(D, R) \cup {i}
      BY <2>9, EndTold
    <2>4. L = R \ {e}
      BY <2>1
    <2> HIDE DEF L
    <2>5. {Start(i)} # {}
      OBVIOUS
    <2>6. After(m, event)
             = At(TRUE, {}, Shows(type, was, Decompose({End(i.right + 1)} \cup {Start(i)})))
      BY <1>4, <2>1, <2>2, <2>3, <2>5
    <2>7. Shows(type, was, {i}) = Shows(type, sh, Done(D, R) \cup {i})
      BY ShowsMore DEF was
    <2>8. After(m, event) = At(TRUE, {}, Shows(type, sh, Done(D, R) \cup {i}))
      BY <2>1, <2>6, <2>7, HalvesJoin
    <2> QED
      BY <2>3, <2>4, <2>8 DEF Reading, m, event
  <1>8. e \in C
    BY DEF Suffix
  <1> QED
    BY <1>5, <1>6, <1>7, <1>8, StandsIn

(* The events of the elements of a set of intervals show these intervals.  *)
Tells(type, C, list) ==
    [n \in 1 .. Len(InOrder(C)) |->
       [type |-> type, elem |-> InOrder(C)[n], open |-> IsOpen(InOrder(C)[n], list)]]

LEMMA MessageTold ==
    ASSUME NEW C, NEW D, Fits(D), StandsFor(C, D), NEW list,
           \A i \in D : IsOpen(Start(i), list) <=> i.right = Top,
           NEW type \in {"newelem", "delelem"}, NEW sh
    PROVE  Leads(At(TRUE, {}, sh), Tells(type, C, list), At(TRUE, {}, Shows(type, sh, D)))
  <1> DEFINE order == InOrder(C)
             N == Cardinality(C)
             R(n) == Rest(C)[n]
             Event(e) == [type |-> type, elem |-> e, open |-> IsOpen(e, list)]
             s == [n \in 1 .. Len(order) |-> Event(order[n])]
             h == [n \in 0 .. N |-> Reading(type, sh, D, R(n))]
  <1>1. IsFiniteSet(C) /\ \A e \in C : Keyed(e)
    BY StandsFinite, StandsKeyed
  <1>2. /\ Len(order) = N /\ N \in Nat /\ R(0) = C /\ R(N) = {}
        /\ \A n \in 1 .. N : /\ Suffix(R(n - 1), C) /\ order[n] \in R(n - 1)
                             /\ \A f \in R(n - 1) : ~Earlier(f, order[n])
                             /\ R(n) = R(n - 1) \ {order[n]}
    BY <1>1, OrderIs
  <1> HIDE DEF order, N, R
  <1>3. Len(s) = N /\ \A n \in 1 .. N : s[n] = Event(order[n])
    BY <1>2
  <1>4. \A n \in 0 .. N : h[n] = Reading(type, sh, D, R(n))
    OBVIOUS
  <1> HIDE DEF s, h
  <1>5. h[0] = At(TRUE, {}, sh)
    <2>6. 0 \in 0 .. N
      BY <1>2
    <2>1. h[0] = Reading(type, sh, D, C)
      BY <1>2, <1>4, <2>6
    <2>2. \A i \in D : Start(i) \in C
      BY StandsIn
    <2>3. Half(D, C) = {} /\ Done(D, C) = {}
      BY <2>2 DEF Half, Done
    <2>4. Shows(type, sh, {}) = sh
      BY DEF Shows
    <2>5. Reading(type, sh, D, C) = At(TRUE, {}, Shows(type, sh, {}))
      BY <2>3 DEF Reading
    <2> QED
      BY <2>1, <2>4, <2>5
  <1>6. h[N] = At(TRUE, {}, Shows(type, sh, D))
    <2>3. N \in 0 .. N
      BY <1>2
    <2>1. h[N] = Reading(type, sh, D, {})
      BY <1>2, <1>4, <2>3
    <2>2. Half(D, {}) = {} /\ Done(D, {}) = D
      BY DEF Half, Done, EndLeft
    <2> QED
      BY <2>1, <2>2 DEF Reading
  <1>7. ASSUME NEW n \in 1 .. N PROVE h[n] = After(h[n - 1], s[n])
    <2> DEFINE e == order[n]
               Q == R(n - 1)
    <2>1. n \in 0 .. N /\ n - 1 \in 0 .. N
      BY <1>2
    <2>2. Suffix(Q, C) /\ e \in Q /\ (\A f \in Q : ~Earlier(f, e)) /\ R(n) = Q \ {e}
      BY <1>2
    <2>3. h[n] = Reading(type, sh, D, Q \ {e}) /\ h[n - 1] = Reading(type, sh, D, Q)
      BY <1>4, <2>1, <2>2
    <2>4. s[n] = Event(e)
      BY <1>3
    <2> HIDE DEF e, Q
    <2>5. ~e.end \/ ~IsOpen(e, list)
      BY DEF IsOpen
    <2>6. \A i \in D : e = Start(i) => (IsOpen(e, list) <=> i.right = Top)
      OBVIOUS
    <2>7. After(Reading(type, sh, D, Q), Event(e)) = Reading(type, sh, D, Q \ {e})
      BY <2>2, <2>5, <2>6, ElementTold
    <2> QED
      BY <2>3, <2>4, <2>7
  <1>8. Leads(At(TRUE, {}, sh), s, At(TRUE, {}, Shows(type, sh, D)))
    BY <1>3, <1>5, <1>6, <1>7 DEF Leads
  <1> QED
    BY <1>8 DEF s, order, Tells

-----------------------------------------------------------------------------
(* The elements a message changes are those of whole intervals.            *)

LEMMA StartIn ==
    ASSUME NEW E, NEW G, Fits(G), StandsFor(E, G), NEW f \in E, ~f.end
    PROVE  \E j \in G : f = Start(j)
  <1>1. \A k : f # End(k)
    BY EndIs
  <1> QED
    BY <1>1, StandsIn

LEMMA EndIn ==
    ASSUME NEW E, NEW G, Fits(G), StandsFor(E, G), NEW f \in E, f.end, f.key # 0
    PROVE  \E j \in G : j.right # Top /\ f = End(j.right + 1)
  <1>1. f # End(0)
    BY EndIs
  <1>2. \A j : f # Start(j)
    BY StartIs
  <1> QED
    BY <1>1, <1>2, StandsIn

(* Starts and ends of intervals at the same key.                           *)
LEMMA SameStart ==
    ASSUME NEW i, NEW j
    PROVE  Same(Start(i), Start(j)) <=> i.left = j.left
  <1>1. /\ Start(i).end = FALSE /\ Start(j).end = FALSE
        /\ Start(i).key = i.left /\ Start(j).key = j.left
    BY StartIs
  <1> QED
    BY <1>1 DEF Same

LEMMA SameEnd ==
    ASSUME NEW i \in Intervals, NEW j \in Intervals
    PROVE  /\ Same(End(i.right + 1), End(j.right + 1)) <=> i.right = j.right
           /\ End(i.right + 1).end /\ End(i.right + 1).key # 0
  <1>1. /\ End(i.right + 1).end = TRUE /\ End(j.right + 1).end = TRUE
        /\ End(i.right + 1).key = i.right + 1 /\ End(j.right + 1).key = j.right + 1
    BY EndIs
  <1>2. i.right \in 0 .. Top /\ j.right \in 0 .. Top /\ Top \in Nat
    BY Bounds, TopAssumption
  <1>3. i.right + 1 = j.right + 1 <=> i.right = j.right
    BY <1>2
  <1>4. i.right + 1 # 0
    BY <1>2
  <1> QED
    BY <1>1, <1>3, <1>4 DEF Same

LEMMA AddTold ==
    ASSUME NEW E, NEW G, Fits(G), StandsFor(E, G), NEW m, NEW T, Fits(T), StandsFor(m.list, T),
           m.op # "DELETE", ~Clash(E, m)
    PROVE  Fits(T \ G) /\ StandsFor(Changed(E, m), T \ G)
  <1> DEFINE D == T \ G
             C == {e \in m.list : \A f \in E : ~Same(e, f)}
  <1>1. Changed(E, m) = C
    BY DEF Changed
  <1>2. Fits(G \cup T)
    BY AddStands
  <1>3. Fits(D)
    BY DEF Fits
  <1>4. ASSUME NEW e \in C, e # End(0) PROVE e \in Elems(D)
    <2>1. e \in m.list /\ \A f \in E : ~Same(e, f)
      OBVIOUS
    <2>2. \A i \in T : e = Start(i) => i \notin G
      <3>1. SUFFICES ASSUME NEW i \in G, e = Start(i) PROVE FALSE
        OBVIOUS
      <3>2. Start(i) \in E /\ Same(e, Start(i))
        BY <3>1, StandsIn DEF Same
      <3> QED
        BY <2>1, <3>2
    <2>3. \A i \in T : i.right # Top /\ e = End(i.right + 1) => i \notin G
      <3>1. SUFFICES ASSUME NEW i \in G, i.right # Top, e = End(i.right + 1) PROVE FALSE
        OBVIOUS
      <3>2. End(i.right + 1) \in E /\ Same(e, End(i.right + 1))
        BY <3>1, StandsIn DEF Same
      <3> QED
        BY <2>1, <3>2
    <2>4. \/ \E i \in T : e = Start(i)
          \/ \E i \in T : i.right # Top /\ e = End(i.right + 1)
      BY <1>4, <2>1, StandsIn
    <2> QED
      BY <2>2, <2>3, <2>4 DEF Elems
  <1>5. ASSUME NEW i \in D PROVE Start(i) \in C
    <2>1. Start(i) \in m.list
      BY StandsIn
    <2>2. ASSUME NEW f \in E, Same(Start(i), f) PROVE FALSE
      <3>1. Start(i).end = FALSE
        BY StartIs
      <3>2. ~f.end
        BY <2>2, <3>1 DEF Same
      <3>3. PICK j \in G : f = Start(j)
        BY <3>2, StartIn
      <3>4. i.left = j.left
        BY <2>2, <3>3, SameStart
      <3>5. i = j
        BY <1>2, <3>4, SharesNoEnd
      <3> QED
        BY <3>5
    <2> QED
      BY <2>1, <2>2
  <1>6. ASSUME NEW i \in D, i.right # Top PROVE End(i.right + 1) \in C
    <2>1. End(i.right + 1) \in m.list
      BY <1>6, StandsIn
    <2>2. ASSUME NEW f \in E, Same(End(i.right + 1), f) PROVE FALSE
      <3>1. i \in Intervals /\ G \subseteq Intervals
        BY DEF Fits
      <3>2. f.end /\ f.key # 0
        BY <2>2, <3>1, SameEnd DEF Same
      <3>3. PICK j \in G : f = End(j.right + 1)
        BY <3>2, EndIn
      <3>4. i.right = j.right
        BY <2>2, <3>1, <3>3, SameEnd
      <3>5. i = j
        BY <1>2, <3>4, SharesNoEnd
      <3> QED
        BY <3>5
    <2> QED
      BY <2>1, <2>2
  <1>7. \A e \in Elems(D) : e \in C
    BY <1>5, <1>6 DEF Elems
  <1>8. \A e \in Elems(D) : e # End(0)
    BY <1>3, ElementsOf
  <1> HIDE DEF C, D
  <1>9. StandsFor(C, D)
    BY <1>4, <1>7, <1>8 DEF StandsFor
  <1> QED
    BY <1>1, <1>3, <1>9 DEF D

LEMMA DeleteTold ==
    ASSUME NEW E, NEW G, Fits(G), StandsFor(E, G), NEW m, NEW T, Fits(T), StandsFor(m.list, T),
           m.op = "DELETE", \A d \in T : \E j \in G : SameKeys(d, j)
    PROVE  LET D == {j \in G : \E d \in T : SameKeys(d, j)}
           IN  Fits(D) /\ StandsFor(Changed(E, m), D)
  <1> DEFINE D == {j \in G : \E d \in T : SameKeys(d, j)}
             C == {f \in E : \E e \in m.list : Same(e, f)}
  <1>1. Changed(E, m) = C
    BY DEF Changed
  <1>2. Fits(D)
    BY DEF Fits
  <1>3. ASSUME NEW j \in G, NEW d \in T, d.left = j.left \/ d.right = j.right PROVE j \in D
    <2>1. PICK i \in G : SameKeys(d, i)
      OBVIOUS
    <2>2. i = j
      BY <1>3, <2>1, SharesNoEnd DEF SameKeys
    <2> QED
      BY <2>1, <2>2
  <1>4. ASSUME NEW f \in C, f # End(0) PROVE f \in Elems(D)
    <2>1. PICK e \in m.list : Same(e, f)
      OBVIOUS
    <2>2. CASE \E j \in G : f = Start(j)
      <3>1. PICK j \in G : f = Start(j)
        BY <2>2
      <3>2. ~e.end
        BY <2>1, <3>1, StartIs DEF Same
      <3>3. PICK d \in T : e = Start(d)
        BY <3>2, StartIn
      <3>4. d.left = j.left
        BY <2>1, <3>1, <3>3, SameStart
      <3>5. j \in D
        BY <1>3, <3>4
      <3> HIDE DEF D
      <3> QED
        BY <3>1, <3>5 DEF Elems
    <2>3. CASE \E j \in G : j.right # Top /\ f = End(j.right + 1)
      <3>1. PICK j \in G : j.right # Top /\ f = End(j.right + 1)
        BY <2>3
      <3>2. j \in Intervals /\ T \subseteq Intervals
        BY DEF Fits
      <3>3. f.end /\ f.key # 0
        BY <3>1, <3>2, SameEnd
      <3>4. e.end /\ e.key # 0
        BY <2>1, <3>3 DEF Same
      <3>5. PICK d \in T : e = End(d.right + 1)
        BY <3>4, EndIn
      <3>6. d.right = j.right
        BY <2>1, <3>1, <3>2, <3>5, SameEnd
      <3>7. j \in D
        BY <1>3, <3>6
      <3> HIDE DEF D
      <3> QED
        BY <3>1, <3>7 DEF Elems
    <2>4. f \in E
      OBVIOUS
    <2> QED
      BY <1>4, <2>2, <2>3, <2>4, StandsIn
  <1>5. ASSUME NEW j \in D PROVE Start(j) \in C /\ (j.right # Top => End(j.right + 1) \in C)
    <2>1. PICK d \in T : SameKeys(d, j)
      OBVIOUS
    <2>2. d.left = j.left /\ d.right = j.right
      BY <2>1 DEF SameKeys
    <2>3. Start(d) \in m.list /\ Start(j) \in E /\ Same(Start(d), Start(j))
      BY <2>2, StandsIn, SameStart
    <2>4. ASSUME j.right # Top PROVE End(j.right + 1) \in C
      <3>1. End(d.right + 1) \in m.list /\ End(j.right + 1) \in E
        BY <2>2, <2>4, StandsIn
      <3>2. Same(End(d.right + 1), End(j.right + 1))
        BY <2>2 DEF Same
      <3> QED
        BY <3>1, <3>2
    <2> QED
      BY <2>3, <2>4
  <1>6. \A e \in Elems(D) : e \in C
    BY <1>5 DEF Elems
  <1>7. \A e \in Elems(D) : e # End(0)
    BY <1>2, ElementsOf
  <1> HIDE DEF C, D
  <1>8. StandsFor(C, D)
    BY <1>4, <1>6, <1>7 DEF StandsFor
  <1> QED
    BY <1>1, <1>2, <1>8 DEF D

(* set_insert_interval(): an interval is marked if its end is the end of   *)
(* the dimension.                                                          *)
LEMMA OpenIs ==
    ASSUME NEW list, NEW T, Fits(T), StandsFor(list, T), NEW i \in Intervals,
           NEW d \in T, SameKeys(d, i)
    PROVE  IsOpen(Start(i), list) <=> i.right = Top
  <1>1. d.left = i.left /\ d.right = i.right
    BY DEF SameKeys
  <1>2. \A j \in T : j.left \in 0 .. Top /\ j.right \in 0 .. Top /\ j.left <= j.right
    BY Bounds DEF Fits
  <1>3. Top \in Nat /\ i.left \in 0 .. Top /\ i.right \in 0 .. Top /\ i.left <= i.right
    BY Bounds, TopAssumption
  <1>4. Start(i).end = FALSE /\ Start(i).key = i.left
    BY StartIs
  <1>5. ASSUME i.right # Top PROVE ~IsOpen(Start(i), list)
    <2>1. End(i.right + 1) \in list
      BY <1>1, <1>5, StandsIn
    <2>2. End(i.right + 1).key = i.right + 1
      BY EndIs
    <2>3. ~(i.right + 1 <= i.left)
      BY <1>3
    <2> QED
      BY <1>4, <2>1, <2>2, <2>3 DEF IsOpen
  <1>6. ASSUME i.right = Top PROVE IsOpen(Start(i), list)
    <2>1. ASSUME NEW f \in list PROVE f.key <= i.left
      <3>1. CASE f = End(0)
        <4>1. f.key = 0
          BY <3>1, EndIs
        <4> QED
          BY <1>3, <4>1
      <3>2. CASE \E j \in T : f = Start(j)
        <4>1. PICK j \in T : f = Start(j)
          BY <3>2
        <4>2. f.key = j.left
          BY <4>1, StartIs
        <4>3. ASSUME i.left < j.left PROVE FALSE
          <5>1. Intersect(j, d)
            BY <1>1, <1>2, <1>3, <1>6, <4>3 DEF Intersect
          <5>2. j = d
            BY <5>1, SharesNoEnd
          <5> QED
            BY <1>1, <1>3, <4>3, <5>2
        <4> QED
          BY <1>2, <1>3, <4>2, <4>3
      <3>3. CASE \E j \in T : j.right # Top /\ f = End(j.right + 1)
        <4>1. PICK j \in T : j.right # Top /\ f = End(j.right + 1)
          BY <3>3
        <4>2. f.key = j.right + 1
          BY <4>1, EndIs
        <4>3. ASSUME i.left <= j.right PROVE FALSE
          <5>1. Intersect(j, d)
            BY <1>1, <1>2, <1>3, <1>6, <4>3 DEF Intersect
          <5>2. j = d
            BY <5>1, SharesNoEnd
          <5> QED
            BY <1>1, <1>6, <4>1, <5>2
        <4> QED
          BY <1>2, <1>3, <4>2, <4>3
      <3> QED
        BY <3>1, <3>2, <3>3, StandsIn
    <2> QED
      BY <1>4, <2>1 DEF IsOpen
  <1> QED
    BY <1>5, <1>6

-----------------------------------------------------------------------------
(* The events of a batch.                                                  *)
Events == [type : {"newset", "delset"}]
            \cup [type : {"newelem", "delelem"}, elem : Elements, open : BOOLEAN]

LEMMA StandsType ==
    ASSUME NEW C, NEW D, Fits(D), StandsFor(C, D)
    PROVE  C \subseteq Elements
  <1> SUFFICES ASSUME NEW e \in C PROVE e \in Elements
    OBVIOUS
  <1>1. D \subseteq Intervals
    BY DEF Fits
  <1>2. End(0) \in Elements
    <2>1. 0 \in 0 .. Top
      BY TopAssumption
    <2> QED
      BY <2>1, EndType
  <1> QED
    BY <1>1, <1>2, StandsIn, StartType, EndBehindType

LEMMA EventsType ==
    ASSUME NEW E, NEW m, NEW D, Fits(D), StandsFor(Changed(E, m), D)
    PROVE  EventsOf(E, m) \in Seq(Events)
  <1> DEFINE C == Changed(E, m)
             order == InOrder(C)
             type == IF m.op = "DELETE" THEN "delelem" ELSE "newelem"
             s == [n \in 1 .. Len(order) |-> [type |-> type, elem |-> order[n],
                                              open |-> IsOpen(order[n], m.list)]]
  <1>1. EventsOf(E, m) = s
    BY DEF EventsOf
  <1>2. IsFiniteSet(C) /\ (\A e \in C : Keyed(e)) /\ C \subseteq Elements
    BY StandsFinite, StandsKeyed, StandsType
  <1>3. order \in Seq(C)
    <2> HIDE DEF C
    <2> QED
      BY <1>2, OrderIs
  <1>4. Len(order) \in Nat /\ \A n \in 1 .. Len(order) : order[n] \in Elements
    <2> HIDE DEF order
    <2>1. Len(order) \in Nat /\ \A n \in 1 .. Len(order) : order[n] \in C
      BY <1>3
    <2> QED
      BY <1>2, <2>1
  <1>5. \A n \in 1 .. Len(order) : IsOpen(order[n], m.list) \in BOOLEAN
    BY DEF IsOpen
  <1>6. type \in {"newelem", "delelem"}
    OBVIOUS
  <1> HIDE DEF order, type
  <1>7. \A n \in 1 .. Len(order) :
            [type |-> type, elem |-> order[n], open |-> IsOpen(order[n], m.list)] \in Events
    BY <1>4, <1>5, <1>6 DEF Events
  <1>8. s \in Seq(Events)
    BY <1>4, <1>7
  <1> QED
    BY <1>1, <1>8

(* One message the kernel takes.                                           *)
LEMMA MessageShown ==
    ASSUME NEW E, NEW G, Fits(G), StandsFor(E, G), NEW m, NEW T, Fits(T), StandsFor(m.list, T),
           ~Clash(E, m), m.op = "DELETE" => \A d \in T : \E j \in G : SameKeys(d, j)
    PROVE  /\ EventsOf(E, m) \in Seq(Events)
           /\ Leads(At(TRUE, {}, G), EventsOf(E, m),
                    At(TRUE, {}, IF m.op = "DELETE" THEN {j \in G : \A d \in T : ~SameKeys(d, j)}
                                                    ELSE G \cup T))
  <1>1. CASE m.op = "DELETE"
    <2> DEFINE D == {j \in G : \E d \in T : SameKeys(d, j)}
    <2>1. Fits(D) /\ StandsFor(Changed(E, m), D)
      BY <1>1, DeleteTold
    <2>2. \A i \in D : IsOpen(Start(i), m.list) <=> i.right = Top
      <3>1. \A i \in D : i \in Intervals /\ \E d \in T : SameKeys(d, i)
        BY DEF Fits
      <3> QED
        BY <3>1, OpenIs
    <2>3. Shows("delelem", G, D) = {j \in G : \A d \in T : ~SameKeys(d, j)}
      BY DEF Shows
    <2> HIDE DEF D
    <2>4. EventsOf(E, m) = Tells("delelem", Changed(E, m), m.list)
      BY <1>1 DEF EventsOf, Tells
    <2>5. Leads(At(TRUE, {}, G), EventsOf(E, m), At(TRUE, {}, Shows("delelem", G, D)))
      BY <2>1, <2>2, <2>4, MessageTold
    <2>6. EventsOf(E, m) \in Seq(Events)
      BY <2>1, EventsType
    <2> QED
      BY <1>1, <2>3, <2>5, <2>6
  <1>2. CASE m.op # "DELETE"
    <2> DEFINE D == T \ G
    <2>1. Fits(D) /\ StandsFor(Changed(E, m), D)
      BY <1>2, AddTold
    <2>2. \A i \in D : IsOpen(Start(i), m.list) <=> i.right = Top
      <3>1. \A i \in D : i \in Intervals /\ i \in T /\ SameKeys(i, i)
        BY DEF Fits, SameKeys
      <3> QED
        BY <3>1, OpenIs
    <2>3. Shows("newelem", G, D) = G \cup T
      BY DEF Shows
    <2> HIDE DEF D
    <2>4. EventsOf(E, m) = Tells("newelem", Changed(E, m), m.list)
      BY <1>2 DEF EventsOf, Tells
    <2>5. Leads(At(TRUE, {}, G), EventsOf(E, m), At(TRUE, {}, Shows("newelem", G, D)))
      BY <2>1, <2>2, <2>4, MessageTold
    <2>6. EventsOf(E, m) \in Seq(Events)
      BY <2>1, EventsType
    <2> QED
      BY <1>2, <2>3, <2>5, <2>6
  <1> QED
    BY <1>1, <1>2

LEMMA ToldIs ==
    ASSUME NEW n \in Nat, Len(msgs) = n,
           \A i \in 1 .. n : EventsOf(Carried[i - 1].to, msgs[i]) \in Seq(Events)
    PROVE  /\ Told[0] = <<>>
           /\ \A i \in 0 .. n : Told[i] \in Seq(Events)
           /\ \A i \in 1 .. n : Told[i] = Told[i - 1] \o EventsOf(Carried[i - 1].to, msgs[i])
  <1> DEFINE X == Seq(Events)
             Now(i) == EventsOf(Carried[i - 1].to, msgs[i])
             F == [i \in 1 .. n |-> [x \in X |-> x \o Now(i)]]
             Is(g) == g = [i \in 0 .. n |-> IF i = 0 THEN <<>> ELSE g[i - 1] \o Now(i)]
             T == CHOOSE g : Is(g)
  <1>1. <<>> \in X
    OBVIOUS
  <1>2. \A i \in 1 .. n, x \in X : x \o Now(i) \in X
    <2> HIDE DEF Now
    <2>1. \A i \in 1 .. n : Now(i) \in Seq(Events)
      BY DEF Now
    <2> QED
      BY <2>1
  <1>3. F \in [1 .. n -> [X -> X]]
    <2> HIDE DEF Now, X
    <2> QED
      BY <1>2
  <1>4. PICK g \in [0 .. n -> X] : Steps(g, n, <<>>, F)
    <2> HIDE DEF F, X
    <2> QED
      BY <1>1, <1>3, Recursion
  <1> HIDE DEF X, Now
  <1>5. Is(g)
    <2>1. \A i \in 0 .. n : i # 0 => i \in 1 .. n /\ i - 1 \in 0 .. n
      OBVIOUS
    <2>2. \A i \in 0 .. n : i # 0 => F[i][g[i - 1]] = g[i - 1] \o Now(i)
      BY <1>4, <2>1
    <2>3. g = [i \in 0 .. n |-> IF i = 0 THEN <<>> ELSE F[i][g[i - 1]]]
      BY <1>4 DEF Steps
    <2>4. [i \in 0 .. n |-> IF i = 0 THEN <<>> ELSE F[i][g[i - 1]]]
            = [i \in 0 .. n |-> IF i = 0 THEN <<>> ELSE g[i - 1] \o Now(i)]
      BY <2>2
    <2> QED
      BY <2>3, <2>4
  <1>6. Is(T)
    <2> HIDE DEF Is
    <2> QED
      BY <1>5
  <1>7. Told = T
    BY DEF Told, Now
  <1>8. \A i \in 0 .. n : T[i] = IF i = 0 THEN <<>> ELSE T[i - 1] \o Now(i)
    <2> HIDE DEF T
    <2> QED
      BY <1>6
  <1> HIDE DEF T
  <1>9. T[0] = <<>>
    BY <1>8
  <1>10. \A i \in 1 .. n : T[i] = T[i - 1] \o Now(i)
    <2>1. \A i \in 1 .. n : i \in 0 .. n /\ i # 0
      OBVIOUS
    <2> QED
      BY <1>8, <2>1
  <1> DEFINE S == {i \in 0 .. n : T[i] \in X}
  <1>11. 0 \in S
    BY <1>1, <1>9
  <1>12. \A i \in 0 .. n - 1 : i \in S => i + 1 \in S
    <2> SUFFICES ASSUME NEW i \in 0 .. n - 1, i \in S PROVE i + 1 \in S
      OBVIOUS
    <2>1. i + 1 \in 1 .. n /\ i + 1 \in 0 .. n /\ (i + 1) - 1 = i
      OBVIOUS
    <2>2. T[i + 1] = T[i] \o Now(i + 1) /\ T[i] \in X
      BY <1>10, <2>1
    <2> QED
      BY <1>2, <2>1, <2>2
  <1>13. 0 .. n \subseteq S
    <2> HIDE DEF S
    <2> QED
      BY <1>11, <1>12, InductionTo
  <1>14. \A i \in 0 .. n : T[i] \in Seq(Events)
    BY <1>13 DEF X
  <1> QED
    BY <1>7, <1>9, <1>10, <1>14 DEF Now

(* A batch the kernel takes is one of which it takes each message.         *)
LEMMA EachCarried ==
    ASSUME NEW n \in Nat, Len(msgs) = n, DOMAIN msgs = 1 .. n, Carried[n].ok
    PROVE  \A i \in 0 .. n : Carried[i].ok
  <1> DEFINE S == {i \in 0 .. n : Carried[n - i].ok}
  <1>1. \A i \in 1 .. n : Carried[i].ok => Carried[i - 1].ok
    BY CarriedSteps
  <1>2. 0 \in S
    <2>1. 0 \in 0 .. n /\ n - 0 = n
      OBVIOUS
    <2> QED
      BY <2>1
  <1>3. ASSUME NEW i \in 0 .. n - 1, i \in S PROVE i + 1 \in S
    <2>1. n - i \in 1 .. n /\ (n - i) - 1 = n - (i + 1) /\ i + 1 \in 0 .. n
      OBVIOUS
    <2>2. Carried[(n - i) - 1].ok
      BY <1>1, <1>3, <2>1
    <2> QED
      BY <2>1, <2>2
  <1>4. 0 .. n \subseteq S
    <2> HIDE DEF S
    <2> QED
      BY <1>2, <1>3, InductionTo
  <1>5. ASSUME NEW i \in 0 .. n PROVE Carried[i].ok
    <2>1. n - i \in 0 .. n /\ n - (n - i) = i
      OBVIOUS
    <2> QED
      BY <1>4, <2>1
  <1> QED
    BY <1>5

(* What a message of such a batch shows.                                   *)
LEMMA BatchMessage ==
    ASSUME DeletesFromMade, TypeInv, RunInv, KernelInv, MsgsInv,
           Carried[Len(msgs)].ok, NEW i \in 1 .. Len(msgs)
    PROVE  /\ EventsOf(Carried[i - 1].to, msgs[i]) \in Seq(Events)
           /\ Leads(At(TRUE, {}, Given(i - 1)), EventsOf(Carried[i - 1].to, msgs[i]),
                    At(TRUE, {}, Given(i)))
  <1> DEFINE n == Len(msgs)
             T == Meant(cmds[i])
             I == CachedAt(i - 1)
             m == msgs[i]
             E == Carried[i - 1].to
             G == Given(i - 1)
  <1>1. n \in Nat /\ n <= Len(cmds) /\ Len(cmds) \in Nat /\ DOMAIN msgs = 1 .. n
    BY MessageType, CommandType DEF RunInv, TypeInv
  <1>2. i \in 1 .. n /\ i - 1 \in 0 .. n /\ i \in 0 .. n /\ i \in 1 .. Len(cmds)
        /\ i \in 0 .. Len(cmds) /\ i # 0
    BY <1>1
  <1>3. Carried[i].ok /\ Carried[i - 1].ok
    BY <1>1, <1>2, EachCarried
  <1>4. ~Clash(E, m)
    BY <1>1, <1>2, <1>3, CarriedSteps
  <1>5. Fits(G) /\ StandsFor(E, G)
    BY <1>2, <1>3, CarriedStands DEF Holding
  <1>6. /\ m.op = cmds[i].op
        /\ Fits(T) /\ StandsFor(m.list, T)
        /\ known => Passes(cmds[i], I)
    BY <1>2 DEF MsgsInv, Written
  <1>7. Given(i) = GivenAfter(G, cmds[i])
    BY <1>1, <1>2, GivenIs
  <1>8. Given(i) = IF m.op = "DELETE" THEN {j \in G : \A d \in T : ~SameKeys(d, j)} ELSE G \cup T
    BY <1>6, <1>7 DEF GivenAfter, Meant
  <1>9. ASSUME m.op = "DELETE" PROVE \A d \in T : \E j \in G : SameKeys(d, j)
    <2>1. known
      BY <1>2, <1>6, <1>9, OpsAre
    <2>2. I \subseteq Intervals
      <3>1. i - 1 \in 0 .. Len(cmds)
        BY <1>1, <1>2
      <3> QED
        BY <3>1, GivenCached
    <2>3. \A p \in I, q \in G : Overlap(p, q) => Within(p, q)
      BY <1>2, <1>3, <2>1, CarriedStands DEF Holding
    <2>4. \A d \in T : \E j \in I : SameKeys(d, j)
      BY <1>6, <1>9, <2>1 DEF Passes, Meant
    <2> HIDE DEF T, I, m, E, G
    <2>5. ASSUME NEW d \in T PROVE \E j \in G : SameKeys(d, j)
      BY <1>4, <1>5, <1>6, <1>9, <2>2, <2>3, <2>4, DeleteMeans
    <2> QED
      BY <2>5
  <1> HIDE DEF T, m, E, G
  <1>10. /\ EventsOf(E, m) \in Seq(Events)
         /\ Leads(At(TRUE, {}, G), EventsOf(E, m),
                  At(TRUE, {}, IF m.op = "DELETE" THEN {j \in G : \A d \in T : ~SameKeys(d, j)}
                                                  ELSE G \cup T))
    BY <1>4, <1>5, <1>6, <1>9, MessageShown
  <1>11. Leads(At(TRUE, {}, G), EventsOf(E, m), At(TRUE, {}, Given(i)))
    BY <1>8, <1>10
  <1> QED
    BY <1>10, <1>11 DEF G, E, m

(* The events of a batch the kernel takes show what users meant by it.     *)
LEMMA BatchTold ==
    ASSUME DeletesFromMade, TypeInv, RunInv, KernelInv, MsgsInv,
           Carried[Len(msgs)].ok
    PROVE  /\ Told[Len(msgs)] \in Seq(Events)
           /\ Leads(At(TRUE, {}, given), Told[Len(msgs)], At(TRUE, {}, Given(Len(msgs))))
  <1> DEFINE n == Len(msgs)
             Now(i) == EventsOf(Carried[i - 1].to, msgs[i])
             M(i) == At(TRUE, {}, Given(i))
             S == {i \in 0 .. n : Leads(M(0), Told[i], M(i))}
  <1>1. n \in Nat /\ n <= Len(cmds) /\ Len(cmds) \in Nat
    BY MessageType, CommandType DEF RunInv, TypeInv
  <1>2. \A i \in 1 .. n : Now(i) \in Seq(Events) /\ Leads(M(i - 1), Now(i), M(i))
    BY BatchMessage
  <1>3. /\ Told[0] = <<>>
        /\ \A i \in 0 .. n : Told[i] \in Seq(Events)
        /\ \A i \in 1 .. n : Told[i] = Told[i - 1] \o Now(i)
    BY <1>1, <1>2, ToldIs
  <1>4. Given(0) = given
    <2>1. 0 \in 0 .. Len(cmds)
      BY <1>1
    <2> QED
      BY <1>1, <2>1, GivenIs
  <1> HIDE DEF n, Now, M
  <1>5. 0 \in S
    <2>1. 0 \in 0 .. n
      BY <1>1
    <2> QED
      BY <1>3, <2>1, LeadsNowhere
  <1>6. ASSUME NEW i \in 0 .. n - 1, i \in S PROVE i + 1 \in S
    <2>1. i + 1 \in 1 .. n /\ i + 1 \in 0 .. n /\ i \in 0 .. n /\ (i + 1) - 1 = i
      BY <1>1
    <2>2. Leads(M(0), Told[i], M(i)) /\ Leads(M(i), Now(i + 1), M(i + 1))
      BY <1>2, <1>6, <2>1
    <2>3. Told[i] \in Seq(Events) /\ Now(i + 1) \in Seq(Events)
          /\ Told[i + 1] = Told[i] \o Now(i + 1)
      BY <1>2, <1>3, <2>1
    <2>4. Leads(M(0), Told[i] \o Now(i + 1), M(i + 1))
      BY <2>2, <2>3, LeadsOn
    <2> QED
      BY <2>1, <2>3, <2>4
  <1>7. 0 .. n \subseteq S
    <2> HIDE DEF S
    <2> QED
      BY <1>1, <1>5, <1>6, InductionTo
  <1>8. n \in 0 .. n
    BY <1>1
  <1>9. Leads(M(0), Told[n], M(n))
    BY <1>7, <1>8
  <1> QED
    BY <1>3, <1>4, <1>8, <1>9 DEF n, M

-----------------------------------------------------------------------------
(* What a monitor still has to read makes it show what the set holds.      *)
Follows == /\ events \in Seq(Events)
           /\ \E c \in BOOLEAN : /\ made => c
                                 /\ Leads(At(cached, rgCache, shown), events, At(c, {}, given))

MonInv == /\ kind.anon => rgCache = {}
          /\ Tame /\ ~kind.anon => Follows

LEMMA MonStarts == MonInit => MonInv
  <1> SUFFICES ASSUME MonInit PROVE MonInv
    OBVIOUS
  <1>1. events = <<>> /\ cached = FALSE /\ rgCache = {} /\ shown = {} /\ given = {} /\ made = FALSE
    BY DEF MonInit, Init
  <1>2. <<>> \in Seq(Events)
    OBVIOUS
  <1>3. Leads(At(FALSE, {}, {}), <<>>, At(FALSE, {}, {}))
    BY LeadsNowhere
  <1>4. Leads(At(cached, rgCache, shown), events, At(FALSE, {}, given))
    BY <1>1, <1>3
  <1>5. Follows
    BY <1>1, <1>2, <1>4 DEF Follows
  <1> QED
    BY <1>1, <1>5 DEF MonInv

LEMMA MonStays ==
    ASSUME MonInv, UNCHANGED <<kind, made, given>>, UNCHANGED monVars
    PROVE  MonInv'
  <1>1. UNCHANGED <<events, cached, rgCache, shown>>
    BY DEF monVars
  <1> QED
    BY <1>1 DEF MonInv, Follows, Tame

LEMMA QuietKeeps ==
    ASSUME MonInv, Quiet
    PROVE  MonInv'
  <1>1. UNCHANGED monVars
    BY DEF Quiet
  <1>2. UNCHANGED <<kind, made, given>>
    <2>1. ASSUME NEW b, Run(b) PROVE UNCHANGED <<kind, made, given>>
      BY <2>1 DEF Run
    <2>2. Command \/ CommandFails \/ Insert \/ InsertFails => UNCHANGED <<kind, made, given>>
      BY DEF Command, CommandFails, Insert, InsertFails
    <2>3. Message \/ SendFails \/ Abort => UNCHANGED <<kind, made, given>>
      BY DEF Message, SendFails, Abort
    <2> QED
      BY <2>1, <2>2, <2>3 DEF Quiet
  <1> QED
    BY <1>1, <1>2, MonStays

(* The socket holds more for the monitor to read.                          *)
LEMMA ReadsOn ==
    ASSUME Follows, NEW s \in Seq(Events), NEW g,
           \A c \in BOOLEAN : (made => c) => Leads(At(c, {}, given), s, At(TRUE, {}, g))
    PROVE  /\ events \o s \in Seq(Events)
           /\ Leads(At(cached, rgCache, shown), events \o s, At(TRUE, {}, g))
  <1>1. events \in Seq(Events)
    BY DEF Follows
  <1>2. PICK c \in BOOLEAN : /\ made => c
                             /\ Leads(At(cached, rgCache, shown), events, At(c, {}, given))
    BY DEF Follows
  <1>3. Leads(At(c, {}, given), s, At(TRUE, {}, g))
    BY <1>2
  <1>4. Leads(At(cached, rgCache, shown), events \o s, At(TRUE, {}, g))
    BY <1>1, <1>2, <1>3, LeadsOn
  <1>5. events \o s \in Seq(Events)
    BY <1>1
  <1> QED
    BY <1>4, <1>5

LEMMA SetTold ==
    ASSUME NEW type \in {"newset", "delset"}, NEW c, NEW rg, NEW sh
    PROVE  After(At(c, rg, sh), [type |-> type]) = At(TRUE, rg, {})
  BY DEF After, At

LEMMA CommitKeeps ==
    ASSUME DeletesFromMade, TypeInv, RunInv, TameInv, MonInv, Commit
    PROVE  MonInv'
  <1>1. /\ stage = "send" /\ Transaction.ok
        /\ given' = Given(Len(cmds)) /\ made' = TRUE /\ kind' = kind
        /\ events' = events \o Notified
        /\ UNCHANGED <<cached, rgCache, shown>>
    BY DEF Commit, Send
  <1>2. SUFFICES ASSUME Tame, ~kind.anon PROVE Follows'
    BY <1>1 DEF MonInv, Tame
  <1>3. KernelInv /\ MsgsInv /\ Follows
    BY <1>2 DEF TameInv, MonInv
  <1>4. Len(msgs) = Len(cmds)
    <2>1. Len(msgs) \in Nat /\ Len(cmds) \in Nat
      BY MessageType, CommandType
    <2> QED
      BY <1>1, <2>1 DEF RunInv
  <1> DEFINE told == Told[Len(msgs)]
             g == Given(Len(msgs))
  <1>5. told \in Seq(Events) /\ Leads(At(TRUE, {}, given), told, At(TRUE, {}, g))
    BY <1>1, <1>2, <1>3, BatchTold DEF Transaction
  <1> HIDE DEF told, g
  <1>6. /\ Notified \in Seq(Events)
        /\ \A c \in BOOLEAN : (made => c) => Leads(At(c, {}, given), Notified, At(TRUE, {}, g))
    <2>1. CASE made
      <3>1. Notified = <<>> \o told
        BY <2>1 DEF Notified, told
      <3>2. <<>> \o told = told
        BY <1>5
      <3> QED
        BY <1>5, <2>1, <3>1, <3>2
    <2>2. CASE ~made
      <3> DEFINE new == [type |-> "newset"]
      <3>1. Notified = <<new>> \o told
        BY <2>2 DEF Notified, told
      <3>2. new \in Events
        BY DEF Events
      <3> HIDE DEF new
      <3>3. <<new>> \in Seq(Events) /\ <<new>> \o told \in Seq(Events)
        BY <1>5, <3>2
      <3>4. given = {}
        BY <1>3, <2>2 DEF KernelInv
      <3>5. ASSUME NEW c \in BOOLEAN PROVE Leads(At(c, {}, given), <<new>> \o told, At(TRUE, {}, g))
        <4>1. After(At(c, {}, given), new) = At(TRUE, {}, given)
          BY <3>4, SetTold DEF new
        <4>2. Leads(At(c, {}, given), <<new>>, At(TRUE, {}, given))
          BY <4>1, LeadsOnce
        <4> QED
          BY <1>5, <3>3, <4>2, LeadsOn
      <3> QED
        BY <3>1, <3>3, <3>5
    <2> QED
      BY <2>1, <2>2
  <1> HIDE DEF Notified
  <1>7. /\ events \o Notified \in Seq(Events)
        /\ Leads(At(cached, rgCache, shown), events \o Notified, At(TRUE, {}, g))
    BY <1>3, <1>6, ReadsOn
  <1>8. given' = g
    BY <1>1, <1>4 DEF g
  <1> QED
    BY <1>1, <1>7, <1>8 DEF Follows

LEMMA DropKeeps ==
    ASSUME TypeInv, MonInv, Drop
    PROVE  MonInv'
  <1>1. /\ given' = {} /\ made' = FALSE /\ kind' = kind
        /\ events' = IF kind.anon THEN events ELSE Append(events, [type |-> "delset"])
        /\ UNCHANGED <<cached, rgCache, shown>>
    BY DEF Drop, Destroy
  <1>2. SUFFICES ASSUME Tame, ~kind.anon PROVE Follows'
    BY <1>1 DEF MonInv, Tame
  <1>3. ~kind.anon
    BY <1>2
  <1> DEFINE del == [type |-> "delset"]
  <1>4. del \in Events
    BY DEF Events
  <1>5. \A c \in BOOLEAN : After(At(c, {}, given), del) = At(TRUE, {}, {})
    BY SetTold
  <1> HIDE DEF del
  <1>6. <<del>> \in Seq(Events)
    BY <1>4
  <1>7. \A c \in BOOLEAN : Leads(At(c, {}, given), <<del>>, At(TRUE, {}, {}))
    BY <1>5, LeadsOnce
  <1>8. Follows
    BY <1>2 DEF MonInv
  <1>9. /\ events \o <<del>> \in Seq(Events)
        /\ Leads(At(cached, rgCache, shown), events \o <<del>>, At(TRUE, {}, {}))
    BY <1>6, <1>7, <1>8, ReadsOn
  <1>10. events' = events \o <<del>>
    <2>1. events \in Seq(Events)
      BY <1>8 DEF Follows
    <2>2. Append(events, del) = events \o <<del>>
      BY <1>4, <2>1
    <2> QED
      BY <1>1, <1>3, <2>2 DEF del
  <1> QED
    BY <1>1, <1>9, <1>10 DEF Follows

(* The monitor reads an event.                                             *)
LEMMA EventRead ==
    ASSUME Follows, events # <<>>, events' = Tail(events), UNCHANGED <<made, given>>,
           At(cached', rgCache', shown') = After(At(cached, rgCache, shown), Head(events))
    PROVE  Follows'
  <1>1. events \in Seq(Events)
    BY DEF Follows
  <1>2. Tail(events) \in Seq(Events)
    BY <1>1
  <1>3. PICK c \in BOOLEAN : /\ made => c
                             /\ Leads(At(cached, rgCache, shown), events, At(c, {}, given))
    BY DEF Follows
  <1>4. Leads(After(At(cached, rgCache, shown), Head(events)), Tail(events), At(c, {}, given))
    BY <1>1, <1>3, LeadsFrom
  <1> QED
    BY <1>2, <1>3, <1>4 DEF Follows

LEMMA SetEventKeeps ==
    ASSUME MonInv, SetEvent
    PROVE  MonInv'
  <1>1. /\ events # <<>> /\ Head(events).type \in {"newset", "delset"}
        /\ cached' = TRUE /\ shown' = {} /\ events' = Tail(events) /\ rgCache' = rgCache
        /\ UNCHANGED <<kind, made, given>>
    BY DEF SetEvent, vars
  <1>2. SUFFICES ASSUME Tame, ~kind.anon PROVE Follows'
    BY <1>1 DEF MonInv, Tame
  <1>3. Follows
    BY <1>2 DEF MonInv
  <1>4. After(At(cached, rgCache, shown), Head(events)) = At(TRUE, rgCache, {})
    <2> DEFINE m == At(cached, rgCache, shown)
    <2>1. m.rg = rgCache
      BY DEF At
    <2> HIDE DEF m
    <2>2. After(m, Head(events)) = At(TRUE, m.rg, {})
      BY <1>1 DEF After
    <2> QED
      BY <2>1, <2>2 DEF m
  <1> QED
    BY <1>1, <1>3, <1>4, EventRead

LEMMA ElemEventKeeps ==
    ASSUME TypeInv, MonInv, ElemEvent
    PROVE  MonInv'
  <1> DEFINE event == Head(events)
  <1>1. /\ events # <<>> /\ event.type \in {"newelem", "delelem"}
        /\ events' = Tail(events) /\ cached' = cached
        /\ UNCHANGED <<kind, made, given>>
    BY DEF ElemEvent, vars
  <1>2. \/ Skipped(event) /\ UNCHANGED <<rgCache, shown>>
        \/ ~Skipped(event) /\ Waits(event) /\ rgCache' = {event.elem} /\ shown' = shown
        \/ /\ ~Skipped(event) /\ ~Waits(event) /\ rgCache' = {}
           /\ shown' = Shows(event.type, shown, Decompose({event.elem} \cup rgCache))
    BY DEF ElemEvent, Show, Shows
  <1>3. kind.anon => rgCache' = {}
    BY <1>2 DEF MonInv, Skipped
  <1>4. SUFFICES ASSUME Tame, ~kind.anon PROVE Follows'
    BY <1>1, <1>3 DEF MonInv, Tame
  <1>5. ~kind.anon
    BY <1>4
  <1>6. After(At(cached, rgCache, shown), event) =
            IF ~cached \/ Ignored(event.elem) THEN At(cached, rgCache, shown)
            ELSE IF rgCache = {} /\ ~event.open THEN At(cached, {event.elem}, shown)
            ELSE At(cached, {}, Shows(event.type, shown, Decompose({event.elem} \cup rgCache)))
    <2> DEFINE m == At(cached, rgCache, shown)
    <2>1. m = [cached |-> cached, rg |-> rgCache, shown |-> shown]
      BY DEF At
    <2>2. (m.cached <=> cached) /\ m.rg = rgCache /\ m.shown = shown
      BY <2>1
    <2> HIDE DEF event, m
    <2>3. After(m, event) =
              IF ~m.cached \/ Ignored(event.elem) THEN m
              ELSE IF m.rg = {} /\ ~event.open THEN At(m.cached, {event.elem}, m.shown)
              ELSE At(m.cached, {}, Shows(event.type, m.shown, Decompose({event.elem} \cup m.rg)))
      BY <1>1 DEF After
    <2>4. m.cached = cached
      BY <2>1
    <2> QED
      BY <2>2, <2>3, <2>4 DEF m
  <1> HIDE DEF event
  <1>7. At(cached', rgCache', shown') = After(At(cached, rgCache, shown), event)
    BY <1>1, <1>2, <1>5, <1>6 DEF Skipped, Waits
  <1>8. Follows
    BY <1>4 DEF MonInv
  <1> QED
    BY <1>1, <1>7, <1>8, EventRead DEF event

(* Whoever follows the lines of the monitor ends up with the intervals     *)
(* users put into the set, through any batches: no half of an interval is  *)
(* joined to that of another one by netlink_event_range_cache(), and none  *)
(* is left over.                                                           *)
THEOREM MonitorFollowsTheorem ==
    DeletesFromMade /\ MonSpec => [](Tame \/ kind.anon => MonitorFollows)
  <1> SUFFICES ASSUME DeletesFromMade
               PROVE  MonSpec => [](Tame \/ kind.anon => MonitorFollows)
    OBVIOUS
  <1>1. TypeInv /\ RunInv /\ TameInv /\ MonInv /\ [MonNext]_<<vars, monVars>> => MonInv'
    <2> SUFFICES ASSUME TypeInv, RunInv, TameInv, MonInv, [MonNext]_<<vars, monVars>>
                 PROVE  MonInv'
      OBVIOUS
    <2>1. CASE Quiet
      BY <2>1, QuietKeeps
    <2>2. CASE Commit
      BY <2>2, CommitKeeps
    <2>3. CASE Drop
      BY <2>3, DropKeeps
    <2>4. CASE SetEvent
      BY <2>4, SetEventKeeps
    <2>5. CASE ElemEvent
      BY <2>5, ElemEventKeeps
    <2>6. CASE UNCHANGED <<vars, monVars>>
      <3>1. UNCHANGED <<kind, made, given>> /\ UNCHANGED monVars
        BY <2>6 DEF vars
      <3> QED
        BY <3>1, MonStays
    <2> QED
      BY <2>1, <2>2, <2>3, <2>4, <2>5, <2>6 DEF MonNext
  <1>2. TypeInv /\ MonInv => (Tame \/ kind.anon => MonitorFollows)
    <2> SUFFICES ASSUME TypeInv, MonInv, Tame \/ kind.anon, events = <<>>
                 PROVE  rgCache = {} /\ (kind.anon \/ shown = given)
      BY DEF MonitorFollows
    <2>1. CASE kind.anon
      BY <2>1 DEF MonInv
    <2>2. CASE ~kind.anon
      <3>1. PICK c \in BOOLEAN : Leads(At(cached, rgCache, shown), <<>>, At(c, {}, given))
        BY <2>2 DEF MonInv, Follows
      <3>2. At(cached, rgCache, shown) = At(c, {}, given)
        BY <3>1, LeadsNowhere
      <3> QED
        BY <3>2, AtIs
    <2> QED
      BY <2>1, <2>2
  <1> QED
    BY <1>1, <1>2, MonStarts, LooksOn, TameKept, PTL DEF MonSpec
=============================================================================
