------------------------------ MODULE Induction ------------------------------
(***************************************************************************)
(* Induction and recursion over the natural numbers, for the proofs about  *)
(* batches of any length.  The theorems of NaturalsInduction have an       *)
(* operator as a parameter; here the property is a set of numbers, and     *)
(* what is defined by recursion is a function.  Both rest on the pigeon-   *)
(* hole principle: numbers without a least one could be moved down by one  *)
(* within a finite interval and leave its end free.                        *)
(***************************************************************************)
EXTENDS Integers, Functions, FiniteSetTheorems, TLAPS

(* A set of numbers that holds 0, and with each number the next one, holds *)
(* all numbers.                                                            *)
LEMMA InductionOnSets ==
    ASSUME NEW S, 0 \in S, \A k \in Nat : k \in S => k + 1 \in S
    PROVE  Nat \subseteq S
  <1>1. SUFFICES ASSUME NEW n \in Nat, n \notin S PROVE FALSE
    OBVIOUS
  <1> DEFINE I == 0 .. n
             f == [x \in I |-> IF x \in S THEN x ELSE x - 1]
  <1>2. \A x \in I : x \notin S => x # 0 /\ x - 1 \in I /\ x - 1 \notin S
    <2>1. SUFFICES ASSUME NEW x \in I, x \notin S
                   PROVE  x # 0 /\ x - 1 \in I /\ x - 1 \notin S
      OBVIOUS
    <2>2. x # 0
      BY <2>1
    <2>3. x - 1 \in Nat /\ (x - 1) + 1 = x /\ x - 1 \in I
      BY <2>2
    <2> QED
      BY <2>1, <2>2, <2>3
  <1>3. f \in [I -> I]
    BY <1>2
  <1>4. \A x, y \in I : f[x] = f[y] => x = y
    <2>1. SUFFICES ASSUME NEW x \in I, NEW y \in I, f[x] = f[y] PROVE x = y
      OBVIOUS
    <2>2. CASE x \in S /\ y \in S
      BY <2>1, <2>2
    <2>3. CASE x \notin S /\ y \notin S
      BY <2>1, <2>3
    <2>4. CASE x \in S /\ y \notin S
      BY <1>2, <2>1, <2>4
    <2>5. CASE x \notin S /\ y \in S
      BY <1>2, <2>1, <2>5
    <2> QED
      BY <2>2, <2>3, <2>4, <2>5
  <1>5. f \in Injection(I, I)
    BY <1>3, <1>4 DEF Injection, IsInjective
  <1>6. IsFiniteSet(I)
    BY FS_Interval
  <1>7. f \in Surjection(I, I)
    <2> HIDE DEF f, I
    <2> QED
      BY <1>5, <1>6, FS_Injection
  <1>8. PICK x \in I : f[x] = n
    <2>1. n \in I
      OBVIOUS
    <2> HIDE DEF f, I
    <2> QED
      BY <1>7, <2>1 DEF Surjection
  <1>9. CASE x \in S
    BY <1>1, <1>8, <1>9
  <1>10. CASE x \notin S
    BY <1>8, <1>10
  <1> QED
    BY <1>9, <1>10

(* The same up to a number: what holds at the start of a batch and is kept *)
(* by each of its commands holds at its end.                               *)
LEMMA InductionTo ==
    ASSUME NEW n \in Nat, NEW S, 0 \in S, \A k \in 0 .. n - 1 : k \in S => k + 1 \in S
    PROVE  0 .. n \subseteq S
  <1> DEFINE T == {k \in Nat : k \in 0 .. n => k \in S}
  <1>1. 0 \in T
    OBVIOUS
  <1>2. \A k \in Nat : k \in T => k + 1 \in T
    <2>1. SUFFICES ASSUME NEW k \in Nat, k \in T, k + 1 \in 0 .. n PROVE k + 1 \in S
      OBVIOUS
    <2>2. k \in 0 .. n - 1 /\ k \in 0 .. n
      BY <2>1
    <2> QED
      BY <2>1, <2>2
  <1>3. Nat \subseteq T
    <2> HIDE DEF T
    <2> QED
      BY <1>1, <1>2, InductionOnSets
  <1> QED
    BY <1>3

(* What is defined by recursion exists: the states of a computation of n   *)
(* steps, of which step i takes x to F[i][x].                              *)
Steps(g, n, x, F) == g = [i \in 0 .. n |-> IF i = 0 THEN x ELSE F[i][g[i - 1]]]

LEMMA Recursion ==
    ASSUME NEW X, NEW x \in X, NEW n \in Nat, NEW F \in [1 .. n -> [X -> X]]
    PROVE  \E g \in [0 .. n -> X] : Steps(g, n, x, F)
  <1> DEFINE At(g, i) == g[i] = (IF i = 0 THEN x ELSE F[i][g[i - 1]])
             S == {m \in Nat : \E g \in [0 .. m -> X] : \A i \in 0 .. m : At(g, i)}
  <1>1. 0 \in S
    <2>1. [i \in 0 .. 0 |-> x] \in [0 .. 0 -> X]
      OBVIOUS
    <2>2. \A i \in 0 .. 0 : At([j \in 0 .. 0 |-> x], i)
      OBVIOUS
    <2> QED
      BY <2>1, <2>2
  <1>2. ASSUME NEW m \in 0 .. n - 1, m \in S PROVE m + 1 \in S
    <2>1. PICK g \in [0 .. m -> X] : \A i \in 0 .. m : At(g, i)
      BY <1>2
    <2> DEFINE h == [i \in 0 .. m + 1 |-> IF i = m + 1 THEN F[m + 1][g[m]] ELSE g[i]]
    <2>2. m \in Nat /\ m + 1 \in 1 .. n /\ m \in 0 .. m
      OBVIOUS
    <2>3. F[m + 1][g[m]] \in X
      BY <2>1, <2>2
    <2>4. h \in [0 .. m + 1 -> X]
      <3>1. \A i \in 0 .. m + 1 : i = m + 1 \/ i \in 0 .. m
        OBVIOUS
      <3> QED
        BY <2>1, <2>3, <3>1
    <2>5. ASSUME NEW i \in 0 .. m + 1 PROVE At(h, i)
      <3>1. CASE i = m + 1
        <4>1. i # 0 /\ i - 1 = m /\ m \in 0 .. m + 1 /\ m # m + 1
          BY <2>2, <3>1
        <4>2. h[i] = F[m + 1][g[m]] /\ h[i - 1] = g[m]
          BY <3>1, <4>1
        <4> HIDE DEF h
        <4> QED
          BY <3>1, <4>1, <4>2
      <3>2. CASE i # m + 1
        <4>1. i \in 0 .. m /\ (i # 0 => i - 1 \in 0 .. m /\ i - 1 # m + 1 /\ i - 1 \in 0 .. m + 1)
          BY <2>2, <3>2
        <4>2. h[i] = g[i] /\ (i # 0 => h[i - 1] = g[i - 1])
          BY <3>2, <4>1
        <4>3. At(g, i)
          BY <2>1, <4>1
        <4> HIDE DEF h
        <4> QED
          BY <4>2, <4>3
      <3> QED
        BY <3>1, <3>2
    <2> HIDE DEF h, At
    <2> QED
      BY <2>2, <2>4, <2>5
  <1>3. n \in S
    <2>1. \A k \in 0 .. n - 1 : k \in S => k + 1 \in S
      BY <1>2
    <2> HIDE DEF S
    <2>2. 0 .. n \subseteq S
      BY <1>1, <2>1, InductionTo
    <2> QED
      BY <2>2
  <1>4. PICK g \in [0 .. n -> X] : \A i \in 0 .. n : At(g, i)
    BY <1>3
  <1>5. g = [i \in 0 .. n |-> g[i]]
    OBVIOUS
  <1>6. g = [i \in 0 .. n |-> IF i = 0 THEN x ELSE F[i][g[i - 1]]]
    BY <1>4, <1>5
  <1> QED
    BY <1>6 DEF Steps

(* A finite set of numbers that is not empty has a greatest one.           *)
LEMMA GreatestNumber ==
    ASSUME NEW n \in Nat, NEW T \in SUBSET (0 .. n), T # {}
    PROVE  \E m \in T : \A k \in T : k =< m
  <1>1. SUFFICES ASSUME \A m \in T : \E k \in T : k > m PROVE FALSE
    OBVIOUS
  <1> DEFINE S == {i \in Nat : \E k \in T : k >= i}
  <1>2. 0 \in S
    <2>1. PICK k \in T : TRUE
      OBVIOUS
    <2>2. k \in 0 .. n /\ k >= 0
      BY <2>1
    <2> QED
      BY <2>2
  <1>3. \A i \in Nat : i \in S => i + 1 \in S
    <2>1. SUFFICES ASSUME NEW i \in Nat, NEW k \in T, k >= i PROVE i + 1 \in S
      OBVIOUS
    <2>2. PICK m \in T : m > k
      BY <1>1
    <2>3. m >= i + 1
      BY <2>1, <2>2
    <2> QED
      BY <2>3
  <1>4. n + 1 \in S
    <2> HIDE DEF S
    <2> QED
      BY <1>2, <1>3, InductionOnSets
  <1>5. PICK k \in T : k >= n + 1
    BY <1>4
  <1> QED
    BY <1>5

LEMMA LeastNumber ==
    ASSUME NEW n \in Nat, NEW T \in SUBSET (0 .. n), T # {}
    PROVE  \E m \in T : \A k \in T : m =< k
  <1> DEFINE U == {n - k : k \in T}
  <1>1. \A k \in T : k \in 0 .. n /\ n - k \in 0 .. n
    OBVIOUS
  <1>2. U \in SUBSET (0 .. n) /\ U # {}
    BY <1>1
  <1>3. PICK u \in U : \A v \in U : v =< u
    <2> HIDE DEF U
    <2> QED
      BY <1>2, GreatestNumber
  <1>4. PICK m \in T : u = n - m
    BY <1>3
  <1>5. \A k \in T : n - k =< n - m
    BY <1>3, <1>4
  <1>6. ASSUME NEW k \in T PROVE m =< k
    BY <1>1, <1>5
  <1> QED
    BY <1>6
=============================================================================
