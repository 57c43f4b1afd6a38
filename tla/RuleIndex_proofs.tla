-------------------------- MODULE RuleIndex_proofs --------------------------
(***************************************************************************)
(* Proofs about RuleIndex, for batches and chains of any length: what the  *)
(* handles and identifiers of a batch mean to the kernel is what its       *)
(* indices mean to the user.                                               *)
(***************************************************************************)
EXTENDS RuleIndex, SequenceTheorems, TLAPS

-----------------------------------------------------------------------------
(* Chains.                                                                 *)

LEMMA Joined ==
    ASSUME NEW S, NEW a \in Seq(S), NEW b \in Seq(S)
    PROVE  /\ a \o b \in Seq(S) /\ Len(a \o b) = Len(a) + Len(b)
           /\ \A j \in 1 .. Len(a) : (a \o b)[j] = a[j]
           /\ \A j \in Len(a) + 1 .. Len(a) + Len(b) : (a \o b)[j] = b[j - Len(a)]
  <1>1. Len(a) \in Nat /\ Len(b) \in Nat
    OBVIOUS
  <1> QED
    BY <1>1, ConcatProperties

LEMMA Part ==
    ASSUME NEW S, NEW L \in Seq(S), NEW m \in 1 .. Len(L) + 1, NEW n \in 0 .. Len(L), m <= n + 1
    PROVE  /\ SubSeq(L, m, n) \in Seq(S) /\ Len(SubSeq(L, m, n)) = n + 1 - m
           /\ \A j \in 1 .. n + 1 - m : SubSeq(L, m, n)[j] = L[m + j - 1]
  <1>1. \A j \in m .. n : L[j] \in S
    BY ElementOfSeq
  <1> QED
    BY <1>1, SubSeqProperties

LEMMA ExceptProperties ==
    ASSUME NEW S, NEW L \in Seq(S), NEW at \in 1 .. Len(L), NEW r \in S
    PROVE  /\ [L EXCEPT ![at] = r] \in Seq(S) /\ Len([L EXCEPT ![at] = r]) = Len(L)
           /\ \A j \in 1 .. Len(L) : [L EXCEPT ![at] = r][j] = IF j = at THEN r ELSE L[j]
  OBVIOUS

(* A rule that is put into a chain moves those behind it.                  *)
Inserted(P, L, s, r) ==
    /\ Len(P) = Len(L) + 1
    /\ \A j \in 1 .. Len(L) + 1 : P[j] = IF j < s THEN L[j] ELSE IF j = s THEN r ELSE L[j - 1]

LEMMA InsertAtProperties ==
    ASSUME NEW S, NEW L \in Seq(S), NEW s \in 1 .. Len(L) + 1, NEW r \in S
    PROVE  InsertAt(L, s, r) \in Seq(S) /\ Inserted(InsertAt(L, s, r), L, s, r)
  <1> DEFINE a == SubSeq(L, 1, s - 1)
             b == SubSeq(L, s, Len(L))
             c == a \o <<r>>
             d == c \o b
  <1>0. Len(L) \in Nat
    OBVIOUS
  <1>1. /\ a \in Seq(S) /\ Len(a) = s - 1
        /\ \A j \in 1 .. s - 1 : a[j] = L[j]
    BY <1>0, Part
  <1>2. /\ b \in Seq(S) /\ Len(b) = Len(L) + 1 - s
        /\ \A j \in 1 .. Len(L) + 1 - s : b[j] = L[s + j - 1]
    BY <1>0, Part
  <1>3. <<r>> \in Seq(S) /\ Len(<<r>>) = 1 /\ <<r>>[1] = r
    OBVIOUS
  <1>6. InsertAt(L, s, r) = d
    BY DEF InsertAt
  <1>9. a \in Seq(S) => /\ c \in Seq(S) /\ Len(c) = Len(a) + 1
                        /\ \A j \in 1 .. Len(a) : c[j] = a[j]
                        /\ \A j \in Len(a) + 1 .. Len(a) + 1 : c[j] = <<r>>[j - Len(a)]
    BY <1>3, Joined
  <1> HIDE DEF a, b
  <1>4. /\ c \in Seq(S) /\ Len(c) = s
        /\ \A j \in 1 .. s - 1 : c[j] = L[j]
        /\ c[s] = r
    BY <1>0, <1>1, <1>3, <1>9
  <1> HIDE DEF c
  <1>5. /\ d \in Seq(S) /\ Len(d) = s + (Len(L) + 1 - s)
        /\ \A j \in 1 .. s : d[j] = c[j]
        /\ \A j \in s + 1 .. s + (Len(L) + 1 - s) : d[j] = b[j - s]
    BY <1>2, <1>4, Joined
  <1> HIDE DEF d
  <1>7. ASSUME NEW j \in 1 .. Len(L) + 1
        PROVE  d[j] = IF j < s THEN L[j] ELSE IF j = s THEN r ELSE L[j - 1]
    <2>1. CASE j <= s
      <3>1. d[j] = c[j]
        BY <1>5, <2>1
      <3>2. j < s => c[j] = L[j]
        BY <1>4
      <3> QED
        BY <1>4, <2>1, <3>1, <3>2
    <2>2. CASE j > s
      <3>1. j - s \in 1 .. Len(L) + 1 - s /\ s + (j - s) - 1 = j - 1
        BY <1>0, <2>2
      <3>2. d[j] = b[j - s]
        BY <1>0, <1>5, <2>2
      <3>3. b[j - s] = L[s + (j - s) - 1]
        BY <1>2, <3>1
      <3> QED
        BY <2>2, <3>1, <3>2, <3>3
    <2> QED
      BY <1>0, <2>1, <2>2
  <1>8. Len(d) = Len(L) + 1
    BY <1>0, <1>5
  <1> QED
    BY <1>5, <1>6, <1>7, <1>8 DEF Inserted

LEMMA RemoveAtProperties ==
    ASSUME NEW S, NEW L \in Seq(S), NEW s \in DOMAIN L
    PROVE  /\ RemoveAt(L, s) \in Seq(S)
           /\ Len(RemoveAt(L, s)) = Len(L) - 1
           /\ \A j \in 1 .. Len(L) - 1 :
                RemoveAt(L, s)[j] = IF j < s THEN L[j] ELSE L[j + 1]
  <1> DEFINE a == SubSeq(L, 1, s - 1)
             b == SubSeq(L, s + 1, Len(L))
             d == a \o b
  <1>1. s \in 1 .. Len(L) /\ Len(L) \in Nat
    OBVIOUS
  <1>2. /\ a \in Seq(S) /\ Len(a) = s - 1
        /\ \A j \in 1 .. s - 1 : a[j] = L[j]
    BY <1>1, Part
  <1>3. /\ b \in Seq(S) /\ Len(b) = Len(L) - s
        /\ \A j \in 1 .. Len(L) - s : b[j] = L[s + j]
    BY <1>1, Part
  <1>5. RemoveAt(L, s) = d
    BY DEF RemoveAt
  <1>9. a \in Seq(S) /\ b \in Seq(S) =>
          /\ d \in Seq(S) /\ Len(d) = Len(a) + Len(b)
          /\ \A j \in 1 .. Len(a) : d[j] = a[j]
          /\ \A j \in Len(a) + 1 .. Len(a) + Len(b) : d[j] = b[j - Len(a)]
    BY Joined
  <1> HIDE DEF a, b, d
  <1>4. /\ d \in Seq(S) /\ Len(d) = (s - 1) + (Len(L) - s)
        /\ \A j \in 1 .. s - 1 : d[j] = a[j]
        /\ \A j \in (s - 1) + 1 .. (s - 1) + (Len(L) - s) : d[j] = b[j - (s - 1)]
    BY <1>1, <1>2, <1>3, <1>9
  <1>6. ASSUME NEW j \in 1 .. Len(L) - 1
        PROVE  d[j] = IF j < s THEN L[j] ELSE L[j + 1]
    <2>1. CASE j < s
      <3>1. j \in 1 .. s - 1
        BY <1>1, <2>1
      <3>2. d[j] = a[j]
        BY ONLY <1>4, <3>1
      <3>3. a[j] = L[j]
        BY ONLY <1>2, <3>1
      <3> QED
        BY ONLY <2>1, <3>2, <3>3
    <2>2. CASE j >= s
      <3>1. j - (s - 1) \in 1 .. Len(L) - s /\ s + (j - (s - 1)) = j + 1
        BY <1>1, <2>2
      <3>2. d[j] = b[j - (s - 1)]
        BY <1>1, <1>4, <2>2
      <3>3. b[j - (s - 1)] = L[s + (j - (s - 1))]
        BY <1>3, <3>1
      <3> QED
        BY <1>1, <2>2, <3>1, <3>2, <3>3
    <2> QED
      BY <1>1, <2>1, <2>2
  <1>7. Len(d) = Len(L) - 1
    BY <1>1, <1>4
  <1> QED
    BY <1>4, <1>5, <1>6, <1>7

LEMMA SlotType ==
    ASSUME NEW S, NEW L \in Seq(S), NEW op, NEW at \in 0 .. Len(L)
    PROVE  Slot(L, op, at) \in 1 .. Len(L) + 1
  BY DEF Slot

-----------------------------------------------------------------------------
(* Rules that have a handle or were made by one of n commands, and chains  *)
(* of them in which no two have the same.                                  *)
Known(n) == {r \in [handle : 0 .. MaxHandle, cmd : 0 .. n] : r.handle # 0 \/ r.cmd # 0}

Distinct(L) == \A j, k \in DOMAIN L : j # k =>
                  /\ L[j].handle = L[k].handle => L[j].handle = 0
                  /\ L[j].cmd = L[k].cmd => L[j].cmd = 0

Handles(L) == {L[j].handle : j \in DOMAIN L} \ {0}

LEMMA KnownIsNot ==
    ASSUME NEW n \in Nat, NEW L \in Seq(Known(n))
    PROVE  L # Refused
  <1> SUFFICES ASSUME L = Refused PROVE FALSE
    OBVIOUS
  <1>1. 1 \in 1 .. Len(L) /\ L[1].handle = -1
    BY DEF Refused, Rule
  <1>2. L[1] \in Known(n)
    BY <1>1, ElementOfSeq
  <1> QED
    BY <1>1, <1>2, BoundsAssumption DEF Known

(* A rule of a new command, put into a chain, keeps the rules distinct and *)
(* has no handle but that of the rule it replaces.                         *)
LEMMA PutProperties ==
    ASSUME NEW n \in Nat, NEW i \in 1 .. n, NEW L \in Seq(Known(n)), NEW at \in 0 .. Len(L),
           NEW op, NEW r \in Known(n), r.cmd = i,
           op # "REPLACE" => r.handle = 0,
           op = "REPLACE" => at # 0 /\ r.handle = L[at].handle
    PROVE  /\ Put(L, op, at, r) \in Seq(Known(n))
           /\ Handles(Put(L, op, at, r)) = Handles(L)
           /\ /\ Distinct(L)
              /\ \A j \in DOMAIN L : L[j].cmd < i
              => /\ Distinct(Put(L, op, at, r))
                 /\ \A j \in DOMAIN Put(L, op, at, r) : Put(L, op, at, r)[j].cmd < i + 1
  <1>0. Len(L) \in Nat /\ DOMAIN L = 1 .. Len(L) /\ i \in Nat /\ i > 0
    OBVIOUS
  <1>9. \A j \in 1 .. Len(L) : L[j] \in Known(n) /\ L[j].cmd \in Nat
    BY ElementOfSeq DEF Known
  <1>1. CASE op = "REPLACE"
    <2> DEFINE P == ReplaceAt(L, at, r)
    <2>1. at \in 1 .. Len(L)
      BY <1>1
    <2>2. Put(L, op, at, r) = P
      BY <1>1 DEF Put
    <2>3. /\ P \in Seq(Known(n)) /\ Len(P) = Len(L)
          /\ \A j \in 1 .. Len(L) : P[j] = IF j = at THEN r ELSE L[j]
      <3>1. at \in 1 .. Len(L)
        BY <1>0, <2>1
      <3> HIDE DEF P
      <3>2. P = [L EXCEPT ![at] = r]
        BY DEF P, ReplaceAt
      <3> QED
        BY <3>1, <3>2, ExceptProperties
    <2> HIDE DEF P
    <2>4. DOMAIN P = 1 .. Len(L)
      BY <2>3
    <2>5. \A j \in 1 .. Len(L) : P[j].handle = L[j].handle
      BY <1>1, <2>3
    <2>6. Handles(P) = Handles(L)
      BY <1>0, <2>4, <2>5 DEF Handles
    <2>7. ASSUME Distinct(L), \A j \in DOMAIN L : L[j].cmd < i
          PROVE  Distinct(P) /\ \A j \in DOMAIN P : P[j].cmd < i + 1
      <3>1. \A j \in 1 .. Len(L) : P[j].cmd = IF j = at THEN i ELSE L[j].cmd
        BY <2>3
      <3>2. \A j, k \in 1 .. Len(L) : j # k /\ P[j].cmd = P[k].cmd => P[j].cmd = 0
        BY <1>0, <1>9, <2>7, <3>1 DEF Distinct
      <3>3. \A j, k \in 1 .. Len(L) : j # k /\ P[j].handle = P[k].handle => P[j].handle = 0
        BY <1>0, <2>5, <2>7 DEF Distinct
      <3>4. \A j \in 1 .. Len(L) : P[j].cmd < i + 1
        BY <1>0, <1>9, <2>7, <3>1
      <3> QED
        BY <2>4, <3>2, <3>3, <3>4 DEF Distinct
    <2> QED
      BY <2>2, <2>3, <2>6, <2>7
  <1>2. CASE op # "REPLACE"
    <2> DEFINE s == Slot(L, op, at)
               P == InsertAt(L, s, r)
    <2>1. s \in 1 .. Len(L) + 1
      BY SlotType
    <2>2. Put(L, op, at, r) = P
      BY <1>2 DEF Put
    <2> HIDE DEF s
    <2>3. /\ P \in Seq(Known(n)) /\ Len(P) = Len(L) + 1
          /\ \A j \in 1 .. Len(L) + 1 :
               P[j] = IF j < s THEN L[j] ELSE IF j = s THEN r ELSE L[j - 1]
      <3> HIDE DEF P
      <3>1. P = InsertAt(L, s, r)
        BY DEF P
      <3>2. L \in Seq(Known(n)) /\ r \in Known(n)
        OBVIOUS
      <3> DEFINE K == Known(n)
      <3>3. L \in Seq(K) /\ r \in K
        BY <3>2
      <3> HIDE DEF K
      <3>4. P \in Seq(K) /\ Inserted(P, L, s, r)
        BY ONLY <2>1, <3>1, <3>3, InsertAtProperties
      <3> QED
        BY ONLY <3>4 DEF K, Inserted
    <2> HIDE DEF P
    <2>4. DOMAIN P = 1 .. Len(L) + 1
      BY <2>3
    <2> DEFINE from(j) == IF j < s THEN j ELSE j - 1
    <2>5. /\ P[s] = r
          /\ \A j \in 1 .. Len(L) + 1 : j # s => /\ from(j) \in 1 .. Len(L)
                                                 /\ P[j] = L[from(j)]
      BY <1>0, <2>1, <2>3
    <2>6. \A j, k \in 1 .. Len(L) + 1 : j # s /\ k # s /\ j # k => from(j) # from(k)
      BY <1>0, <2>1
    <2>7. \A k \in 1 .. Len(L) : \E j \in 1 .. Len(L) + 1 : j # s /\ P[j] = L[k]
      <3> SUFFICES ASSUME NEW k \in 1 .. Len(L)
                   PROVE  \E j \in 1 .. Len(L) + 1 : j # s /\ P[j] = L[k]
        OBVIOUS
      <3>1. CASE k < s
        BY <1>0, <2>1, <2>3, <3>1
      <3>2. CASE k >= s
        <4>1. k + 1 \in 1 .. Len(L) + 1 /\ k + 1 # s /\ P[k + 1] = L[(k + 1) - 1] /\ (k + 1) - 1 = k
          BY <1>0, <2>1, <2>3, <3>2
        <4> QED
          BY <4>1
      <3> QED
        BY <1>0, <2>1, <3>1, <3>2
    <2>8. Handles(P) = Handles(L)
      <3>1. \A j \in 1 .. Len(L) + 1 : P[j].handle \in Handles(L) \cup {0}
        <4>1. \A j \in 1 .. Len(L) + 1 : j # s => \E k \in 1 .. Len(L) : P[j] = L[k]
          BY <2>5
        <4> QED
          BY <1>0, <1>2, <2>5, <4>1 DEF Handles
      <3>2. Handles(L) \subseteq Handles(P)
        BY <1>0, <2>4, <2>7 DEF Handles
      <3> QED
        BY <2>4, <3>1, <3>2 DEF Handles
    <2>9. ASSUME Distinct(L), \A j \in DOMAIN L : L[j].cmd < i
          PROVE  Distinct(P) /\ \A j \in DOMAIN P : P[j].cmd < i + 1
      <3>1. \A j \in 1 .. Len(L) + 1 : j # s => P[j].cmd < i /\ P[j].cmd \in Nat
        BY <1>0, <1>9, <2>5, <2>9
      <3>2. P[s].cmd = i /\ P[s].handle = 0
        BY <1>2, <2>5
      <3>3. ASSUME NEW j \in 1 .. Len(L) + 1, NEW k \in 1 .. Len(L) + 1, j # k
            PROVE  /\ P[j].handle = P[k].handle => P[j].handle = 0
                   /\ P[j].cmd = P[k].cmd => P[j].cmd = 0
        <4>1. CASE j = s
          <5>1. k # s
            BY <3>3, <4>1
          <5>2. P[k].cmd < i /\ P[k].cmd \in Nat
            BY <3>1, <5>1
          <5> QED
            BY <1>0, <3>2, <4>1, <5>2
        <4>3. CASE k = s
          <5>1. j # s
            BY <3>3, <4>3
          <5>2. P[j].cmd < i /\ P[j].cmd \in Nat
            BY <3>1, <5>1
          <5> QED
            BY <1>0, <3>2, <4>3, <5>2
        <4>2. CASE j # s /\ k # s
          <5>1. /\ from(j) \in DOMAIN L /\ from(k) \in DOMAIN L
                /\ P[j] = L[from(j)] /\ P[k] = L[from(k)]
            BY <1>0, <2>5, <4>2
          <5>2. from(j) # from(k)
            BY <2>6, <3>3, <4>2
          <5> HIDE DEF from
          <5> QED
            BY <2>9, <5>1, <5>2 DEF Distinct
        <4> QED
          BY <4>1, <4>2, <4>3
      <3>4. \A j \in 1 .. Len(L) + 1 : P[j].cmd < i + 1
        BY <1>0, <3>1, <3>2
      <3> QED
        BY <2>4, <3>3, <3>4 DEF Distinct
    <2> QED
      BY <2>2, <2>3, <2>8, <2>9
  <1> QED
    BY <1>1, <1>2

(* What a command leaves of a chain: rules of the chain and its own.       *)
LEMMA CarryProperties ==
    ASSUME NEW n \in Nat, NEW i \in 1 .. n, NEW L \in Seq(Known(n)), cmds[i] \in Command,
           NEW at \in SUBSET (0 .. Len(L)),
           cmds[i].op \in {"REPLACE", "DELETE"} =>
             \A j \in at : j # 0 /\ L[j].handle = cmds[i].n
    PROVE  \/ Carry(L, i, at) = Refused
           \/ /\ Carry(L, i, at) \in Seq(Known(n))
              /\ Handles(Carry(L, i, at)) \subseteq Handles(L)
  <1>0. L # Refused
    BY KnownIsNot
  <1>1. CASE cmds[i].op = "FLUSH"
    <2>1. Carry(L, i, at) = <<>>
      BY <1>0, <1>1 DEF Carry
    <2> QED
      BY <2>1, EmptySeq DEF Handles
  <1>2. CASE cmds[i].op # "FLUSH" /\ at = {}
    BY <1>2 DEF Carry
  <1>3. CASE cmds[i].op # "FLUSH" /\ at # {}
    <2> DEFINE j == CHOOSE k \in at : TRUE
    <2>1. j \in at
      BY <1>3
    <2>2. Carry(L, i, at) = IF cmds[i].op = "DELETE" THEN RemoveAt(L, j)
                                                    ELSE Put(L, cmds[i].op, j, NewRule(i))
      BY <1>0, <1>3 DEF Carry
    <2> HIDE DEF j
    <2>3. j \in 0 .. Len(L) /\ Len(L) \in Nat /\ DOMAIN L = 1 .. Len(L)
      BY <2>1
    <2>4. CASE cmds[i].op = "DELETE"
      <3>1. j \in DOMAIN L
        BY <2>1, <2>3, <2>4
      <3> DEFINE P == RemoveAt(L, j)
      <3>2. /\ P \in Seq(Known(n)) /\ Len(P) = Len(L) - 1
            /\ \A k \in 1 .. Len(L) - 1 : P[k] = IF k < j THEN L[k] ELSE L[k + 1]
        BY <3>1, RemoveAtProperties
      <3> HIDE DEF P
      <3>3. DOMAIN P = 1 .. Len(L) - 1
        BY <3>2
      <3>4. \A k \in DOMAIN P : \E m \in DOMAIN L : P[k] = L[m]
        BY <2>3, <3>1, <3>2, <3>3
      <3>5. Handles(P) \subseteq Handles(L)
        BY <3>4 DEF Handles
      <3> QED
        BY <2>2, <2>4, <3>2, <3>5 DEF P
    <2>5. CASE cmds[i].op # "DELETE"
      <3>1. cmds[i].op = "REPLACE" => j \in 1 .. Len(L) /\ L[j].handle = cmds[i].n
        BY <2>1, <2>3
      <3>2. \A k \in 1 .. Len(L) : L[k].handle \in 0 .. MaxHandle
        BY ElementOfSeq DEF Known
      <3>3. /\ NewRule(i).cmd = i
            /\ NewRule(i).handle = IF cmds[i].op = "REPLACE" THEN cmds[i].n ELSE 0
            /\ NewRule(i) \in Known(n)
        BY <3>1, <3>2, BoundsAssumption DEF NewRule, Rule, Known
      <3>4. /\ Put(L, cmds[i].op, j, NewRule(i)) \in Seq(Known(n))
            /\ Handles(Put(L, cmds[i].op, j, NewRule(i))) = Handles(L)
        BY <2>3, <3>1, <3>3, PutProperties
      <3> QED
        BY <2>2, <2>5, <3>4
    <2> QED
      BY <2>4, <2>5
  <1> QED
    BY <1>1, <1>2, <1>3

-----------------------------------------------------------------------------
(* Types.  A message says of the place what its command allows; the chains *)
(* cached, meant and made have rules with a handle or a command.           *)
MsgOK(m, c, r) ==
    /\ m \in [position : Nat, position_id : 0 .. r]
    /\ m.position = 0 \/ m.position_id = 0
    /\ c.how = "end"    => m = NoPlace
    /\ c.how = "handle" => m = [position |-> c.n, position_id |-> 0]

IdsOK == /\ ref_id \in Nat
         /\ ids \in [DOMAIN cmds -> 0 .. ref_id]
         /\ \A i, j \in DOMAIN ids : i # j => ids[i] # ids[j] \/ ids[i] = 0

MsgsOK == /\ next \in 1 .. Len(cmds) + 1
          /\ stage = "load" => next = 1
          /\ stage \in {"send", "commit"} => next = Len(cmds) + 1
          /\ Len(msgs) = next - 1
          /\ msgs \in Seq([position : Nat, position_id : 0 .. ref_id])
          /\ \A i \in 1 .. next - 1 : MsgOK(msgs[i], cmds[i], ref_id)

CacheOK == stage = "evaluate" =>
              /\ cache \in Seq(Known(Len(cmds)))
              /\ Distinct(cache)
              /\ \A j \in DOMAIN cache : cache[j].cmd < next

Chains == Seq(Known(Len(cmds))) \cup {Refused}

MeantOK == stage \in {"evaluate", "send", "commit"} =>
              /\ meant \in Seq(Chains)
              /\ Len(meant) = next

KernelOK == /\ top \in Nat
            /\ stage # "done" => top <= MaxHandle /\ kernel \in Seq(1 .. MaxHandle)
            /\ kernel \in Seq(1 .. MaxHandle + Len(cmds))
            /\ stage \in {"idle", "load"} => \A j \in DOMAIN kernel : kernel[j] = j

TInv == /\ stage \in {"idle", "load", "evaluate", "send", "commit", "done"}
        /\ ret \in {"none", "rejected", "refused", "done"}
        /\ cmds \in Batches \cup {<<>>}
        /\ sent \in 0 .. Len(cmds)
        /\ stage \notin {"commit", "done"} => sent = 0
        /\ KernelOK /\ IdsOK /\ MsgsOK /\ CacheOK /\ MeantOK
        /\ stage = "commit" => result \in Chains

LEMMA CommandsAre ==
    ASSUME cmds \in Batches \cup {<<>>}
    PROVE  /\ cmds \in Seq(Command) /\ Len(cmds) \in Nat /\ DOMAIN cmds = 1 .. Len(cmds)
           /\ \A i \in 1 .. Len(cmds) :
                /\ cmds[i] \in Command
                /\ cmds[i].op \in {"REPLACE", "DELETE"} => cmds[i].how = "handle"
                /\ cmds[i].op = "FLUSH" => cmds[i].how = "end"
                /\ cmds[i].how = "handle" => cmds[i].n # 0
  <1>1. cmds \in Seq(Command)
    BY BatchesAssumption, EmptySeq
  <1>2. Len(cmds) \in Nat /\ DOMAIN cmds = 1 .. Len(cmds)
    BY <1>1
  <1>3. cmds = <<>> => Len(cmds) = 0
    OBVIOUS
  <1>4. ASSUME NEW i \in 1 .. Len(cmds)
        PROVE  /\ cmds[i] \in Command
               /\ cmds[i].op \in {"REPLACE", "DELETE"} => cmds[i].how = "handle"
               /\ cmds[i].op = "FLUSH" => cmds[i].how = "end"
               /\ cmds[i].how = "handle" => cmds[i].n # 0
    <2>1. cmds \in Batches /\ i \in DOMAIN cmds
      BY <1>2, <1>3
    <2>2. cmds[i] \in Command
      BY <1>1, ElementOfSeq
    <2> QED
      BY <2>1, <2>2, BatchesAssumption
  <1> QED
    BY <1>1, <1>2, <1>4

(* The places a command means and those its message names.                 *)
LEMMA MeantPlacesType ==
    ASSUME cmds \in Batches \cup {<<>>}, NEW i \in 1 .. Len(cmds), NEW n \in Nat, NEW L \in Seq(Known(n))
    PROVE  /\ MeantPlaces(L, cmds[i]) \in SUBSET (0 .. Len(L))
           /\ cmds[i].op \in {"REPLACE", "DELETE"} =>
                \A j \in MeantPlaces(L, cmds[i]) : j # 0 /\ L[j].handle = cmds[i].n
  BY CommandsAre DEF MeantPlaces

(* Rules are removed and replaced by their handles.                        *)
PlacesFit(L, c, at) ==
    /\ at \in SUBSET (0 .. Len(L))
    /\ c.op \in {"REPLACE", "DELETE"} => \A j \in at : j # 0 /\ L[j].handle = c.n

LEMMA SaidType ==
    ASSUME cmds \in Batches \cup {<<>>}, NEW i \in 1 .. Len(cmds), NEW n \in Nat, NEW L \in Seq(Known(n)),
           NEW m, NEW r, MsgOK(m, cmds[i], r)
    PROVE  PlacesFit(L, cmds[i], Said(L, m))
  <1>1. cmds[i].op \in {"REPLACE", "DELETE"} => m = [position |-> cmds[i].n, position_id |-> 0] /\ cmds[i].n # 0
    BY CommandsAre DEF MsgOK
  <1> QED
    BY <1>1 DEF PlacesFit, Said, NoPlace, Places

LEMMA ChainsCarried ==
    ASSUME cmds \in Batches \cup {<<>>}, NEW i \in 1 .. Len(cmds), NEW L \in Chains, NEW at,
           L # Refused => PlacesFit(L, cmds[i], at)
    PROVE  Carry(L, i, at) \in Chains
  <1>0. Len(cmds) \in Nat /\ cmds[i] \in Command
    BY CommandsAre
  <1>1. CASE L = Refused
    BY <1>1 DEF Carry, Chains
  <1>2. CASE L \in Seq(Known(Len(cmds))) /\ L # Refused
    <2>1. \/ Carry(L, i, at) = Refused
          \/ Carry(L, i, at) \in Seq(Known(Len(cmds)))
      BY <1>0, <1>2, CarryProperties DEF PlacesFit
    <2> QED
      BY <2>1 DEF Chains
  <1> QED
    BY <1>1, <1>2 DEF Chains

LEMMA InitTypes == Init => TInv
  <1> SUFFICES ASSUME Init PROVE TInv
    OBVIOUS
  <1>1. PICK n \in 0 .. MaxRules : kernel = [j \in 1 .. n |-> j] /\ top = n
    BY DEF Init
  <1>2. Len(cmds) = 0 /\ cmds = <<>> /\ DOMAIN cmds = {}
    BY DEF Init
  <1>3. KernelOK
    <2>1. n \in Nat /\ n <= MaxHandle /\ MaxHandle \in Nat
      BY BoundsAssumption
    <2>2. kernel \in [1 .. n -> 1 .. MaxHandle]
      BY <1>1, <2>1
    <2>3. kernel \in Seq(1 .. MaxHandle)
      BY <2>1, <2>2, IsASeq
    <2>4. 1 .. MaxHandle + Len(cmds) = 1 .. MaxHandle
      BY <1>2, <2>1
    <2> QED
      BY <1>1, <2>1, <2>3, <2>4 DEF Init, KernelOK
  <1>4. IdsOK
    BY <1>2 DEF Init, IdsOK
  <1>5. MsgsOK
    BY <1>2, EmptySeq DEF Init, MsgsOK
  <1> QED
    BY <1>2, <1>3, <1>4, <1>5 DEF Init, TInv, CacheOK, MeantOK

(* The chain as it is loaded.                                              *)
LEMMA OldIsKnown ==
    ASSUME NEW n \in Nat, kernel \in Seq(1 .. MaxHandle)
    PROVE  /\ Old(kernel) \in Seq(Known(n)) /\ Len(Old(kernel)) = Len(kernel)
           /\ \A j \in 1 .. Len(kernel) : Old(kernel)[j] = Rule(kernel[j], 0)
  <1>1. Len(kernel) \in Nat /\ DOMAIN kernel = 1 .. Len(kernel) /\ MaxHandle \in Nat
    BY BoundsAssumption
  <1>2. \A j \in 1 .. Len(kernel) : Rule(kernel[j], 0) \in Known(n)
    BY <1>1, ElementOfSeq DEF Rule, Known
  <1>3. Old(kernel) = [j \in 1 .. Len(kernel) |-> Rule(kernel[j], 0)]
    BY <1>1 DEF Old
  <1>4. Old(kernel) \in [1 .. Len(kernel) -> Known(n)]
    BY <1>2, <1>3
  <1> QED
    BY <1>1, <1>3, <1>4, IsASeq

LEMMA CommitTypes == TInv /\ Commit => TInv'
  <1> SUFFICES ASSUME TInv, Commit PROVE TInv'
    OBVIOUS
  <1>1. /\ stage \in {"evaluate", "send"}
        /\ UNCHANGED <<stage, cmds, cache, next, msgs, ids, ref_id, meant, result, sent, ret>>
    BY DEF Commit
  <1>2. /\ kernel \in Seq(1 .. MaxHandle) /\ top <= MaxHandle /\ top \in Nat /\ MaxHandle \in Nat
        /\ Len(cmds) \in Nat
    BY <1>1, BoundsAssumption, CommandsAre DEF TInv, KernelOK
  <1>3. top' \in Nat /\ top' <= MaxHandle /\ kernel' \in Seq(1 .. MaxHandle)
    <2>1. CASE /\ top < MaxHandle /\ top' = top + 1
               /\ \E j \in 1 .. Len(kernel) + 1 : kernel' = InsertAt(kernel, j, top + 1)
      <3>1. PICK j \in 1 .. Len(kernel) + 1 : kernel' = InsertAt(kernel, j, top + 1)
        BY <2>1
      <3>2. top + 1 \in 1 .. MaxHandle
        BY <1>2, <2>1
      <3>3. kernel' \in Seq(1 .. MaxHandle)
        BY <1>2, <3>1, <3>2, InsertAtProperties
      <3> QED
        BY <1>2, <2>1, <3>3
    <2>2. CASE /\ top' = top
               /\ \E j \in DOMAIN kernel : kernel' = RemoveAt(kernel, j)
      <3>1. PICK j \in DOMAIN kernel : kernel' = RemoveAt(kernel, j)
        BY <2>2
      <3>3. kernel' \in Seq(1 .. MaxHandle)
        BY <1>2, <3>1, RemoveAtProperties
      <3> QED
        BY <1>2, <2>2, <3>3
    <2> QED
      BY <2>1, <2>2 DEF Commit
  <1>4. kernel' \in Seq(1 .. MaxHandle + Len(cmds))
    BY <1>2, <1>3, SeqMonotonic
  <1>5. KernelOK'
    BY <1>1, <1>3, <1>4 DEF KernelOK
  <1>6. IdsOK' /\ MsgsOK' /\ CacheOK' /\ MeantOK'
    BY <1>1 DEF TInv, IdsOK, MsgsOK, MsgOK, CacheOK, MeantOK, Chains
  <1> QED
    BY <1>1, <1>5, <1>6 DEF TInv

LEMMA RunTypes ==
    ASSUME TInv, NEW b \in Batches, Run(b) PROVE TInv'
  <1>1. /\ stage = "idle" /\ stage' = "load" /\ cmds' = b
        /\ next' = 1 /\ msgs' = <<>> /\ ids' = [i \in DOMAIN b |-> 0]
        /\ UNCHANGED <<kernel, top, cache, ref_id, meant, alone, result, sent, ret>>
    BY DEF Run
  <1>2. sent = 0 /\ Len(b) \in Nat
    <2>1. b \in Seq(Command)
      BY BatchesAssumption
    <2> QED
      BY <1>1, <2>1 DEF TInv
  <1>3. KernelOK'
    <2>1. kernel \in Seq(1 .. MaxHandle) /\ MaxHandle \in Nat
      BY <1>1, BoundsAssumption DEF TInv, KernelOK
    <2>2. kernel \in Seq(1 .. MaxHandle + Len(b))
      BY <1>2, <2>1, SeqMonotonic
    <2> QED
      BY <1>1, <2>1, <2>2 DEF TInv, KernelOK
  <1>4. IdsOK'
    BY <1>1 DEF TInv, IdsOK
  <1>5. MsgsOK'
    BY <1>1, <1>2, EmptySeq DEF MsgsOK
  <1> QED
    BY <1>1, <1>2, <1>3, <1>4, <1>5 DEF TInv, CacheOK, MeantOK

LEMMA LoadTypes == TInv /\ Load => TInv'
  <1> SUFFICES ASSUME TInv, Load PROVE TInv'
    OBVIOUS
  <1>1. /\ stage = "load" /\ stage' = "evaluate"
        /\ cache' = IF NeedsUpdate(cmds) THEN Old(kernel) ELSE <<>>
        /\ meant' = <<Old(kernel)>>
        /\ UNCHANGED <<kernel, top, cmds, next, msgs, ids, ref_id, result, sent, ret>>
    BY DEF Load
  <1>2. /\ kernel \in Seq(1 .. MaxHandle) /\ next = 1 /\ Len(cmds) \in Nat /\ sent = 0
        /\ \A j \in DOMAIN kernel : kernel[j] = j
    BY <1>1, CommandsAre DEF TInv, KernelOK, MsgsOK
  <1>3. /\ Old(kernel) \in Seq(Known(Len(cmds))) /\ Len(Old(kernel)) = Len(kernel)
        /\ \A j \in 1 .. Len(kernel) : Old(kernel)[j] = Rule(kernel[j], 0)
    BY <1>2, OldIsKnown
  <1>4. Distinct(Old(kernel)) /\ \A j \in DOMAIN Old(kernel) : Old(kernel)[j].cmd < 1
    <2>1. DOMAIN Old(kernel) = 1 .. Len(kernel) /\ DOMAIN kernel = 1 .. Len(kernel)
      BY <1>2, <1>3
    <2>2. \A j \in 1 .. Len(kernel) : Old(kernel)[j].handle = j /\ Old(kernel)[j].cmd = 0
      BY <1>2, <1>3, <2>1 DEF Rule
    <2> QED
      BY <2>1, <2>2 DEF Distinct
  <1>5. CacheOK'
    <2>1. CASE NeedsUpdate(cmds)
      BY <1>1, <1>2, <1>3, <1>4, <2>1 DEF CacheOK
    <2>2. CASE ~NeedsUpdate(cmds)
      <3>1. cache' = <<>> /\ <<>> \in Seq(Known(Len(cmds))) /\ DOMAIN <<>> = {}
        BY <1>1, <2>2, EmptySeq
      <3> QED
        BY <1>1, <3>1 DEF CacheOK, Distinct
    <2> QED
      BY <2>1, <2>2
  <1>6. MeantOK'
    <2>1. Old(kernel) \in Chains
      BY <1>3 DEF Chains
    <2> QED
      BY <1>1, <1>2, <2>1 DEF MeantOK, Chains
  <1>7. KernelOK' /\ IdsOK' /\ MsgsOK'
    BY <1>1, <1>2 DEF TInv, KernelOK, IdsOK, MsgsOK, MsgOK
  <1> QED
    BY <1>1, <1>2, <1>5, <1>6, <1>7 DEF TInv

(* The part all evaluations share.                                         *)
LEMMA EvaluateTypes ==
    ASSUME TInv, stage = "evaluate", next <= Len(cmds), NEW m, Evaluate(m),
           IdsOK', ref_id <= ref_id', MsgOK(m, cmds[next], ref_id'), CacheOK'
    PROVE  TInv'
  <1>1. /\ msgs' = Append(msgs, m) /\ next' = next + 1 /\ meant' = Meant(next)
        /\ UNCHANGED <<kernel, top, stage, cmds, alone, result, sent, ret>>
    BY DEF Evaluate
  <1>2. /\ Len(cmds) \in Nat /\ next \in 1 .. Len(cmds) /\ Len(msgs) = next - 1
        /\ ref_id \in Nat /\ ref_id' \in Nat
    BY CommandsAre DEF TInv, MsgsOK, IdsOK
  <1>3. MsgsOK'
    <2> DEFINE M == [position : Nat, position_id : 0 .. ref_id]
               N == [position : Nat, position_id : 0 .. ref_id']
    <2>1. M \subseteq N
      BY <1>2
    <2>2. msgs \in Seq(M) /\ \A i \in 1 .. next - 1 : MsgOK(msgs[i], cmds[i], ref_id)
      BY DEF TInv, MsgsOK
    <2>3. msgs \in Seq(N)
      BY <2>1, <2>2, SeqMonotonic
    <2>4. m \in N /\ MsgOK(m, cmds[next], ref_id')
      BY <1>1 DEF MsgOK
    <2> HIDE DEF M, N
    <2>5. /\ msgs' \in Seq(N) /\ Len(msgs') = next
          /\ \A i \in 1 .. next - 1 : msgs'[i] = msgs[i]
          /\ msgs'[next] = m
      BY <1>1, <1>2, <2>3, <2>4, AppendProperties
    <2>6. ASSUME NEW i \in 1 .. next - 1
          PROVE  MsgOK(msgs'[i], cmds[i], ref_id')
      <3>1. MsgOK(msgs[i], cmds[i], ref_id)
        BY <2>2
      <3>2. msgs[i] \in N
        BY <2>1, <3>1 DEF MsgOK, M
      <3> QED
        BY <1>2, <2>5, <3>1, <3>2 DEF MsgOK, N
    <2>7. \A i \in 1 .. (next + 1) - 1 : MsgOK(msgs'[i], cmds[i], ref_id')
      BY <1>2, <2>4, <2>5, <2>6
    <2> QED
      BY <1>1, <1>2, <2>5, <2>7 DEF MsgsOK, N
  <1>4. MeantOK'
    <2>1. meant \in Seq(Chains) /\ Len(meant) = next
      BY DEF TInv, MeantOK
    <2>2. meant[next] \in Chains
      BY <1>2, <2>1
    <2>3. Carry(meant[next], next, MeantPlaces(meant[next], cmds[next])) \in Chains
      <3>1. CASE meant[next] = Refused
        BY <1>2, <2>2, <3>1, ChainsCarried DEF TInv
      <3>2. CASE meant[next] \in Seq(Known(Len(cmds)))
        BY <1>2, <2>2, <3>2, MeantPlacesType, ChainsCarried DEF TInv, PlacesFit
      <3> QED
        BY <2>2, <3>1, <3>2 DEF Chains
    <2>4. meant' \in Seq(Chains) /\ Len(meant') = next + 1
      BY <1>1, <2>1, <2>3, AppendProperties DEF Meant
    <2> QED
      BY <1>1, <2>4 DEF MeantOK, Chains
  <1>5. KernelOK'
    BY <1>1 DEF TInv, KernelOK
  <1> QED
    BY <1>1, <1>3, <1>4, <1>5 DEF TInv

(* A new rule in the cache, at a place that is there.                      *)
LEMMA CachePut ==
    ASSUME TInv, stage = "evaluate", next <= Len(cmds), NEW at \in 0 .. Len(cache),
           cmds[next].op = "REPLACE" => at # 0 /\ cache[at].handle = cmds[next].n,
           cache' = Put(cache, cmds[next].op, at, NewRule(next)),
           UNCHANGED <<stage, cmds>>, next' = next + 1
    PROVE  CacheOK' /\ Handles(cache') = Handles(cache)
  <1>1. /\ Len(cmds) \in Nat /\ next \in 1 .. Len(cmds) /\ MaxHandle \in Nat
        /\ cache \in Seq(Known(Len(cmds))) /\ Distinct(cache)
        /\ \A j \in DOMAIN cache : cache[j].cmd < next
    BY CommandsAre, BoundsAssumption DEF TInv, MsgsOK, CacheOK
  <1>2. /\ NewRule(next).cmd = next
        /\ NewRule(next).handle = IF cmds[next].op = "REPLACE" THEN cmds[next].n ELSE 0
    BY DEF NewRule, Rule
  <1>3. NewRule(next) \in Known(Len(cmds))
    <2>1. \A j \in 1 .. Len(cache) : cache[j].handle \in 0 .. MaxHandle
      BY <1>1, ElementOfSeq DEF Known
    <2>3. cmds[next].op = "REPLACE" => at \in 1 .. Len(cache)
      BY <1>1
    <2>2. NewRule(next).handle \in 0 .. MaxHandle
      BY <1>1, <1>2, <2>1, <2>3
    <2> QED
      BY <1>1, <2>2 DEF NewRule, Rule, Known
  <1>4. /\ cache' \in Seq(Known(Len(cmds))) /\ Distinct(cache')
        /\ \A j \in DOMAIN cache' : cache'[j].cmd < next + 1
        /\ Handles(cache') = Handles(cache)
    BY <1>1, <1>2, <1>3, PutProperties
  <1> QED
    BY <1>4 DEF CacheOK

LEMMA EvaluateOtherTypes == TInv /\ EvaluateOther => TInv'
  <1> SUFFICES ASSUME TInv, EvaluateOther PROVE TInv'
    OBVIOUS
  <1>1. /\ stage = "evaluate" /\ next <= Len(cmds) /\ Evaluate(ByItsHandle(cmds[next]))
        /\ UNCHANGED <<cache, ids, ref_id>>
    BY DEF EvaluateOther
  <1>2. /\ Len(cmds) \in Nat /\ next \in 1 .. Len(cmds) /\ ref_id \in Nat
        /\ UNCHANGED <<stage, cmds>> /\ next' = next + 1
    BY <1>1, CommandsAre DEF TInv, MsgsOK, IdsOK, Evaluate
  <1>3. IdsOK'
    BY <1>1, <1>2 DEF TInv, IdsOK
  <1>4. CacheOK'
    <2>1. \A j \in DOMAIN cache : cache[j].cmd \in 0 .. Len(cmds)
      BY <1>1, <1>2, ElementOfSeq DEF TInv, CacheOK, Known
    <2> QED
      BY <1>1, <1>2, <2>1 DEF TInv, CacheOK
  <1>5. MsgOK(ByItsHandle(cmds[next]), cmds[next], ref_id')
    <2>1. cmds[next] \in Command
      BY <1>2, CommandsAre DEF TInv
    <2> QED
      BY <1>1, <1>2, <2>1 DEF MsgOK, ByItsHandle, NoPlace, Command
  <1> QED
    BY <1>1, <1>2, <1>3, <1>4, <1>5, EvaluateTypes

LEMMA EvaluateEndTypes == TInv /\ EvaluateEnd => TInv'
  <1> SUFFICES ASSUME TInv, EvaluateEnd PROVE TInv'
    OBVIOUS
  <1>1. /\ stage = "evaluate" /\ next <= Len(cmds) /\ Evaluate(NoPlace)
        /\ cmds[next].op \in {"ADD", "INSERT"} /\ cmds[next].how # "handle"
        /\ cache' = Put(cache, cmds[next].op, 0, NewRule(next))
        /\ UNCHANGED <<ids, ref_id>>
    BY DEF EvaluateEnd, Refers
  <1>2. /\ ref_id \in Nat /\ UNCHANGED <<stage, cmds>> /\ next' = next + 1
        /\ cache \in Seq(Known(Len(cmds)))
    BY <1>1 DEF TInv, MsgsOK, IdsOK, CacheOK, Evaluate
  <1>3. IdsOK'
    BY <1>1, <1>2 DEF TInv, IdsOK
  <1>4. CacheOK'
    BY <1>1, <1>2, CachePut
  <1>5. MsgOK(NoPlace, cmds[next], ref_id')
    BY <1>1, <1>2 DEF MsgOK, NoPlace
  <1> QED
    BY <1>1, <1>2, <1>3, <1>4, <1>5, EvaluateTypes

(* What EvaluateRef does, in parts; at is where the rule is found.         *)
LEMMA EvaluateRefParts ==
    ASSUME TInv, EvaluateRef
    PROVE  /\ stage = "evaluate" /\ NeedsUpdate(cmds) /\ next \in 1 .. Len(cmds)
           /\ UNCHANGED <<stage, cmds>> /\ next' = next + 1 /\ meant' = Meant(next)
           /\ cmds[next].op \in {"ADD", "INSERT", "REPLACE"} /\ Refers(cmds[next])
           /\ \E at \in Lookup(cache, cmds[next]) :
                /\ at \in 1 .. Len(cache)
                /\ cmds[next].how = "handle" => cache[at].handle = cmds[next].n
                /\ cache[at] \in Known(Len(cmds)) /\ cache[at].cmd < next
                /\ cache' = Put(cache, cmds[next].op, at, NewRule(next))
                /\ IF cmds[next].how = "index" /\ cache[at].handle = 0 /\ ~HasId(cache[at])
                   THEN /\ ids' = [ids EXCEPT ![cache[at].cmd] = NextId]
                        /\ ref_id' = NextId
                   ELSE UNCHANGED <<ids, ref_id>>
                /\ Evaluate(IF cmds[next].how = "index" THEN Link(cache[at])
                                                        ELSE ByItsHandle(cmds[next]))
  <1>1. /\ stage = "evaluate" /\ NeedsUpdate(cmds) /\ next <= Len(cmds)
        /\ cmds[next].op \in {"ADD", "INSERT", "REPLACE"} /\ Refers(cmds[next])
    BY DEF EvaluateRef
  <1>2. PICK at \in Lookup(cache, cmds[next]) :
          /\ cache' = Put(cache, cmds[next].op, at, NewRule(next))
          /\ ids' = IF cmds[next].how = "index" /\ cache[at].handle = 0 /\ ~HasId(cache[at])
                    THEN [ids EXCEPT ![cache[at].cmd] = NextId] ELSE ids
          /\ ref_id' = IF cmds[next].how = "index" /\ cache[at].handle = 0 /\ ~HasId(cache[at])
                       THEN NextId ELSE ref_id
          /\ Evaluate(IF cmds[next].how = "index" THEN Link(cache[at])
                                                  ELSE ByItsHandle(cmds[next]))
    BY DEF EvaluateRef
  <1>3. /\ cache \in Seq(Known(Len(cmds))) /\ \A j \in DOMAIN cache : cache[j].cmd < next
        /\ next \in 1 .. Len(cmds)
    BY <1>1, CommandsAre DEF TInv, CacheOK, MsgsOK
  <1>4. at \in 1 .. Len(cache) /\ (cmds[next].how = "handle" => cache[at].handle = cmds[next].n)
    BY <1>2, <1>3 DEF Lookup
  <1>5. cache[at] \in Known(Len(cmds)) /\ cache[at].cmd < next
    BY <1>3, <1>4
  <1>6. UNCHANGED <<stage, cmds>> /\ next' = next + 1 /\ meant' = Meant(next)
    BY <1>2 DEF Evaluate
  <1> QED
    BY <1>1, <1>2, <1>3, <1>4, <1>5, <1>6

(* The identifiers stay apart, and old ones stay.                          *)
LEMMA NewIds ==
    ASSUME IdsOK, UNCHANGED cmds, NEW k \in DOMAIN cmds,
           \/ UNCHANGED <<ids, ref_id>>
           \/ ids[k] = 0 /\ ids' = [ids EXCEPT ![k] = NextId] /\ ref_id' = NextId
    PROVE  /\ IdsOK' /\ ref_id <= ref_id' /\ ref_id \in Nat
           /\ \A j \in DOMAIN cmds, p \in 1 .. ref_id : ids'[j] = p <=> ids[j] = p
  <1>1. ref_id \in Nat /\ ids \in [DOMAIN cmds -> 0 .. ref_id] /\ DOMAIN ids = DOMAIN cmds
        /\ (\A i, j \in DOMAIN ids : i # j => ids[i] # ids[j] \/ ids[i] = 0)
        /\ \A i \in DOMAIN cmds : ids[i] \in 0 .. ref_id
    BY DEF IdsOK
  <1>2. CASE UNCHANGED <<ids, ref_id>>
    BY <1>1, <1>2 DEF IdsOK
  <1>3. CASE ids[k] = 0 /\ ids' = [ids EXCEPT ![k] = NextId] /\ ref_id' = NextId
    <2>1. /\ ref_id' = ref_id + 1 /\ DOMAIN ids' = DOMAIN cmds
          /\ \A i \in DOMAIN cmds : ids'[i] = IF i = k THEN ref_id + 1 ELSE ids[i]
      BY <1>1, <1>3 DEF NextId
    <2>2. \A i \in DOMAIN cmds : ids'[i] \in 0 .. ref_id + 1
      BY <1>1, <2>1
    <2>3. ids' \in [DOMAIN cmds -> 0 .. ref_id + 1]
      BY <1>1, <1>3 DEF NextId
    <2>4. \A i, j \in DOMAIN cmds : i # j => ids'[i] # ids'[j] \/ ids'[i] = 0
      BY <1>1, <2>1
    <2> QED
      BY <1>1, <1>3, <2>1, <2>3, <2>4 DEF IdsOK
  <1> QED
    BY <1>2, <1>3

LEMMA EvaluateRefTypes == TInv /\ EvaluateRef => TInv'
  <1> SUFFICES ASSUME TInv, EvaluateRef PROVE TInv'
    OBVIOUS
  <1>1. /\ stage = "evaluate" /\ next \in 1 .. Len(cmds) /\ UNCHANGED <<stage, cmds>> /\ next' = next + 1
        /\ cmds[next].op \in {"ADD", "INSERT", "REPLACE"} /\ Refers(cmds[next])
    BY EvaluateRefParts
  <1>2. PICK at \in 1 .. Len(cache) :
          /\ cmds[next].how = "handle" => cache[at].handle = cmds[next].n
          /\ cache[at] \in Known(Len(cmds)) /\ cache[at].cmd < next
          /\ cache' = Put(cache, cmds[next].op, at, NewRule(next))
          /\ IF cmds[next].how = "index" /\ cache[at].handle = 0 /\ ~HasId(cache[at])
             THEN /\ ids' = [ids EXCEPT ![cache[at].cmd] = NextId]
                  /\ ref_id' = NextId
             ELSE UNCHANGED <<ids, ref_id>>
          /\ Evaluate(IF cmds[next].how = "index" THEN Link(cache[at])
                                                  ELSE ByItsHandle(cmds[next]))
    BY EvaluateRefParts
  <1>3. /\ Len(cmds) \in Nat /\ DOMAIN cmds = 1 .. Len(cmds) /\ IdsOK
        /\ cmds[next] \in Command /\ MaxHandle \in Nat
        /\ cmds[next].op = "REPLACE" => cmds[next].how = "handle"
        /\ cmds[next].how \in {"index", "handle"}
    BY <1>1, CommandsAre, BoundsAssumption DEF TInv, Refers, IndexId
  <1>4. cache[at].handle = 0 => cache[at].cmd \in DOMAIN cmds
    BY <1>2, <1>3 DEF Known
  <1>5. IdsOK' /\ ref_id <= ref_id'
    <2>1. CASE cmds[next].how = "index" /\ cache[at].handle = 0 /\ ~HasId(cache[at])
      BY <1>1, <1>2, <1>3, <1>4, <2>1, NewIds DEF HasId
    <2>2. CASE UNCHANGED <<ids, ref_id>>
      BY <1>1, <1>3, <2>2, NewIds
    <2> QED
      BY <1>2, <2>1, <2>2
  <1>6. CacheOK'
    <2>1. cache \in Seq(Known(Len(cmds)))
      BY <1>1 DEF TInv, CacheOK
    <2>2. at \in 0 .. Len(cache) /\ at # 0
      BY <2>1
    <2> QED
      BY <1>1, <1>2, <1>3, <2>2, CachePut
  <1>7. MsgOK(IF cmds[next].how = "index" THEN Link(cache[at]) ELSE ByItsHandle(cmds[next]),
              cmds[next], ref_id')
    <2>1. CASE cmds[next].how = "index"
      <3>1. CASE cache[at].handle # 0
        <4>1. Link(cache[at]) = [position |-> cache[at].handle, position_id |-> 0]
          BY <3>1 DEF Link
        <4>2. cache[at].handle \in Nat /\ ref_id' \in Nat
          BY <1>2, <1>3, <1>5 DEF Known, IdsOK
        <4> QED
          BY <2>1, <4>1, <4>2 DEF MsgOK
      <3>2. CASE cache[at].handle = 0
        <4>1. Link(cache[at]) = [position |-> 0, position_id |-> ids'[cache[at].cmd]]
          BY <3>2 DEF Link
        <4>2. ids'[cache[at].cmd] \in 0 .. ref_id'
          BY <1>1, <1>4, <1>5, <3>2 DEF IdsOK
        <4> QED
          BY <2>1, <4>1, <4>2 DEF MsgOK
      <3> QED
        BY <3>1, <3>2
    <2>2. CASE cmds[next].how = "handle"
      <3>1. cmds[next].n \in Nat /\ ref_id' \in Nat
        BY <1>3, <1>5 DEF Command, IdsOK
      <3>2. ByItsHandle(cmds[next]) = [position |-> cmds[next].n, position_id |-> 0]
        BY <2>2 DEF ByItsHandle, NoPlace
      <3> QED
        BY <2>2, <3>1, <3>2 DEF MsgOK
    <2> QED
      BY <1>3, <2>1, <2>2
  <1> DEFINE m == IF cmds[next].how = "index" THEN Link(cache[at]) ELSE ByItsHandle(cmds[next])
  <1>8. Evaluate(m) /\ MsgOK(m, cmds[next], ref_id') /\ next <= Len(cmds)
    BY <1>1, <1>2, <1>3, <1>7
  <1> HIDE DEF m
  <1> QED
    BY <1>1, <1>5, <1>6, <1>8, EvaluateTypes

LEMMA ApplyTypes == TInv /\ Apply => TInv'
  <1> SUFFICES ASSUME TInv, Apply PROVE TInv'
    OBVIOUS
  <1>1. /\ stage = "commit" /\ sent < Len(cmds) /\ sent' = sent + 1
        /\ result' = Carry(result, sent + 1, Said(result, msgs[sent + 1]))
        /\ UNCHANGED <<kernel, top, stage, cmds, cache, next, msgs, ids, ref_id, meant, alone, ret>>
    BY DEF Apply
  <1>2. /\ Len(cmds) \in Nat /\ sent \in Nat /\ sent + 1 \in 1 .. Len(cmds)
        /\ result \in Chains /\ MsgOK(msgs[sent + 1], cmds[sent + 1], ref_id)
    BY <1>1, CommandsAre DEF TInv, MsgsOK
  <1>3. result' \in Chains
    <2> DEFINE i == sent + 1
               at == Said(result, msgs[i])
    <2>1. cmds \in Batches \cup {<<>>} /\ i \in 1 .. Len(cmds)
      BY <1>2 DEF TInv
    <2>2. result # Refused => result \in Seq(Known(Len(cmds)))
      BY <1>2 DEF Chains
    <2>3. MsgOK(msgs[i], cmds[i], ref_id)
      BY <1>2
    <2> HIDE DEF i
    <2>4. result # Refused => PlacesFit(result, cmds[i], at)
      <3> SUFFICES ASSUME result # Refused PROVE PlacesFit(result, cmds[i], at)
        OBVIOUS
      <3>1. Len(cmds) \in Nat /\ result \in Seq(Known(Len(cmds)))
        BY <1>2, <2>2
      <3> DEFINE n == Len(cmds)
                 m == msgs[i]
      <3>2. n \in Nat /\ result \in Seq(Known(n)) /\ MsgOK(m, cmds[i], ref_id)
        BY <2>3, <3>1
      <3> HIDE DEF n, m
      <3>3. PlacesFit(result, cmds[i], Said(result, m))
        BY ONLY <2>1, <3>2, SaidType
      <3> QED
        BY ONLY <3>3 DEF at, m
    <2> HIDE DEF at
    <2>5. Carry(result, i, at) \in Chains
      BY <1>2, <2>1, <2>4, ChainsCarried
    <2> QED
      BY <1>1, <2>5 DEF i, at
  <1>4. KernelOK' /\ IdsOK' /\ MsgsOK' /\ CacheOK' /\ MeantOK'
    BY <1>1 DEF TInv, KernelOK, IdsOK, MsgsOK, MsgOK, CacheOK, MeantOK, Chains
  <1> QED
    BY <1>1, <1>2, <1>3, <1>4 DEF TInv, Chains

LEMMA SendDoneTypes == TInv /\ SendDone => TInv'
  <1> SUFFICES ASSUME TInv, SendDone PROVE TInv'
    OBVIOUS
  <1>1. /\ stage = "commit" /\ stage' = "done" /\ ret' = "done" /\ result # Refused
        /\ kernel' = [j \in DOMAIN result |->
              IF result[j].handle # 0 THEN result[j].handle ELSE top + result[j].cmd]
        /\ top' = top + Len(cmds)
        /\ UNCHANGED <<cmds, cache, next, msgs, ids, ref_id, meant, alone, result, sent>>
    BY DEF SendDone, End
  <1>2. /\ Len(cmds) \in Nat /\ top \in Nat /\ top <= MaxHandle /\ MaxHandle \in Nat
        /\ result \in Seq(Known(Len(cmds)))
    BY <1>1, CommandsAre, BoundsAssumption DEF TInv, KernelOK, Chains
  <1>3. kernel' \in Seq(1 .. MaxHandle + Len(cmds))
    <2>1. Len(result) \in Nat /\ DOMAIN result = 1 .. Len(result)
      BY <1>2
    <2>2. \A j \in 1 .. Len(result) : result[j] \in Known(Len(cmds))
      BY <1>2
    <2>3. \A j \in 1 .. Len(result) :
            (IF result[j].handle # 0 THEN result[j].handle ELSE top + result[j].cmd)
               \in 1 .. MaxHandle + Len(cmds)
      BY <1>2, <2>2 DEF Known
    <2>4. kernel' \in [1 .. Len(result) -> 1 .. MaxHandle + Len(cmds)]
      BY <1>1, <2>1, <2>3
    <2>5. kernel' \in UNION {[1 .. n -> 1 .. MaxHandle + Len(cmds)] : n \in Nat}
      BY <2>1, <2>4
    <2> QED
      BY <2>5, SeqDef
  <1>4. KernelOK'
    BY <1>1, <1>2, <1>3 DEF KernelOK
  <1>5. IdsOK' /\ MsgsOK' /\ CacheOK' /\ MeantOK'
    BY <1>1 DEF TInv, IdsOK, MsgsOK, MsgOK, CacheOK, MeantOK
  <1> QED
    BY <1>1, <1>4, <1>5 DEF TInv

LEMMA SendTypes == TInv /\ Send => TInv'
  <1> SUFFICES ASSUME TInv, Send PROVE TInv'
    OBVIOUS
  <1>1. /\ stage = "send" /\ stage' = "commit" /\ result' = Old(kernel)
        /\ UNCHANGED <<kernel, top, cmds, cache, next, msgs, ids, ref_id, meant, alone, sent, ret>>
    BY DEF Send
  <1>2. kernel \in Seq(1 .. MaxHandle) /\ Len(cmds) \in Nat
    BY <1>1, CommandsAre DEF TInv, KernelOK
  <1>3. result' \in Chains
    BY <1>1, <1>2, OldIsKnown DEF Chains
  <1>4. KernelOK' /\ IdsOK' /\ MsgsOK' /\ CacheOK' /\ MeantOK'
    BY <1>1 DEF TInv, KernelOK, IdsOK, MsgsOK, MsgOK, CacheOK, MeantOK, Chains
  <1> QED
    BY <1>1, <1>3, <1>4 DEF TInv, Chains

(* Steps that only change the stage, and what the commands mean.           *)
LEMMA OtherTypes ==
    TInv /\ (EvaluateFails \/ EvaluateDone \/ SendFails \/ UNCHANGED vars) => TInv'
  <1> SUFFICES ASSUME TInv, EvaluateFails \/ EvaluateDone \/ SendFails \/ UNCHANGED vars
               PROVE  TInv'
    OBVIOUS
  <1>1. CASE EvaluateFails
    <2>1. /\ stage = "evaluate" /\ stage' = "done" /\ ret' = "rejected"
          /\ UNCHANGED <<kernel, top, cmds, cache, next, msgs, ids, ref_id, alone, result, sent>>
      BY <1>1 DEF EvaluateFails, End
    <2>2. KernelOK' /\ IdsOK' /\ MsgsOK' /\ CacheOK' /\ MeantOK'
      BY <2>1 DEF TInv, KernelOK, IdsOK, MsgsOK, MsgOK, CacheOK, MeantOK
    <2> QED
      BY <2>1, <2>2 DEF TInv
  <1>2. CASE EvaluateDone
    <2>1. /\ stage = "evaluate" /\ stage' = "send" /\ next > Len(cmds)
          /\ UNCHANGED <<kernel, top, cmds, cache, next, msgs, ids, ref_id, meant, alone, result,
                         sent, ret>>
      BY <1>2 DEF EvaluateDone
    <2>2. next = Len(cmds) + 1
      BY <2>1, CommandsAre DEF TInv, MsgsOK
    <2>3. KernelOK' /\ IdsOK' /\ MsgsOK' /\ CacheOK' /\ MeantOK'
      BY <2>1, <2>2 DEF TInv, KernelOK, IdsOK, MsgsOK, MsgOK, CacheOK, MeantOK, Chains
    <2> QED
      BY <2>1, <2>3 DEF TInv
  <1>3. CASE SendFails
    <2>1. /\ stage = "commit" /\ stage' = "done" /\ ret' = "refused"
          /\ UNCHANGED <<kernel, top, cmds, cache, next, msgs, ids, ref_id, meant, alone, result,
                         sent>>
      BY <1>3 DEF SendFails, End
    <2>2. KernelOK' /\ IdsOK' /\ MsgsOK' /\ CacheOK' /\ MeantOK'
      BY <2>1 DEF TInv, KernelOK, IdsOK, MsgsOK, MsgOK, CacheOK, MeantOK
    <2> QED
      BY <2>1, <2>2 DEF TInv
  <1>4. CASE UNCHANGED vars
    BY <1>4 DEF vars, TInv, KernelOK, IdsOK, MsgsOK, MsgOK, CacheOK, MeantOK, Chains
  <1> QED
    BY <1>1, <1>2, <1>3, <1>4

LEMMA NextTypes == TInv /\ [Next]_vars => TInv'
  <1> SUFFICES ASSUME TInv, [Next]_vars PROVE TInv'
    OBVIOUS
  <1>1. ASSUME NEW b \in Batches, Run(b) PROVE TInv'
    BY <1>1, RunTypes
  <1>2. CASE Done
    BY <1>2, OtherTypes DEF Done
  <1> QED
    BY <1>1, <1>2, CommitTypes, LoadTypes, EvaluateOtherTypes, EvaluateEndTypes, EvaluateRefTypes,
       OtherTypes, SendTypes, ApplyTypes, SendDoneTypes DEF Next

(* The types of the variables with what is known of the messages and the   *)
(* identifiers: the invariant the proofs about indices start from.         *)
THEOREM Typed == Spec => []TInv
  BY InitTypes, NextTypes, PTL DEF Spec

(* The type invariant: handles and identifiers stay in their ranges, and   *)
(* no two rules of a batch have the same identifier (evaluate.c:3938).     *)
THEOREM Typing == Spec => []TypeOK
  <1>1. TInv => TypeOK
    <2> SUFFICES ASSUME TInv PROVE TypeOK
      OBVIOUS
    <2>1. /\ kernel \in Seq(1 .. MaxHandle + Len(cmds)) /\ top \in Nat
          /\ stage \in {"idle", "load", "evaluate", "send", "commit", "done"}
          /\ cmds \in Batches \cup {<<>>}
          /\ ret \in {"none", "rejected", "refused", "done"}
      BY DEF TInv, KernelOK
    <2>2. /\ next \in 1 .. Len(cmds) + 1 /\ Len(msgs) = next - 1
          /\ \A i \in DOMAIN msgs : msgs[i].position = 0 \/ msgs[i].position_id = 0
      BY CommandsAre DEF TInv, MsgsOK, MsgOK
    <2>3. /\ \A i, j \in DOMAIN ids : i # j => ids[i] # ids[j] \/ ids[i] = 0
          /\ \A i \in DOMAIN ids : ids[i] \in 0 .. ref_id
      BY DEF TInv, IdsOK
    <2> QED
      BY <2>1, <2>2, <2>3 DEF TypeOK
  <1> QED
    BY <1>1, Typed, PTL

-----------------------------------------------------------------------------
(* Meaning.  The batches of which it is shown: no rule is replaced behind  *)
(* an index, where cache_evaluate() forgets the index (cache.c:131); no    *)
(* index is the largest one, which wraps to none (parser_bison.y:2585); no *)
(* index counts behind a removal, which the cache does not follow          *)
(* (evaluate.c:4313).                                                      *)
NoLateReplace == \A b \in Batches : \A i, k \in DOMAIN b :
                    b[i].how = "index" /\ k > i => b[k].op # "REPLACE"
NoWrap        == \A b \in Batches : \A i \in DOMAIN b : b[i].how = "index" => b[i].n + 1 < Width
RemovalsLast  == \A b \in Batches : \A i, k \in DOMAIN b :
                    b[i].op \in {"DELETE", "FLUSH"} /\ k > i => b[k].how # "index"

(* Carry and Said, of any command and with any identifiers.                *)
CarryOf(L, c, i, at) ==
    IF L = Refused \/ (c.op # "FLUSH" /\ at = {}) THEN Refused
    ELSE IF c.op = "FLUSH" THEN <<>>
    ELSE LET j == CHOOSE k \in at : TRUE
         IN  IF c.op = "DELETE" THEN RemoveAt(L, j)
             ELSE Put(L, c.op, j, Rule(IF c.op = "REPLACE" THEN c.n ELSE 0, i))

SaidOf(L, m, d) ==
    IF m = NoPlace THEN {0}
    ELSE {j \in DOMAIN L : \/ m.position # 0 /\ L[j].handle = m.position
                           \/ m.position_id # 0 /\ L[j].cmd # 0 /\ d[L[j].cmd] = m.position_id}

LEMMA CarryIs == \A L, i, at : Carry(L, i, at) = CarryOf(L, cmds[i], i, at)
  BY DEF Carry, CarryOf, NewRule

LEMMA SaidIs == \A L, m : Said(L, m) = SaidOf(L, m, ids)
  BY DEF Said, SaidOf, Places

AfterIt(L, c, i) == CarryOf(L, c, i, MeantPlaces(L, c))

(* What has been evaluated: each command leaves the chain it means, and    *)
(* its message finds in that chain the places it means; until rules are    *)
(* removed, the cache is the chain that the commands so far have made.     *)
Removed == \E i \in 1 .. next - 1 : cmds[i].op \in {"DELETE", "FLUSH"}

History == \A i \in 1 .. next - 1 : meant[i + 1] = AfterIt(meant[i], cmds[i], i)

SaysIt == \A i \in 1 .. next - 1 :
             meant[i] # Refused => SaidOf(meant[i], msgs[i], ids) = MeantPlaces(meant[i], cmds[i])

CacheIs == stage = "evaluate" /\ NeedsUpdate(cmds) =>
              /\ ~Removed => cache = meant[next]
              /\ meant[next] # Refused => Handles(meant[next]) \subseteq Handles(cache)

Begins == stage \in {"evaluate", "send"} /\ alone => meant[1] = Old(kernel)

Follows == stage = "commit" /\ alone => result = meant[sent + 1]

Ends == stage = "done" /\ alone =>
           IF ret = "done" THEN result = Last(meant) ELSE Last(meant) = Refused

MInv == /\ stage \in {"evaluate", "send", "commit"} => History /\ SaysIt
        /\ CacheIs /\ Begins /\ Follows /\ Ends

(* What the assumptions say of the command evaluated.                      *)
LEMMA IndexNumber ==
    ASSUME NoLateReplace, NoWrap, TInv, next \in 1 .. Len(cmds), cmds[next].how = "index"
    PROVE  /\ IndexId(cmds[next]) = cmds[next].n + 1 /\ cmds[next].n \in Nat
           /\ cmds[next].op \in {"ADD", "INSERT"} /\ NeedsUpdate(cmds)
           /\ cmds \in Batches /\ DOMAIN cmds = 1 .. Len(cmds) /\ Len(cmds) \in Nat
  <1>1. /\ cmds \in Batches /\ DOMAIN cmds = 1 .. Len(cmds) /\ Len(cmds) \in Nat
        /\ cmds[next] \in Command /\ cmds[next].op \in {"ADD", "INSERT"}
    <2>1. cmds # <<>>
      OBVIOUS
    <2>2. cmds[next] \in Command /\ cmds[next].op \notin {"REPLACE", "DELETE", "FLUSH"}
      BY CommandsAre DEF TInv
    <2> QED
      BY <2>1, <2>2, CommandsAre DEF TInv, Command
  <1>2. cmds[next].n \in Nat /\ cmds[next].n + 1 < Width /\ Width \in Nat
    BY <1>1, BoundsAssumption DEF NoWrap, Command
  <1>3. IndexId(cmds[next]) = cmds[next].n + 1
    BY <1>2 DEF IndexId
  <1>4. NeedsUpdate(cmds)
    BY <1>1 DEF NoLateReplace, NeedsUpdate
  <1> QED
    BY <1>1, <1>2, <1>3, <1>4

LEMMA IndexCommand ==
    ASSUME NoLateReplace, NoWrap, RemovalsLast, TInv, next \in 1 .. Len(cmds), cmds[next].how = "index"
    PROVE  /\ IndexId(cmds[next]) = cmds[next].n + 1 /\ cmds[next].n \in Nat
           /\ NeedsUpdate(cmds) /\ ~Removed
  <1>1. ~Removed
    BY IndexNumber DEF RemovalsLast, Removed
  <1> QED
    BY <1>1, IndexNumber

(* The rule that is looked up is the one that is meant, and the only one.  *)
LEMMA LookupMeans ==
    ASSUME NoLateReplace, NoWrap, TInv, next \in 1 .. Len(cmds), Refers(cmds[next])
    PROVE  /\ \A L : Lookup(L, cmds[next]) = MeantPlaces(L, cmds[next])
           /\ \A L : Distinct(L) =>
                \A j, k \in MeantPlaces(L, cmds[next]) : j = k
  <1>1. cmds[next].how \in {"index", "handle"} /\ (cmds[next].how = "handle" => cmds[next].n # 0)
    BY CommandsAre DEF TInv, Refers, IndexId, Command
  <1>2. CASE cmds[next].how = "index"
    BY <1>2, IndexNumber DEF Lookup, MeantPlaces
  <1>3. CASE cmds[next].how = "handle"
    <2>1. \A L : Lookup(L, cmds[next]) = {j \in DOMAIN L : L[j].handle = cmds[next].n}
      BY <1>3 DEF Lookup
    <2>2. \A L : MeantPlaces(L, cmds[next]) = {j \in DOMAIN L : L[j].handle = cmds[next].n}
      BY <1>3 DEF MeantPlaces
    <2>3. ASSUME NEW L, Distinct(L), NEW j \in MeantPlaces(L, cmds[next]), NEW k \in MeantPlaces(L, cmds[next])
          PROVE  j = k
      <3>1. /\ j \in DOMAIN L /\ k \in DOMAIN L
            /\ L[j].handle = cmds[next].n /\ L[k].handle = cmds[next].n
        BY <2>2, <2>3
      <3> QED
        BY <1>1, <1>3, <2>3, <3>1 DEF Distinct
    <2>4. \A L : Lookup(L, cmds[next]) = MeantPlaces(L, cmds[next])
      BY <2>1, <2>2
    <2> QED
      BY <2>3, <2>4
  <1> QED
    BY <1>1, <1>2, <1>3

LEMMA PutIsMeant ==
    ASSUME NEW L, L # Refused, NEW i, NEW at, at \in MeantPlaces(L, cmds[i]),
           \A k \in MeantPlaces(L, cmds[i]) : k = at,
           cmds[i].op \notin {"DELETE", "FLUSH"}
    PROVE  AfterIt(L, cmds[i], i) = Put(L, cmds[i].op, at, NewRule(i))
  <1>1. (CHOOSE k \in MeantPlaces(L, cmds[i]) : TRUE) = at
    OBVIOUS
  <1>2. MeantPlaces(L, cmds[i]) # {}
    OBVIOUS
  <1> HIDE DEF MeantPlaces
  <1> QED
    BY <1>1, <1>2 DEF AfterIt, CarryOf, NewRule

LEMMA MeantGrows ==
    ASSUME TInv, stage = "evaluate", next <= Len(cmds), meant' = Meant(next)
    PROVE  /\ \A i \in 1 .. next : meant'[i] = meant[i]
           /\ meant'[next + 1] = AfterIt(meant[next], cmds[next], next)
           /\ Len(meant') = next + 1 /\ Last(meant') = meant'[next + 1]
  <1> DEFINE S == Chains \cup {AfterIt(meant[next], cmds[next], next)}
  <1>1. meant \in Seq(Chains) /\ Len(meant) = next
    BY DEF TInv, MeantOK
  <1>2. meant \in Seq(S)
    BY <1>1, SeqMonotonic
  <1>3. meant' = Append(meant, AfterIt(meant[next], cmds[next], next))
    BY CarryIs DEF Meant, AfterIt
  <1>4. AfterIt(meant[next], cmds[next], next) \in S
    OBVIOUS
  <1> HIDE DEF S
  <1>5. /\ Len(meant') = next + 1
        /\ \A i \in 1 .. next : meant'[i] = meant[i]
        /\ meant'[next + 1] = AfterIt(meant[next], cmds[next], next)
    BY <1>1, <1>2, <1>3, <1>4, AppendProperties
  <1> QED
    BY <1>5 DEF Last

(* New identifiers do not change what the messages so far say.             *)
LEMMA SaidStays ==
    ASSUME NEW n \in Nat, NEW L \in Seq(Known(n)), n = Len(cmds), DOMAIN cmds = 1 .. n,
           NEW m, NEW c, MsgOK(m, c, ref_id), ref_id \in Nat,
           \A j \in DOMAIN cmds, p \in 1 .. ref_id : ids'[j] = p <=> ids[j] = p
    PROVE  SaidOf(L, m, ids') = SaidOf(L, m, ids)
  <1>1. \A j \in DOMAIN L : L[j].cmd # 0 => L[j].cmd \in DOMAIN cmds
    BY ElementOfSeq DEF Known
  <1>2. m.position_id # 0 => m.position_id \in 1 .. ref_id
    BY DEF MsgOK
  <1>3. \A j \in DOMAIN L : m.position_id # 0 /\ L[j].cmd # 0 =>
            (ids'[L[j].cmd] = m.position_id <=> ids[L[j].cmd] = m.position_id)
    BY <1>1, <1>2
  <1> QED
    BY <1>3 DEF SaidOf

(* The part all evaluations share.                                         *)
LEMMA EvaluateMeans ==
    ASSUME TInv, MInv, TInv', stage = "evaluate", next <= Len(cmds), NEW m, Evaluate(m),
           \A j \in DOMAIN cmds, p \in 1 .. ref_id : ids'[j] = p <=> ids[j] = p,
           meant[next] # Refused =>
              SaidOf(meant[next], m, ids') = MeantPlaces(meant[next], cmds[next]),
           CacheIs'
    PROVE  MInv'
  <1>1. /\ msgs' = Append(msgs, m) /\ next' = next + 1 /\ meant' = Meant(next)
        /\ UNCHANGED <<kernel, top, stage, cmds, alone, result, sent, ret>>
    BY DEF Evaluate
  <1>2. /\ Len(cmds) \in Nat /\ DOMAIN cmds = 1 .. Len(cmds) /\ next \in 1 .. Len(cmds)
        /\ Len(msgs) = next - 1 /\ ref_id \in Nat
        /\ meant \in Seq(Chains) /\ Len(meant) = next
    BY CommandsAre DEF TInv, MsgsOK, IdsOK, MeantOK
  <1>3. /\ \A i \in 1 .. next : meant'[i] = meant[i]
        /\ meant'[next + 1] = AfterIt(meant[next], cmds[next], next)
    BY <1>1, MeantGrows
  <1>4. \A i \in 1 .. next - 1 : msgs'[i] = msgs[i]
    BY <1>1, <1>2, AppendProperties DEF TInv, MsgsOK
  <1>5. msgs'[next] = m
    BY <1>1, <1>2, AppendProperties DEF TInv, MsgsOK
  <1>6. History'
    <2>1. ASSUME NEW i \in 1 .. next
          PROVE  meant'[i + 1] = AfterIt(meant'[i], cmds[i], i)
      <3>1. CASE i = next
        BY <1>2, <1>3, <3>1
      <3>2. CASE i \in 1 .. next - 1
        <4>1. meant[i + 1] = AfterIt(meant[i], cmds[i], i)
          BY <3>2 DEF MInv, History
        <4>2. i + 1 \in 1 .. next /\ i \in 1 .. next
          BY <1>2, <3>2
        <4> QED
          BY <1>3, <4>1, <4>2
      <3> QED
        BY <1>2, <2>1, <3>1, <3>2
    <2>2. 1 .. next' - 1 = 1 .. next
      BY <1>1, <1>2
    <2> QED
      BY <1>1, <2>1, <2>2 DEF History
  <1>7. SaysIt'
    <2>1. ASSUME NEW i \in 1 .. next, meant'[i] # Refused
          PROVE  SaidOf(meant'[i], msgs'[i], ids') = MeantPlaces(meant'[i], cmds[i])
      <3>1. CASE i = next
        BY <1>2, <1>3, <1>5, <2>1, <3>1
      <3>2. CASE i \in 1 .. next - 1
        <4>1. meant'[i] = meant[i] /\ msgs'[i] = msgs[i]
          BY <1>2, <1>3, <1>4, <3>2
        <4>2. SaidOf(meant[i], msgs[i], ids) = MeantPlaces(meant[i], cmds[i])
          BY <2>1, <3>2, <4>1 DEF MInv, SaysIt
        <4>3. meant[i] \in Seq(Known(Len(cmds)))
          <5>1. meant[i] \in Chains
            BY <1>2, <3>2, ElementOfSeq
          <5> QED
            BY <2>1, <4>1, <5>1 DEF Chains
        <4>4. MsgOK(msgs[i], cmds[i], ref_id)
          BY <3>2 DEF TInv, MsgsOK
        <4>5. SaidOf(meant[i], msgs[i], ids') = SaidOf(meant[i], msgs[i], ids)
          BY <1>2, <4>3, <4>4, SaidStays
        <4> QED
          BY <4>1, <4>2, <4>5
      <3> QED
        BY <1>2, <2>1, <3>1, <3>2
    <2>2. 1 .. next' - 1 = 1 .. next
      BY <1>1, <1>2
    <2> QED
      BY <1>1, <2>1, <2>2 DEF SaysIt
  <1>8. Begins'
    BY <1>1, <1>2, <1>3 DEF MInv, Begins, Old
  <1>9. Follows' /\ Ends'
    BY <1>1 DEF Follows, Ends
  <1> QED
    BY <1>6, <1>7, <1>8, <1>9 DEF MInv

LEMMA ChainNow ==
    ASSUME TInv, stage = "evaluate"
    PROVE  /\ meant[next] = Refused \/ meant[next] \in Seq(Known(Len(cmds)))
           /\ cache \in Seq(Known(Len(cmds))) /\ cache # Refused /\ Distinct(cache)
           /\ Len(cmds) \in Nat
  <1>1. Len(cmds) \in Nat /\ next \in 1 .. Len(meant) /\ meant \in Seq(Chains)
    BY CommandsAre DEF TInv, MsgsOK, MeantOK
  <1>2. meant[next] \in Chains
    BY <1>1, ElementOfSeq
  <1>3. cache \in Seq(Known(Len(cmds))) /\ Distinct(cache)
    BY DEF TInv, CacheOK
  <1> QED
    BY <1>1, <1>2, <1>3, KnownIsNot DEF Chains

(* No command adds handles to the chain.                                   *)
LEMMA HandlesShrink ==
    ASSUME TInv, stage = "evaluate", next \in 1 .. Len(cmds)
    PROVE  LET C == AfterIt(meant[next], cmds[next], next)
           IN  C # Refused => /\ meant[next] # Refused
                              /\ Handles(C) \subseteq Handles(meant[next])
  <1> DEFINE L == meant[next]
             at == MeantPlaces(L, cmds[next])
  <1>1. CASE L = Refused
    BY <1>1 DEF AfterIt, CarryOf
  <1>2. CASE L \in Seq(Known(Len(cmds))) /\ L # Refused
    <2>1. /\ cmds[next] \in Command /\ Len(cmds) \in Nat
          /\ at \in SUBSET (0 .. Len(L))
          /\ cmds[next].op \in {"REPLACE", "DELETE"} =>
               \A j \in at : j # 0 /\ L[j].handle = cmds[next].n
      BY <1>2, CommandsAre, MeantPlacesType DEF TInv
    <2> HIDE DEF L, at
    <2>2. \/ Carry(L, next, at) = Refused
          \/ Handles(Carry(L, next, at)) \subseteq Handles(L)
      BY <1>2, <2>1, CarryProperties
    <2>3. Carry(L, next, at) = AfterIt(L, cmds[next], next)
      BY CarryIs DEF AfterIt, at
    <2> QED
      BY <1>2, <2>2, <2>3 DEF L
  <1> QED
    BY <1>1, <1>2, ChainNow

(* What a message by handle or without a place says.                       *)
LEMMA DirectSays ==
    ASSUME cmds \in Batches \cup {<<>>}, NEW i \in 1 .. Len(cmds), cmds[i].how # "index"
    PROVE  \A L, d : SaidOf(L, ByItsHandle(cmds[i]), d) = MeantPlaces(L, cmds[i])
  <1>1. cmds[i].how \in {"end", "handle"} /\ (cmds[i].how = "handle" => cmds[i].n # 0)
    BY CommandsAre DEF Command
  <1>2. CASE cmds[i].how = "end"
    BY <1>2 DEF SaidOf, ByItsHandle, MeantPlaces
  <1>3. CASE cmds[i].how = "handle"
    <2>1. ByItsHandle(cmds[i]) = [position |-> cmds[i].n, position_id |-> 0]
      BY <1>3 DEF ByItsHandle, NoPlace
    <2>2. ByItsHandle(cmds[i]) # NoPlace
      BY <1>1, <1>3, <2>1 DEF NoPlace
    <2>3. \A L : MeantPlaces(L, cmds[i]) = {j \in DOMAIN L : L[j].handle = cmds[i].n}
      BY <1>3 DEF MeantPlaces
    <2> DEFINE m == ByItsHandle(cmds[i])
    <2>4. m # NoPlace /\ m.position = cmds[i].n /\ m.position_id = 0 /\ cmds[i].n # 0
      BY <1>1, <1>3, <2>1, <2>2
    <2> HIDE DEF m
    <2>5. \A L, d : SaidOf(L, m, d) = {j \in DOMAIN L : L[j].handle = cmds[i].n}
      BY <2>4 DEF SaidOf
    <2> QED
      BY <2>3, <2>5 DEF m
  <1> QED
    BY <1>1, <1>2, <1>3

LEMMA OtherMeans ==
    ASSUME NoLateReplace, NoWrap, RemovalsLast, TInv, TInv', MInv, EvaluateOther
    PROVE  MInv'
  <1>1. /\ stage = "evaluate" /\ next <= Len(cmds)
        /\ cmds[next].op \in {"DELETE", "FLUSH"} \/ ~NeedsUpdate(cmds)
        /\ Evaluate(ByItsHandle(cmds[next]))
        /\ UNCHANGED <<cache, ids, ref_id>>
    BY DEF EvaluateOther
  <1>2. /\ next \in 1 .. Len(cmds) /\ Len(cmds) \in Nat /\ UNCHANGED <<stage, cmds>>
        /\ next' = next + 1 /\ meant' = Meant(next)
    BY <1>1, CommandsAre DEF TInv, MsgsOK, Evaluate
  <1>3. cmds[next].how # "index"
    <2>1. cmds[next].op \in {"DELETE", "FLUSH"} => cmds[next].how # "index"
      BY <1>2, CommandsAre DEF TInv
    <2> QED
      BY <1>1, <1>2, <2>1, IndexCommand
  <1>4. SaidOf(meant[next], ByItsHandle(cmds[next]), ids') = MeantPlaces(meant[next], cmds[next])
    BY <1>2, <1>3, DirectSays DEF TInv
  <1>5. CacheIs'
    <2>1. CASE ~NeedsUpdate(cmds)
      BY <1>2, <2>1 DEF CacheIs
    <2>2. CASE NeedsUpdate(cmds)
      <3>1. Removed'
        <4>1. cmds[next].op \in {"DELETE", "FLUSH"} /\ next \in 1 .. next' - 1
          BY <1>1, <1>2, <2>2
        <4> QED
          BY <1>2, <4>1 DEF Removed
      <3>2. meant'[next + 1] # Refused => Handles(meant'[next + 1]) \subseteq Handles(cache)
        <4>1. meant'[next + 1] = AfterIt(meant[next], cmds[next], next)
          BY <1>1, <1>2, MeantGrows
        <4>2. meant[next] # Refused => Handles(meant[next]) \subseteq Handles(cache)
          BY <1>1, <2>2 DEF MInv, CacheIs
        <4> QED
          BY <1>1, <1>2, <4>1, <4>2, HandlesShrink
      <3> QED
        BY <1>1, <1>2, <3>1, <3>2 DEF CacheIs
    <2> QED
      BY <2>1, <2>2
  <1> QED
    BY <1>1, <1>4, <1>5, EvaluateMeans

(* A rule put into the cache where it is meant to go.                      *)
LEMMA CacheMeans ==
    ASSUME TInv, TInv', MInv, stage = "evaluate", NeedsUpdate(cmds), next \in 1 .. Len(cmds),
           UNCHANGED <<stage, cmds>>, next' = next + 1, meant' = Meant(next),
           cmds[next].op \in {"ADD", "INSERT", "REPLACE"},
           NEW at \in 0 .. Len(cache),
           cmds[next].op = "REPLACE" => at # 0 /\ cache[at].handle = cmds[next].n,
           ~Removed => /\ at \in MeantPlaces(cache, cmds[next])
                       /\ \A k \in MeantPlaces(cache, cmds[next]) : k = at,
           cache' = Put(cache, cmds[next].op, at, NewRule(next))
    PROVE  CacheIs'
  <1>1. /\ Len(cmds) \in Nat /\ cache # Refused
        /\ meant'[next + 1] = AfterIt(meant[next], cmds[next], next)
    BY ChainNow, MeantGrows
  <1>2. Removed' <=> Removed
    BY DEF Removed
  <1>3. ~Removed => cache' = meant'[next + 1]
    <2> SUFFICES ASSUME ~Removed PROVE cache' = meant'[next + 1]
      OBVIOUS
    <2>1. cache = meant[next]
      BY DEF MInv, CacheIs
    <2>2. AfterIt(cache, cmds[next], next) = Put(cache, cmds[next].op, at, NewRule(next))
      BY <1>1, PutIsMeant
    <2> QED
      BY <1>1, <2>1, <2>2
  <1>4. meant'[next + 1] # Refused => Handles(meant'[next + 1]) \subseteq Handles(cache')
    <2>1. meant[next] # Refused => Handles(meant[next]) \subseteq Handles(cache)
      BY DEF MInv, CacheIs
    <2>2. Handles(cache') = Handles(cache)
      BY CachePut
    <2> QED
      BY <1>1, <2>1, <2>2, HandlesShrink
  <1> QED
    BY <1>2, <1>3, <1>4 DEF CacheIs

LEMMA EndMeans ==
    ASSUME NoLateReplace, NoWrap, RemovalsLast, TInv, TInv', MInv, EvaluateEnd
    PROVE  MInv'
  <1>1. /\ stage = "evaluate" /\ next <= Len(cmds) /\ NeedsUpdate(cmds)
        /\ cmds[next].op \in {"ADD", "INSERT"} /\ ~Refers(cmds[next])
        /\ cache' = Put(cache, cmds[next].op, 0, NewRule(next))
        /\ Evaluate(NoPlace)
        /\ UNCHANGED <<ids, ref_id>>
    BY DEF EvaluateEnd
  <1>2. /\ next \in 1 .. Len(cmds) /\ Len(cmds) \in Nat /\ UNCHANGED <<stage, cmds>>
        /\ next' = next + 1 /\ meant' = Meant(next)
    BY <1>1, CommandsAre DEF TInv, MsgsOK, Evaluate
  <1>3. cmds[next].how = "end"
    <2>1. cmds[next].how \in {"end", "index", "handle"}
      BY <1>2, CommandsAre DEF TInv, Command
    <2>2. cmds[next].how # "index"
      <3> SUFFICES ASSUME cmds[next].how = "index" PROVE FALSE
        OBVIOUS
      <3>1. IndexId(cmds[next]) = cmds[next].n + 1 /\ cmds[next].n \in Nat
        BY <1>2, IndexCommand
      <3> QED
        BY <1>1, <3>1 DEF Refers
    <2> QED
      BY <1>1, <2>1, <2>2 DEF Refers
  <1>4. \A L : MeantPlaces(L, cmds[next]) = {0}
    BY <1>3 DEF MeantPlaces
  <1>5. SaidOf(meant[next], NoPlace, ids') = MeantPlaces(meant[next], cmds[next])
    BY <1>4 DEF SaidOf
  <1>6. CacheIs'
    <2>1. 0 \in 0 .. Len(cache)
      BY <1>1, ChainNow
    <2> QED
      BY <1>1, <1>2, <1>4, <2>1, CacheMeans
  <1> QED
    BY <1>1, <1>5, <1>6, EvaluateMeans

LEMMA RefMeans ==
    ASSUME NoLateReplace, NoWrap, RemovalsLast, TInv, TInv', MInv, EvaluateRef
    PROVE  MInv'
  <1>1. /\ stage = "evaluate" /\ NeedsUpdate(cmds) /\ next \in 1 .. Len(cmds)
        /\ UNCHANGED <<stage, cmds>> /\ next' = next + 1 /\ meant' = Meant(next)
        /\ cmds[next].op \in {"ADD", "INSERT", "REPLACE"} /\ Refers(cmds[next])
    BY EvaluateRefParts
  <1>2. PICK at \in Lookup(cache, cmds[next]) :
          /\ at \in 1 .. Len(cache)
          /\ cmds[next].how = "handle" => cache[at].handle = cmds[next].n
          /\ cache[at] \in Known(Len(cmds)) /\ cache[at].cmd < next
          /\ cache' = Put(cache, cmds[next].op, at, NewRule(next))
          /\ IF cmds[next].how = "index" /\ cache[at].handle = 0 /\ ~HasId(cache[at])
             THEN /\ ids' = [ids EXCEPT ![cache[at].cmd] = NextId]
                  /\ ref_id' = NextId
             ELSE UNCHANGED <<ids, ref_id>>
          /\ Evaluate(IF cmds[next].how = "index" THEN Link(cache[at])
                                                  ELSE ByItsHandle(cmds[next]))
    BY EvaluateRefParts
  <1>3. /\ Len(cmds) \in Nat /\ DOMAIN cmds = 1 .. Len(cmds) /\ IdsOK
        /\ cmds[next].op = "REPLACE" => cmds[next].how = "handle"
        /\ cmds[next].how \in {"index", "handle"}
    BY <1>1, CommandsAre DEF TInv, Refers, IndexId, Command
  <1>4. /\ cache \in Seq(Known(Len(cmds))) /\ Distinct(cache) /\ cache # Refused
        /\ DOMAIN cache = 1 .. Len(cache)
    BY <1>1, ChainNow
  <1>5. /\ at \in MeantPlaces(cache, cmds[next])
        /\ \A k \in MeantPlaces(cache, cmds[next]) : k = at
    BY <1>1, <1>2, <1>4, LookupMeans
  <1>6. CacheIs'
    <2>1. at \in 0 .. Len(cache) /\ at # 0
      BY <1>2, <1>4
    <2> QED
      BY <1>1, <1>2, <1>3, <1>5, <2>1, CacheMeans
  <1>7. cache[at].handle = 0 => cache[at].cmd \in DOMAIN cmds
    BY <1>2, <1>3 DEF Known
  <1>8. /\ IdsOK'
        /\ \A j \in DOMAIN cmds, p \in 1 .. ref_id : ids'[j] = p <=> ids[j] = p
    <2>1. CASE cmds[next].how = "index" /\ cache[at].handle = 0 /\ ~HasId(cache[at])
      BY <1>1, <1>2, <1>3, <1>7, <2>1, NewIds DEF HasId
    <2>2. CASE UNCHANGED <<ids, ref_id>>
      BY <1>1, <1>3, <2>2, NewIds
    <2> QED
      BY <1>2, <2>1, <2>2
  <1> DEFINE m == IF cmds[next].how = "index" THEN Link(cache[at]) ELSE ByItsHandle(cmds[next])
  <1>9. SaidOf(meant[next], m, ids') = MeantPlaces(meant[next], cmds[next])
    <2>1. CASE cmds[next].how = "handle"
      <3>1. m = ByItsHandle(cmds[next])
        BY <2>1
      <3> QED
        BY <1>1, <2>1, <3>1, DirectSays DEF TInv
    <2>2. CASE cmds[next].how = "index"
      <3>1. meant[next] = cache
        BY <1>1, <2>2, IndexCommand DEF MInv, CacheIs
      <3>2. m = Link(cache[at])
        BY <2>2
      <3>3. MeantPlaces(cache, cmds[next]) = {at}
        BY <1>5
      <3>4. CASE cache[at].handle # 0
        <4>1. m = [position |-> cache[at].handle, position_id |-> 0] /\ m # NoPlace
          BY <3>2, <3>4 DEF Link, NoPlace
        <4>2. SaidOf(cache, m, ids') = {j \in DOMAIN cache : cache[j].handle = cache[at].handle}
          BY <3>4, <4>1 DEF SaidOf
        <4>3. \A j \in DOMAIN cache : cache[j].handle = cache[at].handle => j = at
          BY <1>2, <1>4, <3>4 DEF Distinct
        <4> QED
          BY <1>2, <1>4, <3>1, <3>3, <4>2, <4>3
      <3>5. CASE cache[at].handle = 0
        <4> DEFINE p == ids'[cache[at].cmd]
        <4>1. m = [position |-> 0, position_id |-> p]
          BY <3>2, <3>5 DEF Link
        <4>2. cache[at].cmd \in DOMAIN cmds /\ cache[at].cmd # 0
          BY <1>2, <1>3, <1>7, <3>5
        <4>3. p # 0
          <5>1. CASE HasId(cache[at])
            BY <1>2, <2>2, <5>1 DEF HasId
          <5>2. CASE ~HasId(cache[at])
            <6>1. ids' = [ids EXCEPT ![cache[at].cmd] = NextId] /\ NextId # 0
              BY <1>2, <1>3, <2>2, <3>5, <5>2 DEF NextId, IdsOK
            <6> QED
              BY <1>3, <4>2, <6>1 DEF IdsOK
          <5> QED
            BY <5>1, <5>2
        <4>4. m # NoPlace
          BY <4>1, <4>3 DEF NoPlace
        <4>5. SaidOf(cache, m, ids') =
                {j \in DOMAIN cache : cache[j].cmd # 0 /\ ids'[cache[j].cmd] = p}
          BY <4>1, <4>3, <4>4 DEF SaidOf
        <4>6. ASSUME NEW j \in DOMAIN cache, cache[j].cmd # 0, ids'[cache[j].cmd] = p
              PROVE  j = at
          <5>1. cache[j].cmd \in DOMAIN ids' /\ cache[at].cmd \in DOMAIN ids'
            <6>1. cache[j] \in Known(Len(cmds))
              BY <1>4
            <6> QED
              BY <1>1, <1>3, <1>8, <4>2, <4>6, <6>1 DEF Known, IdsOK
          <5>2. cache[j].cmd = cache[at].cmd
            BY <1>8, <4>3, <4>6, <5>1 DEF IdsOK
          <5> QED
            BY <1>2, <1>4, <4>6, <5>2 DEF Distinct
        <4> QED
          BY <1>2, <1>4, <3>1, <3>3, <4>2, <4>5, <4>6
      <3> QED
        BY <3>4, <3>5
    <2> QED
      BY <1>3, <2>1, <2>2
  <1>10. Evaluate(m) /\ next <= Len(cmds)
    BY <1>1, <1>2, <1>3
  <1> HIDE DEF m
  <1> QED
    BY <1>1, <1>6, <1>8, <1>9, <1>10, EvaluateMeans

(* A rule that is not found is not there.                                  *)
LEMMA FailsMeans ==
    ASSUME NoLateReplace, NoWrap, RemovalsLast, TInv, MInv, EvaluateFails
    PROVE  MInv'
  <1>1. /\ stage = "evaluate" /\ next <= Len(cmds) /\ NeedsUpdate(cmds)
        /\ cmds[next].op \in {"ADD", "INSERT", "REPLACE"} /\ Refers(cmds[next])
        /\ Lookup(cache, cmds[next]) = {}
        /\ meant' = Meant(next) /\ stage' = "done" /\ ret' = "rejected"
    BY DEF EvaluateFails, End
  <1>2. next \in 1 .. Len(cmds) /\ Len(cmds) \in Nat
    BY <1>1, CommandsAre DEF TInv, MsgsOK
  <1>3. Last(meant') = AfterIt(meant[next], cmds[next], next)
    BY <1>1, MeantGrows
  <1>4. meant[next] # Refused => MeantPlaces(meant[next], cmds[next]) = {}
    <2> SUFFICES ASSUME meant[next] # Refused
                 PROVE  MeantPlaces(meant[next], cmds[next]) = {}
      OBVIOUS
    <2>1. cmds[next].how \in {"index", "handle"} /\ (cmds[next].how = "handle" => cmds[next].n # 0)
      BY <1>1, <1>2, CommandsAre DEF TInv, Refers, IndexId, Command
    <2>2. CASE cmds[next].how = "index"
      <3>1. cache = meant[next]
        BY <1>1, <1>2, <2>2, IndexCommand DEF MInv, CacheIs
      <3> QED
        BY <1>1, <1>2, <3>1, LookupMeans
    <2>3. CASE cmds[next].how = "handle"
      <3>1. Handles(meant[next]) \subseteq Handles(cache)
        BY <1>1 DEF MInv, CacheIs
      <3>2. cmds[next].n \notin Handles(cache)
        BY <1>1, <2>3 DEF Lookup, Handles
      <3>3. MeantPlaces(meant[next], cmds[next]) =
              {j \in DOMAIN meant[next] : meant[next][j].handle = cmds[next].n}
        BY <2>3 DEF MeantPlaces
      <3> QED
        BY <2>1, <2>3, <3>1, <3>2, <3>3 DEF Handles
    <2> QED
      BY <2>1, <2>2, <2>3
  <1>5. AfterIt(meant[next], cmds[next], next) = Refused
    BY <1>1, <1>4 DEF AfterIt, CarryOf
  <1> QED
    BY <1>1, <1>3, <1>5 DEF MInv, CacheIs, Begins, Follows, Ends

LEMMA LoadMeans ==
    ASSUME TInv, Load PROVE MInv'
  <1>1. /\ stage = "load" /\ stage' = "evaluate"
        /\ cache' = IF NeedsUpdate(cmds) THEN Old(kernel) ELSE <<>>
        /\ meant' = <<Old(kernel)>>
        /\ UNCHANGED <<kernel, cmds, next>>
    BY DEF Load
  <1>2. next = 1 /\ meant'[1] = Old(kernel)
    BY <1>1 DEF TInv, MsgsOK
  <1>3. 1 .. next' - 1 = {}
    BY <1>1, <1>2
  <1>4. History' /\ SaysIt'
    BY <1>3 DEF History, SaysIt
  <1>5. CacheIs'
    BY <1>1, <1>2 DEF CacheIs
  <1>6. Begins'
    BY <1>1, <1>2 DEF Begins, Old
  <1> QED
    BY <1>1, <1>4, <1>5, <1>6 DEF MInv, Follows, Ends

(* The kernel carries out what the commands mean.                          *)
LEMMA ApplyMeans ==
    ASSUME TInv, MInv, Apply PROVE MInv'
  <1>1. /\ stage = "commit" /\ sent < Len(cmds) /\ sent' = sent + 1
        /\ result' = Carry(result, sent + 1, Said(result, msgs[sent + 1]))
        /\ UNCHANGED <<kernel, top, stage, cmds, cache, next, msgs, ids, ref_id, meant, alone, ret>>
    BY DEF Apply
  <1>2. Follows'
    <2> SUFFICES ASSUME alone PROVE result' = meant[(sent + 1) + 1]
      BY <1>1 DEF Follows
    <2> DEFINE i == sent + 1
    <2>1. i \in 1 .. next - 1 /\ result = meant[i]
      BY <1>1, CommandsAre DEF TInv, MsgsOK, MInv, Follows
    <2>2. /\ meant[i + 1] = AfterIt(meant[i], cmds[i], i)
          /\ meant[i] # Refused => SaidOf(meant[i], msgs[i], ids) = MeantPlaces(meant[i], cmds[i])
      BY <1>1, <2>1 DEF MInv, History, SaysIt
    <2>3. result' = CarryOf(meant[i], cmds[i], i, SaidOf(meant[i], msgs[i], ids))
      BY <1>1, <2>1, CarryIs, SaidIs
    <2> HIDE DEF i
    <2>4. CASE meant[i] = Refused
      BY <2>2, <2>3, <2>4 DEF AfterIt, CarryOf, i
    <2>5. CASE meant[i] # Refused
      BY <2>2, <2>3, <2>5 DEF AfterIt, i
    <2> QED
      BY <2>4, <2>5
  <1>3. History' /\ SaysIt'
    BY <1>1 DEF MInv, History, SaysIt
  <1> QED
    BY <1>1, <1>2, <1>3 DEF MInv, CacheIs, Begins, Ends

LEMMA NextMeans ==
    ASSUME NoLateReplace, NoWrap, RemovalsLast, TInv, TInv', MInv, [Next]_vars
    PROVE  MInv'
  <1>1. CASE Commit
    <2>1. /\ stage \in {"evaluate", "send"} /\ alone' = FALSE
          /\ UNCHANGED <<stage, cmds, cache, next, msgs, ids, ref_id, meant, result, sent, ret>>
      BY <1>1 DEF Commit
    <2>2. History' /\ SaysIt' /\ CacheIs'
      BY <2>1 DEF MInv, History, SaysIt, CacheIs, Removed
    <2> QED
      BY <2>1, <2>2 DEF MInv, Begins, Follows, Ends
  <1>2. ASSUME NEW b \in Batches, Run(b) PROVE MInv'
    BY <1>2 DEF Run, MInv, CacheIs, Begins, Follows, Ends
  <1>3. CASE EvaluateDone
    <2>1. /\ stage = "evaluate" /\ stage' = "send"
          /\ UNCHANGED <<kernel, cmds, next, msgs, ids, meant, alone>>
      BY <1>3 DEF EvaluateDone
    <2>2. History' /\ SaysIt'
      BY <2>1 DEF MInv, History, SaysIt
    <2> QED
      BY <2>1, <2>2 DEF MInv, CacheIs, Begins, Old, Follows, Ends
  <1>4. CASE Send
    <2>1. /\ stage = "send" /\ stage' = "commit" /\ result' = Old(kernel)
          /\ UNCHANGED <<kernel, cmds, next, msgs, ids, meant, alone, sent>>
      BY <1>4 DEF Send
    <2>2. History' /\ SaysIt' /\ sent = 0
      BY <2>1 DEF MInv, History, SaysIt, TInv
    <2>3. Follows'
      BY <2>1, <2>2 DEF MInv, Begins, Follows
    <2> QED
      BY <2>1, <2>2, <2>3 DEF MInv, CacheIs, Begins, Ends
  <1>5. CASE SendDone \/ SendFails
    <2>1. /\ stage = "commit" /\ stage' = "done" /\ sent = Len(cmds)
          /\ IF result = Refused THEN ret' = "refused" ELSE ret' = "done"
          /\ UNCHANGED <<meant, alone, result>>
      BY <1>5 DEF SendDone, SendFails, End
    <2>2. Len(meant) = sent + 1
      BY <2>1 DEF TInv, MsgsOK, MeantOK
    <2>3. alone => result = Last(meant)
      BY <2>1, <2>2 DEF MInv, Follows, Last
    <2> QED
      BY <2>1, <2>3 DEF MInv, CacheIs, Begins, Follows, Ends
  <1>6. CASE UNCHANGED vars
    BY <1>6 DEF vars, MInv, History, SaysIt, CacheIs, Removed, Begins, Old, Follows, Ends
  <1>7. CASE Done
    BY <1>6, <1>7 DEF Done
  <1> QED
    BY <1>1, <1>2, <1>3, <1>4, <1>5, <1>6, <1>7, LoadMeans, OtherMeans, EndMeans, RefMeans,
       FailsMeans, ApplyMeans DEF Next

LEMMA Meaning == NoLateReplace /\ NoWrap /\ RemovalsLast /\ Spec => []MInv
  <1> SUFFICES ASSUME NoLateReplace, NoWrap, RemovalsLast
               PROVE  Spec => []MInv
    OBVIOUS
  <1>1. Init => MInv
    BY DEF Init, MInv, CacheIs, Begins, Follows, Ends
  <1>2. TInv /\ TInv' /\ MInv /\ [Next]_vars => MInv'
    BY NextMeans
  <1> QED
    BY <1>1, <1>2, Typed, PTL DEF Spec

(* doc/nft.txt:453-458: a batch that is carried out makes the chain its    *)
(* indices mean, whatever its length and that of the chain.                *)
THEOREM IndexMeaningTheorem ==
    NoLateReplace /\ NoWrap /\ RemovalsLast /\ Spec => []IndexMeaning
  <1>1. MInv => IndexMeaning
    BY DEF MInv, Ends, IndexMeaning, Succeeded
  <1> QED
    BY <1>1, Meaning, PTL

(* And a batch that fails, with nobody else at work, meant a rule that is  *)
(* not there (evaluate.c:3971-3983).                                       *)
THEOREM IndexFoundTheorem ==
    NoLateReplace /\ NoWrap /\ RemovalsLast /\ Spec => []IndexFound
  <1>1. MInv => IndexFound
    BY DEF MInv, Ends, IndexFound
  <1> QED
    BY <1>1, Meaning, PTL

-----------------------------------------------------------------------------
(* Standing by.  Batches that refer by index and neither delete nor flush; *)
(* others may change the chain between the translation and the commit.     *)
Placing == NeedsUpdate(cmds) /\ \A i \in DOMAIN cmds : cmds[i].op \notin {"DELETE", "FLUSH"}

(* Rule r is one that may be in a chain after the commands before i of     *)
(* batch b: its command is the last that replaced the rule of its handle,  *)
(* or, without a handle, the one that added it.                            *)
Fits(b, r, i) ==
    /\ r.cmd \in 0 .. i - 1
    /\ r.cmd # 0 => IF r.handle # 0 THEN b[r.cmd].op = "REPLACE" /\ b[r.cmd].n = r.handle
                                    ELSE b[r.cmd].op # "REPLACE"
    /\ r.handle # 0 => \A k \in 1 .. i - 1 :
           b[k].op = "REPLACE" /\ b[k].n = r.handle => k <= r.cmd

AllFit(b, L, i) == \A j \in DOMAIN L : Fits(b, L[j], i)

(* Message m names rule r, with the identifiers d.                         *)
Names(m, r, d) == IF r.handle # 0 THEN m = [position |-> r.handle, position_id |-> 0]
                  ELSE m = [position |-> 0, position_id |-> d[r.cmd]] /\ d[r.cmd] # 0

(* In chain L the rule of command i stands by rule r, with none between    *)
(* them but rules of later commands.                                       *)
Stands(L, op, i, r) ==
    \E it, me \in DOMAIN L :
      /\ L[it] = r /\ L[me].cmd = i
      /\ IF op = "ADD" THEN it < me /\ \A j \in it + 1 .. me - 1 : L[j].cmd > i
                       ELSE me < it /\ \A j \in me + 1 .. it - 1 : L[j].cmd > i

(* One rule has a handle, and one was added by a command: whoever has      *)
(* changed the chain meanwhile, it is the rule that was referred to.       *)
LEMMA SameRule ==
    ASSUME NEW n \in Nat, NEW b, NEW i \in Nat, NEW r \in Known(n), NEW q \in Known(n),
           Fits(b, r, i), Fits(b, q, i),
           \/ r.handle # 0 /\ q.handle = r.handle
           \/ r.handle = 0 /\ q.cmd = r.cmd
    PROVE  q = r
  <1>1. /\ r \in [handle : 0 .. MaxHandle, cmd : 0 .. n] /\ q \in [handle : 0 .. MaxHandle, cmd : 0 .. n]
        /\ r.handle # 0 \/ r.cmd # 0
    BY DEF Known
  <1>2. r.cmd \in 0 .. i - 1 /\ q.cmd \in 0 .. i - 1
    BY DEF Fits
  <1>3. CASE r.handle # 0 /\ q.handle = r.handle
    <2>1. r.cmd # 0 => r.cmd <= q.cmd
      BY <1>2, <1>3 DEF Fits
    <2>2. q.cmd # 0 => q.cmd <= r.cmd
      BY <1>2, <1>3 DEF Fits
    <2> QED
      BY <1>1, <1>2, <1>3, <2>1, <2>2
  <1>4. CASE r.handle = 0 /\ q.cmd = r.cmd
    <2>1. q.handle = 0
      BY <1>1, <1>4 DEF Fits
    <2> QED
      BY <1>1, <1>4, <2>1
  <1> QED
    BY <1>3, <1>4

(* The rules of a chain into which one was put.                            *)
LEMMA PutElements ==
    ASSUME NEW S, NEW L \in Seq(S), NEW r \in S, NEW op, NEW at \in 0 .. Len(L), op = "REPLACE" => at # 0
    PROVE  \A j \in DOMAIN Put(L, op, at, r) :
              \/ Put(L, op, at, r)[j] = r
              \/ \E k \in DOMAIN L : Put(L, op, at, r)[j] = L[k] /\ (op = "REPLACE" => k # at)
  <1>1. CASE op = "REPLACE"
    <2> DEFINE P == [L EXCEPT ![at] = r]
    <2>1. Put(L, op, at, r) = P /\ at \in 1 .. Len(L)
      BY <1>1 DEF Put, ReplaceAt
    <2>2. P \in Seq(S) /\ Len(P) = Len(L) /\ \A j \in 1 .. Len(L) : P[j] = IF j = at THEN r ELSE L[j]
      BY <2>1, ExceptProperties
    <2> HIDE DEF P
    <2> QED
      BY <2>1, <2>2
  <1>2. CASE op # "REPLACE"
    <2> DEFINE t == Slot(L, op, at)
               P == InsertAt(L, t, r)
    <2>1. Put(L, op, at, r) = P /\ t \in 1 .. Len(L) + 1 /\ Len(L) \in Nat
      <3>1. Put(L, op, at, r) = P
        BY <1>2 DEF Put
      <3>2. t \in 1 .. Len(L) + 1
        BY SlotType
      <3> QED
        BY <3>1, <3>2
    <2> HIDE DEF t
    <2>4. P \in Seq(S) /\ Inserted(P, L, t, r)
      BY <2>1, InsertAtProperties
    <2> HIDE DEF P
    <2>2. /\ P \in Seq(S) /\ Len(P) = Len(L) + 1
          /\ \A j \in 1 .. Len(L) + 1 : P[j] = IF j < t THEN L[j] ELSE IF j = t THEN r ELSE L[j - 1]
      BY <2>4 DEF Inserted
    <2>3. ASSUME NEW j \in 1 .. Len(L) + 1
          PROVE  P[j] = r \/ \E k \in 1 .. Len(L) : P[j] = L[k]
      <3>1. CASE j < t
        BY <2>1, <2>2, <3>1
      <3>2. CASE j = t
        BY <2>2, <3>2
      <3>3. CASE j > t
        <4>1. j - 1 \in 1 .. Len(L)
          BY <2>1, <3>3
        <4>2. P[j] = L[j - 1]
          BY <2>1, <2>2, <3>3
        <4> QED
          BY <4>1, <4>2
      <3> QED
        BY <2>1, <3>1, <3>2, <3>3
    <2>5. DOMAIN P = 1 .. Len(L) + 1 /\ DOMAIN L = 1 .. Len(L)
      BY <2>1, <2>2
    <2>6. \A j \in DOMAIN P : P[j] = r \/ \E k \in DOMAIN L : P[j] = L[k]
      BY <2>3, <2>5
    <2> QED
      BY ONLY <1>2, <2>1, <2>6
  <1> QED
    BY <1>1, <1>2

(* What may be in a chain before a command may be in it, with the rule of  *)
(* the command, behind it.                                                 *)
LEMMA PutFits ==
    ASSUME cmds \in Batches \cup {<<>>}, NEW n \in Nat, n = Len(cmds), NEW i \in 1 .. n,
           NEW L \in Seq(Known(n)), AllFit(cmds, L, i), Distinct(L),
           NEW at \in 0 .. Len(L),
           cmds[i].op = "REPLACE" => at # 0 /\ L[at].handle = cmds[i].n
    PROVE  LET P == Put(L, cmds[i].op, at, NewRule(i))
           IN  P \in Seq(Known(n)) /\ AllFit(cmds, P, i + 1) /\ Distinct(P)
  <1> DEFINE r == NewRule(i)
             op == cmds[i].op
             P == Put(L, op, at, r)
  <1>1. /\ DOMAIN L = 1 .. Len(L) /\ Len(L) \in Nat /\ i \in Nat /\ i # 0
        /\ \A j \in DOMAIN L : L[j] \in Known(n) /\ Fits(cmds, L[j], i)
    BY ElementOfSeq DEF AllFit
  <1>2. op = "REPLACE" => cmds[i].n # 0 /\ at \in DOMAIN L /\ cmds[i].n \in 0 .. MaxHandle
    <2>1. op = "REPLACE" => cmds[i].n # 0
      BY CommandsAre
    <2>2. op = "REPLACE" => at \in DOMAIN L
      BY <1>1
    <2> QED
      BY <1>1, <2>1, <2>2 DEF Known
  <1>3. r = [handle |-> IF op = "REPLACE" THEN cmds[i].n ELSE 0, cmd |-> i]
    BY DEF NewRule, Rule
  <1>4. r \in Known(n) /\ r.cmd = i /\ (op # "REPLACE" => r.handle = 0)
        /\ (op = "REPLACE" => at # 0 /\ r.handle = L[at].handle)
    BY <1>1, <1>2, <1>3, BoundsAssumption DEF Known
  <1>5. Fits(cmds, r, i + 1)
    BY <1>1, <1>2, <1>3 DEF Fits
  <1>6. ASSUME NEW k \in DOMAIN L, op = "REPLACE" => k # at
        PROVE  Fits(cmds, L[k], i + 1)
    <2>1. Fits(cmds, L[k], i) /\ L[k].cmd \in 0 .. i - 1
      BY <1>1 DEF Fits
    <2>2. ASSUME L[k].handle # 0, op = "REPLACE" PROVE cmds[i].n # L[k].handle
      BY <1>1, <1>2, <1>6, <2>2 DEF Distinct
    <2>3. L[k].handle # 0 => \A m \in 1 .. (i + 1) - 1 :
             cmds[m].op = "REPLACE" /\ cmds[m].n = L[k].handle => m <= L[k].cmd
      <3> SUFFICES ASSUME L[k].handle # 0, NEW m \in 1 .. i, cmds[m].op = "REPLACE", cmds[m].n = L[k].handle
                   PROVE  m <= L[k].cmd
        BY <1>1
      <3>1. m # i
        BY <2>2
      <3> QED
        BY <1>1, <2>1, <3>1 DEF Fits
    <2> QED
      BY <1>1, <2>1, <2>3 DEF Fits
  <1> HIDE DEF r
  <1>7. \A j \in DOMAIN P : P[j] = r \/ \E k \in DOMAIN L : P[j] = L[k] /\ (op = "REPLACE" => k # at)
    <2> DEFINE K == Known(n)
    <2>1. L \in Seq(K) /\ r \in K /\ (op = "REPLACE" => at # 0)
      BY <1>4
    <2> HIDE DEF K, op
    <2> QED
      BY <2>1, PutElements
  <1>8. AllFit(cmds, P, i + 1)
    <2> HIDE DEF P, op
    <2> QED
      BY <1>5, <1>6, <1>7 DEF AllFit
  <1>9. \A j \in DOMAIN L : L[j].cmd < i
    BY <1>1 DEF Fits
  <1>10. P \in Seq(Known(n)) /\ Distinct(P)
    <2> HIDE DEF op
    <2> QED
      BY <1>4, <1>9, PutProperties
  <1> QED
    BY <1>8, <1>10 DEF r

(* A rule that is put anywhere leaves those before it where they stand.    *)
LEMMA InsertStands ==
    ASSUME NEW S, NEW L \in Seq(S), NEW t \in 1 .. Len(L) + 1, NEW x \in S,
           NEW op, NEW i \in Nat, NEW r, Stands(L, op, i, r), x.cmd > i
    PROVE  Stands(InsertAt(L, t, x), op, i, r)
  <1> DEFINE P == InsertAt(L, t, x)
             to(j) == IF j < t THEN j ELSE j + 1
  <1>0. P = InsertAt(L, t, x) /\ L \in Seq(S) /\ t \in 1 .. Len(L) + 1 /\ x \in S
    OBVIOUS
  <1> HIDE DEF P
  <1>1. /\ Len(L) \in Nat /\ DOMAIN L = 1 .. Len(L)
        /\ P \in Seq(S) /\ Len(P) = Len(L) + 1
        /\ \A j \in 1 .. Len(L) + 1 : P[j] = IF j < t THEN L[j] ELSE IF j = t THEN x ELSE L[j - 1]
    <2>1. Len(L) \in Nat /\ DOMAIN L = 1 .. Len(L)
      OBVIOUS
    <2>2. P \in Seq(S) /\ Inserted(P, L, t, x)
      BY <1>0, InsertAtProperties
    <2> QED
      BY <2>1, <2>2 DEF Inserted
  <1>2. DOMAIN P = 1 .. Len(L) + 1
    BY <1>1
  <1>3. \A j \in 1 .. Len(L) : to(j) \in 1 .. Len(L) + 1 /\ to(j) \in Nat /\ P[to(j)] = L[j]
    <2> SUFFICES ASSUME NEW j \in 1 .. Len(L)
                 PROVE  to(j) \in 1 .. Len(L) + 1 /\ to(j) \in Nat /\ P[to(j)] = L[j]
      OBVIOUS
    <2>1. CASE j < t
      BY <1>1, <2>1
    <2>2. CASE j >= t
      <3>1. j + 1 \in 1 .. Len(L) + 1 /\ j + 1 # t /\ ~(j + 1 < t) /\ (j + 1) - 1 = j
        BY <1>1, <2>2
      <3> QED
        BY <1>1, <2>2, <3>1
    <2> QED
      BY <1>1, <2>1, <2>2
  <1>4. ASSUME NEW a \in 1 .. Len(L), NEW b \in 1 .. Len(L), a < b,
               \A j \in a + 1 .. b - 1 : L[j].cmd > i
        PROVE  to(a) < to(b) /\ \A j \in to(a) + 1 .. to(b) - 1 : P[j].cmd > i
    <2>1. to(a) < to(b)
      BY <1>1, <1>4
    <2>2. ASSUME NEW j \in to(a) + 1 .. to(b) - 1 PROVE P[j].cmd > i
      <3>1. j \in 1 .. Len(L) + 1
        BY <1>1, <1>3, <2>2
      <3>2. CASE j = t
        BY <1>1, <3>1, <3>2
      <3>3. CASE j < t
        <4>1. j \in a + 1 .. b - 1
          BY <1>1, <1>4, <3>1, <3>3
        <4> QED
          BY <1>1, <1>4, <3>1, <3>3, <4>1
      <3>4. CASE j > t
        <4>1. j - 1 \in a + 1 .. b - 1
          BY <1>1, <1>4, <3>1, <3>4
        <4>2. P[j] = L[j - 1]
          BY <1>1, <3>1, <3>4
        <4> QED
          BY <1>4, <4>1, <4>2
      <3> QED
        BY <3>1, <3>2, <3>3, <3>4
    <2> QED
      BY <2>1, <2>2
  <1>5. PICK it \in 1 .. Len(L), me \in 1 .. Len(L) :
          /\ L[it] = r /\ L[me].cmd = i
          /\ IF op = "ADD" THEN it < me /\ \A j \in it + 1 .. me - 1 : L[j].cmd > i
                           ELSE me < it /\ \A j \in me + 1 .. it - 1 : L[j].cmd > i
    BY <1>1 DEF Stands
  <1>6. P[to(it)] = r /\ P[to(me)].cmd = i /\ to(it) \in DOMAIN P /\ to(me) \in DOMAIN P
    BY <1>2, <1>3, <1>5
  <1>7. IF op = "ADD" THEN to(it) < to(me) /\ \A j \in to(it) + 1 .. to(me) - 1 : P[j].cmd > i
                      ELSE to(me) < to(it) /\ \A j \in to(me) + 1 .. to(it) - 1 : P[j].cmd > i
    BY <1>4, <1>5
  <1> HIDE DEF to
  <1>8. Stands(P, op, i, r)
    BY <1>6, <1>7 DEF Stands
  <1> QED
    BY <1>8 DEF P

(* And it stands by the one at whose place it is put.                      *)
LEMMA PutStands ==
    ASSUME NEW S, NEW L \in Seq(S), NEW at \in 1 .. Len(L), NEW x \in S, NEW op \in {"ADD", "INSERT"}
    PROVE  Stands(Put(L, op, at, x), op, x.cmd, L[at])
  <1> DEFINE t == IF op = "ADD" THEN at + 1 ELSE at
             P == InsertAt(L, t, x)
  <1>1. Put(L, op, at, x) = P /\ t \in 1 .. Len(L) + 1 /\ Len(L) \in Nat /\ P = InsertAt(L, t, x)
    BY DEF Put, Slot
  <1>6. t = IF op = "ADD" THEN at + 1 ELSE at
    OBVIOUS
  <1> HIDE DEF t, P
  <1>7. P = InsertAt(L, t, x) /\ t \in 1 .. Len(L) + 1
    BY <1>1
  <1>2. /\ P \in Seq(S) /\ Len(P) = Len(L) + 1
        /\ \A j \in 1 .. Len(L) + 1 : P[j] = IF j < t THEN L[j] ELSE IF j = t THEN x ELSE L[j - 1]
    <2>1. P \in Seq(S) /\ Inserted(P, L, t, x)
      BY <1>7, InsertAtProperties
    <2> QED
      BY <2>1 DEF Inserted
  <1>3. DOMAIN P = 1 .. Len(L) + 1
    BY <1>2
  <1>4. CASE op = "ADD"
    <2>1. P[at] = L[at] /\ P[at + 1] = x /\ at \in DOMAIN P /\ at + 1 \in DOMAIN P
      BY <1>1, <1>2, <1>3, <1>4, <1>6
    <2>2. at < at + 1 /\ at + 1 > (at + 1) - 1
      BY <1>1
    <2> QED
      BY <1>1, <1>4, <2>1, <2>2 DEF Stands
  <1>5. CASE op = "INSERT"
    <2>1. P[at] = x /\ P[at + 1] = L[at] /\ at \in DOMAIN P /\ at + 1 \in DOMAIN P
      <3>1. at + 1 \in 1 .. Len(L) + 1 /\ (at + 1) - 1 = at
        BY <1>1
      <3> QED
        BY <1>1, <1>2, <1>3, <1>5, <1>6, <3>1
    <2> QED
      BY <1>1, <1>5, <2>1 DEF Stands
  <1> QED
    BY <1>4, <1>5

(* The rule a command refers to by index, and what is kept of it.          *)
Was(i) == meant[i][cmds[i].n + 1]

Named(i) == /\ meant[i] # Refused /\ cmds[i].n < Len(meant[i])
            /\ Was(i) \in Known(Len(cmds)) /\ Fits(cmds, Was(i), i)
            /\ Names(msgs[i], Was(i), ids)

(* No handle is given twice; the cache is the chain the commands mean; the *)
(* messages name the rules meant; the kernel's chain has only rules that   *)
(* fit, and those put into it stand by the ones they referred to.          *)
KernelOnce == stage # "done" =>
                 \A j, k \in DOMAIN kernel : kernel[j] <= top /\ (kernel[j] = kernel[k] => j = k)

CacheFits == stage = "evaluate" /\ Placing => cache = meant[next] /\ AllFit(cmds, cache, next)

AllNamed == (stage \in {"evaluate", "send", "commit"} \/ Succeeded) /\ Placing =>
               \A i \in 1 .. next - 1 : cmds[i].how = "index" => Named(i)

ResultFits == stage = "commit" /\ result # Refused /\ Placing =>
                 AllFit(cmds, result, sent + 1) /\ Distinct(result)

AllStand == ((stage = "commit" /\ result # Refused) \/ Succeeded) /\ Placing =>
               \A i \in 1 .. sent : cmds[i].how = "index" => Stands(result, cmds[i].op, i, Was(i))

AtEnd == Succeeded => sent = Len(cmds) /\ next = Len(cmds) + 1

SInv == KernelOnce /\ CacheFits /\ AllNamed /\ ResultFits /\ AllStand /\ AtEnd

LEMMA CommitKeepsOnce ==
    ASSUME TInv, KernelOnce, Commit PROVE KernelOnce'
  <1>1. stage \in {"evaluate", "send"} /\ stage' = stage
    BY DEF Commit
  <1>2. kernel \in Seq(1 .. MaxHandle) /\ top \in Nat /\ MaxHandle \in Nat
    BY <1>1, BoundsAssumption DEF TInv, KernelOK
  <1>3. /\ Len(kernel) \in Nat /\ DOMAIN kernel = 1 .. Len(kernel)
        /\ \A j \in 1 .. Len(kernel) : kernel[j] \in Nat
    BY <1>2
  <1>4. \A j, k \in 1 .. Len(kernel) : kernel[j] <= top /\ (kernel[j] = kernel[k] => j = k)
    BY <1>1, <1>3 DEF KernelOnce
  <1>5. CASE \E s \in 1 .. Len(kernel) + 1 : kernel' = InsertAt(kernel, s, top + 1) /\ top' = top + 1
    <2>1. PICK s \in 1 .. Len(kernel) + 1 : kernel' = InsertAt(kernel, s, top + 1) /\ top' = top + 1
      BY <1>5
    <2>2. kernel \in Seq(Nat) /\ top + 1 \in Nat
      BY <1>2
    <2>3. /\ kernel' \in Seq(Nat) /\ Len(kernel') = Len(kernel) + 1
          /\ \A j \in 1 .. Len(kernel) + 1 :
               kernel'[j] = IF j < s THEN kernel[j] ELSE IF j = s THEN top + 1 ELSE kernel[j - 1]
      <3> DEFINE new == top + 1
                 N   == Nat
      <3>1. /\ new \in N /\ kernel' = InsertAt(kernel, s, new) /\ kernel \in Seq(N)
            /\ s \in 1 .. Len(kernel) + 1
        BY <2>1, <2>2
      <3> HIDE DEF new, N
      <3>2. kernel' \in Seq(N) /\ Inserted(kernel', kernel, s, new)
        BY <3>1, InsertAtProperties
      <3> QED
        BY ONLY <3>2 DEF new, N, Inserted
    <2> DEFINE from(j) == IF j < s THEN j ELSE j - 1
    <2>4. \A j \in 1 .. Len(kernel) + 1 :
             j # s => from(j) \in 1 .. Len(kernel) /\ kernel'[j] = kernel[from(j)]
      BY <1>3, <2>3
    <2>5. \A j, k \in 1 .. Len(kernel) + 1 : j # s /\ k # s /\ from(j) = from(k) => j = k
      BY <1>3
    <2>6. kernel'[s] = top + 1
      BY <1>3, <2>3
    <2> HIDE DEF from
    <2>7. \A j \in 1 .. Len(kernel) + 1 : j # s => kernel'[j] <= top
      BY <1>4, <2>4
    <2>8. DOMAIN kernel' = 1 .. Len(kernel) + 1 /\ \A j \in 1 .. Len(kernel) + 1 : kernel'[j] \in Nat
      BY <2>3
    <2>9. \A j \in DOMAIN kernel' : kernel'[j] <= top'
      BY <1>2, <2>1, <2>6, <2>7, <2>8
    <2>10. ASSUME NEW j \in DOMAIN kernel', NEW k \in DOMAIN kernel', kernel'[j] = kernel'[k]
           PROVE  j = k
      <3>1. j = s <=> k = s
        BY <1>2, <2>6, <2>7, <2>8, <2>10
      <3>2. CASE j # s /\ k # s
        <4>1. j \in 1 .. Len(kernel) + 1 /\ k \in 1 .. Len(kernel) + 1
          BY <2>8
        <4>2. /\ from(j) \in 1 .. Len(kernel) /\ from(k) \in 1 .. Len(kernel)
              /\ kernel[from(j)] = kernel[from(k)]
          BY <2>4, <2>10, <3>2, <4>1
        <4>3. from(j) = from(k)
          BY <1>4, <4>2
        <4> QED
          BY <2>5, <3>2, <4>1, <4>3
      <3> QED
        BY <3>1, <3>2
    <2> QED
      BY <2>9, <2>10 DEF KernelOnce
  <1>6. CASE \E s \in DOMAIN kernel : kernel' = RemoveAt(kernel, s) /\ top' = top
    <2>1. PICK s \in DOMAIN kernel : kernel' = RemoveAt(kernel, s) /\ top' = top
      BY <1>6
    <2>2. /\ kernel' \in Seq(1 .. MaxHandle) /\ Len(kernel') = Len(kernel) - 1
          /\ \A j \in 1 .. Len(kernel) - 1 : kernel'[j] = IF j < s THEN kernel[j] ELSE kernel[j + 1]
      BY <1>2, <2>1, RemoveAtProperties
    <2>3. DOMAIN kernel' = 1 .. Len(kernel) - 1
      BY <2>2
    <2> DEFINE from(j) == IF j < s THEN j ELSE j + 1
    <2>4. \A j \in 1 .. Len(kernel) - 1 :
             from(j) \in 1 .. Len(kernel) /\ kernel'[j] = kernel[from(j)]
      BY <1>3, <2>2
    <2>5. \A j, k \in 1 .. Len(kernel) - 1 : from(j) = from(k) => j = k
      BY <1>3
    <2> HIDE DEF from
    <2>6. \A j, k \in DOMAIN kernel' : kernel'[j] <= top' /\ (kernel'[j] = kernel'[k] => j = k)
      BY <1>4, <2>1, <2>3, <2>4, <2>5
    <2> QED
      BY <2>6 DEF KernelOnce
  <1> QED
    BY <1>5, <1>6 DEF Commit

(* Messages go on to name the rules meant: neither these nor identifiers   *)
(* that were given change.                                                 *)
LEMMA NamedStays ==
    ASSUME TInv, stage = "evaluate", next \in 1 .. Len(cmds), NEW m, Evaluate(m),
           \A j \in DOMAIN cmds, p \in 1 .. ref_id : ids'[j] = p <=> ids[j] = p,
           NEW i \in 1 .. next - 1, Named(i)
    PROVE  Named(i)'
  <1>1. msgs' = Append(msgs, m) /\ meant' = Meant(next) /\ UNCHANGED cmds
    BY DEF Evaluate
  <1>2. /\ Len(cmds) \in Nat /\ DOMAIN cmds = 1 .. Len(cmds) /\ i \in 1 .. next /\ next \in Nat
        /\ ids \in [DOMAIN cmds -> 0 .. ref_id] /\ ref_id \in Nat
    BY CommandsAre DEF TInv, IdsOK
  <1>3. meant'[i] = meant[i]
    BY <1>1, <1>2, MeantGrows
  <1>4. msgs'[i] = msgs[i]
    BY <1>1, <1>2, AppendProperties DEF TInv, MsgsOK
  <1> DEFINE r == Was(i)
  <1>5. Was(i)' = r
    BY <1>1, <1>3 DEF Was
  <1>6. r \in Known(Len(cmds)) /\ Fits(cmds, r, i) /\ Names(msgs[i], r, ids)
    BY DEF Named
  <1> HIDE DEF r
  <1>7. Names(msgs[i], r, ids')
    <2>1. CASE r.handle # 0
      BY <1>6, <2>1 DEF Names
    <2>2. CASE r.handle = 0
      <3>1. r.cmd \in DOMAIN cmds
        BY <1>2, <1>6, <2>2 DEF Known
      <3>2. ids[r.cmd] \in 1 .. ref_id
        BY <1>2, <1>6, <2>2, <3>1 DEF Names
      <3>3. ids'[r.cmd] = ids[r.cmd]
        BY <3>1, <3>2
      <3> QED
        BY <1>6, <2>2, <3>3 DEF Names
    <2> QED
      BY <2>1, <2>2
  <1>8. Named(i)' <=> /\ meant'[i] # Refused /\ cmds'[i].n < Len(meant'[i])
                      /\ Was(i)' \in Known(Len(cmds')) /\ Fits(cmds', Was(i)', i)
                      /\ Names(msgs'[i], Was(i)', ids')
    BY DEF Named, Known, Fits, Names, Refused, Rule
  <1>9. meant[i] # Refused /\ cmds[i].n < Len(meant[i])
    BY DEF Named
  <1> QED
    BY <1>1, <1>3, <1>4, <1>5, <1>6, <1>7, <1>8, <1>9

LEMMA CacheStays ==
    ASSUME TInv, SInv, Placing, stage = "evaluate", next \in 1 .. Len(cmds),
           UNCHANGED <<stage, cmds>>, next' = next + 1, meant' = Meant(next),
           NEW at \in 0 .. Len(cache),
           cmds[next].op = "REPLACE" => at # 0 /\ cache[at].handle = cmds[next].n,
           at \in MeantPlaces(cache, cmds[next]), \A k \in MeantPlaces(cache, cmds[next]) : k = at,
           cache' = Put(cache, cmds[next].op, at, NewRule(next))
    PROVE  CacheFits'
  <1>1. /\ cache \in Seq(Known(Len(cmds))) /\ cache # Refused /\ Distinct(cache) /\ Len(cmds) \in Nat
        /\ cmds \in Batches \cup {<<>>}
    BY ChainNow DEF TInv
  <1>2. cache = meant[next] /\ AllFit(cmds, cache, next)
    BY DEF SInv, CacheFits
  <1>3. cmds[next].op \notin {"DELETE", "FLUSH"}
    BY <1>1, CommandsAre DEF Placing
  <1>4. meant'[next + 1] = cache'
    <2>1. meant'[next + 1] = AfterIt(cache, cmds[next], next)
      BY <1>2, MeantGrows
    <2> QED
      BY <1>1, <1>3, <2>1, PutIsMeant
  <1>5. AllFit(cmds, cache', next + 1)
    BY <1>1, <1>2, PutFits
  <1> QED
    BY <1>4, <1>5 DEF CacheFits, AllFit, Fits

(* The part the evaluations of such a batch share.                         *)
LEMMA EvaluateStands ==
    ASSUME TInv, SInv, Placing, stage = "evaluate", next \in 1 .. Len(cmds), NEW m, Evaluate(m),
           \A j \in DOMAIN cmds, p \in 1 .. ref_id : ids'[j] = p <=> ids[j] = p,
           CacheFits', NEW k, k = next, cmds[next].how = "index" => Named(k)'
    PROVE  SInv'
  <1>1. next' = next + 1 /\ UNCHANGED <<kernel, top, stage, cmds, result, sent, ret>>
    BY DEF Evaluate
  <1>2. ASSUME NEW i \in 1 .. next - 1, cmds[i].how = "index" PROVE Named(i)'
    BY <1>2, NamedStays DEF SInv, AllNamed
  <1>3. ASSUME NEW i \in 1 .. next' - 1, cmds'[i].how = "index" PROVE Named(i)'
    <2>1. CASE i = k
      BY <1>1, <1>3, <2>1
    <2>2. CASE i # k
      BY <1>1, <1>2, <1>3, <2>2
    <2> QED
      BY <2>1, <2>2
  <1>4. AllNamed'
    BY <1>3 DEF AllNamed
  <1>5. KernelOnce' /\ ResultFits' /\ AllStand' /\ AtEnd'
    BY <1>1 DEF SInv, KernelOnce, ResultFits, AllStand, AtEnd, Succeeded
  <1> QED
    BY <1>4, <1>5 DEF SInv

LEMMA EndStands ==
    ASSUME NoLateReplace, NoWrap, TInv, SInv, Placing, EvaluateEnd
    PROVE  SInv'
  <1>1. /\ stage = "evaluate" /\ next <= Len(cmds)
        /\ cmds[next].op \in {"ADD", "INSERT"} /\ ~Refers(cmds[next])
        /\ cache' = Put(cache, cmds[next].op, 0, NewRule(next))
        /\ Evaluate(NoPlace)
        /\ UNCHANGED <<ids, ref_id>>
    BY DEF EvaluateEnd
  <1>2. /\ next \in 1 .. Len(cmds) /\ UNCHANGED <<stage, cmds>>
        /\ next' = next + 1 /\ meant' = Meant(next)
    BY <1>1, CommandsAre DEF TInv, MsgsOK, Evaluate
  <1>3. cmds[next].how # "index"
    <2> SUFFICES ASSUME cmds[next].how = "index" PROVE FALSE
      OBVIOUS
    <2>1. IndexId(cmds[next]) = cmds[next].n + 1 /\ cmds[next].n \in Nat
      BY <1>2, IndexNumber
    <2> QED
      BY <1>1, <2>1 DEF Refers
  <1>4. \A L : MeantPlaces(L, cmds[next]) = {0}
    BY <1>1, <1>3 DEF MeantPlaces, Refers
  <1>5. 0 \in 0 .. Len(cache) /\ cmds[next].op # "REPLACE"
    BY <1>1, ChainNow
  <1>6. CacheFits'
    <2>1. 0 \in MeantPlaces(cache, cmds[next]) /\ \A k \in MeantPlaces(cache, cmds[next]) : k = 0
      BY <1>4
    <2> QED
      BY <1>1, <1>2, <1>5, <2>1, CacheStays
  <1>7. PICK k : k = next
    OBVIOUS
  <1> QED
    BY <1>1, <1>2, <1>3, <1>6, <1>7, EvaluateStands

(* The message of a rule placed by index names the rule the index means.   *)
LEMMA LinkNames ==
    ASSUME TInv, TInv', stage = "evaluate", next \in 1 .. Len(cmds),
           UNCHANGED <<stage, cmds>>, NEW at \in 1 .. Len(cache),
           IF cache[at].handle = 0 /\ ~HasId(cache[at])
           THEN ids' = [ids EXCEPT ![cache[at].cmd] = NextId]
           ELSE UNCHANGED ids
    PROVE  Names(Link(cache[at]), cache[at], ids')
  <1> DEFINE r == cache[at]
  <1>1. /\ r \in Known(Len(cmds)) /\ DOMAIN cmds = 1 .. Len(cmds)
        /\ ref_id \in Nat /\ ids \in [DOMAIN cmds -> 0 .. ref_id]
    BY ChainNow, CommandsAre DEF TInv, IdsOK
  <1>2. CASE r.handle # 0
    BY <1>2 DEF Names, Link
  <1>3. CASE r.handle = 0
    <2>1. r.cmd \in DOMAIN cmds
      BY <1>1, <1>3 DEF Known
    <2>2. ids'[r.cmd] # 0
      <3>1. CASE HasId(r)
        BY <3>1 DEF HasId
      <3>2. CASE ~HasId(r)
        <4>1. ids'[r.cmd] = NextId /\ NextId # 0
          BY <1>1, <1>3, <2>1, <3>2 DEF NextId
        <4> QED
          BY <4>1
      <3> QED
        BY <3>1, <3>2
    <2> QED
      BY <1>3, <2>2 DEF Names, Link
  <1> QED
    BY <1>2, <1>3

LEMMA RefStands ==
    ASSUME NoLateReplace, NoWrap, TInv, TInv', SInv, Placing, EvaluateRef
    PROVE  SInv'
  <1>1. /\ stage = "evaluate" /\ next \in 1 .. Len(cmds)
        /\ UNCHANGED <<stage, cmds>> /\ next' = next + 1 /\ meant' = Meant(next)
        /\ cmds[next].op \in {"ADD", "INSERT", "REPLACE"} /\ Refers(cmds[next])
    BY EvaluateRefParts
  <1>2. PICK at \in Lookup(cache, cmds[next]) :
          /\ at \in 1 .. Len(cache)
          /\ cmds[next].how = "handle" => cache[at].handle = cmds[next].n
          /\ cache[at] \in Known(Len(cmds)) /\ cache[at].cmd < next
          /\ cache' = Put(cache, cmds[next].op, at, NewRule(next))
          /\ IF cmds[next].how = "index" /\ cache[at].handle = 0 /\ ~HasId(cache[at])
             THEN /\ ids' = [ids EXCEPT ![cache[at].cmd] = NextId]
                  /\ ref_id' = NextId
             ELSE UNCHANGED <<ids, ref_id>>
          /\ Evaluate(IF cmds[next].how = "index" THEN Link(cache[at])
                                                  ELSE ByItsHandle(cmds[next]))
    BY EvaluateRefParts
  <1>3. /\ Len(cmds) \in Nat /\ DOMAIN cmds = 1 .. Len(cmds) /\ IdsOK
        /\ cmds[next].op = "REPLACE" => cmds[next].how = "handle"
    BY <1>1, CommandsAre DEF TInv
  <1>4. /\ cache \in Seq(Known(Len(cmds))) /\ Distinct(cache) /\ cache # Refused
        /\ DOMAIN cache = 1 .. Len(cache) /\ Len(cache) \in Nat
    BY <1>1, ChainNow
  <1>5. /\ at \in MeantPlaces(cache, cmds[next])
        /\ \A k \in MeantPlaces(cache, cmds[next]) : k = at
    BY <1>1, <1>2, <1>4, LookupMeans
  <1>6. CacheFits'
    <2>1. at \in 0 .. Len(cache) /\ at # 0
      BY <1>2, <1>4
    <2> QED
      BY <1>1, <1>2, <1>3, <1>5, <2>1, CacheStays
  <1>7. cache[at].handle = 0 => cache[at].cmd \in DOMAIN cmds
    BY <1>2, <1>3 DEF Known
  <1>8. \A j \in DOMAIN cmds, p \in 1 .. ref_id : ids'[j] = p <=> ids[j] = p
    <2>1. CASE cmds[next].how = "index" /\ cache[at].handle = 0 /\ ~HasId(cache[at])
      BY <1>1, <1>2, <1>3, <1>7, <2>1, NewIds DEF HasId
    <2>2. CASE UNCHANGED <<ids, ref_id>>
      BY <2>2
    <2> QED
      BY <1>2, <2>1, <2>2
  <1>11. PICK i : i = next
    OBVIOUS
  <1>9. ASSUME cmds[next].how = "index" PROVE Named(i)'
    <2>1. /\ at = cmds[next].n + 1 /\ cmds[next].n \in Nat
      BY <1>1, <1>2, <1>9, IndexNumber DEF Lookup
    <2>2. meant'[i] = cache /\ AllFit(cmds, cache, next)
      <3>1. next \in 1 .. next
        BY <1>1, <1>3
      <3> QED
        BY <1>1, <1>11, <3>1, MeantGrows DEF SInv, CacheFits
    <2>3. Was(i)' = cache[at]
      BY <1>1, <1>11, <2>1, <2>2 DEF Was
    <2>4. Evaluate(Link(cache[at]))
      BY <1>2, <1>9
    <2>5. msgs'[i] = Link(cache[at])
      BY <1>1, <1>3, <1>11, <2>4, AppendProperties DEF TInv, MsgsOK, Evaluate
    <2>6. Names(Link(cache[at]), cache[at], ids')
      BY <1>1, <1>2, <1>9, LinkNames
    <2>7. Fits(cmds, cache[at], next)
      BY <1>2, <1>4, <2>2 DEF AllFit
    <2>8. cmds[next].n < Len(cache)
      BY <1>2, <1>4, <2>1
    <2>9. Named(i)' <=> /\ meant'[i] # Refused /\ cmds'[i].n < Len(meant'[i])
                           /\ Was(i)' \in Known(Len(cmds')) /\ Fits(cmds', Was(i)', i)
                           /\ Names(msgs'[i], Was(i)', ids')
      BY DEF Named, Known, Fits, Names, Refused, Rule
    <2> QED
      BY <1>1, <1>2, <1>4, <1>11, <2>2, <2>3, <2>5, <2>6, <2>7, <2>8, <2>9
  <1> DEFINE m == IF cmds[next].how = "index" THEN Link(cache[at]) ELSE ByItsHandle(cmds[next])
  <1>10. Evaluate(m)
    BY <1>2
  <1> HIDE DEF m
  <1> QED
    BY <1>1, <1>6, <1>8, <1>9, <1>10, <1>11, EvaluateStands

(* Where the kernel finds a rule by such a message, it is the rule named.  *)
LEMMA NamedIsFound ==
    ASSUME NEW n \in Nat, NEW L \in Seq(Known(n)), NEW i \in Nat, AllFit(cmds, L, i), n = Len(cmds),
           DOMAIN cmds = 1 .. n, IdsOK, NEW r \in Known(n), Fits(cmds, r, i),
           NEW m, Names(m, r, ids), NEW j \in Said(L, m)
    PROVE  j \in 1 .. Len(L) /\ L[j] = r
  <1>1. /\ DOMAIN L = 1 .. Len(L) /\ r.handle \in Nat /\ r.cmd \in 0 .. n /\ (r.handle = 0 => r.cmd # 0)
        /\ \A k \in 1 .. Len(L) : L[k] \in Known(n) /\ Fits(cmds, L[k], i) /\ L[k].cmd \in 0 .. n
    BY ElementOfSeq, BoundsAssumption DEF AllFit, Known
  <1>2. CASE r.handle # 0
    <2>1. m = [position |-> r.handle, position_id |-> 0] /\ m # NoPlace
      BY <1>2 DEF Names, NoPlace
    <2>2. j \in DOMAIN L /\ L[j].handle = r.handle
      BY <2>1 DEF Said, Places
    <2> QED
      BY <1>1, <1>2, <2>2, SameRule
  <1>3. CASE r.handle = 0
    <2> DEFINE p == ids[r.cmd]
    <2>1. m = [position |-> 0, position_id |-> p] /\ p # 0 /\ m # NoPlace
      BY <1>3 DEF Names, NoPlace
    <2> HIDE DEF p
    <2>2. j \in DOMAIN L /\ L[j].cmd # 0 /\ ids[L[j].cmd] = p
      BY <2>1 DEF Said, Places
    <2>3. r.cmd \in DOMAIN ids /\ L[j].cmd \in DOMAIN ids
      BY <1>1, <1>3, <2>2 DEF IdsOK
    <2>4. L[j].cmd = r.cmd
      BY <2>1, <2>2, <2>3 DEF IdsOK, p
    <2> QED
      BY <1>1, <1>3, <2>2, <2>4, SameRule
  <1> QED
    BY <1>2, <1>3

(* The kernel puts each rule by the one it is to stand by, and none of the *)
(* later ones parts them.                                                  *)
LEMMA ApplyStands ==
    ASSUME NoLateReplace, TInv, SInv, Placing, Apply
    PROVE  ResultFits' /\ AllStand'
  <1>1. /\ stage = "commit" /\ sent < Len(cmds) /\ sent' = sent + 1
        /\ result' = Carry(result, sent + 1, Said(result, msgs[sent + 1]))
        /\ UNCHANGED <<kernel, top, stage, cmds, cache, next, msgs, ids, ref_id, meant, alone, ret>>
    BY DEF Apply
  <1> SUFFICES ASSUME result' # Refused
               PROVE  /\ AllFit(cmds, result', sent' + 1) /\ Distinct(result')
                      /\ \A k \in 1 .. sent' : cmds[k].how = "index" =>
                            Stands(result', cmds[k].op, k, Was(k))
    <2>1. result' # Refused => ResultFits'
      BY <1>1 DEF ResultFits, AllFit, Fits, Distinct
    <2>2. result' # Refused => AllStand'
      BY <1>1 DEF AllStand, Stands, Was
    <2>3. result' = Refused => ResultFits' /\ AllStand'
      BY <1>1 DEF ResultFits, AllStand, Succeeded, Refused, Rule
    <2> QED
      BY <2>1, <2>2, <2>3
  <1> DEFINE i == sent + 1
             at == Said(result, msgs[i])
             j == CHOOSE k \in at : TRUE
  <1>2. /\ Len(cmds) \in Nat /\ DOMAIN cmds = 1 .. Len(cmds) /\ sent \in Nat
        /\ i \in 1 .. Len(cmds) /\ i \in Nat /\ i \in 1 .. next - 1
        /\ cmds \in Batches \cup {<<>>} /\ IdsOK /\ cmds # <<>>
    BY <1>1, CommandsAre DEF TInv, MsgsOK
  <1>3. cmds[i].op \notin {"DELETE", "FLUSH"} /\ cmds[i] \in Command
    BY <1>2, CommandsAre DEF Placing
  <1>4. /\ result # Refused /\ at # {}
        /\ result' = Put(result, cmds[i].op, j, NewRule(i))
    BY <1>1, <1>3 DEF Carry
  <1>5. j \in at
    BY <1>4
  <1>6. result \in Seq(Known(Len(cmds))) /\ AllFit(cmds, result, i) /\ Distinct(result)
    BY <1>1, <1>4 DEF TInv, Chains, SInv, ResultFits
  <1>7. MsgOK(msgs[i], cmds[i], ref_id)
    BY <1>2 DEF TInv, MsgsOK
  <1>8. /\ j \in 0 .. Len(result)
        /\ cmds[i].op = "REPLACE" => j # 0 /\ result[j].handle = cmds[i].n
    <2> DEFINE n == Len(cmds)
               m == msgs[i]
    <2>1. n \in Nat /\ result \in Seq(Known(n)) /\ MsgOK(m, cmds[i], ref_id)
      BY <1>2, <1>6, <1>7
    <2>2. cmds \in Batches \cup {<<>>} /\ i \in 1 .. Len(cmds)
      BY <1>2
    <2> HIDE DEF n, m, i, j
    <2>3. PlacesFit(result, cmds[i], Said(result, m))
      BY ONLY <2>1, <2>2, SaidType
    <2>4. j \in Said(result, m)
      BY <1>5 DEF m
    <2> QED
      BY <2>3, <2>4 DEF PlacesFit
  <1>9. result' \in Seq(Known(Len(cmds))) /\ AllFit(cmds, result', i + 1) /\ Distinct(result')
    <2> DEFINE n == Len(cmds)
    <2>1. n \in Nat /\ n = Len(cmds) /\ i \in 1 .. n /\ result \in Seq(Known(n))
      BY <1>2, <1>6
    <2> HIDE DEF n, i, j, at
    <2>2. LET P == Put(result, cmds[i].op, j, NewRule(i))
          IN  P \in Seq(Known(n)) /\ AllFit(cmds, P, i + 1) /\ Distinct(P)
      BY <1>2, <1>6, <1>8, <2>1, PutFits
    <2> QED
      BY <1>4, <2>2 DEF n
  <1>10. NewRule(i).cmd = i /\ NewRule(i) \in Known(Len(cmds))
    <2>1. cmds[i].op = "REPLACE" => cmds[i].n \in 0 .. MaxHandle
      BY <1>6, <1>8, ElementOfSeq DEF Known
    <2> QED
      BY <1>2, <2>1, BoundsAssumption DEF NewRule, Rule, Known
  <1> HIDE DEF i, at, j
  <1>11. ASSUME NEW k \in 1 .. sent, cmds[k].how = "index"
         PROVE  Stands(result', cmds[k].op, k, Was(k))
    <2>1. Stands(result, cmds[k].op, k, Was(k))
      BY <1>1, <1>4, <1>11 DEF SInv, AllStand
    <2>2. cmds[i].op # "REPLACE"
      BY <1>2, <1>11 DEF NoLateReplace, i
    <2> DEFINE t == Slot(result, cmds[i].op, j)
               K == Known(Len(cmds))
               x == NewRule(i)
    <2>3. result' = InsertAt(result, t, x)
      BY <1>4, <2>2 DEF Put
    <2>4. t \in 1 .. Len(result) + 1
      BY <1>6, <1>8, SlotType
    <2>5. x.cmd > k /\ x \in K /\ result \in Seq(K) /\ k \in Nat
      BY <1>2, <1>6, <1>10, <1>11 DEF i
    <2> HIDE DEF t, K, x
    <2> QED
      BY <2>1, <2>3, <2>4, <2>5, InsertStands
  <1>12. ASSUME cmds[i].how = "index"
         PROVE  Stands(result', cmds[i].op, i, Was(i))
    <2>1. Named(i)
      BY <1>1, <1>2, <1>12 DEF SInv, AllNamed
    <2>2. j \in 1 .. Len(result) /\ result[j] = Was(i)
      <3>1. Was(i) \in Known(Len(cmds)) /\ Fits(cmds, Was(i), i) /\ Names(msgs[i], Was(i), ids)
        BY <2>1 DEF Named
      <3>2. j \in Said(result, msgs[i])
        BY <1>5 DEF at
      <3> DEFINE n == Len(cmds)
                 r == Was(i)
                 m == msgs[i]
      <3>3. /\ n \in Nat /\ result \in Seq(Known(n)) /\ i \in Nat /\ AllFit(cmds, result, i)
            /\ n = Len(cmds) /\ DOMAIN cmds = 1 .. n /\ IdsOK
            /\ r \in Known(n) /\ Fits(cmds, r, i) /\ Names(m, r, ids) /\ j \in Said(result, m)
        BY <1>2, <1>6, <3>1, <3>2
      <3> HIDE DEF n, r, m
      <3>4. j \in 1 .. Len(result) /\ result[j] = r
        BY ONLY <3>3, NamedIsFound
      <3> QED
        BY <3>4 DEF r
    <2>3. cmds[i].op \in {"ADD", "INSERT"}
      BY <1>2, <1>3, <1>12, CommandsAre DEF Command
    <2> QED
      BY <1>4, <1>6, <1>10, <2>2, <2>3, PutStands
  <1>13. ASSUME NEW k \in 1 .. sent', cmds[k].how = "index"
         PROVE  Stands(result', cmds[k].op, k, Was(k))
    <2>1. k \in 1 .. sent \/ k = i
      BY <1>1, <1>2 DEF i
    <2> QED
      BY <1>11, <1>12, <1>13, <2>1
  <1>14. sent' + 1 = i + 1
    BY <1>1 DEF i
  <1> QED
    BY <1>9, <1>13, <1>14

(* A batch begins with rules that others or earlier batches made.          *)
LEMMA OldFits ==
    ASSUME NEW n \in Nat, kernel \in Seq(1 .. MaxHandle)
    PROVE  \A b : AllFit(b, Old(kernel), 1)
  <1>1. /\ Old(kernel) \in Seq(Known(n)) /\ Len(Old(kernel)) = Len(kernel)
        /\ \A j \in 1 .. Len(kernel) : Old(kernel)[j] = Rule(kernel[j], 0)
    BY OldIsKnown
  <1>2. DOMAIN Old(kernel) = 1 .. Len(kernel)
    BY <1>1
  <1> HIDE DEF Old
  <1>3. ASSUME NEW b, NEW j \in 1 .. Len(kernel) PROVE Fits(b, Old(kernel)[j], 1)
    <2>1. Old(kernel)[j] = Rule(kernel[j], 0)
      BY <1>1
    <2>2. Old(kernel)[j].cmd = 0
      BY ONLY <2>1 DEF Rule
    <2> QED
      BY <2>2 DEF Fits
  <1> QED
    BY <1>2, <1>3 DEF AllFit

LEMMA SendStands ==
    ASSUME TInv, SInv, Send PROVE SInv'
  <1>1. /\ stage = "send" /\ stage' = "commit" /\ result' = Old(kernel)
        /\ UNCHANGED <<kernel, top, cmds, cache, next, msgs, ids, ref_id, meant, alone, sent, ret>>
    BY DEF Send
  <1>2. kernel \in Seq(1 .. MaxHandle) /\ sent = 0 /\ DOMAIN kernel = 1 .. Len(kernel)
    BY <1>1 DEF TInv, KernelOK
  <1>3. AllFit(cmds, Old(kernel), 1)
    BY <1>2, OldFits
  <1>4. Distinct(Old(kernel))
    <2>1. \A j, k \in DOMAIN kernel : kernel[j] = kernel[k] => j = k
      BY <1>1 DEF SInv, KernelOnce
    <2> QED
      BY <2>1 DEF Distinct, Old, Rule
  <1>5. ResultFits'
    BY <1>1, <1>2, <1>3, <1>4 DEF ResultFits, AllFit, Fits, Distinct
  <1>6. AllNamed'
    BY <1>1 DEF SInv, AllNamed, Placing, Named, Was, Fits, Names, Known, Refused, Rule, Succeeded
  <1>7. AllStand'
    BY <1>1, <1>2 DEF AllStand, Succeeded
  <1> QED
    BY <1>1, <1>5, <1>6, <1>7 DEF SInv, KernelOnce, CacheFits, AtEnd, Succeeded

LEMMA LoadStands ==
    ASSUME TInv, SInv, Load PROVE SInv'
  <1>1. /\ stage = "load" /\ stage' = "evaluate" /\ next = 1
        /\ cache' = IF NeedsUpdate(cmds) THEN Old(kernel) ELSE <<>>
        /\ meant' = <<Old(kernel)>>
        /\ UNCHANGED <<kernel, top, cmds, next, msgs, ids, ref_id, result, sent, ret>>
    BY DEF Load, TInv, MsgsOK
  <1>2. kernel \in Seq(1 .. MaxHandle)
    BY <1>1 DEF TInv, KernelOK
  <1>3. AllFit(cmds, Old(kernel), 1)
    BY <1>2, OldFits
  <1>4. CacheFits'
    <2> SUFFICES ASSUME Placing' PROVE cache' = meant'[next'] /\ AllFit(cmds', cache', next')
      BY DEF CacheFits, AllFit, Fits
    <2>1. cache' = Old(kernel)
      BY <1>1 DEF Placing, NeedsUpdate
    <2>2. meant'[1] = Old(kernel)
      BY <1>1
    <2> QED
      BY <1>1, <1>3, <2>1, <2>2
  <1>5. AllNamed'
    BY <1>1 DEF AllNamed
  <1> QED
    BY <1>1, <1>4, <1>5 DEF SInv, KernelOnce, ResultFits, AllStand, AtEnd, Succeeded

(* The end of a run, and steps that change nothing of this.                *)
LEMMA DoneStands ==
    ASSUME TInv, SInv, SendDone \/ SendFails PROVE SInv'
  <1>1. /\ stage = "commit" /\ stage' = "done" /\ sent = Len(cmds) /\ next = Len(cmds) + 1
        /\ UNCHANGED <<cmds, cache, next, msgs, ids, ref_id, meant, alone, result, sent>>
        /\ ret' = "done" => result # Refused
    BY DEF SendDone, SendFails, End, TInv, MsgsOK
  <1>2. AllNamed'
    BY <1>1 DEF SInv, AllNamed, Placing, Named, Was, Fits, Names, Known, Refused, Rule, Succeeded
  <1>3. AllStand'
    BY <1>1 DEF SInv, AllStand, Placing, Stands, Was, Succeeded
  <1> QED
    BY <1>1, <1>2, <1>3 DEF SInv, KernelOnce, CacheFits, ResultFits, AtEnd, Succeeded

LEMMA StillStands ==
    ASSUME TInv, SInv, EvaluateFails \/ EvaluateDone \/ UNCHANGED vars PROVE SInv'
  <1>1. CASE EvaluateFails
    <2>1. stage' = "done" /\ ret' = "rejected"
      BY <1>1 DEF EvaluateFails, End
    <2> QED
      BY <2>1 DEF SInv, KernelOnce, CacheFits, AllNamed, ResultFits, AllStand, AtEnd, Succeeded
  <1>2. CASE EvaluateDone
    <2>1. /\ stage = "evaluate" /\ stage' = "send"
          /\ UNCHANGED <<kernel, top, cmds, cache, next, msgs, ids, ref_id, meant, alone, result,
                         sent, ret>>
      BY <1>2 DEF EvaluateDone
    <2>2. AllNamed'
      BY <2>1 DEF SInv, AllNamed, Placing, Named, Was, Fits, Names, Known, Refused, Rule, Succeeded
    <2> QED
      BY <2>1, <2>2 DEF SInv, KernelOnce, CacheFits, ResultFits, AllStand, AtEnd, Succeeded
  <1>3. CASE UNCHANGED vars
    <2>1. AllNamed'
      BY <1>3 DEF vars, SInv, AllNamed, Placing, Named, Was, Fits, Names, Known, Refused, Rule, Succeeded
    <2>2. CacheFits' /\ ResultFits' /\ AllStand'
      BY <1>3 DEF vars, SInv, CacheFits, ResultFits, AllStand, Placing, AllFit, Fits, Distinct, Stands,
                  Was, Succeeded, Refused, Rule
    <2> QED
      BY <1>3, <2>1, <2>2 DEF vars, SInv, KernelOnce, AtEnd, Succeeded
  <1> QED
    BY <1>1, <1>2, <1>3

(* Steps of a batch that is not of this kind.                              *)
LEMMA OthersStand ==
    ASSUME TInv, SInv, ~Placing', Next, ~Commit, \A b \in Batches : ~Run(b), ~Done
    PROVE  SInv'
  <1>1. stage' # "done" => UNCHANGED <<kernel, top>> /\ stage # "done"
    BY DEF Next, Load, EvaluateOther, EvaluateEnd, EvaluateRef, EvaluateFails, EvaluateDone, Evaluate, Send,
           Apply, SendDone, SendFails, End
  <1>2. KernelOnce'
    BY <1>1 DEF SInv, KernelOnce
  <1>3. AtEnd'
    <2>1. SendDone => sent' = Len(cmds') /\ next' = Len(cmds') + 1
      BY DEF SendDone, TInv, MsgsOK
    <2>2. ~SendDone => ~Succeeded'
      BY DEF Next, Load, EvaluateOther, EvaluateEnd, EvaluateRef, EvaluateFails, EvaluateDone, Evaluate, Send,
             Apply, SendFails, End, Succeeded
    <2> QED
      BY <2>1, <2>2 DEF AtEnd
  <1> QED
    BY <1>2, <1>3 DEF SInv, CacheFits, AllNamed, ResultFits, AllStand

LEMMA NextStands ==
    ASSUME NoLateReplace, NoWrap, TInv, TInv', SInv, [Next]_vars
    PROVE  SInv'
  <1>1. CASE Commit
    <2>1. UNCHANGED <<stage, cmds, cache, next, msgs, ids, ref_id, meant, result, sent, ret>>
      BY <1>1 DEF Commit
    <2>2. AllNamed'
      BY <2>1 DEF SInv, AllNamed, Placing, Named, Was, Fits, Names, Known, Refused, Rule, Succeeded
    <2>3. CacheFits' /\ ResultFits' /\ AllStand' /\ AtEnd'
      BY <2>1 DEF SInv, CacheFits, ResultFits, AllStand, AtEnd, Placing, AllFit, Fits, Distinct, Stands,
                  Was, Succeeded, Refused, Rule
    <2> QED
      BY <1>1, <2>2, <2>3, CommitKeepsOnce DEF SInv
  <1>2. ASSUME NEW b \in Batches, Run(b) PROVE SInv'
    <2>1. stage = "idle" /\ stage' = "load" /\ UNCHANGED <<kernel, top>>
      BY <1>2 DEF Run
    <2> QED
      BY <2>1 DEF SInv, KernelOnce, CacheFits, AllNamed, ResultFits, AllStand, AtEnd, Succeeded
  <1>3. CASE Done \/ UNCHANGED vars
    BY <1>3, StillStands DEF Done
  <1>4. CASE Next /\ Placing' /\ ~Commit /\ ~Done /\ \A b \in Batches : ~Run(b)
    <2>1. Placing /\ UNCHANGED cmds
      <3>1. UNCHANGED cmds
        BY <1>4 DEF Next, Load, EvaluateOther, EvaluateEnd, EvaluateRef, EvaluateFails, EvaluateDone, Evaluate,
                    Send, Apply, SendDone, SendFails
      <3> QED
        BY <1>4, <3>1 DEF Placing, NeedsUpdate
    <2>2. ~EvaluateOther
      <3> SUFFICES ASSUME EvaluateOther PROVE FALSE
        OBVIOUS
      <3>1. next \in DOMAIN cmds
        BY CommandsAre DEF EvaluateOther, TInv, MsgsOK
      <3> QED
        BY <2>1, <3>1 DEF EvaluateOther, Placing
    <2>3. CASE Apply
      <3>1. /\ stage = "commit"
            /\ UNCHANGED <<kernel, top, stage, cmds, cache, next, msgs, ids, ref_id, meant, ret>>
        BY <2>3 DEF Apply
      <3>2. AllNamed'
        BY <3>1 DEF SInv, AllNamed, Placing, Named, Was, Fits, Names, Known, Refused, Rule, Succeeded
      <3> QED
        BY <2>1, <2>3, <3>1, <3>2, ApplyStands DEF SInv, KernelOnce, CacheFits, AtEnd, Succeeded
    <2> QED
      BY <1>4, <2>1, <2>2, <2>3, LoadStands, EndStands, RefStands, StillStands, SendStands, DoneStands DEF Next
  <1>5. CASE Next /\ ~Placing' /\ ~Commit /\ ~Done /\ \A b \in Batches : ~Run(b)
    BY <1>5, OthersStand
  <1> QED
    BY <1>1, <1>2, <1>3, <1>4, <1>5

LEMMA Standing == NoLateReplace /\ NoWrap /\ Spec => []SInv
  <1> SUFFICES ASSUME NoLateReplace, NoWrap
               PROVE  Spec => []SInv
    OBVIOUS
  <1>1. Init => SInv
    <2> SUFFICES ASSUME Init PROVE SInv
      OBVIOUS
    <2>1. PICK n \in 0 .. MaxRules : kernel = [j \in 1 .. n |-> j] /\ top = n
      BY DEF Init
    <2>2. KernelOnce
      BY <2>1, BoundsAssumption DEF KernelOnce
    <2> QED
      BY <2>2 DEF Init, SInv, CacheFits, AllNamed, ResultFits, AllStand, AtEnd, Succeeded
  <1>2. TInv /\ TInv' /\ SInv /\ [Next]_vars => SInv'
    BY NextStands
  <1> QED
    BY <1>1, <1>2, Typed, PTL DEF Spec

(* doc/nft.txt:457-462: when others change the chain after the indices     *)
(* were translated, each rule that is put by an index still stands by the  *)
(* rule that was meant, with nothing between them but rules of later       *)
(* commands, whatever is committed meanwhile and however long the batch.   *)
(* Nothing is asked of removals: StandsBy is about batches without any.    *)
THEOREM StandsByTheorem == NoLateReplace /\ NoWrap /\ Spec => []StandsBy
  <1> SUFFICES ASSUME NoLateReplace, NoWrap
               PROVE  Spec => []StandsBy
    OBVIOUS
  <1>1. TInv /\ SInv => StandsBy
    <2> SUFFICES ASSUME TInv, SInv, Succeeded, \A i \in DOMAIN cmds : cmds[i].op \notin {"DELETE", "FLUSH"},
                        NEW i \in DOMAIN cmds, cmds[i].how = "index"
                 PROVE  /\ meant[i] # Refused /\ cmds[i].n < Len(meant[i])
                        /\ Stands(result, cmds[i].op, i, Was(i))
      BY DEF StandsBy, Stands, Was
    <2>1. /\ DOMAIN cmds = 1 .. Len(cmds) /\ Len(cmds) \in Nat /\ cmds \in Batches
          /\ cmds[i].op \in {"ADD", "INSERT"}
      <3>1. /\ DOMAIN cmds = 1 .. Len(cmds) /\ Len(cmds) \in Nat /\ cmds \in Batches \cup {<<>>}
            /\ cmds \in Seq(Command)
        BY CommandsAre DEF TInv
      <3>2. cmds # <<>>
        OBVIOUS
      <3>3. cmds[i] \in Command /\ cmds[i].op # "REPLACE"
        BY <3>1, CommandsAre
      <3> QED
        BY <3>1, <3>2, <3>3 DEF Command
    <2>2. NeedsUpdate(cmds)
      BY <2>1 DEF NeedsUpdate, NoLateReplace
    <2>3. Placing
      BY <2>2 DEF Placing
    <2>4. i \in 1 .. sent /\ i \in 1 .. next - 1
      BY <2>1 DEF SInv, AtEnd
    <2>5. Named(i) /\ Stands(result, cmds[i].op, i, Was(i))
      BY <2>3, <2>4 DEF SInv, AllNamed, AllStand
    <2> QED
      BY <2>5 DEF Named
  <1> QED
    BY <1>1, Typed, Standing, PTL
=============================================================================
